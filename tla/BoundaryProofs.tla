--------------------------- MODULE BoundaryProofs ---------------------------
(***************************************************************************)
(* Proofs about what crosses the boundary of mediaio-ffmpeg and what       *)
(* converts on the way.  The resampler, for any two rates, any limits and  *)
(* any way swr spreads its samples over the calls.  The scaled output,     *)
(* whose word and pictures agree for every stream, request and thread.     *)
(* The payload carriers, for any number of buffers and holders and packets *)
(* of any shape: every buffer is counted by those who hold it, and nobody  *)
(* writes or reads past what it was given.                                 *)
(***************************************************************************)
EXTENDS Resampler, ScaledOutput, PayloadCarriers, SequenceTheorems,
        FiniteSetTheorems, NaturalsInduction, WellFoundedInduction, TLAPS

-----------------------------------------------------------------------------
(* The resampler: division, rounded up *)

LEMMA DivUpInt ==
  ASSUME NEW a \in Int, NEW b \in Nat \ {0}
  PROVE  DivUp(a, b) \in Int /\ a <= b * DivUp(a, b) /\ b * DivUp(a, b) < a + b
BY DEF DivUp

\* Taking out n whole units lowers the quotient by n.
LEMMA DivUpLess ==
  ASSUME NEW a \in Int, NEW b \in Nat \ {0}, NEW n \in Int
  PROVE  DivUp(a - n * b, b) = DivUp(a, b) - n
BY DEF DivUp

LEMMA DivUpMonotone ==
  ASSUME NEW a \in Int, NEW c \in Int, NEW b \in Nat \ {0}, a <= c
  PROVE  DivUp(a, b) <= DivUp(c, b)
BY DEF DivUp

LEMMA DivUpNat ==
  ASSUME NEW a \in Nat, NEW b \in Nat \ {0}
  PROVE  DivUp(a, b) \in Nat
BY DEF DivUp

\* What swr holds, in units of both rates.
Held == taken * TargetRate - given * SourceRate

LEMMA HeldInt ==
  ASSUME TypeOK
  PROVE  /\ Held \in Int /\ DelayIn \in Int /\ DelayOut \in Int
         /\ \A more \in Nat : Available(more) \in Int
<1> USE ResamplerAssumption
<1>1. Held \in Int BY DEF Held, TypeOK
<1>2. DelayIn \in Int BY <1>1, DivUpInt DEF DelayIn, Held
<1>3. ASSUME NEW more \in Nat PROVE Available(more) \in Int
  <2>1. (taken + more) * TargetRate - given * SourceRate \in Int BY DEF TypeOK
  <2> QED BY <2>1, DivUpInt DEF Available
<1> QED BY <1>1, <1>2, <1>3 DEF DelayOut

\* The capacity of a conversion is never below what swr can have after it: the
\* delay line is rounded up on its way to the input's rate and back.
LEMMA CapacityCovers ==
  ASSUME TypeOK, NEW samples \in Nat
  PROVE  Capacity(samples) \in Int /\ Available(samples) + 1 <= Capacity(samples)
<1> USE ResamplerAssumption
<1>1. taken \in Nat /\ given \in Nat BY DEF TypeOK
<1>2. DelayIn \in Int /\ Held <= TargetRate * DelayIn
  BY <1>1, DivUpInt, HeldInt DEF DelayIn, Held
<1> DEFINE wide == (DelayIn + samples) * TargetRate
           tight == (taken + samples) * TargetRate - given * SourceRate
<1>3. wide \in Int /\ tight \in Int BY <1>1, <1>2
<1>4. tight <= wide
  <2>1. tight = Held + samples * TargetRate BY <1>1 DEF Held
  <2>2. wide = TargetRate * DelayIn + samples * TargetRate BY <1>2
  <2> QED BY <2>1, <2>2, <1>1, <1>2, HeldInt
<1>5. DivUp(tight, SourceRate) <= DivUp(wide, SourceRate) BY <1>3, <1>4, DivUpMonotone
<1>6. DivUp(tight, SourceRate) \in Int /\ DivUp(wide, SourceRate) \in Int BY <1>3, DivUpInt
<1> QED BY <1>5, <1>6 DEF Capacity, Available

-----------------------------------------------------------------------------
(* Types, and the room the tail needs *)

\* What TailIsPayable needs between the calls: what swr holds fits in one frame
\* and, counted from the timestamp the next frame will have, in the timeline.
TailRoom ==
  DelayOut > 0 =>
    /\ StartOf(NoStamp) + DelayOut <= MaxTick
    /\ DelayOut <= MaxSamples /\ DelayOut <= MaxCount

StampOK(stamp) == stamp \in 0 .. MaxTick \cup {NoStamp}

LEMMA StartType ==
  ASSUME TypeOK, NEW stamp, StampOK(stamp)
  PROVE  StartOf(stamp) \in 0 .. MaxTick
BY ResamplerAssumption DEF StartOf, TypeOK, StampOK, NoStamp

LEMMA LeastIs ==
  ASSUME NEW a \in Int, NEW b \in Int
  PROVE  Least(a, b) \in Int /\ Least(a, b) <= a /\ Least(a, b) <= b
BY DEF Least

\* What a frame taken by send_frame is known to satisfy.
LEMMA SendableFacts ==
  ASSUME TypeOK, NEW stamp \in Stamps, NEW samples \in Counts, Sendable(stamp, samples)
  PROVE  /\ StampOK(stamp) /\ samples \in Nat
         /\ StartOf(stamp) \in 0 .. MaxTick
         /\ Capacity(samples) \in Int /\ Available(samples) \in Int
         /\ Available(samples) + 1 <= Capacity(samples)
         /\ StartOf(stamp) + Capacity(samples) <= MaxTick
         /\ Capacity(samples) <= MaxCount /\ Capacity(samples) <= MaxSamples
<1>1. StampOK(stamp) /\ samples \in Nat
  BY ResamplerAssumption DEF Sendable, StampOK
<1>2. StartOf(stamp) \in 0 .. MaxTick BY <1>1, StartType
<1>3. Capacity(samples) \in Int /\ Available(samples) + 1 <= Capacity(samples)
  BY <1>1, CapacityCovers
<1>4. Available(samples) \in Int BY <1>1, HeldInt
<1> QED BY <1>1, <1>2, <1>3, <1>4 DEF Sendable, FitsTimeline, FitsFrame

LEMMA TailFacts ==
  ASSUME TypeOK, TailFits, DelayOut > 0
  PROVE  /\ TailStart \in 0 .. MaxTick
         /\ TailCapacity \in Int /\ TailCapacity <= DelayOut
         /\ TailStart + TailCapacity <= MaxTick
<1>1. TailStart \in 0 .. MaxTick BY StartType DEF StampOK, TailStart
<1>2. TailCapacity \in Int /\ TailCapacity <= DelayOut
  <2>1. DelayOut \in Int BY HeldInt
  <2>2. MaxCount \in Int BY ResamplerAssumption
  <2> QED BY <2>1, <2>2, LeastIs DEF TailCapacity
<1> QED BY <1>1, <1>2 DEF TailFits, FitsTimeline, TailStart

LEMMA ProduceType ==
  ASSUME NEW pts \in 0 .. MaxTick, NEW n \in Nat, NEW queue \in Seq(Frame)
  PROVE  Produce(pts, n, queue) \in Seq(Frame)
<1>1. CASE n = 0 BY <1>1 DEF Produce
<1>2. CASE n # 0
  <2>1. [pts |-> pts, samples |-> n] \in Frame BY <1>2 DEF Frame
  <2> QED BY <1>2, <2>1 DEF Produce
<1> QED BY <1>1, <1>2

Accepted == [stamp : Stamps, given : Nat]

LEMMA TypeInit == Init => TypeOK
<1>1. 0 \in 0 .. MaxFaults BY ResamplerAssumption
<1>2. /\ <<>> \in Seq(Frame) /\ <<>> \in Seq(Accepted) BY EmptySeq
<1> SUFFICES ASSUME Init PROVE TypeOK OBVIOUS
<1>3. ready \in Seq(Frame) /\ delivered \in Seq(Frame) /\ accepted \in Seq(Accepted)
  BY <1>2 DEF Init
<1>4. /\ taken \in Nat /\ given \in Nat /\ eof \in BOOLEAN /\ drained \in BOOLEAN
      /\ nextPts = NoStamp /\ answer = "none" /\ faults \in 0 .. MaxFaults
  BY <1>1 DEF Init
<1> QED BY <1>3, <1>4 DEF TypeOK, Accepted

LEMMA TypeStep == TypeOK /\ [Next]_vars => TypeOK'
<1> SUFFICES ASSUME TypeOK, [Next]_vars PROVE TypeOK' OBVIOUS
<1> USE ResamplerAssumption
<1>1. CASE SendAfterEof BY <1>1 DEF SendAfterEof, session, swrVars, history, TypeOK
<1>2. CASE SendSourceChanged
  BY <1>2 DEF SendSourceChanged, Refuses, session, swrVars, history, TypeOK
<1>3. CASE SendEmpty BY <1>3 DEF SendEmpty, session, swrVars, history, TypeOK
<1>4. ASSUME NEW samples \in Counts, SendMalformed(samples) PROVE TypeOK'
  BY <1>4 DEF SendMalformed, Refuses, session, swrVars, history, TypeOK
<1>5. ASSUME NEW stamp \in Stamps, NEW samples \in Counts, SendRefused(stamp, samples)
      PROVE  TypeOK'
  BY <1>5 DEF SendRefused, Refuses, session, swrVars, history, TypeOK
<1>6. ASSUME NEW stamp \in Stamps, NEW samples \in Counts, SendFails(stamp, samples)
      PROVE  TypeOK'
  BY <1>6 DEF SendFails, Refuses, session, swrVars, history, TypeOK
<1>7. ASSUME NEW stamp \in Stamps, NEW samples \in Counts, SendConverts(stamp, samples)
      PROVE  TypeOK'
  <2>1. Sendable(stamp, samples) BY <1>7 DEF SendConverts
  <2>2. PICK n \in 0 .. Least(Available(samples), Capacity(samples)) :
          /\ given' = given + n
          /\ nextPts' = IF n = 0 /\ nextPts = NoStamp THEN stamp ELSE StartOf(stamp) + n
          /\ ready' = Produce(StartOf(stamp), n, ready)
    BY <1>7 DEF SendConverts
  <2>3. n \in Nat /\ n <= Capacity(samples)
    <3>1. /\ Available(samples) \in Int /\ Capacity(samples) \in Int
      BY <2>1, SendableFacts
    <3>2. /\ Least(Available(samples), Capacity(samples)) \in Int
          /\ Least(Available(samples), Capacity(samples)) <= Capacity(samples)
      BY <3>1, LeastIs
    <3> QED BY <2>2, <3>1, <3>2
  <2>4. ready' \in Seq(Frame) BY <2>1, <2>2, <2>3, SendableFacts, ProduceType DEF TypeOK
  <2>5. nextPts' \in 0 .. MaxTick \cup {NoStamp}
    BY <2>1, <2>2, <2>3, SendableFacts DEF StampOK, NoStamp
  <2>6. accepted' \in Seq(Accepted)
    <3>1. [stamp |-> stamp, given |-> given] \in Accepted BY DEF TypeOK, Accepted
    <3>2. accepted \in Seq(Accepted) BY DEF TypeOK, Accepted
    <3> QED BY <1>7, <3>1, <3>2 DEF SendConverts
  <2>7. given' \in Nat /\ taken' \in Nat
    BY <1>7, <2>1, <2>2, <2>3, SendableFacts DEF SendConverts, TypeOK
  <2> QED BY <1>7, <2>4, <2>5, <2>6, <2>7 DEF SendConverts, TypeOK, Accepted
<1>8. CASE ReceiveReady
  <2>1. Head(ready) \in Frame /\ Tail(ready) \in Seq(Frame)
    BY <1>8 DEF ReceiveReady, TypeOK
  <2> QED BY <1>8, <2>1 DEF ReceiveReady, swrVars, TypeOK
<1>9. CASE ReceiveNothing BY <1>9 DEF ReceiveNothing, session, swrVars, history, TypeOK
<1>10. CASE ReceiveDry BY <1>10 DEF ReceiveDry, TailEnds, swrVars, history, TypeOK
<1>11. CASE TailFails BY <1>11 DEF TailFails, Refuses, session, swrVars, history, TypeOK
<1>12. CASE TailConverts
  <2>1. PICK n \in 1 .. TailCapacity :
          /\ given' = given + n
          /\ nextPts' = TailStart + n
          /\ delivered' = Produce(TailStart, n, delivered)
    BY <1>12 DEF TailConverts
  <2>2. n \in Nat /\ n <= TailCapacity BY <1>12, <2>1, TailFacts DEF TailConverts
  <2>3. nextPts' \in 0 .. MaxTick
    BY <1>12, <2>1, <2>2, TailFacts DEF TailConverts
  <2>4. delivered' \in Seq(Frame)
    BY <1>12, <2>1, <2>2, TailFacts, ProduceType DEF TailConverts, TypeOK
  <2> QED BY <1>12, <2>1, <2>2, <2>3, <2>4 DEF TailConverts, TypeOK
<1>13. CASE TailResidue BY <1>13 DEF TailResidue, TailEnds, swrVars, history, TypeOK
<1>14. CASE SendEof BY <1>14 DEF SendEof, swrVars, history, TypeOK
<1>15. CASE FlushResets 
  <2>1. /\ <<>> \in Seq(Frame) /\ <<>> \in Seq(Accepted) BY EmptySeq
  <2> QED BY <1>15, <2>1 DEF FlushResets, TypeOK, Accepted
<1>16. CASE FlushFails BY <1>16 DEF FlushFails, Refuses, session, swrVars, history, TypeOK
<1>17. CASE UNCHANGED vars BY <1>17 DEF vars, session, swrVars, history, TypeOK
<1> QED
  BY <1>1, <1>2, <1>3, <1>4, <1>5, <1>6, <1>7, <1>8, <1>9, <1>10, <1>11, <1>12, <1>13,
     <1>14, <1>15, <1>16, <1>17 DEF Next, SendFrame, ReceiveFrame

\* Every variable of the resampler keeps its type: in particular no timestamp
\* it gives leaves the range of i64 (check_timeline).
THEOREM ResamplerTypeCorrect == Spec => []TypeOK
BY TypeInit, TypeStep, PTL DEF Spec

-----------------------------------------------------------------------------
(* The tail can be paid for *)

LEMMA DelayOfHeld == DelayOut = DivUp((taken + 0) * TargetRate - given * SourceRate, SourceRate)
BY DEF DelayOut, Available

\* n samples given are n fewer to come.
LEMMA DelayAfter ==
  ASSUME TypeOK, NEW more \in Nat, NEW n \in Nat,
         taken' = taken + more, given' = given + n
  PROVE  DelayOut' = Available(more) - n
<1> USE ResamplerAssumption
<1> DEFINE held == (taken + more) * TargetRate - given * SourceRate
<1>1. taken \in Nat /\ given \in Nat BY DEF TypeOK
<1>2. held \in Int BY <1>1
<1>3. (taken' + 0) * TargetRate - given' * SourceRate = held - n * SourceRate BY <1>1
<1>4. DelayOut' = DivUp(held - n * SourceRate, SourceRate)
  BY <1>3 DEF DelayOut, Available, DivUp
<1> HIDE DEF held
<1>5. DivUp(held - n * SourceRate, SourceRate) = DivUp(held, SourceRate) - n
  BY <1>2, DivUpLess
<1> QED BY <1>4, <1>5 DEF Available, held

LEMMA RoomInit == Init => TailRoom
<1> SUFFICES ASSUME Init PROVE DelayOut = 0 BY DEF TailRoom
<1>1. (0 + 0) * TargetRate - 0 * SourceRate = 0 BY ResamplerAssumption
<1>2. DivUp(0, SourceRate) = 0 BY ResamplerAssumption DEF DivUp
<1> QED BY <1>1, <1>2 DEF Init, DelayOut, Available

LEMMA RoomUnchanged ==
  ASSUME TailRoom, UNCHANGED <<taken, given, nextPts>>
  PROVE  TailRoom'
BY DEF TailRoom, DelayOut, Available, StartOf

LEMMA RoomStep == TypeOK /\ TailRoom /\ [Next]_vars => TailRoom'
<1> SUFFICES ASSUME TypeOK, TailRoom, [Next]_vars PROVE TailRoom' OBVIOUS
<1> USE ResamplerAssumption
<1>1. ASSUME NEW stamp \in Stamps, NEW samples \in Counts, SendConverts(stamp, samples)
      PROVE  TailRoom'
  <2>1. Sendable(stamp, samples) BY <1>1 DEF SendConverts
  <2>2. PICK n \in 0 .. Least(Available(samples), Capacity(samples)) :
          /\ given' = given + n
          /\ nextPts' = IF n = 0 /\ nextPts = NoStamp THEN stamp ELSE StartOf(stamp) + n
    BY <1>1 DEF SendConverts
  <2>3. n \in Nat BY <2>1, <2>2, SendableFacts, LeastIs
  <2>4. taken' = taken + samples BY <1>1 DEF SendConverts
  <2>5. samples \in Nat BY <2>1, SendableFacts
  <2>6. DelayOut' = Available(samples) - n BY <2>2, <2>3, <2>4, <2>5, DelayAfter
  <2>7. StartOf(NoStamp)' = StartOf(stamp) + n
    <3>1. StartOf(stamp) \in Nat /\ StampOK(stamp) BY <2>1, SendableFacts
    <3>2. CASE n = 0 /\ nextPts = NoStamp
      BY <2>2, <3>1, <3>2 DEF StartOf, StampOK, NoStamp
    <3>3. CASE ~(n = 0 /\ nextPts = NoStamp)
      <4>1. nextPts' = StartOf(stamp) + n BY <2>2, <3>3
      <4>2. nextPts' # NoStamp BY <4>1, <3>1, <2>3 DEF NoStamp
      <4> QED BY <4>1, <4>2 DEF StartOf
    <3> QED BY <3>2, <3>3
  <2> QED BY <2>1, <2>3, <2>6, <2>7, SendableFacts DEF TailRoom
<1>2. CASE TailConverts
  <2>1. PICK n \in 1 .. TailCapacity : given' = given + n /\ nextPts' = TailStart + n
    BY <1>2 DEF TailConverts
  <2>2. /\ TailStart \in 0 .. MaxTick /\ TailCapacity \in Int /\ TailCapacity <= DelayOut
    BY <1>2, TailFacts DEF TailConverts
  <2>3. n \in Nat BY <2>1, <2>2
  <2>4. taken' = taken + 0 BY <1>2 DEF TailConverts, TypeOK
  <2>5. DelayOut' = DelayOut - n BY <2>1, <2>3, <2>4, DelayAfter DEF DelayOut
  <2>6. StartOf(NoStamp)' = StartOf(NoStamp) + n
    BY <2>1, <2>2, <2>3 DEF StartOf, TailStart, NoStamp
  <2>7. DelayOut \in Int /\ DelayOut > 0 BY <1>2, HeldInt DEF TailConverts
  <2>8. StartOf(NoStamp) \in Int BY <2>2 DEF TailStart
  <2> QED BY <2>3, <2>5, <2>6, <2>7, <2>8 DEF TailRoom
<1>3. CASE FlushResets
  <2>1. taken' = 0 /\ given' = 0 BY <1>3 DEF FlushResets
  <2>2. (0 + 0) * TargetRate - 0 * SourceRate = 0 OBVIOUS
  <2>3. DivUp(0, SourceRate) = 0 BY DEF DivUp
  <2>4. DelayOut' = 0 BY <2>1, <2>2, <2>3 DEF DelayOut, Available, DivUp
  <2> QED BY <2>4 DEF TailRoom
<1>4. CASE UNCHANGED <<taken, given, nextPts>> BY <1>4, RoomUnchanged
<1> QED
  BY <1>1, <1>2, <1>3, <1>4
  DEF Next, SendFrame, ReceiveFrame, SendAfterEof, SendSourceChanged, SendEmpty,
      SendMalformed, SendRefused, SendFails, ReceiveReady, ReceiveNothing, ReceiveDry,
      TailFails, TailResidue, TailEnds, SendEof, FlushFails, Refuses, session, swrVars, vars

LEMMA RoomPays == TypeOK /\ TailRoom => TailIsPayable
<1> SUFFICES ASSUME TypeOK, TailRoom, DelayOut > 0 PROVE TailFits BY DEF TailIsPayable
<1>1. DelayOut \in Int /\ MaxCount \in Int BY HeldInt, ResamplerAssumption
<1>2. TailCapacity \in Int /\ TailCapacity <= DelayOut BY <1>1, LeastIs DEF TailCapacity
<1>3. StartOf(NoStamp) \in Int BY StartType DEF StampOK
<1> QED
  BY <1>1, <1>2, <1>3, ResamplerAssumption DEF TailRoom, TailFits, FitsTimeline, FitsFrame

\* For every pair of rates: what swr still holds after any frame was accepted
\* fits a frame and the timeline, so receive_frame never refuses the tail.
THEOREM TailAlwaysPayable == Spec => []TailIsPayable
<1>1. TypeOK /\ TailRoom /\ [Next]_vars => TypeOK' /\ TailRoom' BY TypeStep, RoomStep
<1> QED BY TypeInit, RoomInit, <1>1, RoomPays, PTL DEF Spec

-----------------------------------------------------------------------------
(* The timeline *)

Chained(fs) == \A i \in 1 .. Len(fs) - 1 : fs[i + 1].pts = EndOf(fs[i])

NothingAnchors == \A i \in DOMAIN accepted : ~Anchors(i)

\* An input timestamp fixed the start.
AnchoredAt(pts) ==
  \E i \in DOMAIN accepted :
    Anchors(i) /\ pts = accepted[i].stamp /\ \A j \in 1 .. i - 1 : ~Anchors(j)

\* What the calls keep. Before anything has come out, next_pts is the anchor;
\* from then on it is the end of the last frame.
Counted ==
  /\ Frames = <<>> => given = 0 /\ IF nextPts = NoStamp THEN NothingAnchors ELSE AnchoredAt(nextPts)
  /\ Frames # <<>> =>
       /\ given > 0 /\ nextPts # NoStamp
       /\ StartsAt(Frames[1].pts) /\ Chained(Frames)
       /\ EndOf(Frames[Len(Frames)]) = nextPts
       /\ given = nextPts - Frames[1].pts

LEMMA CountedIsTimeline == Counted /\ TailIsPayable => Timeline
BY DEF Counted, Timeline, Unbroken, NothingLost, Chained

\* The frames a caller has and will have: taking one changes nothing.
LEMMA FramesTaken ==
  ASSUME NEW d \in Seq(Frame), NEW r \in Seq(Frame), r # <<>>
  PROVE  Append(d, Head(r)) \o Tail(r) = d \o r
<1>1. Head(r) \in Frame /\ Tail(r) \in Seq(Frame) /\ r = <<Head(r)>> \o Tail(r)
  BY HeadTailProperties
<1>2. Append(d, Head(r)) = d \o <<Head(r)>> BY <1>1, AppendIsConcat
<1>3. <<Head(r)>> \in Seq(Frame) BY <1>1
<1> QED BY <1>1, <1>2, <1>3, ConcatAssociative

LEMMA FramesPushed ==
  ASSUME NEW d \in Seq(Frame), NEW r \in Seq(Frame), NEW f \in Frame
  PROVE  d \o Append(r, f) = Append(d \o r, f)
<1>1. Append(r, f) = r \o <<f>> /\ Append(d \o r, f) = (d \o r) \o <<f>>
  BY AppendIsConcat, ConcatProperties
<1>2. <<f>> \in Seq(Frame) OBVIOUS
<1> QED BY <1>1, <1>2, ConcatAssociative

\* A frame that starts where the last one ends continues the chain.
LEMMA ChainGrows ==
  ASSUME NEW fs \in Seq(Frame), NEW f \in Frame, Chained(fs),
         fs # <<>> => f.pts = EndOf(fs[Len(fs)])
  PROVE  LET more == Append(fs, f) IN
         /\ more \in Seq(Frame) /\ more # <<>> /\ Chained(more)
         /\ more[Len(more)] = f
         /\ more[1] = IF fs = <<>> THEN f ELSE fs[1]
<1> DEFINE more == Append(fs, f)
<1>1. /\ more \in Seq(Frame) /\ Len(more) = Len(fs) + 1 /\ Len(fs) \in Nat
      /\ \A i \in 1 .. Len(fs) : more[i] = fs[i]
      /\ more[Len(fs) + 1] = f
  BY AppendProperties, LenProperties
<1>2. fs = <<>> <=> Len(fs) = 0 BY EmptySeq
<1> HIDE DEF more
<1>3. ASSUME NEW i \in 1 .. Len(more) - 1 PROVE more[i + 1].pts = EndOf(more[i])
  <2>1. CASE i < Len(fs)
    <3>1. i + 1 \in 1 .. Len(fs) /\ i \in 1 .. Len(fs) - 1 BY <1>1, <2>1
    <3> QED BY <1>1, <3>1 DEF Chained
  <2>2. CASE i = Len(fs) BY <1>1, <1>2, <2>2
  <2> QED BY <1>1, <2>1, <2>2
<1>4. more[1] = IF fs = <<>> THEN f ELSE fs[1] BY <1>1, <1>2
<1>5. more # <<>> BY <1>1, EmptySeq
<1> QED BY <1>1, <1>3, <1>4, <1>5 DEF Chained, more

\* Accepting a frame settles the start of the stream once: the anchor found
\* first is the anchor kept.
LEMMA StartSettled ==
  ASSUME TypeOK, Counted, NEW stamp, StampOK(stamp),
         accepted' = Append(accepted, [stamp |-> stamp, given |-> given])
  PROVE  /\ \A pts : StartsAt(pts) /\ given > 0 => StartsAt(pts)'
         /\ Frames = <<>> /\ nextPts = NoStamp /\ stamp = NoStamp => NothingAnchors'
         /\ \A pts :
              Frames = <<>> /\ pts # NoStamp /\ pts = (IF nextPts = NoStamp THEN stamp ELSE nextPts)
              => AnchoredAt(pts)'
<1>1. PICK k \in Nat \ {0} : k = Len(accepted) + 1 BY LenProperties DEF TypeOK
<1>2. /\ DOMAIN accepted = 1 .. k - 1 /\ DOMAIN accepted' = 1 .. k
      /\ \A i \in 1 .. k - 1 : accepted'[i] = accepted[i]
      /\ accepted'[k] = [stamp |-> stamp, given |-> given]
  BY <1>1, AppendProperties, LenProperties DEF TypeOK
<1>3. \A i \in 1 .. k - 1 : Anchors(i)' <=> Anchors(i) BY <1>2 DEF Anchors
<1>4. Anchors(k)' <=> given = 0 /\ stamp # NoStamp BY <1>2 DEF Anchors
<1>5. ASSUME NEW pts, AnchoredAt(pts) PROVE AnchoredAt(pts)'
  BY <1>2, <1>3, <1>5 DEF AnchoredAt
<1>6. ASSUME NothingAnchors, ~Anchors(k)' PROVE NothingAnchors'
  BY <1>2, <1>3, <1>6 DEF NothingAnchors
<1>7. ASSUME NothingAnchors, Anchors(k)' PROVE AnchoredAt(stamp)'
  BY <1>2, <1>3, <1>7 DEF NothingAnchors, AnchoredAt
<1>8. ASSUME NEW pts, StartsAt(pts), given > 0 PROVE StartsAt(pts)'
  <2>1. ~Anchors(k)' BY <1>4, <1>8 DEF TypeOK
  <2>2. CASE pts = 0 /\ NothingAnchors
    BY <1>6, <2>1, <2>2 DEF StartsAt, NothingAnchors
  <2>3. CASE AnchoredAt(pts) BY <1>5, <2>3 DEF StartsAt, AnchoredAt
  <2> QED BY <1>8, <2>2, <2>3 DEF StartsAt, NothingAnchors, AnchoredAt
<1>9. ASSUME Frames = <<>>, nextPts = NoStamp, stamp = NoStamp PROVE NothingAnchors'
  BY <1>4, <1>6, <1>9 DEF Counted
<1>10. ASSUME NEW pts, Frames = <<>>, pts # NoStamp,
              pts = IF nextPts = NoStamp THEN stamp ELSE nextPts
       PROVE  AnchoredAt(pts)'
  <2>1. CASE nextPts = NoStamp
    <3>1. NothingAnchors /\ pts = stamp /\ Anchors(k)' BY <1>4, <1>10, <2>1 DEF Counted
    <3> QED BY <1>7, <3>1
  <2>2. CASE nextPts # NoStamp BY <1>5, <1>10, <2>2 DEF Counted
  <2> QED BY <2>1, <2>2
<1>11. \A pts : StartsAt(pts) /\ given > 0 => StartsAt(pts)' BY <1>8
<1>12. Frames = <<>> /\ nextPts = NoStamp /\ stamp = NoStamp => NothingAnchors' BY <1>9
<1>13. \A pts :
         Frames = <<>> /\ pts # NoStamp /\ pts = (IF nextPts = NoStamp THEN stamp ELSE nextPts)
         => AnchoredAt(pts)'
  BY <1>10
<1> QED BY <1>11, <1>12, <1>13

\* One frame more, or none, starting at the timestamp due.
LEMMA CountedGrows ==
  ASSUME TypeOK, Counted, NEW start \in 0 .. MaxTick, NEW n \in Nat \ {0},
         Frames' = Append(Frames, [pts |-> start, samples |-> n]),
         given' = given + n, nextPts' = start + n,
         Frames = <<>> => StartsAt(start)',
         Frames # <<>> => start = nextPts /\ StartsAt(Frames[1].pts)'
  PROVE  Counted'
<1> DEFINE f == [pts |-> start, samples |-> n]
<1>1. f \in Frame /\ f.pts = start /\ f.samples = n BY DEF Frame
<1>2. Frames \in Seq(Frame) BY ConcatProperties DEF Frames, TypeOK
<1>3. Frames # <<>> => Chained(Frames) /\ f.pts = EndOf(Frames[Len(Frames)])
  BY <1>1 DEF Counted
<1>4. Frames = <<>> => Chained(Frames) BY DEF Chained
<1>5. /\ Frames' # <<>> /\ Chained(Frames')
      /\ Frames'[Len(Frames')] = f
      /\ Frames'[1] = IF Frames = <<>> THEN f ELSE Frames[1]
  BY <1>1, <1>2, <1>3, <1>4, ChainGrows
<1>6. given \in Nat /\ given' > 0 BY DEF TypeOK
<1>7. nextPts' # NoStamp BY DEF NoStamp
<1>8. EndOf(Frames'[Len(Frames')]) = nextPts' BY <1>1, <1>5 DEF EndOf
<1>9. CASE Frames = <<>>
  <2>1. given = 0 BY <1>9 DEF Counted
  <2>2. Frames'[1].pts = start BY <1>1, <1>5, <1>9
  <2>3. given' = nextPts' - Frames'[1].pts BY <2>1, <2>2
  <2>4. StartsAt(start)' BY <1>9
  <2> QED BY <1>5, <1>6, <1>7, <1>8, <2>2, <2>3, <2>4 DEF Counted, Chained, StartsAt, Anchors, EndOf
<1>10. CASE Frames # <<>>
  <2>1. Frames'[1].pts = Frames[1].pts BY <1>5, <1>10
  <2>2. given = nextPts - Frames[1].pts BY <1>10 DEF Counted
  <2>3. Frames[1].pts \in Int
    <3>1. Frames[1] \in Frame BY <1>2, <1>10, EmptySeq
    <3> QED BY <3>1 DEF Frame
  <2>4. given' = nextPts' - Frames'[1].pts BY <1>6, <1>10, <2>1, <2>2, <2>3
  <2>5. StartsAt(Frames[1].pts)' BY <1>10
  <2> QED BY <1>5, <1>6, <1>7, <1>8, <2>1, <2>4, <2>5 DEF Counted, Chained, StartsAt, Anchors, EndOf
<1> QED BY <1>9, <1>10

LEMMA CountedUnchanged ==
  ASSUME Counted, UNCHANGED <<Frames, given, nextPts, accepted>>
  PROVE  Counted'
BY DEF Counted, StartsAt, AnchoredAt, NothingAnchors, Anchors, Chained, EndOf

LEMMA CountedInit == Init => Counted
<1> SUFFICES ASSUME Init PROVE Counted OBVIOUS
<1>1. Frames = <<>> BY ConcatEmptySeq, EmptySeq DEF Init, Frames
<1>2. DOMAIN accepted = {} BY DEF Init
<1> QED BY <1>1, <1>2 DEF Init, Counted, NothingAnchors

LEMMA CountedSend ==
  ASSUME TypeOK, Counted, NEW stamp \in Stamps, NEW samples \in Counts,
         SendConverts(stamp, samples)
  PROVE  Counted'
<1>1. Sendable(stamp, samples) BY DEF SendConverts
<1>2. StampOK(stamp) BY <1>1, SendableFacts
<1>3. PICK n \in 0 .. Least(Available(samples), Capacity(samples)) :
        /\ given' = given + n
        /\ nextPts' = IF n = 0 /\ nextPts = NoStamp THEN stamp ELSE StartOf(stamp) + n
        /\ ready' = Produce(StartOf(stamp), n, ready)
  BY DEF SendConverts
<1>4. n \in Nat BY <1>1, <1>3, SendableFacts, LeastIs
<1>5. PICK start \in 0 .. MaxTick : start = StartOf(stamp) BY <1>1, SendableFacts
<1>6. /\ accepted' = Append(accepted, [stamp |-> stamp, given |-> given])
      /\ delivered' = delivered
  BY DEF SendConverts
<1>7. /\ \A pts : StartsAt(pts) /\ given > 0 => StartsAt(pts)'
      /\ Frames = <<>> /\ nextPts = NoStamp /\ stamp = NoStamp => NothingAnchors'
      /\ \A pts :
           Frames = <<>> /\ pts # NoStamp /\ pts = (IF nextPts = NoStamp THEN stamp ELSE nextPts)
           => AnchoredAt(pts)'
  BY <1>2, <1>6, StartSettled
<1>8. CASE n = 0
  <2>1. Frames' = Frames BY <1>3, <1>6, <1>8 DEF Frames, Produce
  <2>2. given' = given BY <1>3, <1>8 DEF TypeOK
  <2>3. PICK due : due = nextPts' OBVIOUS
  <2>4. due = IF nextPts = NoStamp THEN stamp ELSE nextPts
    <3>1. nextPts # NoStamp => nextPts \in Nat BY DEF TypeOK
    <3> QED BY <1>3, <1>8, <2>3, <3>1 DEF StartOf
  <2>5. CASE Frames = <<>>
    <3>1. due # NoStamp => AnchoredAt(due)' BY <1>7, <2>4, <2>5
    <3>2. due = NoStamp => NothingAnchors' BY <1>7, <2>4, <2>5
    <3>3. nextPts' # NoStamp => AnchoredAt(nextPts)'
      BY <2>3, <3>1 DEF AnchoredAt, Anchors
    <3> QED BY <2>1, <2>2, <2>3, <2>5, <3>2, <3>3 DEF Counted
  <2>6. CASE Frames # <<>>
    <3>1. nextPts' = nextPts BY <2>3, <2>4, <2>6 DEF Counted
    <3>2. PICK first : first = Frames[1].pts OBVIOUS
    <3>3. StartsAt(first)' BY <1>7, <2>6, <3>2 DEF Counted
    <3>4. StartsAt(Frames[1].pts)' BY <2>1, <3>2, <3>3 DEF StartsAt, Anchors
    <3> QED BY <2>1, <2>2, <2>6, <3>1, <3>4 DEF Counted, Chained, EndOf
  <2> QED BY <2>5, <2>6
<1>9. CASE n # 0
  <2>1. Frames' = Append(Frames, [pts |-> start, samples |-> n])
    <3>1. [pts |-> start, samples |-> n] \in Frame BY <1>4, <1>9 DEF Frame
    <3>2. ready' = Append(ready, [pts |-> start, samples |-> n])
      BY <1>3, <1>5, <1>9 DEF Produce
    <3> QED BY <1>6, <3>1, <3>2, FramesPushed DEF Frames, TypeOK
  <2>2. nextPts' = start + n BY <1>3, <1>5, <1>9
  <2>3. ASSUME Frames = <<>> PROVE StartsAt(start)'
    <3>1. CASE nextPts = NoStamp /\ stamp = NoStamp
      <4>1. start = 0 BY <1>5, <3>1 DEF StartOf
      <4>2. NothingAnchors' BY <1>7, <2>3, <3>1
      <4> QED BY <4>1, <4>2 DEF StartsAt, NothingAnchors
    <3>2. CASE ~(nextPts = NoStamp /\ stamp = NoStamp)
      <4>1. /\ start = IF nextPts = NoStamp THEN stamp ELSE nextPts
            /\ start # NoStamp
        BY <1>5, <3>2 DEF StartOf, NoStamp
      <4>2. AnchoredAt(start)' BY <1>7, <2>3, <4>1
      <4> QED BY <4>2 DEF StartsAt, AnchoredAt
    <3> QED BY <3>1, <3>2
  <2>4. ASSUME Frames # <<>> PROVE start = nextPts /\ StartsAt(Frames[1].pts)'
    <3>1. start = nextPts BY <1>5, <2>4 DEF Counted, StartOf
    <3>2. PICK first : first = Frames[1].pts OBVIOUS
    <3>3. StartsAt(first)' BY <1>7, <2>4, <3>2 DEF Counted
    <3>4. Frames'[1].pts = first
      <4>1. Frames \in Seq(Frame) BY ConcatProperties DEF Frames, TypeOK
      <4>2. [pts |-> start, samples |-> n] \in Frame BY <1>4, <1>9 DEF Frame
      <4>3. 1 \in 1 .. Len(Frames) BY <2>4, <4>1, EmptySeq
      <4>4. Frames'[1] = Frames[1] BY <2>1, <4>1, <4>2, <4>3, AppendProperties
      <4> QED BY <3>2, <4>4
    <3> QED BY <3>1, <3>3, <3>4 DEF StartsAt, Anchors
  <2> QED BY <1>3, <1>4, <1>9, <2>1, <2>2, <2>3, <2>4, CountedGrows
<1> QED BY <1>8, <1>9

LEMMA CountedTail == ASSUME TypeOK, Counted, TailConverts PROVE Counted'
<1>1. PICK n \in 1 .. TailCapacity :
        /\ given' = given + n
        /\ nextPts' = TailStart + n
        /\ delivered' = Produce(TailStart, n, delivered)
  BY DEF TailConverts
<1>2. n \in Nat \ {0} BY <1>1, TailFacts DEF TailConverts
<1>3. PICK start \in 0 .. MaxTick : start = TailStart BY TailFacts DEF TailConverts
<1>4. ready = <<>> /\ ready' = <<>> /\ accepted' = accepted
  BY DEF TailConverts, Tails
<1>5. /\ [pts |-> start, samples |-> n] \in Frame
      /\ delivered \in Seq(Frame)
  BY <1>2 DEF Frame, TypeOK
<1>6. Frames = delivered BY <1>4, <1>5, ConcatEmptySeq DEF Frames
<1>7. delivered' = Append(delivered, [pts |-> start, samples |-> n])
  BY <1>1, <1>2, <1>3 DEF Produce
<1>8. Frames' = Append(Frames, [pts |-> start, samples |-> n])
  <2>1. delivered' \in Seq(Frame) BY <1>5, <1>7
  <2> QED BY <1>4, <1>6, <1>7, <2>1, ConcatEmptySeq DEF Frames
<1>9. ASSUME Frames = <<>> PROVE StartsAt(start)'
  BY <1>3, <1>4, <1>9
  DEF Counted, StartsAt, AnchoredAt, NothingAnchors, Anchors, TailStart, StartOf
<1>10. ASSUME Frames # <<>> PROVE start = nextPts /\ StartsAt(Frames[1].pts)'
  <2>1. start = nextPts BY <1>3, <1>10 DEF Counted, TailStart, StartOf
  <2>2. Frames'[1] = Frames[1]
    <3>1. 1 \in 1 .. Len(Frames) BY <1>5, <1>6, <1>10, EmptySeq
    <3> QED BY <1>5, <1>6, <1>8, <3>1, AppendProperties
  <2> QED BY <1>4, <1>10, <2>1, <2>2 DEF Counted, StartsAt, Anchors
<1> QED BY <1>1, <1>2, <1>3, <1>8, <1>9, <1>10, CountedGrows

LEMMA CountedStep == TypeOK /\ Counted /\ [Next]_vars => Counted'
<1> SUFFICES ASSUME TypeOK, Counted, [Next]_vars PROVE Counted' OBVIOUS
<1>1. ASSUME NEW stamp \in Stamps, NEW samples \in Counts, SendConverts(stamp, samples)
      PROVE  Counted'
  BY <1>1, CountedSend
<1>2. CASE ReceiveReady
  <2>1. Frames' = Frames BY <1>2, FramesTaken DEF ReceiveReady, Frames, TypeOK
  <2> QED BY <1>2, <2>1, CountedUnchanged DEF ReceiveReady, swrVars
<1>3. CASE TailConverts BY <1>3, CountedTail
<1>4. CASE FlushResets
  <2>1. Frames' = <<>> BY <1>4, ConcatEmptySeq, EmptySeq DEF FlushResets, Frames
  <2>2. DOMAIN accepted' = {} BY <1>4 DEF FlushResets
  <2> QED BY <1>4, <2>1, <2>2 DEF FlushResets, Counted, NothingAnchors
<1>5. CASE UNCHANGED <<delivered, ready, given, nextPts, accepted>>
  BY <1>5, CountedUnchanged DEF Frames
<1> QED
  BY <1>1, <1>2, <1>3, <1>4, <1>5
  DEF Next, SendFrame, ReceiveFrame, SendAfterEof, SendSourceChanged, SendEmpty,
      SendMalformed, SendRefused, SendFails, ReceiveNothing, ReceiveDry, TailFails,
      TailResidue, TailEnds, SendEof, FlushFails, Refuses, session, history, swrVars, vars

LEMMA CountedInv == Spec => [](TypeOK /\ Counted)
<1>1. TypeOK /\ Counted /\ [Next]_vars => TypeOK' /\ Counted' BY TypeStep, CountedStep
<1> QED BY TypeInit, CountedInit, <1>1, PTL DEF Spec

\* The output timeline starts at the first input timestamp and never breaks,
\* whatever swr keeps back; the tail after the end continues it, and the frames
\* span exactly the samples swr gave.
THEOREM TimelineUnbroken == Spec => []Timeline
BY CountedInv, TailAlwaysPayable, CountedIsTimeline, PTL

-----------------------------------------------------------------------------
(* Refusals and the end *)

\* No error of any call changes what the session keeps.
THEOREM RefusalsTraceless == Spec => RefusalLeavesNoTrace
<1>1. TypeOK /\ [Next]_vars => [answer' = "failed" => UNCHANGED session]_vars
  BY DEF Next, SendFrame, ReceiveFrame, SendAfterEof, SendSourceChanged, SendEmpty,
         SendMalformed, SendRefused, SendFails, SendConverts, ReceiveReady, ReceiveNothing,
         ReceiveDry, TailFails, TailConverts, TailResidue, TailEnds, SendEof, FlushResets,
         FlushFails, Refuses, session, swrVars, vars
<1> QED BY <1>1, ResamplerTypeCorrect, PTL DEF Spec, RefusalLeavesNoTrace

\* What an end answered leaves behind.
Settled == answer = "ended" => drained /\ eof /\ ready = <<>>

LEMMA SettledStep == Settled /\ [Next]_vars => Settled'
BY DEF Settled, Next, SendFrame, ReceiveFrame, SendAfterEof, SendSourceChanged, SendEmpty,
       SendMalformed, SendRefused, SendFails, SendConverts, ReceiveReady, ReceiveNothing,
       ReceiveDry, TailFails, TailConverts, TailResidue, TailEnds, Tails, SendEof,
       FlushResets, FlushFails, Refuses, session, swrVars, vars

\* An end once answered is answered again, whatever delay swr still reports:
\* the latch on drained keeps a later drain from asking swr at all.
THEOREM EndKept == Spec => EndIsTheEnd
<1>1. Init => Settled BY DEF Init, Settled
<1>2. Settled /\ [Next]_vars => [answer = "ended" /\ ReceiveFrame => answer' = "ended"]_vars
  BY DEF Settled, ReceiveFrame, ReceiveReady, ReceiveNothing, ReceiveDry, TailFails,
         TailConverts, TailResidue, Tails
<1> QED BY <1>1, <1>2, SettledStep, PTL DEF Spec, EndIsTheEnd

-----------------------------------------------------------------------------
(* The scaled output: the corrected ratio *)

\* A nonempty set of naturals has a least element.
LEMMA LeastNat ==
  ASSUME NEW S \in SUBSET Nat, S # {}
  PROVE  \E m \in S : \A k \in S : m <= k
<1> DEFINE R == OpToRel(<, Nat)
<1>1. IsWellFoundedOn(R, Nat)
  BY NatLessThanWellFounded
<1>2. PICK m \in S : \A k \in S : ~(<<k, m>> \in R)
  BY <1>1, WFMin
<1>3. \A k \in S : ~(k < m)
  BY <1>2 DEF OpToRel
<1> QED
  BY <1>3

\* One divides every pair, so two positive numbers have a greatest divisor.
LEMMA GcdDivides ==
  ASSUME NEW a \in Nat \ {0}, NEW b \in Nat \ {0}
  PROVE  Gcd(a, b) \in 1 .. a /\ a % Gcd(a, b) = 0 /\ b % Gcd(a, b) = 0
<1> DEFINE Divides(d) == a % d = 0 /\ b % d = 0
           Short == {k \in 0 .. a - 1 : Divides(a - k)}
<1>1. Divides(1)
  OBVIOUS
<1>2. a - 1 \in Short
  BY <1>1
<1>3. PICK m \in Short : \A k \in Short : m <= k
  <2>1. Short \in SUBSET Nat
    OBVIOUS
  <2>2. Short # {}
    BY <1>2
  <2> HIDE DEF Short
  <2> QED BY <2>1, <2>2, LeastNat
<1>4. ASSUME NEW e \in (a - m + 1) .. a PROVE ~Divides(e)
  <2>1. a - e \in 0 .. a - 1 /\ a - (a - e) = e /\ a - e < m
    BY <1>3
  <2> QED
    BY <1>3, <2>1
<1>5. a - m \in 1 .. a /\ Divides(a - m)
  BY <1>3
<1> QED
  BY <1>4, <1>5 DEF Gcd

\* Dividing by a divisor loses nothing.
LEMMA DivExact ==
  ASSUME NEW n \in Nat, NEW g \in Nat \ {0}, n % g = 0
  PROVE  n \div g \in Nat /\ n = g * (n \div g)
OBVIOUS

\* The product of positive numbers is positive.
LEMMA Positive ==
  ASSUME NEW a \in Nat \ {0}, NEW b \in Nat \ {0}, NEW c \in Nat \ {0}
  PROVE  a * b * c \in Nat \ {0}
<1>1. a * b \in Nat \ {0} OBVIOUS
<1> QED BY <1>1

\* scaled_sample_aspect_ratio keeps the proportions the stream declares.
LEMMA RatioKept ==
  ASSUME NEW sar \in Nat \X Nat, ~Unspecified(sar),
         NEW src \in (Nat \ {0}) \X (Nat \ {0}),
         NEW dst \in (Nat \ {0}) \X (Nat \ {0})
  PROVE  LET r == ScaledRatio(sar, src, dst)
         IN /\ r \in Nat \X Nat
            /\ r[1] * dst[1] * sar[2] * src[2] = sar[1] * src[1] * r[2] * dst[2]
<1> DEFINE n == sar[1] * src[1] * dst[2]
           d == sar[2] * dst[1] * src[2]
           g == Gcd(n, d)
<1>1. /\ sar[1] \in Nat \ {0} /\ sar[2] \in Nat \ {0}
      /\ src[1] \in Nat \ {0} /\ src[2] \in Nat \ {0}
      /\ dst[1] \in Nat \ {0} /\ dst[2] \in Nat \ {0}
  BY DEF Unspecified
<1>2. n \in Nat \ {0} /\ d \in Nat \ {0}
  BY <1>1, Positive
<1>3. g \in Nat \ {0} /\ n % g = 0 /\ d % g = 0
  <2> HIDE DEF n, d
  <2> QED BY <1>2, GcdDivides
<1> DEFINE p == n \div g
           q == d \div g
<1>4. p \in Nat /\ q \in Nat /\ n = g * p /\ d = g * q
  <2> HIDE DEF n, d, g
  <2> QED BY <1>2, <1>3, DivExact
<1>5. ScaledRatio(sar, src, dst) = <<p, q>>
  BY DEF ScaledRatio
<1>6. p * d = n * q
  <2> HIDE DEF n, d, g, p, q
  <2>1. p * (g * q) = (g * p) * q
    BY <1>3, <1>4
  <2> QED BY <1>4, <2>1
<1>7. p * dst[1] * sar[2] * src[2] = p * d
  <2> HIDE DEF p
  <2> QED BY <1>1, <1>4
<1>8. sar[1] * src[1] * q * dst[2] = n * q
  <2> HIDE DEF q
  <2> QED BY <1>1, <1>4
<1> QED
  BY <1>4, <1>5, <1>6, <1>7, <1>8

-----------------------------------------------------------------------------
(* The scaled output: the invariant *)

\* What a call in progress has in hand: a surface from Decodes on, and behind
\* the stage what the stage has judged and built.
InHand ==
  /\ at \in {"stage", "fitted", "full"} => surface \in Surface
  /\ at \in {"stage", "fitted"} => road = "vt"
  /\ at = "fitted" => Armed /\ Scalable /\ cache = Built(Key(surface, request), thread)

\* What is kept built is for the request that stands, on this road.
StageKept == cache # Empty => road = "vt" /\ Armed /\ cache.key.fitted = request

\* What the caller was told last and what the stage will do agree: a size it was
\* promised is the one requested; told Unsupported, it is met by no armed stage.
WordsMatch ==
  road = "vt" =>
    /\ asked # NoSize => request = asked
    /\ told = "unsupported" => ~Armed

Broken == road # "vt" \/ unhonored

\* A picture of another size than promised, about to come out or already out,
\* finds the promise withdrawn.
SizesMatch ==
  /\ (at = "full" /\ asked # NoSize /\ surface.extent # asked) => Broken
  /\ ((at = "slot" \/ Parked) /\ asked # NoSize /\ slot.extent # asked) => Broken
  /\ mixed => Broken

ScaledInv ==
  /\ ScaledTypeOK /\ InHand /\ StageKept /\ WordsMatch /\ SizesMatch
  /\ NeverScaledTwice /\ ShapeKept

LEMMA ScaledInitHolds == ScaledInit => ScaledInv
<1> SUFFICES ASSUME ScaledInit PROVE ScaledInv
  OBVIOUS
<1>1. ScaledTypeOK
  BY DEF ScaledInit, ScaledTypeOK
<1>2. InHand /\ StageKept /\ WordsMatch
  BY DEF ScaledInit, InHand, StageKept, WordsMatch
<1>3. SizesMatch
  BY DEF ScaledInit, SizesMatch, Parked
<1>4. NeverScaledTwice /\ ShapeKept
  BY DEF ScaledInit, NeverScaledTwice, ShapeKept, NoPicture
<1> QED
  BY <1>1, <1>2, <1>3, <1>4 DEF ScaledInv

\* The picture the stage made: of the request, in the stream's proportions, and
\* not for a caller that resamples.
LEMMA FittedPicture ==
  ASSUME ScaledInv, at = "fitted",
         NEW r, r = ScaledRatio(surface.sar, surface.extent, request)
  PROVE  /\ r \in Nat \X Nat
         /\ told # "unsupported"
         /\ IF Unspecified(surface.sar) THEN r = surface.sar
            ELSE /\ Representable(r)
                 /\ r[1] * request[1] * surface.sar[2] * surface.extent[2]
                      = surface.sar[1] * surface.extent[1] * r[2] * request[2]
<1>1. surface \in Surface /\ road = "vt" /\ Armed /\ Scalable
  BY DEF ScaledInv, InHand
<1>2. /\ surface.sar \in Nat \X Nat
      /\ surface.extent \in (Nat \ {0}) \X (Nat \ {0})
  BY <1>1, ScaledAssumption DEF Surface
<1>3. request \in (Nat \ {0}) \X (Nat \ {0})
  BY <1>1, ScaledAssumption DEF ScaledInv, ScaledTypeOK, Armed, Scalable, IsAcceptable
<1>4. told # "unsupported"
  BY <1>1 DEF ScaledInv, WordsMatch
<1>5. CASE Unspecified(surface.sar)
  BY <1>2, <1>4, <1>5 DEF ScaledRatio
<1>6. CASE ~Unspecified(surface.sar)
  <2>1. Representable(r)
    BY <1>1 DEF Scalable
  <2> QED BY <1>2, <1>3, <1>4, <1>6, <2>1, RatioKept
<1> QED
  BY <1>5, <1>6

\* A call that steps aside for the full picture: what was promised is either
\* delivered by it or withdrawn.
LEMMA Aside ==
  ASSUME ScaledInv, at \in {"stage", "fitted"}, FullSize,
         \/ Retire /\ Armed /\ Fits
         \/ StandDown
         \/ UNCHANGED stage /\ ~Armed /\ at = "stage"
  PROVE  ScaledInv'
<1> USE DEF FullSize, caller
<1>1. surface \in Surface /\ road = "vt"
  BY DEF ScaledInv, InHand
<1>2. ScaledTypeOK'
  BY DEF ScaledInv, ScaledTypeOK, Retire, StandDown, stage
<1>3. InHand'
  BY <1>1 DEF InHand
<1>4. StageKept'
  BY DEF ScaledInv, StageKept, Retire, StandDown, stage, Armed
<1>5. WordsMatch'
  BY DEF ScaledInv, WordsMatch, Retire, StandDown, stage, Armed
<1>6. SizesMatch'
  BY <1>1 DEF ScaledInv, WordsMatch, SizesMatch, Parked, Broken, Retire, StandDown, stage, Armed, Fits
<1>7. NeverScaledTwice' /\ ShapeKept'
  BY DEF ScaledInv, NeverScaledTwice, ShapeKept
<1> QED
  BY <1>2, <1>3, <1>4, <1>5, <1>6, <1>7 DEF ScaledInv

LEMMA ScaledStep == ScaledInv /\ [ScaledNext]_scaledVars => ScaledInv'
<1> SUFFICES ASSUME ScaledInv, [ScaledNext]_scaledVars PROVE ScaledInv'
  OBVIOUS
<1> USE DEF ScaledInv, StageKept, WordsMatch, SizesMatch, NeverScaledTwice, Broken, Armed
<1>1. CASE RequestOverParked
  BY <1>1 DEF RequestOverParked, Withdrawn, Answer, stage, ScaledTypeOK, InHand, ShapeKept, Parked
<1>2. CASE RequestElsewhere
  BY <1>2 DEF RequestElsewhere, Answer, stage, ScaledTypeOK, InHand, ShapeKept, Parked
<1>3. CASE RequestRefused
  BY <1>3 DEF RequestRefused, Withdrawn, Answer, ScaledTypeOK, InHand, ShapeKept, Parked
<1>4. CASE RequestAccepted
  BY <1>4 DEF RequestAccepted, Answer, ScaledTypeOK, InHand, ShapeKept, Parked
<1>5. CASE Query
  BY <1>5 DEF Query, Capability, stage, ScaledTypeOK, InHand, ShapeKept, Parked
<1>6. CASE StandsAside
  BY <1>6, Aside DEF StandsAside
<1>7. CASE AlreadyFits
  BY <1>7, Aside DEF AlreadyFits
<1>8. CASE CannotScale
  BY <1>8, Aside DEF CannotScale
<1>9. CASE ScalingFails
  BY <1>9, Aside DEF ScalingFails
<1>10. CASE Scales
  <2>1. surface \in Surface /\ road = "vt"
    BY <1>10 DEF Scales, InHand
  <2>2. cache' = Built(Key(surface, request), thread)
    BY <1>10 DEF Scales, Usable
  <2>3. cache' \in [key : Keys, owner : Threads] /\ cache'.key.fitted = request
    BY <1>10, <2>1, <2>2 DEF Scales, Built, Key, Keys, Surface, ScaledTypeOK
  <2>4. ScaledTypeOK'
    BY <1>10, <2>3 DEF Scales, caller, ScaledTypeOK
  <2>5. InHand'
    BY <1>10, <2>1, <2>2 DEF Scales, InHand, Scalable, Key, Built
  <2>6. ShapeKept'
    BY <1>10 DEF Scales, ShapeKept
  <2> QED
    BY <1>10, <2>1, <2>3, <2>4, <2>5, <2>6 DEF Scales, caller, Parked
<1>11. CASE Decodes
  BY <1>11 DEF Decodes, stage, caller, ScaledTypeOK, InHand, ShapeKept, Parked
<1>12. CASE DownloadsFitted
  <2> DEFINE r == ScaledRatio(surface.sar, surface.extent, request)
  <2>1. /\ r \in Nat \X Nat
        /\ told # "unsupported"
        /\ IF Unspecified(surface.sar) THEN r = surface.sar
           ELSE /\ Representable(r)
                /\ r[1] * request[1] * surface.sar[2] * surface.extent[2]
                     = surface.sar[1] * surface.extent[1] * r[2] * request[2]
    BY <1>12, FittedPicture DEF DownloadsFitted
  <2>2. slot' = Picture(surface, request, r, TRUE)
    BY <1>12 DEF DownloadsFitted, Downloaded
  <2> HIDE DEF r
  <2>3. surface \in Surface /\ road = "vt" /\ request \in Sizes
    BY <1>12 DEF DownloadsFitted, InHand, ScaledTypeOK
  <2>3a. slot' \in Pictures
    BY <2>1, <2>2, <2>3 DEF Picture, Pictures
  <2>4. ScaledTypeOK'
    BY <1>12, <2>3a DEF DownloadsFitted, Downloaded, ScaledTypeOK, stage, caller
  <2>5. InHand'
    BY <1>12 DEF DownloadsFitted, Downloaded, InHand
  <2>6. SizesMatch'
    BY <1>12, <2>2, <2>3 DEF DownloadsFitted, Downloaded, Picture, Parked, stage, caller
  <2>7. NeverScaledTwice'
    BY <2>1, <2>2 DEF Picture
  <2>8. ShapeKept'
    BY <2>1, <2>2 DEF Picture, ShapeKept
  <2> QED
    BY <1>12, <2>4, <2>5, <2>6, <2>7, <2>8 DEF DownloadsFitted, Downloaded, stage, caller
<1>13. CASE FittedUndownloaded
  BY <1>13, Aside DEF FittedUndownloaded
<1>14. CASE DownloadsFull
  <2>1. surface \in Surface
    BY <1>14 DEF DownloadsFull, InHand
  <2>2. slot' = Picture(surface, surface.extent, surface.sar, FALSE)
    BY <1>14 DEF DownloadsFull, Downloaded
  <2>3. slot' \in Pictures
    BY <2>1, <2>2, ScaledAssumption DEF Picture, Pictures, Surface, ScaledTypeOK
  <2>4. ScaledTypeOK'
    BY <1>14, <2>3 DEF DownloadsFull, Downloaded, ScaledTypeOK, stage, caller
  <2>5. InHand' /\ NeverScaledTwice' /\ ShapeKept'
    BY <1>14, <2>2 DEF DownloadsFull, Downloaded, Picture, InHand, ShapeKept
  <2>6. SizesMatch'
    BY <1>14, <2>2 DEF DownloadsFull, Downloaded, Picture, Parked, stage, caller
  <2> QED
    BY <1>14, <2>4, <2>5, <2>6 DEF DownloadsFull, Downloaded, stage, caller
<1>15. CASE PictureLost
  BY <1>15 DEF PictureLost, CallEnds, stage, caller, ScaledTypeOK, InHand, ShapeKept, Parked
<1>16. CASE FallsBack
  BY <1>16 DEF FallsBack, CallEnds, caller, ScaledTypeOK, InHand, ShapeKept, Parked
<1>17. CASE Delivers
  BY <1>17 DEF Delivers, CallEnds, stage, ScaledTypeOK, InHand, ShapeKept, Parked, NoPicture
<1>18. CASE ConversionFails
  BY <1>18 DEF ConversionFails, CallEnds, stage, caller, ScaledTypeOK, InHand, ShapeKept, Parked, NoPicture
<1>19. CASE RetriesParked
  BY <1>19 DEF RetriesParked, stage, caller, ScaledTypeOK, InHand, ShapeKept, Parked, Pictures
<1>20. CASE Flush
  BY <1>20 DEF Flush, stage, caller, ScaledTypeOK, InHand, ShapeKept, Parked, NoPicture
<1>21. CASE HeaderRead
  BY <1>21 DEF HeaderRead, stage, caller, ScaledTypeOK, InHand, ShapeKept, Parked
<1>22. CASE Moves
  BY <1>22 DEF Moves, stage, caller, ScaledTypeOK, InHand, ShapeKept, Parked
<1>23. CASE UNCHANGED scaledVars
  BY <1>23 DEF scaledVars, stage, caller, ScaledTypeOK, InHand, ShapeKept, Parked, Scalable, Key
<1> QED
  BY <1>1, <1>2, <1>3, <1>4, <1>5, <1>6, <1>7, <1>8, <1>9, <1>10, <1>11, <1>12, <1>13,
     <1>14, <1>15, <1>16, <1>17, <1>18, <1>19, <1>20, <1>21, <1>22, <1>23 DEF ScaledNext

LEMMA ScaledInvariant == ScaledSpec => []ScaledInv
BY ScaledInitHolds, ScaledStep, PTL DEF ScaledSpec

-----------------------------------------------------------------------------
(* The scaled output: the theorems *)

\* Every variable keeps its type, whatever is asked and decoded, on any thread.
THEOREM ScaledTypeCorrect == ScaledSpec => []ScaledTypeOK
<1>1. ScaledInv => ScaledTypeOK
  BY DEF ScaledInv
<1> QED
  BY <1>1, ScaledInvariant, PTL

\* The capability word can be acted on in both directions, for any stream.
THEOREM WordKept == ScaledSpec => []WordHonest
<1>1. ScaledInv => WordHonest
  BY DEF ScaledInv, SizesMatch, WordHonest, PromiseKept, Capability, Broken
<1> QED
  BY <1>1, ScaledInvariant, PTL

\* A surface is scaled by what was built for its shape, its request and its
\* thread, and what comes out keeps the proportions of the stream.
THEOREM ScalingRight == ScaledSpec => []ScaledRight
<1>1. ScaledInv => StageInPlace
  BY DEF ScaledInv, InHand, StageKept, StageInPlace, Built
<1>2. ScaledInv => ShapeKept
  BY DEF ScaledInv
<1> QED
  BY <1>1, <1>2, ScaledInvariant, PTL DEF ScaledRight

-----------------------------------------------------------------------------
(* The carriers.  What a reference may be, and what each part of a call      *)
(* refers to.                                                                *)

Lent == {"carrier", "built", "codec"}
Sources == {"offered", "source", "unconverted"}
PictureKinds == {"pool", "frame", "output", "reserved"}
HandKinds == {"packet", "record", "carrier", "codec", "unconverted", "queued", "parked",
           "pool", "frame"}
AnyKind == HandKinds \cup {"offered", "source", "built", "output", "reserved", "nobody"}
Givers == {"foreign", "caller", "demux", "picture", "payload"}
Endings == {"unknown", "zeroes", "libavformat", "none"}

References == [kind : AnyKind, buf : Buffers \cup {NoBuffer}, off : Nat, len : Nat,
               from : Givers, stands : BOOLEAN]

Blocks(m) ==
  /\ DOMAIN m \subseteq Buffers
  /\ m \in [DOMAIN m -> [size : Nat, tail : Endings, refs : Nat \ {0}]]

Hands(h) ==
  /\ DOMAIN h \subseteq Handles
  /\ h \in [DOMAIN h -> References]
  /\ \A t \in DOMAIN h : h[t].kind \in HandKinds

TakeStages == {"offered", "judged", "captured"}
BuildStages == {"built", "lent"}

Taking == [at : TakeStages, src : References, made : References, lane : Lanes,
           tag : Tags, plan : {"none", "capture", "copy"}]
Building == [at : BuildStages, src : References, made : References,
             road : {"submit", "keep"}, tag : {"plain", "sided", "broken"}]
Reserving == [at : {"reserved"}, src : References, made : References]

Stage(c, stop, src, made) == c.at = stop => c.src.kind = src /\ c.made.kind = made

Calls(c) ==
  /\ c \in {Idle} \cup Taking \cup Building \cup Reserving
  /\ Stage(c, "offered", "offered", "nobody") /\ Stage(c, "judged", "source", "nobody")
  /\ Stage(c, "captured", "source", "carrier") /\ Stage(c, "built", "carrier", "built")
  /\ Stage(c, "lent", "carrier", "built") /\ Stage(c, "reserved", "output", "reserved")
  /\ c.made.kind = "nobody" => c.made = Nobody

CarriersType == Blocks(mem) /\ Hands(hand) /\ Calls(call)

(* Every reference is counted: nothing of a buffer that is not there.        *)

Is(x, b) == IF x = b THEN 1 ELSE 0
Refs(m, b) == IF b \in DOMAIN m THEN m[b].refs ELSE 0
InHands(h, b) == Cardinality({t \in DOMAIN h : h[t].buf = b})
InCall(c, b) == Is(c.src.buf, b) + Is(c.made.buf, b)

Exact(m, h, c) == \A b \in Buffers : Refs(m, b) = InHands(h, b) + InCall(c, b)

(* What a holder knows of the bytes it holds.                                *)

Using(h, c) == {h[t] : t \in DOMAIN h} \cup {c.src, c.made}

Behind(r, m, tails) == r.buf \in DOMAIN m /\ m[r.buf].tail \in tails
Inside(r, m) == r.off + r.len + Padding <= m[r.buf].size /\ r.len <= Budget

Sound(r, m) ==
  /\ r.stands
  /\ r.kind \in Writers => r.from = "caller" /\ Behind(r, m, {"unknown", "zeroes"})
  /\ r.kind = "record" => r.len <= Budget
  /\ r.kind \in {"built", "codec"} => Behind(r, m, {"libavformat", "zeroes"}) /\ Inside(r, m)
  /\ r.kind = "built" /\ r.from = "caller" => Behind(r, m, {"zeroes"})
  /\ r.kind \in Sources =>
       \/ r.from = "caller" /\ Behind(r, m, {"unknown", "zeroes"})
       \/ r.from \in {"demux", "picture"} /\ Behind(r, m, {"libavformat"})
  /\ r.kind = "unconverted" => r.from # "caller"
  /\ r.kind = "carrier" => r.from \in {"payload", "foreign"}
  /\ r.kind = "carrier" /\ r.from = "payload" => Behind(r, m, {"libavformat"})
  /\ r.kind \in {"queued", "parked"} => Behind(r, m, {"libavformat"})
  /\ r.kind \in PictureKinds => Behind(r, m, {"none"})
  /\ r.kind = "reserved" => r.from = "foreign"
  /\ r.buf = NoBuffer => r.kind \in {"carrier", "nobody"}

AllSound(m, h, c) == \A r \in Using(h, c) : Sound(r, m)

(* Who may not refer to one buffer.                                          *)

Pictured(r) == r.kind \in Sources /\ r.from = "picture"

Clash(r, s) ==
  \/ r.kind \in Writers /\ s.kind \in Readers
  \/ r.kind = "queued" /\ (s.kind \in Lent \/ Pictured(s))

AllApart(U) == \A r, s \in U : Clash(r, s) => r.buf # s.buf

(* And what the call in progress relies on.                                  *)

\* A source to be windowed is not libavformat's to write.
PlanHolds(h, c) ==
  c.at = "judged" /\ c.plan = "capture" =>
    \A t \in DOMAIN h : h[t].kind = "queued" => h[t].buf # c.src.buf

\* A packet the caller gets back has lent its bytes to nobody.
Borrowed(c) == c.at \in TakeStages /\ c.src.from = "caller" /\ c.lane = "owned"
LoanEnds(h, c) ==
  Borrowed(c) =>
    /\ \A t \in DOMAIN h : h[t].kind \in Readers => h[t].buf # c.src.buf
    /\ c.made.buf # c.src.buf

\* A packet built to be kept is nobody else's.
KeptAlone(h, c) ==
  c.at = "built" /\ c.road = "keep" =>
    /\ c.made.from = "caller" /\ c.made.buf # c.src.buf
    /\ \A t \in DOMAIN h : h[t].buf # c.made.buf

InForce(h, c) == PlanHolds(h, c) /\ LoanEnds(h, c) /\ KeptAlone(h, c)

CarriersKept(m, h, c) ==
  /\ Blocks(m) /\ Hands(h) /\ Calls(c)
  /\ Exact(m, h, c)
  /\ AllSound(m, h, c)
  /\ AllApart(Using(h, c))
  /\ InForce(h, c)

CarriersInv == CarriersKept(mem, hand, call)

-----------------------------------------------------------------------------
(* Buffers and their counts *)

\* What a buffer is does not change while it lives.
SameBlocks(m, n) ==
  \A x \in DOMAIN m \cap DOMAIN n : n[x].size = m[x].size /\ n[x].tail = m[x].tail

LEMMA ReferencedBlocks ==
  ASSUME NEW m, Blocks(m), NEW b
  PROVE  /\ Blocks(Referenced(m, b)) /\ DOMAIN Referenced(m, b) = DOMAIN m
         /\ SameBlocks(m, Referenced(m, b))
         /\ b \in DOMAIN m => \A x \in Buffers :
              Refs(Referenced(m, b), x) = Refs(m, x) + Is(b, x)
         /\ b \notin DOMAIN m => \A x \in Buffers : Refs(Referenced(m, b), x) = Refs(m, x)
<1> DEFINE n == Referenced(m, b)
<1>1. DOMAIN n = DOMAIN m
  BY DEF Referenced
<1>2. \A x \in DOMAIN m : n[x] = IF x = b THEN [m[x] EXCEPT !.refs = @ + 1] ELSE m[x]
  BY DEF Referenced
<1>3. ASSUME NEW x \in DOMAIN m
      PROVE  /\ n[x] \in [size : Nat, tail : Endings, refs : Nat \ {0}]
             /\ n[x].size = m[x].size /\ n[x].tail = m[x].tail
             /\ n[x].refs = m[x].refs + Is(b, x)
  <2>1. m[x] \in [size : Nat, tail : Endings, refs : Nat \ {0}]
    BY DEF Blocks
  <2>2. CASE x = b
    <3>1. n[x] = [m[x] EXCEPT !.refs = m[x].refs + 1]
      BY <1>2, <2>2
    <3>2. m[x].refs + 1 \in Nat \ {0}
      BY <2>1
    <3>3. /\ n[x] \in [size : Nat, tail : Endings, refs : Nat \ {0}]
          /\ n[x].size = m[x].size /\ n[x].tail = m[x].tail
          /\ n[x].refs = m[x].refs + 1
      BY <2>1, <3>1, <3>2
    <3> QED  BY <2>2, <3>3 DEF Is
  <2>3. CASE x # b
    <3>1. n[x] = m[x]
      BY <1>2, <2>3
    <3>2. Is(b, x) = 0
      BY <2>3 DEF Is
    <3> QED  BY <2>1, <3>1, <3>2
  <2> QED  BY <2>2, <2>3
<1>4. n \in [DOMAIN n -> [size : Nat, tail : Endings, refs : Nat \ {0}]]
  BY <1>1, <1>3 DEF Referenced
<1>5. Blocks(n)
  BY <1>1, <1>4 DEF Blocks
<1>6. \A x \in Buffers : b \in DOMAIN m => Refs(n, x) = Refs(m, x) + Is(b, x)
  BY <1>1, <1>3 DEF Refs, Is
<1>7. \A x \in Buffers : b \notin DOMAIN m => Refs(n, x) = Refs(m, x)
  BY <1>1, <1>2 DEF Refs
<1> QED
  BY <1>1, <1>3, <1>5, <1>6, <1>7 DEF SameBlocks

LEMMA UnreferencedBlocks ==
  ASSUME NEW m, Blocks(m), NEW b
  PROVE  /\ Blocks(Unreferenced(m, b)) /\ DOMAIN Unreferenced(m, b) \subseteq DOMAIN m
         /\ SameBlocks(m, Unreferenced(m, b))
         /\ b \in DOMAIN m => \A x \in Buffers :
              Refs(Unreferenced(m, b), x) = Refs(m, x) - Is(b, x)
         /\ b \notin DOMAIN m => \A x \in Buffers : Refs(Unreferenced(m, b), x) = Refs(m, x)
<1> DEFINE n == Unreferenced(m, b)
           kept == {y \in DOMAIN m : y # b \/ m[y].refs > 1}
<1>1. DOMAIN n = kept
  BY DEF Unreferenced
<1>2. \A x \in kept : n[x] = IF x = b THEN [m[x] EXCEPT !.refs = @ - 1] ELSE m[x]
  BY DEF Unreferenced
<1>3. ASSUME NEW x \in kept
      PROVE  /\ n[x] \in [size : Nat, tail : Endings, refs : Nat \ {0}]
             /\ n[x].size = m[x].size /\ n[x].tail = m[x].tail
             /\ n[x].refs = m[x].refs - Is(b, x)
  <2>1. m[x] \in [size : Nat, tail : Endings, refs : Nat \ {0}]
    BY DEF Blocks
  <2>2. CASE x = b
    <3>1. n[x] = [m[x] EXCEPT !.refs = m[x].refs - 1]
      BY <1>2, <2>2
    <3>2. m[x].refs - 1 \in Nat \ {0}
      BY <2>1, <2>2
    <3>3. /\ n[x] \in [size : Nat, tail : Endings, refs : Nat \ {0}]
          /\ n[x].size = m[x].size /\ n[x].tail = m[x].tail
          /\ n[x].refs = m[x].refs - 1
      BY <2>1, <3>1, <3>2
    <3> QED  BY <2>2, <3>3 DEF Is
  <2>3. CASE x # b
    <3>1. n[x] = m[x]
      BY <1>2, <2>3
    <3>2. Is(b, x) = 0
      BY <2>3 DEF Is
    <3> QED  BY <2>1, <3>1, <3>2
  <2> QED  BY <2>2, <2>3
<1>4. n \in [DOMAIN n -> [size : Nat, tail : Endings, refs : Nat \ {0}]]
  BY <1>1, <1>3 DEF Unreferenced
<1>5. Blocks(n)
  BY <1>1, <1>4 DEF Blocks
<1>6. ASSUME NEW x \in Buffers, b \in DOMAIN m
      PROVE  Refs(n, x) = Refs(m, x) - Is(b, x)
  <2>1. CASE x \in kept
    BY <1>1, <1>3, <1>6, <2>1 DEF Refs, Is
  <2>2. CASE x \notin kept /\ x \in DOMAIN m
    <3>1. x = b /\ m[x].refs = 1
      BY <2>2 DEF Blocks
    <3> QED  BY <1>1, <2>2, <3>1 DEF Refs, Is
  <2>3. CASE x \notin DOMAIN m
    BY <1>1, <1>6, <2>3 DEF Refs, Is
  <2> QED  BY <2>1, <2>2, <2>3
<1>7. \A x \in Buffers : b \notin DOMAIN m => Refs(n, x) = Refs(m, x)
  BY <1>1, <1>2 DEF Refs
<1> QED
  BY <1>1, <1>3, <1>5, <1>6, <1>7 DEF SameBlocks

LEMMA AllocBlocks ==
  ASSUME NEW m, Blocks(m), NEW b \in Buffers \ DOMAIN m,
         NEW size \in Nat, NEW tail \in Endings
  PROVE  /\ Blocks(Alloc(m, b, size, tail))
         /\ DOMAIN Alloc(m, b, size, tail) = DOMAIN m \cup {b}
         /\ SameBlocks(m, Alloc(m, b, size, tail))
         /\ Alloc(m, b, size, tail)[b].size = size /\ Alloc(m, b, size, tail)[b].tail = tail
         /\ \A x \in Buffers : Refs(Alloc(m, b, size, tail), x) = Refs(m, x) + Is(b, x)
<1> DEFINE n == Alloc(m, b, size, tail)
<1>1. DOMAIN n = DOMAIN m \cup {b}
  BY DEF Alloc
<1>2. /\ n[b] = [size |-> size, tail |-> tail, refs |-> 1]
      /\ \A x \in DOMAIN m : n[x] = m[x]
  BY DEF Alloc
<1>3. \A x \in DOMAIN n : n[x] \in [size : Nat, tail : Endings, refs : Nat \ {0}]
  BY <1>1, <1>2 DEF Blocks
<1>4. n \in [DOMAIN n -> [size : Nat, tail : Endings, refs : Nat \ {0}]]
  BY <1>1, <1>3 DEF Alloc
<1>5. Blocks(n)
  BY <1>1, <1>4 DEF Blocks
<1>6. \A x \in Buffers : Refs(n, x) = Refs(m, x) + Is(b, x)
  BY <1>1, <1>2 DEF Refs, Is, Blocks
<1> QED
  BY <1>1, <1>2, <1>5, <1>6 DEF SameBlocks

LEMMA RefsNat ==
  ASSUME NEW m, Blocks(m), NEW x
  PROVE  Refs(m, x) \in Nat /\ (x \in DOMAIN m <=> Refs(m, x) > 0)
BY DEF Blocks, Refs

-----------------------------------------------------------------------------
(* Handles *)

LEMMA HandsFinite ==
  ASSUME NEW h, Hands(h), NEW b
  PROVE  IsFiniteSet({t \in DOMAIN h : h[t].buf = b}) /\ InHands(h, b) \in Nat
<1>1. IsFiniteSet(Handles)
  BY CarrierAssumption
<1>2. {t \in DOMAIN h : h[t].buf = b} \subseteq Handles
  BY DEF Hands
<1>3. IsFiniteSet({t \in DOMAIN h : h[t].buf = b})
  BY <1>1, <1>2, FS_Subset
<1> QED
  BY <1>3, FS_CardinalityType DEF InHands

LEMMA GivenHands ==
  ASSUME NEW h, Hands(h), NEW t \in Handles \ DOMAIN h,
         NEW r \in References, r.kind \in HandKinds
  PROVE  /\ Hands(Given(h, t, r)) /\ DOMAIN Given(h, t, r) = DOMAIN h \cup {t}
         /\ Given(h, t, r)[t] = r
         /\ \A u \in DOMAIN h : Given(h, t, r)[u] = h[u]
         /\ \A b : InHands(Given(h, t, r), b) = InHands(h, b) + Is(r.buf, b)
<1> DEFINE g == Given(h, t, r)
<1>1. DOMAIN g = DOMAIN h \cup {t} /\ g[t] = r /\ \A u \in DOMAIN h : g[u] = h[u]
  BY DEF Given
<1>2. Hands(g)
  BY <1>1 DEF Given, Hands
<1>3. ASSUME NEW b
      PROVE  InHands(g, b) = InHands(h, b) + Is(r.buf, b)
  <2> DEFINE before == {u \in DOMAIN h : h[u].buf = b}
             after == {u \in DOMAIN g : g[u].buf = b}
  <2>1. IsFiniteSet(before) /\ InHands(h, b) \in Nat
    BY HandsFinite
  <2>2. CASE r.buf = b
    <3>1. after = before \cup {t} /\ t \notin before
      BY <1>1, <2>2
    <3>2. Cardinality(before \cup {t}) = Cardinality(before) + 1
      BY <2>1, <3>1, FS_AddElement
    <3> QED  BY <2>2, <3>1, <3>2 DEF InHands, Is
  <2>3. CASE r.buf # b
    <3>1. after = before
      BY <1>1, <2>3
    <3> QED  BY <2>1, <2>3, <3>1 DEF InHands, Is
  <2> QED  BY <2>2, <2>3
<1> QED
  BY <1>1, <1>2, <1>3

LEMMA WithoutHands ==
  ASSUME NEW h, Hands(h), NEW t \in DOMAIN h
  PROVE  /\ Hands(Without(h, t)) /\ DOMAIN Without(h, t) = DOMAIN h \ {t}
         /\ \A u \in DOMAIN h \ {t} : Without(h, t)[u] = h[u]
         /\ \A b : InHands(Without(h, t), b) = InHands(h, b) - Is(h[t].buf, b)
<1> DEFINE g == Without(h, t)
<1>1. DOMAIN g = DOMAIN h \ {t} /\ \A u \in DOMAIN h \ {t} : g[u] = h[u]
  BY DEF Without
<1>2. Hands(g)
  BY <1>1 DEF Without, Hands
<1>3. ASSUME NEW b
      PROVE  InHands(g, b) = InHands(h, b) - Is(h[t].buf, b)
  <2> DEFINE before == {u \in DOMAIN h : h[u].buf = b}
             after == {u \in DOMAIN g : g[u].buf = b}
  <2>1. IsFiniteSet(before) /\ InHands(h, b) \in Nat
    BY HandsFinite
  <2>2. CASE h[t].buf = b
    <3>1. after = before \ {t} /\ t \in before
      BY <1>1, <2>2
    <3>2. Cardinality(before \ {t}) = Cardinality(before) - 1
      BY <2>1, <3>1, FS_RemoveElement
    <3> QED  BY <2>2, <3>1, <3>2 DEF InHands, Is
  <2>3. CASE h[t].buf # b
    <3>1. after = before
      BY <1>1, <2>3
    <3> QED  BY <2>1, <2>3, <3>1 DEF InHands, Is
  <2> QED  BY <2>2, <2>3
<1> QED
  BY <1>1, <1>2, <1>3

\* A change that leaves every handle its buffer leaves the counts.
LEMMA SameHands ==
  ASSUME NEW h, NEW g, DOMAIN g = DOMAIN h, \A t \in DOMAIN h : g[t].buf = h[t].buf, NEW b
  PROVE  InHands(g, b) = InHands(h, b)
<1>1. {t \in DOMAIN g : g[t].buf = b} = {t \in DOMAIN h : h[t].buf = b}
  OBVIOUS
<1> QED
  BY <1>1 DEF InHands

-----------------------------------------------------------------------------
(* References *)

LEMMA HolderMade ==
  ASSUME NEW kind \in AnyKind, NEW buf \in Buffers \cup {NoBuffer}, NEW off \in Nat,
         NEW len \in Nat, NEW from \in Givers
  PROVE  /\ Holder(kind, buf, off, len, from) \in References
         /\ Holder(kind, buf, off, len, from).kind = kind
         /\ Holder(kind, buf, off, len, from).buf = buf
         /\ Holder(kind, buf, off, len, from).off = off
         /\ Holder(kind, buf, off, len, from).len = len
         /\ Holder(kind, buf, off, len, from).from = from
         /\ Holder(kind, buf, off, len, from).stands
BY DEF Holder, References

LEMMA NobodyMade ==
  /\ Nobody \in References /\ Nobody.kind = "nobody" /\ Nobody.buf = NoBuffer
  /\ Nobody.stands /\ Nobody.from = "foreign" /\ Nobody.len = 0 /\ Nobody.off = 0
BY DEF Nobody, Holder, References, AnyKind, Givers

LEMMA AsMade ==
  ASSUME NEW r \in References, NEW kind \in AnyKind
  PROVE  /\ As(r, kind) \in References /\ As(r, kind).kind = kind
         /\ As(r, kind).buf = r.buf /\ As(r, kind).off = r.off /\ As(r, kind).len = r.len
         /\ As(r, kind).from = r.from /\ As(r, kind).stands = r.stands
BY DEF As, References

LEMMA CallRefs ==
  ASSUME NEW c, Calls(c)
  PROVE  c.src \in References /\ c.made \in References
<1>1. CASE c = Idle
  BY <1>1, NobodyMade DEF Idle
<1>2. CASE c \in Taking
  BY <1>2 DEF Taking
<1>3. CASE c \in Building
  BY <1>3 DEF Building
<1>4. CASE c \in Reserving
  BY <1>4 DEF Reserving
<1> QED
  BY <1>1, <1>2, <1>3, <1>4 DEF Calls

LEMMA UsingRefs ==
  ASSUME NEW h, Hands(h), NEW c, Calls(c)
  PROVE  /\ Using(h, c) \subseteq References
         /\ \A t \in DOMAIN h : h[t] \in References /\ h[t] \in Using(h, c)
         /\ c.src \in Using(h, c) /\ c.made \in Using(h, c)
BY CallRefs DEF Using, Hands

\* A buffer somebody holds is there.
LEMMA Alive ==
  ASSUME NEW m, NEW h, NEW c, Blocks(m), Hands(h), Calls(c), Exact(m, h, c),
         NEW r \in Using(h, c), r.buf \in Buffers
  PROVE  r.buf \in DOMAIN m
<1> DEFINE b == r.buf
<1>1. Refs(m, b) = InHands(h, b) + InCall(c, b)
  BY DEF Exact
<1>2. InHands(h, b) \in Nat /\ Refs(m, b) \in Nat /\ (b \in DOMAIN m <=> Refs(m, b) > 0)
  BY HandsFinite, RefsNat
<1>3. Is(c.src.buf, b) \in 0..1 /\ Is(c.made.buf, b) \in 0..1
  BY DEF Is
<1>4. CASE r = c.src \/ r = c.made
  <2>1. Is(c.src.buf, b) = 1 \/ Is(c.made.buf, b) = 1
    BY <1>4 DEF Is
  <2> QED  BY <1>1, <1>2, <1>3, <2>1 DEF InCall
<1>5. CASE r \in {h[t] : t \in DOMAIN h}
  <2>1. PICK t \in DOMAIN h : r = h[t]
    BY <1>5
  <2> DEFINE S == {u \in DOMAIN h : h[u].buf = b}
  <2>2. S # {} /\ IsFiniteSet(S)
    BY <2>1, HandsFinite
  <2>3. Cardinality(S) # 0
    BY <2>2, FS_EmptySet
  <2>4. InHands(h, b) # 0
    BY <2>3 DEF InHands
  <2> QED  BY <1>1, <1>2, <1>3, <2>4 DEF InCall
<1> QED
  BY <1>4, <1>5 DEF Using

LEMMA Unused ==
  ASSUME NEW m, NEW h, NEW c, Blocks(m), Hands(h), Calls(c), Exact(m, h, c),
         NEW b \in Buffers \ DOMAIN m
  PROVE  \A r \in Using(h, c) : r.buf # b
BY Alive

\* A buffer with one reference has one holder.
LEMMA Alone ==
  ASSUME NEW m, NEW h, NEW c, Blocks(m), Hands(h), Calls(c), Exact(m, h, c),
         NEW b \in DOMAIN m, m[b].refs <= 1
  PROVE  /\ c.src.buf = b => /\ c.made.buf # b
                             /\ \A t \in DOMAIN h : h[t].buf # b
         /\ \A t \in DOMAIN h : h[t].buf = b => /\ c.src.buf # b /\ c.made.buf # b
                                               /\ \A u \in DOMAIN h : h[u].buf = b => u = t
<1> DEFINE S == {u \in DOMAIN h : h[u].buf = b}
<1>1. b \in Buffers /\ Refs(m, b) <= 1
  BY DEF Blocks, Refs
<1>2. Refs(m, b) = InHands(h, b) + InCall(c, b)
  BY <1>1 DEF Exact
<1>3. InHands(h, b) \in Nat /\ Refs(m, b) \in Nat /\ IsFiniteSet(S) /\ InHands(h, b) = Cardinality(S)
  BY HandsFinite, RefsNat DEF InHands
<1>4. Is(c.src.buf, b) \in 0..1 /\ Is(c.made.buf, b) \in 0..1
  BY DEF Is
<1>5. Is(c.src.buf, b) + Is(c.made.buf, b) + Cardinality(S) <= 1
  BY <1>1, <1>2, <1>3, <1>4 DEF InCall
<1>6. ASSUME NEW t \in S
      PROVE  Cardinality(S \ {t}) = Cardinality(S) - 1 /\ Cardinality(S \ {t}) \in Nat
             /\ IsFiniteSet(S \ {t})
  BY <1>3, FS_RemoveElement, FS_CardinalityType
<1>7. ASSUME NEW t \in S
      PROVE  S \ {t} = {} /\ Is(c.src.buf, b) = 0 /\ Is(c.made.buf, b) = 0
  <2>1. Cardinality(S \ {t}) = 0 /\ Is(c.src.buf, b) = 0 /\ Is(c.made.buf, b) = 0
    BY <1>3, <1>4, <1>5, <1>6
  <2> QED  BY <1>6, <2>1, FS_EmptySet
<1>8. ASSUME c.src.buf = b
      PROVE  c.made.buf # b /\ S = {}
  <2>1. Is(c.src.buf, b) = 1
    BY <1>8 DEF Is
  <2>2. S = {}
    BY <1>7, <2>1
  <2>3. Is(c.made.buf, b) = 0
    BY <1>3, <1>4, <1>5, <2>1
  <2> QED  BY <2>2, <2>3 DEF Is
<1>9. ASSUME NEW t \in DOMAIN h, h[t].buf = b
      PROVE  c.src.buf # b /\ c.made.buf # b /\ \A u \in DOMAIN h : h[u].buf = b => u = t
  <2>1. t \in S
    BY <1>9
  <2>2. S \ {t} = {} /\ Is(c.src.buf, b) = 0 /\ Is(c.made.buf, b) = 0
    BY <1>7, <2>1
  <2> QED  BY <2>2 DEF Is
<1> QED
  BY <1>8, <1>9

-----------------------------------------------------------------------------
(* A step *)

\* n stands where s did, and may do no more.
Follows(n, s) ==
  /\ n.buf = s.buf
  /\ n.kind \in Writers => s.kind \in Writers
  /\ n.kind \in Readers => s.kind \in Readers
  /\ n.kind \in Lent => s.kind \in Lent
  /\ n.kind = "queued" => s.kind = "queued"
  /\ Pictured(n) => Pictured(s)

Own(n, U) == \A r \in U : Clash(n, r) \/ Clash(r, n) => r.buf # n.buf

LEMMA SoundStays ==
  ASSUME NEW m, NEW n, Blocks(m), Blocks(n), SameBlocks(m, n),
         NEW r \in References, Sound(r, m), r.buf \in Buffers => r.buf \in DOMAIN n
  PROVE  Sound(r, n)
<1>1. r.buf \in DOMAIN m => r.buf \in DOMAIN n /\ n[r.buf].size = m[r.buf].size
                             /\ n[r.buf].tail = m[r.buf].tail
  BY DEF SameBlocks, Blocks
<1>2. ASSUME NEW tails, Behind(r, m, tails)
      PROVE  Behind(r, n, tails)
  BY <1>1, <1>2 DEF Behind
<1>3. r.kind \in {"built", "codec"} => Inside(r, n)
  BY <1>1 DEF Sound, Inside, Behind
<1> QED
  BY <1>2, <1>3 DEF Sound

LEMMA ApartStays ==
  ASSUME NEW U, NEW V, AllApart(U), \A n \in V : Own(n, V) \/ \E s \in U : Follows(n, s)
  PROVE  AllApart(V)
<1>1. SUFFICES ASSUME NEW r \in V, NEW s \in V, Clash(r, s)
               PROVE  r.buf # s.buf
  BY DEF AllApart
<1>2. CASE Own(r, V) \/ Own(s, V)
  BY <1>1, <1>2 DEF Own
<1>3. CASE ~(Own(r, V) \/ Own(s, V))
  <2>1. PICK x \in U : Follows(r, x)
    BY <1>3
  <2>2. PICK y \in U : Follows(s, y)
    BY <1>3
  <2>3. Clash(x, y)
    BY <1>1, <2>1, <2>2 DEF Clash, Follows
  <2> QED  BY <2>1, <2>2, <2>3 DEF AllApart, Follows
<1> QED
  BY <1>2, <1>3

LEMMA Step ==
  ASSUME NEW m, NEW h, NEW c, CarriersKept(m, h, c),
         NEW n, NEW g, NEW d,
         Blocks(n), SameBlocks(m, n), Hands(g), Calls(d), Exact(n, g, d),
         \A r \in Using(g, d) : r \in Using(h, c) \/ Sound(r, n),
         \A r \in Using(g, d) : Own(r, Using(g, d)) \/ \E s \in Using(h, c) : Follows(r, s),
         InForce(g, d)
  PROVE  CarriersKept(n, g, d)
<1>1. AllApart(Using(g, d))
  BY ApartStays DEF CarriersKept
<1>2. ASSUME NEW r \in Using(g, d)
      PROVE  Sound(r, n)
  <2>1. r.buf \in Buffers => r.buf \in DOMAIN n
    BY Alive
  <2>2. r \in References
    BY UsingRefs
  <2>3. CASE r \in Using(h, c)
    BY <2>1, <2>2, <2>3, SoundStays DEF CarriersKept, AllSound
  <2> QED  BY <2>3
<1> QED
  BY <1>1, <1>2 DEF CarriersKept, AllSound

LEMMA FollowsSelf ==
  ASSUME NEW r
  PROVE  Follows(r, r)
BY DEF Follows

\* A reference over a buffer that was not there, if the others over it agree.
LEMMA OwnFresh ==
  ASSUME NEW m, NEW h, NEW c, CarriersKept(m, h, c),
         NEW r, r.buf \in Buffers \ DOMAIN m,
         NEW V, \A s \in V : \/ \E x \in Using(h, c) : x.buf = s.buf
                             \/ ~Clash(r, s) /\ ~Clash(s, r)
  PROVE  Own(r, V)
<1>1. \A x \in Using(h, c) : x.buf # r.buf
  BY Unused DEF CarriersKept
<1> QED
  BY <1>1 DEF Own

-----------------------------------------------------------------------------
(* The steps of other threads and of the libraries *)

LEMMA FreshBuffer ==
  ASSUME Fresh # {}
  PROVE  NewBuffer \in Buffers \ DOMAIN mem
BY DEF Fresh, NewBuffer

LEMMA IsBit == ASSUME NEW x, NEW b PROVE Is(x, b) \in {0, 1} /\ Is(x, b) \in Int
BY DEF Is

LEMMA InCallNat == ASSUME NEW c, NEW b PROVE InCall(c, b) \in Nat
BY IsBit DEF InCall

LEMMA ForceStays ==
  ASSUME NEW h, NEW c, InForce(h, c), NEW g,
         \A t \in DOMAIN g : \/ \E u \in DOMAIN h : Follows(g[t], h[u])
                             \/ g[t].buf # c.src.buf /\ g[t].buf # c.made.buf
  PROVE  InForce(g, c)
<1>1. PlanHolds(g, c)
  BY DEF InForce, PlanHolds, Follows
<1>2. LoanEnds(g, c)
  BY DEF InForce, LoanEnds, Follows
<1>3. KeptAlone(g, c)
  BY DEF InForce, KeptAlone, Follows
<1> QED
  BY <1>1, <1>2, <1>3 DEF InForce

\* One more reference, outside the call.
LEMMA GivenStep ==
  ASSUME CarriersInv, NEW t \in Free, NEW r \in References, r.kind \in HandKinds,
         NEW n, Blocks(n), SameBlocks(mem, n),
         \A b \in Buffers : Refs(n, b) = Refs(mem, b) + Is(r.buf, b),
         Sound(r, n),
         \/ r.buf \in Buffers \ DOMAIN mem
         \/ \E u \in DOMAIN hand : Follows(r, hand[u])
  PROVE  CarriersKept(n, Given(hand, t, r), call)
<1> DEFINE g == Given(hand, t, r)
<1>1. Hands(hand) /\ Blocks(mem) /\ Calls(call) /\ Exact(mem, hand, call)
      /\ InForce(hand, call) /\ CarriersKept(mem, hand, call)
  BY DEF CarriersInv, CarriersKept
<1>2. t \in Handles \ DOMAIN hand
  BY DEF Free
<1>3. /\ Hands(g) /\ DOMAIN g = DOMAIN hand \cup {t} /\ g[t] = r
      /\ \A u \in DOMAIN hand : g[u] = hand[u]
      /\ \A b : InHands(g, b) = InHands(hand, b) + Is(r.buf, b)
  BY <1>1, <1>2, GivenHands
<1>4. Using(g, call) = Using(hand, call) \cup {r}
  BY <1>3 DEF Using
<1>5. Exact(n, g, call)
  <2>1. SUFFICES ASSUME NEW b \in Buffers
                 PROVE  Refs(n, b) = InHands(g, b) + InCall(call, b)
    BY DEF Exact
  <2>2. Refs(mem, b) = InHands(hand, b) + InCall(call, b)
    BY <1>1 DEF Exact
  <2>3. InHands(hand, b) \in Nat /\ Is(r.buf, b) \in Int /\ InCall(call, b) \in Nat
    BY <1>1, HandsFinite, IsBit, InCallNat
  <2> QED  BY <1>3, <2>2, <2>3
<1>6. \A x \in Using(hand, call) : Follows(x, x)
  BY FollowsSelf
<1>7. CASE r.buf \in Buffers \ DOMAIN mem
  <2>1. \A x \in Using(hand, call) : x.buf # r.buf
    BY <1>1, <1>7, Unused
  <2>2. call.src.buf # r.buf /\ call.made.buf # r.buf
    BY <1>1, <2>1, UsingRefs
  <2>3. InForce(g, call)
    <3>1. \A u \in DOMAIN g : \/ \E v \in DOMAIN hand : Follows(g[u], hand[v])
                              \/ g[u].buf # call.src.buf /\ g[u].buf # call.made.buf
      BY <1>3, <2>2, FollowsSelf
    <3> QED  BY <1>1, <3>1, ForceStays
  <2>4. Own(r, Using(g, call))
    BY <1>4, <2>1 DEF Own, Clash, Writers, Readers, Lent, Pictured, Sources
  <2> QED  BY <1>1, <1>3, <1>4, <1>5, <1>6, <2>3, <2>4, Step
<1>8. CASE \E u \in DOMAIN hand : Follows(r, hand[u])
  <2>1. InForce(g, call)
    <3>1. \A u \in DOMAIN g : \/ \E v \in DOMAIN hand : Follows(g[u], hand[v])
                              \/ g[u].buf # call.src.buf /\ g[u].buf # call.made.buf
      BY <1>3, <1>8, FollowsSelf
    <3> QED  BY <1>1, <3>1, ForceStays
  <2>2. \E s \in Using(hand, call) : Follows(r, s)
    BY <1>8 DEF Using
  <2> QED  BY <1>1, <1>3, <1>4, <1>5, <1>6, <2>1, <2>2, Step
<1> QED
  BY <1>7, <1>8

LEMMA InvParts ==
  ASSUME CarriersInv
  PROVE  /\ Blocks(mem) /\ Hands(hand) /\ Calls(call) /\ Exact(mem, hand, call)
         /\ AllSound(mem, hand, call) /\ AllApart(Using(hand, call)) /\ InForce(hand, call)
         /\ CarriersKept(mem, hand, call)
         /\ call.src \in References /\ call.made \in References
         /\ Sound(call.src, mem) /\ Sound(call.made, mem)
         /\ \A t \in DOMAIN hand :
              hand[t] \in References /\ hand[t].kind \in HandKinds /\ Sound(hand[t], mem)
BY UsingRefs DEF CarriersInv, CarriersKept, AllSound, Hands

LEMMA NoBufferIsNone == NoBuffer \notin Buffers /\ Padding \in Nat /\ Budget \in Nat
BY CarrierAssumption

\* A reference to the bytes of another one counts once more.
LEMMA ReferencedFrom ==
  ASSUME CarriersInv, NEW r \in Using(hand, call)
  PROVE  \A b \in Buffers : Refs(Referenced(mem, r.buf), b) = Refs(mem, b) + Is(r.buf, b)
<1>1. CASE r.buf \in Buffers
  <2>1. r.buf \in DOMAIN mem
    BY <1>1, InvParts, Alive
  <2> QED  BY <2>1, InvParts, ReferencedBlocks
<1>2. CASE r.buf \notin Buffers
  <2>1. r.buf \notin DOMAIN mem /\ \A b \in Buffers : Is(r.buf, b) = 0
    BY <1>2, InvParts DEF Blocks, Is
  <2>2. Blocks(mem)
    BY InvParts
  <2>3. \A b \in Buffers : Refs(mem, b) \in Nat
    BY <2>2, RefsNat
  <2>4. \A b \in Buffers : Refs(Referenced(mem, r.buf), b) = Refs(mem, b)
    BY <2>1, <2>2, ReferencedBlocks
  <2> QED  BY <2>1, <2>3, <2>4
<1> QED
  BY <1>1, <1>2

LEMMA UnreferencedFrom ==
  ASSUME CarriersInv, NEW r \in Using(hand, call)
  PROVE  \A b \in Buffers : Refs(Unreferenced(mem, r.buf), b) = Refs(mem, b) - Is(r.buf, b)
<1>1. CASE r.buf \in Buffers
  <2>1. r.buf \in DOMAIN mem
    BY <1>1, InvParts, Alive
  <2> QED  BY <2>1, InvParts, UnreferencedBlocks
<1>2. CASE r.buf \notin Buffers
  <2>1. r.buf \notin DOMAIN mem /\ \A b \in Buffers : Is(r.buf, b) = 0
    BY <1>2, InvParts DEF Blocks, Is
  <2>2. Blocks(mem)
    BY InvParts
  <2>3. \A b \in Buffers : Refs(mem, b) \in Nat
    BY <2>2, RefsNat
  <2>4. \A b \in Buffers : Refs(Unreferenced(mem, r.buf), b) = Refs(mem, b)
    BY <2>1, <2>2, UnreferencedBlocks
  <2> QED  BY <2>1, <2>3, <2>4
<1> QED
  BY <1>1, <1>2

LEMMA FreshAlloc ==
  ASSUME CarriersInv, Fresh # {}, NEW size \in Nat, NEW tail \in Endings
  PROVE  LET n == Alloc(mem, NewBuffer, size, tail)
         IN /\ NewBuffer \in Buffers \ DOMAIN mem
            /\ Blocks(n) /\ SameBlocks(mem, n) /\ DOMAIN n = DOMAIN mem \cup {NewBuffer}
            /\ n[NewBuffer].size = size /\ n[NewBuffer].tail = tail
            /\ \A b \in Buffers : Refs(n, b) = Refs(mem, b) + Is(NewBuffer, b)
<1> DEFINE n == Alloc(mem, NewBuffer, size, tail)
<1>1. NewBuffer \in Buffers \ DOMAIN mem /\ Blocks(mem)
  BY FreshBuffer, InvParts
<1>2. n = Alloc(mem, NewBuffer, size, tail)
  OBVIOUS
<1> HIDE DEF n
<1>3. /\ Blocks(n) /\ SameBlocks(mem, n) /\ DOMAIN n = DOMAIN mem \cup {NewBuffer}
      /\ n[NewBuffer].size = size /\ n[NewBuffer].tail = tail
      /\ \A b \in Buffers : Refs(n, b) = Refs(mem, b) + Is(NewBuffer, b)
  BY <1>1, <1>2, AllocBlocks
<1> QED
  BY <1>1, <1>3 DEF n

\* A packet with the bytes of another in a buffer of its own.
LEMMA OwnPacketMade ==
  ASSUME CarriersInv, Fresh # {}, NEW len \in Nat, NEW kind \in Writers \cup {"built", "codec"},
         kind # "packet" => len <= Budget
  PROVE  LET n == PaddedAlloc(mem, len)
             r == Holder(kind, NewBuffer, 0, len, "caller")
         IN /\ r \in References /\ r.kind = kind /\ r.buf = NewBuffer /\ r.from = "caller"
            /\ NewBuffer \in Buffers \ DOMAIN mem
            /\ Blocks(n) /\ SameBlocks(mem, n) /\ DOMAIN n = DOMAIN mem \cup {NewBuffer}
            /\ \A b \in Buffers : Refs(n, b) = Refs(mem, b) + Is(NewBuffer, b)
            /\ Sound(r, n)
<1> DEFINE n == PaddedAlloc(mem, len)
           r == Holder(kind, NewBuffer, 0, len, "caller")
<1>1. NewBuffer \in Buffers \ DOMAIN mem
  BY FreshBuffer
<1>2. kind \in AnyKind /\ "caller" \in Givers /\ NewBuffer \in Buffers \cup {NoBuffer}
  BY <1>1 DEF AnyKind, HandKinds, Writers, Givers
<1>3. /\ r \in References /\ r.kind = kind /\ r.buf = NewBuffer /\ r.off = 0
      /\ r.len = len /\ r.from = "caller" /\ r.stands
  BY <1>2, HolderMade
<1>4. len + Padding \in Nat /\ "zeroes" \in Endings
  BY NoBufferIsNone DEF Endings
<1>5. /\ Blocks(n) /\ SameBlocks(mem, n) /\ DOMAIN n = DOMAIN mem \cup {NewBuffer}
      /\ n[NewBuffer].size = len + Padding /\ n[NewBuffer].tail = "zeroes"
      /\ \A b \in Buffers : Refs(n, b) = Refs(mem, b) + Is(NewBuffer, b)
  BY <1>4, FreshAlloc DEF PaddedAlloc
<1>6. Behind(r, n, {"unknown", "zeroes"}) /\ Behind(r, n, {"libavformat", "zeroes"})
      /\ Behind(r, n, {"zeroes"})
  BY <1>3, <1>5 DEF Behind
<1>7. kind # "packet" => Inside(r, n)
  BY <1>3, <1>5, NoBufferIsNone DEF Inside
<1>8. Sound(r, n)
  BY <1>1, <1>3, <1>6, <1>7, NoBufferIsNone DEF Sound, Sources, PictureKinds, Writers
<1> QED
  BY <1>1, <1>3, <1>5, <1>8

LEMMA MakesPacketKeeps ==
  ASSUME CarriersInv, MakesPacket
  PROVE  CarriersInv'
<1>1. PICK s \in CallerShapes, t \in Free :
        /\ mem' = Alloc(mem, NewBuffer, s.size, "unknown")
        /\ hand' = Given(hand, t, Holder("packet", NewBuffer, s.off, s.len, "caller"))
        /\ call' = call /\ Fresh # {}
  BY DEF MakesPacket
<1> DEFINE n == Alloc(mem, NewBuffer, s.size, "unknown")
           r == Holder("packet", NewBuffer, s.off, s.len, "caller")
<1>2. NewBuffer \in Buffers \ DOMAIN mem
  BY <1>1, FreshBuffer
<1>3. s \in [size : Nat, off : Nat, len : Nat]
  BY CarrierAssumption
<1>4. "packet" \in AnyKind /\ "caller" \in Givers /\ "unknown" \in Endings
      /\ "packet" \in HandKinds
  BY DEF AnyKind, HandKinds, Givers, Endings
<1>5. /\ r \in References /\ r.kind = "packet" /\ r.buf = NewBuffer
      /\ r.from = "caller" /\ r.stands
  BY <1>2, <1>3, <1>4, HolderMade
<1>6. /\ Blocks(n) /\ SameBlocks(mem, n) /\ DOMAIN n = DOMAIN mem \cup {NewBuffer}
      /\ n[NewBuffer].tail = "unknown"
      /\ \A b \in Buffers : Refs(n, b) = Refs(mem, b) + Is(NewBuffer, b)
  <2>1. s.size \in Nat
    BY <1>3
  <2> QED  BY <1>1, <1>4, <2>1, FreshAlloc
<1>7. Sound(r, n)
  BY <1>2, <1>5, <1>6, NoBufferIsNone DEF Sound, Behind, Sources, PictureKinds
<1>8. CarriersKept(n, Given(hand, t, r), call)
  BY <1>2, <1>4, <1>5, <1>6, <1>7, GivenStep
<1> QED
  BY <1>1, <1>8 DEF CarriersInv

LEMMA ClonesPacketKeeps ==
  ASSUME CarriersInv, NEW u \in DOMAIN hand, ClonesPacket(hand[u])
  PROVE  CarriersInv'
<1> DEFINE p == hand[u]
<1>1. PICK t \in Free :
        \/ mem' = Referenced(mem, p.buf) /\ hand' = Given(hand, t, p)
        \/ /\ Fresh # {} /\ mem' = PaddedAlloc(mem, p.len)
           /\ hand' = Given(hand, t, OwnPacket("packet", p))
  BY DEF ClonesPacket
<1>2. p.kind = "packet" /\ call' = call
  BY DEF ClonesPacket
<1>3. p \in References /\ p.kind \in HandKinds /\ Sound(p, mem) /\ p.len \in Nat
      /\ p \in Using(hand, call)
  BY InvParts DEF References, Using
<1>4. CASE mem' = Referenced(mem, p.buf) /\ hand' = Given(hand, t, p)
  <2> DEFINE n == Referenced(mem, p.buf)
  <2>1. Blocks(n) /\ SameBlocks(mem, n) /\ DOMAIN n = DOMAIN mem
    BY InvParts, ReferencedBlocks
  <2>2. \A b \in Buffers : Refs(n, b) = Refs(mem, b) + Is(p.buf, b)
    BY <1>3, ReferencedFrom
  <2>3. p.buf \in Buffers => p.buf \in DOMAIN n
    BY <1>3, <2>1, InvParts, Alive
  <2>4. Sound(p, n)
    BY <1>3, <2>1, <2>3, InvParts, SoundStays
  <2>5. CarriersKept(n, Given(hand, t, p), call)
    BY <1>3, <2>1, <2>2, <2>4, FollowsSelf, GivenStep
  <2> QED  BY <1>2, <1>4, <2>5 DEF CarriersInv
<1>5. CASE /\ Fresh # {} /\ mem' = PaddedAlloc(mem, p.len)
           /\ hand' = Given(hand, t, OwnPacket("packet", p))
  <2> DEFINE n == PaddedAlloc(mem, p.len)
             r == Holder("packet", NewBuffer, 0, p.len, "caller")
  <2>1. "packet" \in Writers \cup {"built", "codec"} /\ "packet" \in HandKinds
    BY DEF Writers, HandKinds
  <2>2. /\ r \in References /\ r.kind = "packet" /\ r.buf = NewBuffer
        /\ NewBuffer \in Buffers \ DOMAIN mem
        /\ Blocks(n) /\ SameBlocks(mem, n)
        /\ \A b \in Buffers : Refs(n, b) = Refs(mem, b) + Is(NewBuffer, b)
        /\ Sound(r, n)
    BY <1>3, <1>5, <2>1, OwnPacketMade
  <2>3. CarriersKept(n, Given(hand, t, r), call)
    BY <2>1, <2>2, GivenStep
  <2> QED  BY <1>2, <1>5, <2>3 DEF CarriersInv, OwnPacket
<1> QED
  BY <1>1, <1>4, <1>5

LEMMA ClonesCarrierKeeps ==
  ASSUME CarriersInv, NEW u \in DOMAIN hand, ClonesCarrier(hand[u])
  PROVE  CarriersInv'
<1> DEFINE p == hand[u]
           n == Referenced(mem, p.buf)
<1>1. PICK t \in Free : hand' = Given(hand, t, p)
  BY DEF ClonesCarrier
<1>2. mem' = n /\ call' = call
  BY DEF ClonesCarrier
<1>3. p \in References /\ p.kind \in HandKinds /\ Sound(p, mem) /\ p \in Using(hand, call)
  BY InvParts DEF Using
<1>4. Blocks(n) /\ SameBlocks(mem, n) /\ DOMAIN n = DOMAIN mem
  BY InvParts, ReferencedBlocks
<1>5. \A b \in Buffers : Refs(n, b) = Refs(mem, b) + Is(p.buf, b)
  BY <1>3, ReferencedFrom
<1>6. p.buf \in Buffers => p.buf \in DOMAIN n
  BY <1>3, <1>4, InvParts, Alive
<1>7. Sound(p, n)
  BY <1>3, <1>4, <1>6, InvParts, SoundStays
<1>8. CarriersKept(n, Given(hand, t, p), call)
  BY <1>3, <1>4, <1>5, <1>7, FollowsSelf, GivenStep
<1> QED
  BY <1>1, <1>2, <1>8 DEF CarriersInv

\* Bytes nobody reads are written over: nothing else changes.
LEMMA WriteUnread ==
  ASSUME CarriersInv, NEW b, \A r \in Using(hand, call) : r.kind \in Readers => r.buf # b
  PROVE  /\ AfterWrite(hand, b) = hand
         /\ [call EXCEPT !.src = Overwritten(@, b), !.made = Overwritten(@, b)] = call
<1>1. \A r \in Using(hand, call) : Overwritten(r, b) = r
  BY DEF Overwritten
<1>2. \A t \in DOMAIN hand : Overwritten(hand[t], b) = hand[t]
  BY <1>1 DEF Using
<1>3. hand = [t \in DOMAIN hand |-> hand[t]]
  BY InvParts DEF Hands
<1>4. AfterWrite(hand, b) = hand
  BY <1>2, <1>3 DEF AfterWrite
<1>5. Overwritten(call.src, b) = call.src /\ Overwritten(call.made, b) = call.made
  BY <1>1 DEF Using
<1>6. [call EXCEPT !.src = call.src, !.made = call.made] = call
  <2>1. CASE call = Idle
    BY <2>1 DEF Idle
  <2>2. CASE call \in Taking
    BY <2>2 DEF Taking
  <2>3. CASE call \in Building
    BY <2>3 DEF Building
  <2>4. CASE call \in Reserving
    BY <2>4 DEF Reserving
  <2> QED  BY <2>1, <2>2, <2>3, <2>4, InvParts DEF Calls
<1> QED
  BY <1>4, <1>5, <1>6

LEMMA WritesPacketKeeps ==
  ASSUME CarriersInv, NEW u \in DOMAIN hand, WritesPacket(hand[u])
  PROVE  CarriersInv'
<1>1. hand[u].kind = "packet" /\ hand[u] \in Using(hand, call)
  BY DEF WritesPacket, Using
<1>2. \A r \in Using(hand, call) : r.kind \in Readers => r.buf # hand[u].buf
  BY <1>1, InvParts DEF AllApart, Clash, Writers
<1>3. hand' = hand /\ call' = call /\ mem' = mem
  BY <1>2, WriteUnread DEF WritesPacket, Rewrites
<1> QED
  BY <1>3 DEF CarriersInv

LEMMA IdleCall ==
  ASSUME CarriersInv, call.at = "idle"
  PROVE  call = Idle /\ call.src = Nobody /\ call.made = Nobody
BY InvParts DEF Calls, Taking, Building, Reserving, Idle, TakeStages, BuildStages

LEMMA QueueWritesKeeps ==
  ASSUME CarriersInv, NEW u \in DOMAIN hand, QueueWrites(hand[u])
  PROVE  CarriersInv'
<1>1. hand[u].kind = "queued" /\ hand[u] \in Using(hand, call) /\ call.at = "idle"
  BY DEF QueueWrites, Using
<1>2. call.src = Nobody /\ call.made = Nobody
  BY <1>1, IdleCall
<1>3. \A r \in Using(hand, call) : r.kind \in Readers => r.kind \in Lent
  BY <1>2, NobodyMade, InvParts DEF Using, Readers, Lent, HandKinds
<1>4. \A r \in Using(hand, call) : r.kind \in Readers => r.buf # hand[u].buf
  BY <1>1, <1>3, InvParts DEF AllApart, Clash
<1>5. hand' = hand /\ call' = call /\ mem' = mem
  BY <1>4, WriteUnread DEF QueueWrites, Rewrites
<1> QED
  BY <1>5 DEF CarriersInv

LEMMA DropsKeeps ==
  ASSUME CarriersInv, NEW t \in DOMAIN hand, Drops(t)
  PROVE  CarriersInv'
<1> DEFINE n == Unreferenced(mem, hand[t].buf)
           g == Without(hand, t)
<1>1. mem' = n /\ hand' = g /\ call' = call
  BY DEF Drops
<1>2. Blocks(mem) /\ Hands(hand) /\ Calls(call) /\ Exact(mem, hand, call)
      /\ InForce(hand, call) /\ CarriersKept(mem, hand, call)
  BY InvParts
<1>3. /\ Hands(g) /\ DOMAIN g = DOMAIN hand \ {t}
      /\ \A u \in DOMAIN hand \ {t} : g[u] = hand[u]
      /\ \A b : InHands(g, b) = InHands(hand, b) - Is(hand[t].buf, b)
  BY <1>2, WithoutHands
<1>4. Blocks(n) /\ SameBlocks(mem, n)
  BY <1>2, UnreferencedBlocks
<1>5. \A b \in Buffers : Refs(n, b) = Refs(mem, b) - Is(hand[t].buf, b)
  BY UnreferencedFrom DEF Using
<1>6. Exact(n, g, call)
  <2>1. SUFFICES ASSUME NEW b \in Buffers
                 PROVE  Refs(n, b) = InHands(g, b) + InCall(call, b)
    BY DEF Exact
  <2>2. Refs(mem, b) = InHands(hand, b) + InCall(call, b)
    BY <1>2 DEF Exact
  <2>3. InHands(hand, b) \in Nat /\ Is(hand[t].buf, b) \in Int /\ InCall(call, b) \in Nat
    BY <1>2, HandsFinite, IsBit, InCallNat
  <2> QED  BY <1>3, <1>5, <2>2, <2>3
<1>7. Using(g, call) \subseteq Using(hand, call)
  BY <1>3 DEF Using
<1>8. InForce(g, call)
  <2>1. \A u \in DOMAIN g : \E v \in DOMAIN hand : Follows(g[u], hand[v])
    BY <1>3, FollowsSelf
  <2> QED  BY <1>2, <2>1, ForceStays
<1>9. \A r \in Using(g, call) : \E s \in Using(hand, call) : Follows(r, s)
  BY <1>7, FollowsSelf
<1>10. CarriersKept(n, g, call)
  BY <1>2, <1>3, <1>4, <1>6, <1>7, <1>8, <1>9, Step
<1> QED
  BY <1>1, <1>10 DEF CarriersInv

LEMMA IdleForce == ASSUME NEW h PROVE InForce(h, Idle)
BY DEF InForce, PlanHolds, LoanEnds, KeptAlone, Borrowed, Idle, TakeStages

LEMMA IdleCalls == Calls(Idle) /\ Idle.src = Nobody /\ Idle.made = Nobody
BY DEF Calls, Stage, Idle

LEMMA IdleCount == ASSUME NEW b \in Buffers PROVE InCall(Idle, b) = 0
BY IdleCalls, NobodyMade, NoBufferIsNone DEF InCall, Is

LEMMA DecodedFrameMade ==
  ASSUME NEW b \in Buffers, NEW n, b \in DOMAIN n, n[b].tail = "none"
  PROVE  /\ DecodedFrame(b) \in References /\ DecodedFrame(b).kind = "frame"
         /\ DecodedFrame(b).buf = b /\ "frame" \in HandKinds
         /\ Sound(DecodedFrame(b), n)
<1>1. /\ DecodedFrame(b) \in References /\ DecodedFrame(b).kind = "frame"
      /\ DecodedFrame(b).buf = b /\ DecodedFrame(b).stands
  BY HolderMade DEF DecodedFrame, AnyKind, HandKinds, Givers
<1>2. Sound(DecodedFrame(b), n)
  BY <1>1, NoBufferIsNone DEF Sound, Behind, Writers, Sources, PictureKinds
<1> QED
  BY <1>1, <1>2 DEF HandKinds

LEMMA NewPictureKeeps ==
  ASSUME CarriersInv, call = Idle, Fresh # {}, NEW t \in Free, NEW u \in Free \ {t},
         mem' = Referenced(Alloc(mem, NewBuffer, 1, "none"), NewBuffer),
         hand' = Given(Given(hand, u, Holder("pool", NewBuffer, 0, 0, "foreign")),
                       t, DecodedFrame(NewBuffer)),
         call' = call
  PROVE  CarriersInv'
<1> DEFINE b0 == NewBuffer
           a == Alloc(mem, b0, 1, "none")
           n == Referenced(a, b0)
           p == Holder("pool", b0, 0, 0, "foreign")
           f == DecodedFrame(b0)
           h == Given(hand, u, p)
           g == Given(h, t, f)
<1>1. Blocks(mem) /\ Hands(hand) /\ Exact(mem, hand, Idle) /\ CarriersKept(mem, hand, Idle)
  BY InvParts
<1>2. /\ b0 \in Buffers \ DOMAIN mem /\ Blocks(a) /\ SameBlocks(mem, a)
      /\ DOMAIN a = DOMAIN mem \cup {b0} /\ a[b0].tail = "none"
      /\ \A b \in Buffers : Refs(a, b) = Refs(mem, b) + Is(b0, b)
  BY FreshAlloc DEF Endings
<1>3. /\ Blocks(n) /\ SameBlocks(a, n) /\ DOMAIN n = DOMAIN a
      /\ \A b \in Buffers : Refs(n, b) = Refs(a, b) + Is(b0, b)
  BY <1>2, ReferencedBlocks
<1>4. SameBlocks(mem, n) /\ n[b0].tail = "none" /\ b0 \in DOMAIN n
  BY <1>2, <1>3 DEF SameBlocks
<1>5. /\ p \in References /\ p.kind = "pool" /\ p.buf = b0 /\ p.stands /\ "pool" \in HandKinds
  BY <1>2, HolderMade DEF AnyKind, HandKinds, Givers
<1>6. Sound(p, n)
  BY <1>2, <1>4, <1>5, NoBufferIsNone DEF Sound, Behind, Writers, Sources, PictureKinds
<1>7. /\ f \in References /\ f.kind = "frame" /\ f.buf = b0 /\ Sound(f, n) /\ "frame" \in HandKinds
  BY <1>2, <1>4, DecodedFrameMade
<1>8. /\ Hands(h) /\ DOMAIN h = DOMAIN hand \cup {u} /\ h[u] = p
      /\ \A x \in DOMAIN hand : h[x] = hand[x]
      /\ \A b : InHands(h, b) = InHands(hand, b) + Is(b0, b)
  <2>1. u \in Handles \ DOMAIN hand
    BY DEF Free
  <2>2. /\ Hands(h) /\ DOMAIN h = DOMAIN hand \cup {u} /\ h[u] = p
        /\ \A x \in DOMAIN hand : h[x] = hand[x]
        /\ \A b : InHands(h, b) = InHands(hand, b) + Is(p.buf, b)
    BY <1>1, <1>5, <2>1, GivenHands
  <2> QED  BY <1>5, <2>2
<1>9. t \in Handles \ DOMAIN h
  BY <1>8 DEF Free
<1>10. /\ Hands(g) /\ DOMAIN g = DOMAIN h \cup {t} /\ g[t] = f
       /\ \A x \in DOMAIN h : g[x] = h[x]
       /\ \A b : InHands(g, b) = InHands(h, b) + Is(b0, b)
  BY <1>7, <1>8, <1>9, GivenHands
<1>11. Using(g, Idle) = Using(hand, Idle) \cup {p, f}
  BY <1>8, <1>10 DEF Using
<1>12. Exact(n, g, Idle)
  <2>1. SUFFICES ASSUME NEW b \in Buffers
                 PROVE  Refs(n, b) = InHands(g, b) + InCall(Idle, b)
    BY DEF Exact
  <2>2. Refs(mem, b) = InHands(hand, b) + InCall(Idle, b)
    BY <1>1 DEF Exact
  <2>3. InHands(hand, b) \in Nat /\ Is(b0, b) \in Int /\ InCall(Idle, b) \in Nat
    BY <1>1, HandsFinite, IsBit, InCallNat
  <2>4. InHands(g, b) = InHands(hand, b) + Is(b0, b) + Is(b0, b)
    BY <1>8, <1>10
  <2>5. Refs(n, b) = Refs(mem, b) + Is(b0, b) + Is(b0, b)
    BY <1>2, <1>3
  <2> QED  BY <2>2, <2>3, <2>4, <2>5
<1>13. \A x \in Using(hand, Idle) : x.buf # b0 /\ Follows(x, x)
  BY <1>1, <1>2, Unused, FollowsSelf DEF CarriersKept
<1>14. ~Clash(p, f) /\ ~Clash(f, p) /\ ~Clash(p, p) /\ ~Clash(f, f)
  BY <1>5, <1>7 DEF Clash, Writers, Lent, Pictured, Sources
<1>15. Own(p, Using(g, Idle)) /\ Own(f, Using(g, Idle))
  BY <1>5, <1>7, <1>11, <1>13, <1>14 DEF Own
<1>16. CarriersKept(n, g, Idle)
  BY <1>1, <1>3, <1>4, <1>6, <1>7, <1>10, <1>11, <1>12, <1>13, <1>15, IdleForce, IdleCalls, Step
<1> QED
  BY <1>16 DEF CarriersInv

LEMMA OldPictureKeeps ==
  ASSUME CarriersInv, call = Idle, NEW t \in Free, NEW u \in DOMAIN hand,
         hand[u].kind = "pool", ~Shared(hand[u]),
         mem' = Referenced(mem, hand[u].buf),
         hand' = Given(AfterWrite(hand, hand[u].buf), t, DecodedFrame(hand[u].buf)),
         call' = call
  PROVE  CarriersInv'
<1> DEFINE p == hand[u]
           n == Referenced(mem, p.buf)
           f == DecodedFrame(p.buf)
<1>1. p \in References /\ Sound(p, mem) /\ p \in Using(hand, call)
  BY InvParts DEF Using
<1>2. p.buf \in DOMAIN mem /\ mem[p.buf].tail = "none" /\ mem[p.buf].refs <= 1
      /\ p.buf \in Buffers
  <2>1. mem[p.buf].refs \in Nat /\ p.buf \in DOMAIN mem /\ mem[p.buf].tail = "none"
        /\ p.buf \in Buffers
    BY <1>1, InvParts DEF Blocks, Sound, Behind, PictureKinds
  <2> QED  BY <2>1 DEF Shared
<1>3. call.src.buf # p.buf /\ call.made.buf # p.buf
      /\ \A x \in DOMAIN hand : hand[x].buf = p.buf => x = u
  BY <1>2, InvParts, Alone
<1>4. p.kind \notin Readers
  BY DEF Readers
<1>5. \A r \in Using(hand, call) : r.kind \in Readers => r.buf # p.buf
  BY <1>3, <1>4 DEF Using
<1>6. AfterWrite(hand, p.buf) = hand
  BY <1>5, WriteUnread
<1>7. Blocks(n) /\ SameBlocks(mem, n) /\ DOMAIN n = DOMAIN mem
  BY InvParts, ReferencedBlocks
<1>8. \A b \in Buffers : Refs(n, b) = Refs(mem, b) + Is(p.buf, b)
  BY <1>1, ReferencedFrom
<1>9. n[p.buf].tail = "none"
  BY <1>2, <1>7 DEF SameBlocks
<1>10. /\ f \in References /\ f.kind = "frame" /\ f.buf = p.buf /\ Sound(f, n)
       /\ "frame" \in HandKinds
  BY <1>2, <1>7, <1>9, DecodedFrameMade
<1>11. Follows(f, p)
  BY <1>10 DEF Follows, Writers, Readers, Lent, Pictured, Sources
<1>12. CarriersKept(n, Given(hand, t, f), call)
  BY <1>7, <1>8, <1>10, <1>11, GivenStep
<1> QED
  BY <1>6, <1>12 DEF CarriersInv

LEMMA PictureDecodedKeeps ==
  ASSUME CarriersInv, PictureDecoded
  PROVE  CarriersInv'
<1>1. call = Idle /\ call' = call
  BY IdleCall DEF PictureDecoded
<1>2. PICK t \in Free :
        \/ /\ Fresh # {}
           /\ mem' = Referenced(Alloc(mem, NewBuffer, 1, "none"), NewBuffer)
           /\ \E u \in Free \ {t} :
                hand' = Given(Given(hand, u, Holder("pool", NewBuffer, 0, 0, "foreign")),
                              t, DecodedFrame(NewBuffer))
        \/ \E p \in {hand[u] : u \in DOMAIN hand} :
             /\ p.kind = "pool" /\ ~Shared(p)
             /\ mem' = Referenced(mem, p.buf)
             /\ hand' = Given(AfterWrite(hand, p.buf), t, DecodedFrame(p.buf))
  BY DEF PictureDecoded
<1> QED
  BY <1>1, <1>2, NewPictureKeeps, OldPictureKeeps

-----------------------------------------------------------------------------
(* A packet is offered *)

LEMMA OfferedCall ==
  ASSUME NEW src \in References, src.kind = "offered", NEW lane \in Lanes, NEW tag \in Tags
  PROVE  LET d == [at |-> "offered", src |-> src, made |-> Nobody, lane |-> lane,
                   tag |-> tag, plan |-> "none"]
         IN /\ Calls(d) /\ d.at = "offered" /\ d.src = src /\ d.made = Nobody
            /\ d \in Taking
BY NobodyMade DEF Calls, Stage, Taking, TakeStages

\* What a call relies on while its source is only offered.
LEMMA OfferedForce ==
  ASSUME NEW h, NEW c, c.at = "offered", c.made = Nobody, c.src.buf \in Buffers,
         c.src.from = "caller" =>
           \A t \in DOMAIN h : h[t].kind \in Readers => h[t].buf # c.src.buf
  PROVE  InForce(h, c)
BY NobodyMade, NoBufferIsNone DEF InForce, PlanHolds, LoanEnds, KeptAlone, Borrowed

LEMMA OffersKeeps ==
  ASSUME CarriersInv, NEW t \in DOMAIN hand, call.at = "idle",
         hand[t].kind \in {"packet", "unconverted"}, Offers(t)
  PROVE  CarriersInv'
<1> DEFINE p == hand[t]
           s == As(p, "offered")
           g == Without(hand, t)
<1>1. PICK lane \in Lanes, tag \in Tags :
        call' = [at |-> "offered", src |-> s, made |-> Nobody, lane |-> lane,
                 tag |-> tag, plan |-> "none"]
  BY DEF Offers, Offer
<1> DEFINE d == call'
<1>2. mem' = mem /\ hand' = g
  BY DEF Offers
<1>3. Blocks(mem) /\ Hands(hand) /\ Exact(mem, hand, call) /\ CarriersKept(mem, hand, call)
  BY InvParts
<1>4. call = Idle /\ p \in References /\ Sound(p, mem) /\ p \in Using(hand, call)
  BY IdleCall, InvParts DEF Using
<1>5. /\ s \in References /\ s.kind = "offered" /\ s.buf = p.buf /\ s.from = p.from
      /\ s.stands = p.stands
  BY <1>4, AsMade DEF AnyKind
<1>6. Calls(d) /\ d.at = "offered" /\ d.src = s /\ d.made = Nobody
  BY <1>1, <1>5, OfferedCall
<1> HIDE DEF d
<1>7. /\ Hands(g) /\ DOMAIN g = DOMAIN hand \ {t}
      /\ \A u \in DOMAIN hand \ {t} : g[u] = hand[u]
      /\ \A b : InHands(g, b) = InHands(hand, b) - Is(p.buf, b)
  BY <1>3, WithoutHands
<1>8. Exact(mem, g, d)
  <2>1. SUFFICES ASSUME NEW b \in Buffers
                 PROVE  Refs(mem, b) = InHands(g, b) + InCall(d, b)
    BY DEF Exact
  <2>2. Refs(mem, b) = InHands(hand, b) + 0
    BY <1>3, <1>4, IdleCount DEF Exact
  <2>3. InHands(hand, b) \in Nat /\ Is(p.buf, b) \in Int
    BY <1>3, HandsFinite, IsBit
  <2>4. InCall(d, b) = Is(p.buf, b) + 0
    BY <1>5, <1>6, NobodyMade, NoBufferIsNone DEF InCall, Is
  <2> QED  BY <1>7, <2>2, <2>3, <2>4
<1>9. Sound(s, mem) /\ p.buf \in Buffers
  BY <1>4, <1>5 DEF Sound, Behind, Writers, Sources, PictureKinds, References
<1>10. Follows(s, p)
  BY <1>4, <1>5 DEF Follows, Writers, Readers, Lent, Pictured, Sources, Sound
<1>11. \A r \in Using(g, d) : r = s \/ r \in Using(hand, call)
  BY <1>4, <1>6, <1>7, IdleCalls DEF Using
<1>12. \A r \in Using(g, d) : \E x \in Using(hand, call) : Follows(r, x)
  BY <1>4, <1>10, <1>11, FollowsSelf
<1>13. InForce(g, d)
  <2>1. ASSUME s.from = "caller", NEW u \in DOMAIN g, g[u].kind \in Readers
        PROVE  g[u].buf # s.buf
    <3>1. p.kind = "packet"
      BY <1>4, <1>5, <2>1 DEF Sound
    <3>2. g[u] \in Using(hand, call)
      BY <1>7 DEF Using
    <3> QED  BY <1>4, <1>5, <2>1, <3>1, <3>2, InvParts DEF AllApart, Clash, Writers
  <2> QED  BY <1>5, <1>6, <1>9, <2>1, OfferedForce
<1>14. SameBlocks(mem, mem)
  BY DEF SameBlocks
<1>15. CarriersKept(mem, g, d)
  BY <1>3, <1>6, <1>7, <1>8, <1>9, <1>11, <1>12, <1>13, <1>14, Step
<1> QED
  BY <1>2, <1>15 DEF CarriersInv, d

LEMMA CallerConvertsKeeps ==
  ASSUME CarriersInv, NEW t \in DOMAIN hand, CallerConverts(t)
  PROVE  CarriersInv'
BY OffersKeeps DEF CallerConverts

LEMMA DemuxRetriesKeeps ==
  ASSUME CarriersInv, NEW t \in DOMAIN hand, DemuxRetries(t)
  PROVE  CarriersInv'
BY OffersKeeps DEF DemuxRetries, Unconverted

\* What av_read_frame delivers in a buffer that was not there.
LEMMA PacketRead ==
  ASSUME CarriersInv, Fresh # {}, NEW s \in FileShapes, NEW from \in {"demux", "picture"}
  PROVE  LET r == Holder("offered", NewBuffer, s.off, s.len, from)
             n == Alloc(mem, NewBuffer, s.size, "libavformat")
         IN /\ r \in References /\ r.kind = "offered" /\ r.buf = NewBuffer /\ r.from = from
            /\ NewBuffer \in Buffers \ DOMAIN mem
            /\ Blocks(n) /\ SameBlocks(mem, n) /\ DOMAIN n = DOMAIN mem \cup {NewBuffer}
            /\ n[NewBuffer].tail = "libavformat"
            /\ \A b \in Buffers : Refs(n, b) = Refs(mem, b) + Is(NewBuffer, b)
            /\ \A m : NewBuffer \in DOMAIN m /\ m[NewBuffer].tail = "libavformat" => Sound(r, m)
<1> DEFINE r == Holder("offered", NewBuffer, s.off, s.len, from)
           n == Alloc(mem, NewBuffer, s.size, "libavformat")
<1>1. s.size \in Nat /\ s.off \in Nat /\ s.len \in Nat
  BY CarrierAssumption
<1>2. /\ NewBuffer \in Buffers \ DOMAIN mem /\ Blocks(n) /\ SameBlocks(mem, n)
      /\ DOMAIN n = DOMAIN mem \cup {NewBuffer} /\ n[NewBuffer].tail = "libavformat"
      /\ \A b \in Buffers : Refs(n, b) = Refs(mem, b) + Is(NewBuffer, b)
  BY <1>1, FreshAlloc DEF Endings
<1>3. "offered" \in AnyKind /\ from \in Givers /\ NewBuffer \in Buffers \cup {NoBuffer}
  BY <1>2 DEF AnyKind, Givers
<1>4. /\ r \in References /\ r.kind = "offered" /\ r.buf = NewBuffer /\ r.from = from
      /\ r.stands
  BY <1>1, <1>3, HolderMade
<1>5. ASSUME NEW m, NewBuffer \in DOMAIN m, m[NewBuffer].tail = "libavformat"
      PROVE  Sound(r, m)
  BY <1>2, <1>4, <1>5, NoBufferIsNone DEF Sound, Behind, Writers, Sources, PictureKinds
<1> QED
  BY <1>2, <1>4, <1>5

LEMMA LoneReadKeeps ==
  ASSUME CarriersInv, call = Idle, Fresh # {}, NEW s \in FileShapes,
         Offer(Holder("offered", NewBuffer, s.off, s.len, "demux")),
         mem' = Alloc(mem, NewBuffer, s.size, "libavformat"), hand' = hand
  PROVE  CarriersInv'
<1> DEFINE r == Holder("offered", NewBuffer, s.off, s.len, "demux")
           n == Alloc(mem, NewBuffer, s.size, "libavformat")
           d == call'
<1>1. Hands(hand) /\ Exact(mem, hand, Idle) /\ CarriersKept(mem, hand, Idle)
  BY InvParts
<1>2. /\ r \in References /\ r.kind = "offered" /\ r.buf = NewBuffer /\ r.from = "demux"
      /\ NewBuffer \in Buffers \ DOMAIN mem
      /\ Blocks(n) /\ SameBlocks(mem, n) /\ DOMAIN n = DOMAIN mem \cup {NewBuffer}
      /\ n[NewBuffer].tail = "libavformat"
      /\ \A b \in Buffers : Refs(n, b) = Refs(mem, b) + Is(NewBuffer, b)
      /\ \A m : NewBuffer \in DOMAIN m /\ m[NewBuffer].tail = "libavformat" => Sound(r, m)
  BY PacketRead
<1>3. Calls(d) /\ d.at = "offered" /\ d.src = r /\ d.made = Nobody
  BY <1>2, OfferedCall DEF Offer
<1> HIDE DEF d
<1>4. Sound(r, n)
  BY <1>2
<1>5. Exact(n, hand, d)
  <2>1. SUFFICES ASSUME NEW b \in Buffers
                 PROVE  Refs(n, b) = InHands(hand, b) + InCall(d, b)
    BY DEF Exact
  <2>2. Refs(mem, b) = InHands(hand, b) + 0
    BY <1>1, IdleCount DEF Exact
  <2>3. InHands(hand, b) \in Nat /\ Is(NewBuffer, b) \in Int
    BY <1>1, HandsFinite, IsBit
  <2>4. InCall(d, b) = Is(NewBuffer, b) + 0
    BY <1>2, <1>3, NobodyMade, NoBufferIsNone DEF InCall, Is
  <2> QED  BY <1>2, <2>2, <2>3, <2>4
<1>6. \A x \in Using(hand, d) : x = r \/ x \in Using(hand, Idle)
  BY <1>3, IdleCalls DEF Using
<1>7. \A x \in Using(hand, Idle) : x.buf # NewBuffer /\ Follows(x, x)
  BY <1>1, <1>2, Unused, FollowsSelf, InvParts DEF CarriersKept
<1>8. Own(r, Using(hand, d))
  BY <1>2, <1>6, <1>7 DEF Own, Clash, Writers, Readers, Lent, Pictured
<1>9. InForce(hand, d)
  BY <1>2, <1>3, OfferedForce
<1>10. CarriersKept(n, hand, d)
  BY <1>1, <1>2, <1>3, <1>4, <1>5, <1>6, <1>7, <1>8, <1>9, Step
<1> QED
  BY <1>10 DEF CarriersInv, d

LEMMA KeptReadKeeps ==
  ASSUME CarriersInv, call = Idle, Fresh # {}, NEW s \in FileShapes,
         NEW from \in {"demux", "picture"}, NEW t \in Free,
         Offer(Holder("offered", NewBuffer, s.off, s.len, from)),
         mem' = Referenced(Alloc(mem, NewBuffer, s.size, "libavformat"), NewBuffer),
         hand' = Given(hand, t, Holder(IF from = "picture" THEN "parked" ELSE "queued",
                                       NewBuffer, 0, 0, "foreign"))
  PROVE  CarriersInv'
<1> DEFINE r == Holder("offered", NewBuffer, s.off, s.len, from)
           a == Alloc(mem, NewBuffer, s.size, "libavformat")
           n == Referenced(a, NewBuffer)
           kind == IF from = "picture" THEN "parked" ELSE "queued"
           k == Holder(kind, NewBuffer, 0, 0, "foreign")
           g == Given(hand, t, k)
           d == call'
<1>1. Hands(hand) /\ Exact(mem, hand, Idle) /\ CarriersKept(mem, hand, Idle)
  BY InvParts
<1>2. /\ r \in References /\ r.kind = "offered" /\ r.buf = NewBuffer /\ r.from = from
      /\ NewBuffer \in Buffers \ DOMAIN mem
      /\ Blocks(a) /\ SameBlocks(mem, a) /\ DOMAIN a = DOMAIN mem \cup {NewBuffer}
      /\ a[NewBuffer].tail = "libavformat"
      /\ \A b \in Buffers : Refs(a, b) = Refs(mem, b) + Is(NewBuffer, b)
      /\ \A m : NewBuffer \in DOMAIN m /\ m[NewBuffer].tail = "libavformat" => Sound(r, m)
  BY PacketRead
<1>3. Calls(d) /\ d.at = "offered" /\ d.src = r /\ d.made = Nobody
  BY <1>2, OfferedCall DEF Offer
<1> HIDE DEF d
<1>4. /\ Blocks(n) /\ SameBlocks(a, n) /\ DOMAIN n = DOMAIN a
      /\ \A b \in Buffers : Refs(n, b) = Refs(a, b) + Is(NewBuffer, b)
  BY <1>2, ReferencedBlocks
<1>5. SameBlocks(mem, n) /\ n[NewBuffer].tail = "libavformat" /\ NewBuffer \in DOMAIN n
  BY <1>2, <1>4 DEF SameBlocks
<1>6. Sound(r, n)
  BY <1>2, <1>5
<1>7. kind \in {"parked", "queued"} /\ kind \in AnyKind /\ kind \in HandKinds
      /\ "foreign" \in Givers /\ (kind = "queued" => from = "demux")
  BY DEF AnyKind, HandKinds, Givers
<1>8. k \in References /\ k.kind = kind /\ k.buf = NewBuffer /\ k.stands
  BY <1>2, <1>7, HolderMade
<1> HIDE DEF kind, k
<1>9. Sound(k, n)
  BY <1>2, <1>5, <1>7, <1>8, NoBufferIsNone DEF Sound, Behind, Writers, Sources, PictureKinds
<1>10. /\ Hands(g) /\ DOMAIN g = DOMAIN hand \cup {t} /\ g[t] = k
       /\ \A x \in DOMAIN hand : g[x] = hand[x]
       /\ \A b : InHands(g, b) = InHands(hand, b) + Is(NewBuffer, b)
  <2>1. t \in Handles \ DOMAIN hand /\ k.kind \in HandKinds
    BY <1>7, <1>8 DEF Free
  <2>2. /\ Hands(g) /\ DOMAIN g = DOMAIN hand \cup {t} /\ g[t] = k
        /\ \A x \in DOMAIN hand : g[x] = hand[x]
        /\ \A b : InHands(g, b) = InHands(hand, b) + Is(k.buf, b)
    BY <1>1, <1>8, <2>1, GivenHands
  <2> QED  BY <1>8, <2>2
<1>11. Exact(n, g, d)
  <2>1. SUFFICES ASSUME NEW b \in Buffers
                 PROVE  Refs(n, b) = InHands(g, b) + InCall(d, b)
    BY DEF Exact
  <2>2. Refs(mem, b) = InHands(hand, b) + 0
    BY <1>1, IdleCount DEF Exact
  <2>3. InHands(hand, b) \in Nat /\ Is(NewBuffer, b) \in Int
    BY <1>1, HandsFinite, IsBit
  <2>4. InCall(d, b) = Is(NewBuffer, b) + 0
    BY <1>2, <1>3, NobodyMade, NoBufferIsNone DEF InCall, Is
  <2>5. Refs(n, b) = Refs(mem, b) + Is(NewBuffer, b) + Is(NewBuffer, b)
    BY <1>2, <1>4
  <2> QED  BY <1>10, <2>2, <2>3, <2>4, <2>5
<1>12. \A x \in Using(g, d) : x = r \/ x = k \/ x \in Using(hand, Idle)
  BY <1>3, <1>10, IdleCalls DEF Using
<1>13. \A x \in Using(hand, Idle) : x.buf # NewBuffer /\ Follows(x, x)
  BY <1>1, <1>2, Unused, FollowsSelf, InvParts DEF CarriersKept
<1>14. ~Clash(k, r) /\ ~Clash(r, k) /\ ~Clash(r, r) /\ ~Clash(k, k)
  BY <1>2, <1>7, <1>8 DEF Clash, Writers, Readers, Lent, Pictured, Sources
<1>15. Own(r, Using(g, d)) /\ Own(k, Using(g, d))
  BY <1>2, <1>8, <1>12, <1>13, <1>14 DEF Own
<1>16. InForce(g, d)
  <2>1. \A x \in DOMAIN g : g[x].kind \in Readers => g[x].buf # NewBuffer
    BY <1>7, <1>8, <1>10, <1>13 DEF Readers, Using
  <2> QED  BY <1>2, <1>3, <2>1, OfferedForce
<1>17. CarriersKept(n, g, d)
  BY <1>1, <1>3, <1>4, <1>5, <1>6, <1>9, <1>10, <1>11, <1>12, <1>13, <1>15, <1>16, Step
<1> QED
  BY <1>17 DEF CarriersInv, d, k, kind

LEMMA DemuxReadsKeeps ==
  ASSUME CarriersInv, DemuxReads
  PROVE  CarriersInv'
<1>1. call = Idle /\ Fresh # {}
  BY IdleCall DEF DemuxReads
<1>2. PICK s \in FileShapes, from \in {"demux", "picture"} :
        /\ Offer(Holder("offered", NewBuffer, s.off, s.len, from))
        /\ \/ /\ from = "demux" /\ hand' = hand
              /\ mem' = Alloc(mem, NewBuffer, s.size, "libavformat")
           \/ /\ mem' = Referenced(Alloc(mem, NewBuffer, s.size, "libavformat"), NewBuffer)
              /\ \E t \in Free :
                   hand' = Given(hand, t, Holder(IF from = "picture" THEN "parked" ELSE "queued",
                                                 NewBuffer, 0, 0, "foreign"))
  BY DEF DemuxReads
<1> QED
  BY <1>1, <1>2, LoneReadKeeps, KeptReadKeeps

-----------------------------------------------------------------------------
(* A packet becomes a carrier, or does not *)

LEMMA TakingCall ==
  ASSUME CarriersInv, call.at \in TakeStages
  PROVE  /\ call \in Taking /\ call.src.kind \in {"offered", "source"}
         /\ call.src.buf \in Buffers
         /\ call.src.from \in {"caller", "demux", "picture"}
         /\ call.at \in {"offered", "judged"} => call.made = Nobody
         /\ call.at = "captured" => call.made.kind = "carrier"
<1>1. call \in Taking
  BY InvParts DEF Calls, Building, Reserving, Idle, TakeStages, BuildStages
<1>2. call.src.kind \in {"offered", "source"}
  BY InvParts DEF Calls, Stage, TakeStages
<1>3. /\ call.at \in {"offered", "judged"} => call.made = Nobody
      /\ call.at = "captured" => call.made.kind = "carrier"
  BY InvParts DEF Calls, Stage
<1>4. call.src.buf \in Buffers /\ call.src.from \in {"caller", "demux", "picture"}
  BY <1>2, InvParts DEF Sound, References, Sources
<1> QED
  BY <1>1, <1>2, <1>3, <1>4

LEMMA SameThrough ==
  ASSUME NEW m, NEW n, NEW l, SameBlocks(m, n), SameBlocks(n, l), DOMAIN l \subseteq DOMAIN n
  PROVE  SameBlocks(m, l)
BY DEF SameBlocks

\* A carrier of no bytes.
Bare(r) == r.kind = "carrier" /\ r.buf = NoBuffer /\ r.from = "foreign" /\ r.stands

LEMMA BareSound == ASSUME NEW r, Bare(r), NEW m PROVE Sound(r, m)
BY DEF Bare, Sound, Writers, Sources, PictureKinds

\* The call ends, with m and h where what it made has found its place.
LEMMA EndsKeeps ==
  ASSUME CarriersInv, call.at \in TakeStages,
         NEW m, Blocks(m), SameBlocks(mem, m), NEW h, Hands(h), NEW again \in BOOLEAN,
         \A b \in Buffers : Refs(m, b) = InHands(h, b) + Is(call.src.buf, b),
         \A t \in DOMAIN h : h[t] \in Using(hand, call) \/ Bare(h[t]),
         Borrowed(call) => \A t \in DOMAIN h : h[t].kind \in Readers => h[t].buf # call.src.buf,
         EndsWith(m, h, again)
  PROVE  CarriersInv'
<1> DEFINE s == call.src
           b0 == call.src.buf
           returned == s.from = "caller" /\ call.lane = "owned"
           parked == s.from # "caller" /\ again
           kept == CASE returned -> {As(s, "packet")}
                     [] parked -> {As(s, "unconverted")}
                     [] OTHER -> {}
<1>1. CarriersKept(mem, hand, call) /\ s \in References /\ Sound(s, mem) /\ s \in Using(hand, call)
  BY InvParts, UsingRefs
<1>2. b0 \in Buffers /\ s.kind \in {"offered", "source"} /\ call' = Idle
  BY TakingCall DEF EndsWith
<1>3. \A b \in Buffers : InHands(h, b) \in Nat /\ Refs(m, b) \in Nat /\ Is(b0, b) \in Int
  BY HandsFinite, RefsNat, IsBit
<1>4. b0 \in DOMAIN m
  <2>1. Is(b0, b0) = 1
    BY DEF Is
  <2>2. Refs(m, b0) > 0
    BY <1>2, <1>3, <2>1
  <2> QED  BY <2>2, RefsNat
<1>5. \A x \in Using(hand, call) : Follows(x, x)
  BY FollowsSelf
<1>6. ~Clash(Nobody, Nobody) /\ Nobody \notin {} /\ \A n : Sound(Nobody, n)
  BY NobodyMade DEF Clash, Sound, Writers, Readers, Lent, Pictured, Sources, PictureKinds
<1>7. ASSUME NEW n, Blocks(n), SameBlocks(mem, n), NEW g, Hands(g), Exact(n, g, Idle),
             NEW k, \A t \in DOMAIN g : g[t] = k \/ \E u \in DOMAIN h : g[t] = h[u],
             Sound(k, n),
             k \in Using(hand, call) \/ k = Nobody
               \/ Own(k, Using(g, Idle)) \/ \E x \in Using(hand, call) : Follows(k, x)
      PROVE  CarriersKept(n, g, Idle)
  <2>1. ASSUME NEW x \in Using(g, Idle)
        PROVE  \/ x = k \/ x \in Using(hand, call) \/ x = Nobody
               \/ x.kind = "carrier" /\ x.buf = NoBuffer /\ Sound(x, n)
    <3>1. x = k \/ x = Nobody \/ \E u \in DOMAIN h : x = h[u]
      BY <1>7, IdleCalls DEF Using
    <3> QED  BY <3>1, BareSound DEF Bare
  <2>2. \A x \in Using(g, Idle) : x \in Using(hand, call) \/ Sound(x, n)
    BY <1>6, <1>7, <2>1
  <2>3. Using(g, Idle) \subseteq References
    BY <1>7, IdleCalls, UsingRefs
  <2>4. \A x \in Using(g, Idle) : x.kind \in Writers \cup {"queued"} => x.buf # NoBuffer
    <3>1. ASSUME NEW x \in Using(hand, call), x.kind \in Writers \cup {"queued"}
          PROVE  x.buf # NoBuffer
      <4>1. Sound(x, mem)
        BY InvParts DEF AllSound
      <4> QED  BY <3>1, <4>1 DEF Sound, Writers
    <3> QED  BY <1>6, <1>7, <2>1, <3>1 DEF Sound, Writers
  <2>5. ASSUME NEW x \in Using(g, Idle), x = Nobody \/ (x.kind = "carrier" /\ x.buf = NoBuffer)
        PROVE  Own(x, Using(g, Idle))
    BY <2>4, <2>5, NobodyMade DEF Own, Clash, Writers, Readers, Lent, Pictured, Sources
  <2>6. \A x \in Using(g, Idle) : Own(x, Using(g, Idle)) \/ \E y \in Using(hand, call) : Follows(x, y)
    BY <1>5, <1>7, <2>1, <2>5
  <2> QED  BY <1>1, <1>7, <2>2, <2>6, IdleForce, IdleCalls, Step
<1>8. ASSUME kept = {}, mem' = Unreferenced(m, b0), hand' = h
      PROVE  CarriersInv'
  <2> DEFINE n == Unreferenced(m, b0)
  <2>1. /\ Blocks(n) /\ SameBlocks(m, n) /\ DOMAIN n \subseteq DOMAIN m
        /\ \A b \in Buffers : Refs(n, b) = Refs(m, b) - Is(b0, b)
    BY <1>4, UnreferencedBlocks
  <2>2. SameBlocks(mem, n)
    BY <2>1, SameThrough
  <2>3. \A b \in Buffers : Refs(n, b) = InHands(h, b) + 0
    BY <1>3, <2>1
  <2>4. Exact(n, h, Idle)
    BY <2>3, IdleCount DEF Exact
  <2>5. CarriersKept(n, h, Idle)
    BY <1>6, <1>7, <2>1, <2>2, <2>4
  <2> QED  BY <1>2, <1>8, <2>5 DEF CarriersInv
<1>9. ASSUME NEW k \in kept, NEW t \in Handles \ DOMAIN h, mem' = m, hand' = Given(h, t, k)
      PROVE  CarriersInv'
  <2> DEFINE g == Given(h, t, k)
  <2>1. (returned /\ k = As(s, "packet")) \/ (~returned /\ parked /\ k = As(s, "unconverted"))
    <3>1. CASE returned
      BY <1>9, <3>1
    <3>2. CASE ~returned /\ parked
      BY <1>9, <3>2
    <3>3. CASE ~returned /\ ~parked
      BY <1>9, <3>3
    <3> QED  BY <3>1, <3>2, <3>3
  <2>2. "packet" \in AnyKind /\ "unconverted" \in AnyKind
        /\ "packet" \in HandKinds /\ "unconverted" \in HandKinds
    BY DEF AnyKind, HandKinds
  <2>3. /\ k \in References /\ k.buf = b0 /\ k.from = s.from /\ k.stands = s.stands
        /\ (returned /\ k.kind = "packet") \/ (~returned /\ parked /\ k.kind = "unconverted")
    BY <1>1, <2>1, <2>2, AsMade
  <2> HIDE DEF kept
  <2>4. k.kind \in HandKinds
    BY <2>2, <2>3
  <2>5. /\ Hands(g) /\ DOMAIN g = DOMAIN h \cup {t} /\ g[t] = k
        /\ \A u \in DOMAIN h : g[u] = h[u]
        /\ \A b : InHands(g, b) = InHands(h, b) + Is(b0, b)
    <3>1. /\ Hands(g) /\ DOMAIN g = DOMAIN h \cup {t} /\ g[t] = k
          /\ \A u \in DOMAIN h : g[u] = h[u]
          /\ \A b : InHands(g, b) = InHands(h, b) + Is(k.buf, b)
      <4>1. g = Given(h, t, k) /\ k \in References
        BY <2>3
      <4> HIDE DEF g
      <4> QED  BY <2>4, <4>1, GivenHands
    <3> QED  BY <2>3, <3>1
  <2>6. \A b \in Buffers : Refs(m, b) = InHands(g, b) + 0
    BY <1>3, <2>5
  <2>7. Exact(m, g, Idle)
    BY <2>6, IdleCount DEF Exact
  <2>8. Sound(s, m)
    BY <1>1, <1>4, InvParts, SoundStays
  <2>9. Sound(k, m)
    <3>1. CASE returned /\ k.kind = "packet"
      <4>1. Behind(s, m, {"unknown", "zeroes"})
        BY <1>2, <2>8, <3>1 DEF Sound, Sources
      <4>2. Behind(k, m, {"unknown", "zeroes"})
        BY <2>3, <4>1 DEF Behind
      <4> QED  BY <1>2, <2>3, <2>8, <3>1, <4>2, NoBufferIsNone
               DEF Sound, Writers, Sources, PictureKinds
    <3>2. CASE parked /\ k.kind = "unconverted"
      <4>1. s.from \in {"demux", "picture"} /\ Behind(s, m, {"libavformat"})
        BY <1>2, <2>8, <3>2 DEF Sound, Sources
      <4>2. Behind(k, m, {"libavformat"})
        BY <2>3, <4>1 DEF Behind
      <4> QED  BY <1>2, <2>3, <2>8, <3>2, <4>1, <4>2, NoBufferIsNone
               DEF Sound, Writers, Sources, PictureKinds
    <3> QED  BY <2>3, <3>1, <3>2
  <2>10. Own(k, Using(g, Idle)) \/ Follows(k, s)
    <3>1. CASE returned /\ k.kind = "packet"
      <4>1. Borrowed(call)
        BY <3>1 DEF Borrowed
      <4>2. \A u \in DOMAIN g : g[u].kind \in Readers => g[u].buf # b0
        BY <2>5, <3>1, <4>1 DEF Readers
      <4>3. \A x \in Using(g, Idle) : x.kind \in Readers => x.buf # b0
        BY <4>2, IdleCalls, NobodyMade DEF Using, Readers
      <4> QED  BY <2>3, <3>1, <4>3 DEF Own, Clash, Readers, Lent, Pictured, Sources
    <3>2. CASE k.kind = "unconverted"
      BY <1>2, <2>3, <3>2 DEF Follows, Writers, Readers, Lent, Pictured, Sources
    <3> QED  BY <2>3, <3>1, <3>2
  <2>11. CarriersKept(m, g, Idle)
    BY <1>1, <1>7, <2>5, <2>7, <2>9, <2>10
  <2> QED  BY <1>2, <1>9, <2>11 DEF CarriersInv
<1>10. \/ kept = {} /\ mem' = Unreferenced(m, b0) /\ hand' = h
       \/ \E k \in kept, t \in Handles \ DOMAIN h : mem' = m /\ hand' = Given(h, t, k)
  BY DEF EndsWith
<1> QED
  BY <1>8, <1>9, <1>10

\* While a packet is being taken, a buffer is counted for it and what it made.
LEMMA TakingCount ==
  ASSUME CarriersInv, call.at \in TakeStages
  PROVE  /\ \A b \in Buffers :
              Refs(mem, b) = InHands(hand, b) + Is(call.src.buf, b) + Is(call.made.buf, b)
         /\ call.made = Nobody =>
              \A b \in Buffers : Refs(mem, b) = InHands(hand, b) + Is(call.src.buf, b)
<1>1. \A b \in Buffers : Refs(mem, b) = InHands(hand, b) + (Is(call.src.buf, b) + Is(call.made.buf, b))
  BY InvParts DEF Exact, InCall
<1>2. \A b \in Buffers : InHands(hand, b) \in Nat /\ Is(call.src.buf, b) \in Int
                         /\ Is(call.made.buf, b) \in Int
  BY InvParts, HandsFinite, IsBit
<1>3. call.made = Nobody => \A b \in Buffers : Is(call.made.buf, b) = 0
  BY NobodyMade, NoBufferIsNone DEF Is
<1> QED
  BY <1>1, <1>2, <1>3

LEMMA SameSelf == ASSUME NEW m PROVE SameBlocks(m, m)
BY DEF SameBlocks

\* A call that has made nothing ends.
LEMMA PlainEndKeeps ==
  ASSUME CarriersInv, call.at \in {"offered", "judged"}, NEW again \in BOOLEAN,
         EndsWith(mem, hand, again)
  PROVE  CarriersInv'
<1>1. call.at \in TakeStages /\ call.made = Nobody
  BY TakingCall DEF TakeStages
<1>2. Blocks(mem) /\ SameBlocks(mem, mem) /\ Hands(hand) /\ LoanEnds(hand, call)
  BY InvParts, SameSelf DEF InForce
<1>3. \A b \in Buffers : Refs(mem, b) = InHands(hand, b) + Is(call.src.buf, b)
  BY <1>1, TakingCount
<1>4. \A t \in DOMAIN hand : hand[t] \in Using(hand, call)
  BY DEF Using
<1>5. Borrowed(call) => \A t \in DOMAIN hand : hand[t].kind \in Readers => hand[t].buf # call.src.buf
  BY <1>2 DEF LoanEnds
<1> QED
  BY <1>1, <1>2, <1>3, <1>4, <1>5, EndsKeeps

LEMMA RefusesSourceKeeps ==
  ASSUME CarriersInv, RefusesSource
  PROVE  CarriersInv'
<1>1. call.at \in {"offered", "judged"} /\ EndsWith(mem, hand, FALSE) /\ FALSE \in BOOLEAN
  BY DEF RefusesSource
<1> QED
  BY <1>1, PlainEndKeeps

LEMMA CaptureFailsKeeps ==
  ASSUME CarriersInv, CaptureFails
  PROVE  CarriersInv'
<1>1. call.at \in {"offered", "judged"} /\ EndsWith(mem, hand, TRUE) /\ TRUE \in BOOLEAN
  BY DEF CaptureFails
<1> QED
  BY <1>1, PlainEndKeeps

LEMMA DeliversBodilessKeeps ==
  ASSUME CarriersInv, DeliversBodiless
  PROVE  CarriersInv'
<1>1. CASE EndsWith(mem, hand, FALSE)
  <2>1. call.at \in {"offered", "judged"} /\ FALSE \in BOOLEAN
    BY DEF DeliversBodiless
  <2> QED  BY <1>1, <2>1, PlainEndKeeps
<1>2. ASSUME NEW t \in Free, EndsWith(mem, Given(hand, t, As(Nobody, "carrier")), FALSE)
      PROVE  CarriersInv'
  <2> DEFINE k == As(Nobody, "carrier")
             h == Given(hand, t, k)
  <2>1. call.at \in TakeStages /\ call.made = Nobody
    BY TakingCall DEF DeliversBodiless, TakeStages
  <2>2. Blocks(mem) /\ SameBlocks(mem, mem) /\ Hands(hand) /\ LoanEnds(hand, call)
    BY InvParts, SameSelf DEF InForce
  <2>3. "carrier" \in AnyKind /\ "carrier" \in HandKinds
    BY DEF AnyKind, HandKinds
  <2>4. /\ k \in References /\ k.kind = "carrier" /\ k.buf = NoBuffer
        /\ k.from = "foreign" /\ k.stands
    BY <2>3, NobodyMade, AsMade
  <2>5. t \in Handles \ DOMAIN hand
    BY DEF Free
  <2> HIDE DEF k
  <2>6. /\ Hands(h) /\ DOMAIN h = DOMAIN hand \cup {t} /\ h[t] = k
        /\ \A u \in DOMAIN hand : h[u] = hand[u]
        /\ \A b : InHands(h, b) = InHands(hand, b) + Is(k.buf, b)
    BY <2>2, <2>3, <2>4, <2>5, GivenHands
  <2>7. \A b \in Buffers : Is(k.buf, b) = 0 /\ InHands(hand, b) \in Nat
    BY <2>2, <2>4, NoBufferIsNone, HandsFinite DEF Is
  <2>8. \A b \in Buffers : InHands(h, b) = InHands(hand, b)
    BY <2>6, <2>7
  <2>9. \A b \in Buffers : Refs(mem, b) = InHands(h, b) + Is(call.src.buf, b)
    BY <2>1, <2>8, TakingCount
  <2>10. Bare(k)
    BY <2>4 DEF Bare
  <2>11. \A u \in DOMAIN h : h[u] \in Using(hand, call) \/ Bare(h[u])
    BY <2>6, <2>10 DEF Using
  <2>12. Borrowed(call) => \A u \in DOMAIN h : h[u].kind \in Readers => h[u].buf # call.src.buf
    BY <2>1, <2>2, <2>4, <2>6, TakingCall, NoBufferIsNone DEF LoanEnds
  <2>13. EndsWith(mem, h, FALSE) /\ FALSE \in BOOLEAN
    BY <1>2 DEF k
  <2> HIDE DEF h
  <2> QED  BY <2>1, <2>2, <2>6, <2>9, <2>11, <2>12, <2>13, EndsKeeps
<1> QED
  BY <1>1, <1>2 DEF DeliversBodiless

LEMMA TakeEndsKeeps ==
  ASSUME CarriersInv, TakeEnds
  PROVE  CarriersInv'
<1>1. call.at = "captured" /\ call.at \in TakeStages /\ call.made.kind = "carrier"
  BY TakingCall DEF TakeEnds, TakeStages
<1>2. Blocks(mem) /\ SameBlocks(mem, mem) /\ Hands(hand) /\ LoanEnds(hand, call)
      /\ call.made \in References /\ call.made \in Using(hand, call)
  BY InvParts, SameSelf DEF InForce, Using
<1>3. Borrowed(call) => /\ call.made.buf # call.src.buf
                        /\ \A t \in DOMAIN hand : hand[t].kind \in Readers => hand[t].buf # call.src.buf
  BY <1>2 DEF LoanEnds
<1>4. \A b \in Buffers : InHands(hand, b) \in Nat /\ Is(call.src.buf, b) \in Int
                         /\ Is(call.made.buf, b) \in Int
  BY <1>2, HandsFinite, IsBit
<1>5. \A b \in Buffers :
        Refs(mem, b) = InHands(hand, b) + Is(call.src.buf, b) + Is(call.made.buf, b)
  BY <1>1, TakingCount
<1>6. ASSUME EndsWith(Unreferenced(mem, call.made.buf), hand, FALSE)
      PROVE  CarriersInv'
  <2> DEFINE m == Unreferenced(mem, call.made.buf)
  <2>1. Blocks(m) /\ SameBlocks(mem, m)
    BY <1>2, UnreferencedBlocks
  <2>2. \A b \in Buffers : Refs(m, b) = Refs(mem, b) - Is(call.made.buf, b)
    BY <1>2, UnreferencedFrom
  <2>3. \A b \in Buffers : Refs(m, b) = InHands(hand, b) + Is(call.src.buf, b)
    BY <1>4, <1>5, <2>2
  <2>4. \A t \in DOMAIN hand : hand[t] \in Using(hand, call)
    BY DEF Using
  <2>5. EndsWith(m, hand, FALSE) /\ FALSE \in BOOLEAN
    BY <1>6
  <2> HIDE DEF m
  <2> QED  BY <1>1, <1>2, <1>3, <2>1, <2>3, <2>4, <2>5, EndsKeeps
<1>7. ASSUME NEW t \in Free, EndsWith(mem, Given(hand, t, call.made), FALSE)
      PROVE  CarriersInv'
  <2> DEFINE h == Given(hand, t, call.made)
  <2>1. t \in Handles \ DOMAIN hand /\ call.made.kind \in HandKinds
    BY <1>1 DEF Free, HandKinds
  <2>2. /\ Hands(h) /\ DOMAIN h = DOMAIN hand \cup {t} /\ h[t] = call.made
        /\ \A u \in DOMAIN hand : h[u] = hand[u]
        /\ \A b : InHands(h, b) = InHands(hand, b) + Is(call.made.buf, b)
    <3>1. h = Given(hand, t, call.made)
      OBVIOUS
    <3> HIDE DEF h
    <3> QED  BY <1>2, <2>1, <3>1, GivenHands
  <2>3. \A b \in Buffers : Refs(mem, b) = InHands(h, b) + Is(call.src.buf, b)
    BY <1>4, <1>5, <2>2
  <2>4. \A u \in DOMAIN h : h[u] \in Using(hand, call)
    BY <2>2 DEF Using
  <2>5. Borrowed(call) => \A u \in DOMAIN h : h[u].kind \in Readers => h[u].buf # call.src.buf
    BY <1>3, <2>2
  <2>6. EndsWith(mem, h, FALSE) /\ FALSE \in BOOLEAN
    BY <1>7
  <2> HIDE DEF h
  <2> QED  BY <1>1, <1>2, <2>2, <2>3, <2>4, <2>5, <2>6, EndsKeeps
<1> QED
  BY <1>6, <1>7 DEF TakeEnds

\* A source that is judged fit is nobody else's to write.
LEMMA FitSource ==
  ASSUME CarriersInv, call.at = "offered", ~Bodiless(call.src), ~PayloadRefused(call.src),
         NEW plan, plan = Route(call.src.from, Shared(call.src))
  PROVE  /\ plan \in {"capture", "copy"}
         /\ \A r \in Using(hand, call) : r.kind \in Writers => r.buf # call.src.buf
         /\ plan = "capture" =>
              \A t \in DOMAIN hand : hand[t].kind = "queued" => hand[t].buf # call.src.buf
<1> DEFINE s == call.src
<1>1. call.at \in TakeStages
  BY DEF TakeStages
<1>2. s.kind = "offered" /\ s.buf \in Buffers /\ s.from \in {"caller", "demux", "picture"}
      /\ Sound(s, mem) /\ call.made = Nobody
  BY <1>1, TakingCall, InvParts DEF Calls, Stage
<1>3. s.buf \in DOMAIN mem
  BY <1>2, InvParts, UsingRefs, Alive
<1>4. plan # "refuse"
  BY DEF PayloadRefused
<1>5. plan \in {"capture", "copy"}
  BY <1>4 DEF Route
<1>6. CASE ~Shared(s)
  <2>1. mem[s.buf].refs \in Nat
    BY <1>3, InvParts DEF Blocks
  <2>2. mem[s.buf].refs <= 1
    BY <1>6, <2>1 DEF Shared
  <2>3. \A t \in DOMAIN hand : hand[t].buf # s.buf
    BY <1>3, <2>2, InvParts, Alone
  <2>4. \A r \in Using(hand, call) : r.kind \in Writers => r.buf # s.buf
    BY <1>2, <2>3, NobodyMade DEF Using, Writers
  <2> QED  BY <1>5, <2>3, <2>4
<1>7. CASE Shared(s)
  <2>1. s.from \in {"demux", "picture"} /\ (plan = "capture" => s.from = "picture")
    BY <1>2, <1>4, <1>7 DEF Route
  <2>2. mem[s.buf].tail = "libavformat"
    BY <1>2, <2>1 DEF Sound, Sources, Behind
  <2>3. ASSUME NEW r \in Using(hand, call), r.kind \in Writers
        PROVE  r.buf # s.buf
    <3>1. mem[r.buf].tail \in {"unknown", "zeroes"}
      BY <2>3, InvParts DEF AllSound, Sound, Behind
    <3> QED  BY <2>2, <3>1
  <2>4. ASSUME plan = "capture", NEW t \in DOMAIN hand, hand[t].kind = "queued"
        PROVE  hand[t].buf # s.buf
    <3>1. Pictured(s)
      BY <1>2, <2>1, <2>4 DEF Pictured, Sources
    <3>2. Clash(hand[t], s)
      BY <2>4, <3>1 DEF Clash
    <3> QED  BY <3>2, InvParts, UsingRefs DEF AllApart
  <2> QED  BY <1>5, <2>3, <2>4
<1> QED
  BY <1>6, <1>7

LEMMA JudgesSourceKeeps ==
  ASSUME CarriersInv, JudgesSource
  PROVE  CarriersInv'
<1> DEFINE s == call.src
           plan == Route(s.from, Shared(s))
           k == As(s, "source")
           d == [call EXCEPT !.at = "judged", !.src = k, !.plan = plan]
<1>1. call.at = "offered" /\ call' = d /\ mem' = mem /\ hand' = hand
      /\ ~Bodiless(s) /\ ~PayloadRefused(s)
  BY DEF JudgesSource
<1>2. call \in Taking /\ call.made = Nobody /\ s.buf \in Buffers
      /\ s.from \in {"caller", "demux", "picture"} /\ call.src.kind \in {"offered", "source"}
  BY <1>1, TakingCall DEF TakeStages
<1>3. /\ plan \in {"capture", "copy"}
      /\ \A r \in Using(hand, call) : r.kind \in Writers => r.buf # s.buf
      /\ plan = "capture" =>
           \A t \in DOMAIN hand : hand[t].kind = "queued" => hand[t].buf # s.buf
  BY <1>1, FitSource
<1>4. s \in References /\ Sound(s, mem) /\ "source" \in AnyKind /\ s \in Using(hand, call)
  BY InvParts, UsingRefs DEF AnyKind
<1>5. k \in References /\ k.kind = "source" /\ k.buf = s.buf /\ k.from = s.from
      /\ k.stands = s.stands
  BY <1>4, AsMade
<1> HIDE DEF plan, k
<1>6. /\ d \in Taking /\ d.at = "judged" /\ d.src = k /\ d.made = Nobody /\ d.plan = plan
      /\ d.lane = call.lane
  BY <1>2, <1>3, <1>5 DEF Taking, TakeStages
<1> HIDE DEF d
<1>7. Calls(d)
  BY <1>5, <1>6, NobodyMade DEF Calls, Stage
<1>8. Exact(mem, hand, d)
  <2>1. \A b : InCall(d, b) = InCall(call, b)
    BY <1>2, <1>5, <1>6 DEF InCall
  <2> QED  BY <2>1, InvParts DEF Exact
<1>9. \A r \in Using(hand, d) : r = k \/ r \in Using(hand, call)
  BY <1>2, <1>6 DEF Using
<1>10. Sound(k, mem)
  <2>1. /\ s.from = "caller" => Behind(k, mem, {"unknown", "zeroes"})
        /\ s.from # "caller" => Behind(k, mem, {"libavformat"})
    BY <1>2, <1>4, <1>5 DEF Sound, Sources, Behind
  <2> QED  BY <1>2, <1>4, <1>5, <2>1, NoBufferIsNone DEF Sound, Writers, PictureKinds
<1>11. Own(k, Using(hand, d))
  <2>1. ASSUME NEW r \in Using(hand, d), Clash(k, r) \/ Clash(r, k)
        PROVE  r.buf # k.buf
    <3>1. r.kind \in Writers \/ (r.kind = "queued" /\ Pictured(k))
      BY <1>5, <2>1 DEF Clash, Writers, Lent
    <3>2. r \in Using(hand, call)
      BY <1>5, <1>9, <3>1 DEF Writers
    <3>3. CASE r.kind \in Writers
      BY <1>3, <1>5, <3>2, <3>3
    <3>4. CASE r.kind = "queued" /\ Pictured(k)
      <4>1. Pictured(s)
        BY <1>2, <1>5, <3>4 DEF Pictured, Sources
      <4>2. Clash(r, s)
        BY <3>4, <4>1 DEF Clash
      <4> QED  BY <1>4, <1>5, <3>2, <4>2, InvParts DEF AllApart
    <3> QED  BY <3>1, <3>3, <3>4
  <2> QED  BY <2>1 DEF Own
<1>12. InForce(hand, d)
  <2>1. PlanHolds(hand, d)
    BY <1>3, <1>5, <1>6 DEF PlanHolds
  <2>2. LoanEnds(hand, d)
    <3>1. Borrowed(d) => Borrowed(call)
      BY <1>1, <1>5, <1>6 DEF Borrowed, TakeStages
    <3>2. d.made.buf # d.src.buf
      BY <1>2, <1>5, <1>6, NobodyMade, NoBufferIsNone
    <3> QED  BY <1>5, <1>6, <3>1, <3>2, InvParts DEF LoanEnds, InForce
  <2>3. KeptAlone(hand, d)
    BY <1>6 DEF KeptAlone
  <2> QED  BY <2>1, <2>2, <2>3 DEF InForce
<1>13. CarriersKept(mem, hand, d)
  <2>1. \A r \in Using(hand, d) : Own(r, Using(hand, d)) \/ \E x \in Using(hand, call) : Follows(r, x)
    BY <1>9, <1>11, FollowsSelf
  <2> QED  BY <1>7, <1>8, <1>9, <1>10, <1>12, <2>1, InvParts, SameSelf, Step
<1> QED
  BY <1>1, <1>13 DEF CarriersInv

LEMMA WindowKeeps ==
  ASSUME CarriersInv, call.at = "judged", call.lane = "view", call.plan = "capture",
         mem' = WindowOpens(call.src),
         call' = [call EXCEPT !.at = "captured", !.made = Window(call.src, Claim(call.src.from))],
         hand' = hand
  PROVE  CarriersInv'
<1> DEFINE s == call.src
           n == Referenced(mem, s.buf)
           claim == Claim(s.from)
           k == Holder("carrier", s.buf, s.off, s.len, claim)
           d == [call EXCEPT !.at = "captured", !.made = k]
<1>1. call \in Taking /\ call.made = Nobody /\ s.buf \in Buffers /\ s.kind = "source"
      /\ s.from \in {"caller", "demux", "picture"} /\ call.at \in TakeStages
  <2>1. call.at \in TakeStages
    BY DEF TakeStages
  <2> QED  BY <2>1, TakingCall, InvParts DEF Calls, Stage
<1>2. s \in References /\ Sound(s, mem) /\ s \in Using(hand, call) /\ s.off \in Nat /\ s.len \in Nat
  BY InvParts, UsingRefs DEF References
<1>3. claim \in {"payload", "foreign"} /\ claim \in Givers
      /\ (claim = "payload" => s.from \in {"demux", "picture"}) /\ "carrier" \in AnyKind
  BY DEF Claim, Givers, AnyKind, HandKinds
<1> HIDE DEF claim
<1>4. /\ k \in References /\ k.kind = "carrier" /\ k.buf = s.buf /\ k.from = claim /\ k.stands
  BY <1>1, <1>2, <1>3, HolderMade
<1>5. Blocks(n) /\ SameBlocks(mem, n) /\ DOMAIN n = DOMAIN mem
  BY InvParts, ReferencedBlocks
<1>6. \A b \in Buffers : Refs(n, b) = Refs(mem, b) + Is(s.buf, b)
  BY <1>2, ReferencedFrom
<1> HIDE DEF k
<1>7. d \in Taking /\ d.at = "captured" /\ d.src = s /\ d.made = k /\ d.lane = "view"
  BY <1>1, <1>4 DEF Taking, TakeStages
<1> HIDE DEF d
<1>8. Calls(d)
  BY <1>1, <1>4, <1>7 DEF Calls, Stage
<1>9. Exact(n, hand, d)
  <2>1. \A b \in Buffers : Refs(mem, b) = InHands(hand, b) + Is(s.buf, b)
    BY <1>1, TakingCount
  <2>2. \A b \in Buffers : InHands(hand, b) \in Nat /\ Is(s.buf, b) \in Int
    BY InvParts, HandsFinite, IsBit
  <2>3. \A b : InCall(d, b) = Is(s.buf, b) + Is(s.buf, b)
    BY <1>4, <1>7 DEF InCall
  <2> QED  BY <1>6, <2>1, <2>2, <2>3 DEF Exact
<1>10. \A r \in Using(hand, d) : r = k \/ r \in Using(hand, call)
  BY <1>7 DEF Using
<1>11. s.buf \in DOMAIN mem
  BY <1>1, <1>2, InvParts, Alive
<1>12. Sound(k, n)
  <2>1. claim = "payload" => Behind(s, mem, {"libavformat"})
    BY <1>1, <1>2, <1>3 DEF Sound, Sources
  <2>2. claim = "payload" => Behind(k, n, {"libavformat"})
    BY <1>4, <1>5, <1>11, <2>1 DEF Behind, SameBlocks
  <2> QED  BY <1>1, <1>3, <1>4, <2>2, NoBufferIsNone DEF Sound, Writers, Sources, PictureKinds
<1>13. Own(k, Using(hand, d))
  <2>1. ASSUME NEW r \in Using(hand, d), Clash(k, r) \/ Clash(r, k)
        PROVE  r.buf # k.buf
    <3>1. r.kind \in Writers \/ r.kind = "queued"
      BY <1>4, <2>1 DEF Clash, Writers, Lent
    <3>2. r \in Using(hand, call) /\ r # k
      BY <1>4, <1>10, <3>1 DEF Writers
    <3>3. CASE r.kind \in Writers
      <4>1. Clash(r, s)
        BY <1>1, <3>3 DEF Clash, Readers
      <4> QED  BY <1>2, <1>4, <3>2, <4>1, InvParts DEF AllApart
    <3>4. CASE r.kind = "queued"
      <4>1. r \in {hand[t] : t \in DOMAIN hand}
        BY <1>1, <3>2, <3>4, NobodyMade DEF Using
      <4>2. PlanHolds(hand, call)
        BY InvParts DEF InForce
      <4> QED  BY <1>4, <3>4, <4>1, <4>2 DEF PlanHolds
    <3> QED  BY <3>1, <3>3, <3>4
  <2> QED  BY <2>1 DEF Own
<1>14. InForce(hand, d)
  BY <1>7 DEF InForce, PlanHolds, LoanEnds, KeptAlone, Borrowed
<1>15. CarriersKept(n, hand, d)
  <2>1. \A r \in Using(hand, d) : Own(r, Using(hand, d)) \/ \E x \in Using(hand, call) : Follows(r, x)
    BY <1>10, <1>13, FollowsSelf
  <2> QED  BY <1>5, <1>8, <1>9, <1>10, <1>12, <1>14, <2>1, InvParts, Step
<1> QED
  BY <1>15 DEF CarriersInv, WindowOpens, Window, d, k, claim

\* A copy, in a buffer that was not there.
LEMMA CopyMadeOf ==
  ASSUME CarriersInv, Fresh # {}, NEW s \in References
  PROVE  LET n == CopyMade(s)
             k == CopyOf(s)
         IN /\ k \in References /\ k.kind = "carrier" /\ k.buf = NewBuffer /\ k.from = "foreign"
            /\ NewBuffer \in Buffers \ DOMAIN mem
            /\ Blocks(n) /\ SameBlocks(mem, n)
            /\ \A b \in Buffers : Refs(n, b) = Refs(mem, b) + Is(NewBuffer, b)
            /\ Sound(k, n)
<1> DEFINE n == Alloc(mem, NewBuffer, s.len, "none")
           k == Holder("carrier", NewBuffer, 0, s.len, "foreign")
<1>1. s.len \in Nat /\ "none" \in Endings /\ "carrier" \in AnyKind /\ "foreign" \in Givers
  BY DEF References, Endings, AnyKind, HandKinds, Givers
<1>2. /\ NewBuffer \in Buffers \ DOMAIN mem
      /\ Blocks(n) /\ SameBlocks(mem, n)
      /\ \A b \in Buffers : Refs(n, b) = Refs(mem, b) + Is(NewBuffer, b)
  BY <1>1, FreshAlloc
<1>3. /\ k \in References /\ k.kind = "carrier" /\ k.buf = NewBuffer /\ k.from = "foreign" /\ k.stands
  BY <1>1, <1>2, HolderMade
<1>4. Sound(k, n)
  BY <1>2, <1>3, NoBufferIsNone DEF Sound, Writers, Sources, PictureKinds
<1> QED
  BY <1>2, <1>3, <1>4 DEF CopyMade, CopyOf

LEMMA CopyKeeps ==
  ASSUME CarriersInv, call.at = "judged", Fresh # {},
         mem' = CopyMade(call.src),
         call' = [call EXCEPT !.at = "captured", !.made = CopyOf(call.src)],
         hand' = hand
  PROVE  CarriersInv'
<1> DEFINE s == call.src
           n == CopyMade(s)
           k == CopyOf(s)
           d == [call EXCEPT !.at = "captured", !.made = k]
<1>1. call \in Taking /\ call.made = Nobody /\ s.buf \in Buffers /\ s.kind = "source"
      /\ call.at \in TakeStages
  <2>1. call.at \in TakeStages
    BY DEF TakeStages
  <2> QED  BY <2>1, TakingCall, InvParts DEF Calls, Stage
<1>2. s \in References /\ s \in Using(hand, call)
  BY InvParts, UsingRefs
<1>3. /\ k \in References /\ k.kind = "carrier" /\ k.buf = NewBuffer
      /\ NewBuffer \in Buffers \ DOMAIN mem
      /\ Blocks(n) /\ SameBlocks(mem, n)
      /\ \A b \in Buffers : Refs(n, b) = Refs(mem, b) + Is(NewBuffer, b)
      /\ Sound(k, n)
  BY <1>2, CopyMadeOf
<1> HIDE DEF k, n
<1>4. d \in Taking /\ d.at = "captured" /\ d.src = s /\ d.made = k /\ d.lane = call.lane
  BY <1>1, <1>3 DEF Taking, TakeStages
<1> HIDE DEF d
<1>5. Calls(d)
  BY <1>1, <1>3, <1>4 DEF Calls, Stage
<1>6. Exact(n, hand, d)
  <2>1. \A b \in Buffers : Refs(mem, b) = InHands(hand, b) + Is(s.buf, b)
    BY <1>1, TakingCount
  <2>2. \A b \in Buffers : InHands(hand, b) \in Nat /\ Is(s.buf, b) \in Int /\ Is(NewBuffer, b) \in Int
    BY InvParts, HandsFinite, IsBit
  <2>3. \A b : InCall(d, b) = Is(s.buf, b) + Is(NewBuffer, b)
    BY <1>3, <1>4 DEF InCall
  <2> QED  BY <1>3, <2>1, <2>2, <2>3 DEF Exact
<1>7. \A r \in Using(hand, d) : r = k \/ r \in Using(hand, call)
  BY <1>4 DEF Using
<1>8. \A r \in Using(hand, call) : r.buf # NewBuffer
  BY <1>3, InvParts, Unused
<1>9. Own(k, Using(hand, d))
  BY <1>3, <1>7, <1>8 DEF Own, Clash, Writers, Readers, Lent, Pictured
<1>10. InForce(hand, d)
  <2>1. Borrowed(d) => Borrowed(call)
    BY <1>1, <1>4 DEF Borrowed
  <2>2. LoanEnds(hand, d)
    BY <1>2, <1>3, <1>4, <1>8, <2>1, InvParts DEF LoanEnds, InForce
  <2> QED  BY <1>4, <2>2 DEF InForce, PlanHolds, KeptAlone
<1>11. CarriersKept(n, hand, d)
  <2>1. \A r \in Using(hand, d) : Own(r, Using(hand, d)) \/ \E x \in Using(hand, call) : Follows(r, x)
    BY <1>7, <1>9, FollowsSelf
  <2> QED  BY <1>3, <1>5, <1>6, <1>7, <1>10, <2>1, InvParts, Step
<1> QED
  BY <1>11 DEF CarriersInv, d, k, n

LEMMA CapturesPayloadKeeps ==
  ASSUME CarriersInv, CapturesPayload
  PROVE  CarriersInv'
BY WindowKeeps, CopyKeeps DEF CapturesPayload

-----------------------------------------------------------------------------
(* A carrier becomes a packet *)

LEMMA BuildsPacketKeeps ==
  ASSUME CarriersInv, NEW t \in DOMAIN hand, BuildsPacket(t)
  PROVE  CarriersInv'
<1> DEFINE c == hand[t]
           g == Without(hand, t)
           k0 == As(c, "built")
           k1 == Holder("built", NewBuffer, 0, c.len, "caller")
           n0 == Referenced(mem, c.buf)
           n1 == PaddedAlloc(mem, c.len)
<1>1. PICK way \in {"submit", "keep"}, tag \in {"plain", "sided", "broken"} :
        LET share == way = "submit" /\ Shareable(c)
        IN /\ share \/ Fresh # {}
           /\ mem' = IF share THEN n0 ELSE n1
           /\ call' = [at |-> "built", src |-> c, road |-> way, tag |-> tag,
                       made |-> IF share THEN k0 ELSE k1]
  BY DEF BuildsPacket, OwnPacket
<1> DEFINE share == way = "submit" /\ Shareable(c)
           k == IF share THEN k0 ELSE k1
           n == IF share THEN n0 ELSE n1
           d == [at |-> "built", src |-> c, road |-> way, tag |-> tag, made |-> k]
<1>2. call = Idle /\ c.kind = "carrier" /\ c.len <= Budget /\ hand' = g
      /\ mem' = n /\ call' = d /\ (share \/ Fresh # {})
  BY <1>1, IdleCall DEF BuildsPacket
<1>3. c \in References /\ Sound(c, mem) /\ c \in Using(hand, call) /\ c.len \in Nat
  BY InvParts DEF Using, References
<1>4. /\ Hands(g) /\ DOMAIN g = DOMAIN hand \ {t}
      /\ \A u \in DOMAIN hand \ {t} : g[u] = hand[u]
      /\ \A b : InHands(g, b) = InHands(hand, b) - Is(c.buf, b)
  BY InvParts, WithoutHands
<1>5. CASE share
  <2>1. c.from = "payload" /\ c.len > 0 /\ c.off + c.len + Padding <= mem[c.buf].size
        /\ way = "submit"
    BY <1>5 DEF Shareable
  <2>2. Behind(c, mem, {"libavformat"})
    BY <1>2, <1>3, <2>1 DEF Sound
  <2>3. "built" \in AnyKind
    BY DEF AnyKind
  <2>4. /\ k0 \in References /\ k0.kind = "built" /\ k0.buf = c.buf /\ k0.from = "payload"
        /\ k0.off = c.off /\ k0.len = c.len /\ k0.stands = c.stands
    BY <1>3, <2>1, <2>3, AsMade
  <2> HIDE DEF k0
  <2>5. Blocks(n0) /\ SameBlocks(mem, n0) /\ DOMAIN n0 = DOMAIN mem
    BY InvParts, ReferencedBlocks
  <2>6. \A b \in Buffers : Refs(n0, b) = Refs(mem, b) + Is(c.buf, b)
    BY <1>3, ReferencedFrom
  <2>7. c.buf \in DOMAIN mem /\ c.buf \in Buffers
    BY <2>2, InvParts DEF Behind, Blocks
  <2>8. /\ Behind(k0, n0, {"libavformat", "zeroes"}) /\ Inside(k0, n0)
        /\ Behind(k0, n0, {"libavformat"})
    BY <1>2, <2>1, <2>2, <2>4, <2>5, <2>7 DEF Behind, Inside, SameBlocks
  <2>9. Sound(k0, n0)
    BY <1>3, <2>4, <2>7, <2>8, NoBufferIsNone DEF Sound, Writers, Sources, PictureKinds
  <2>10. d = [at |-> "built", src |-> c, road |-> "submit", tag |-> tag, made |-> k0]
    BY <1>5, <2>1
  <2> HIDE DEF d
  <2>11. d \in Building /\ d.at = "built" /\ d.src = c /\ d.made = k0 /\ d.road = "submit"
    BY <1>3, <2>4, <2>10 DEF Building, BuildStages
  <2>12. Calls(d)
    BY <1>2, <2>4, <2>11 DEF Calls, Stage
  <2>13. Exact(n0, g, d)
    <3>1. \A b \in Buffers : Refs(mem, b) = InHands(hand, b) + 0
      BY <1>2, IdleCount, InvParts DEF Exact
    <3>2. \A b \in Buffers : InHands(hand, b) \in Nat /\ Is(c.buf, b) \in Int
      BY InvParts, HandsFinite, IsBit
    <3>3. \A b : InCall(d, b) = Is(c.buf, b) + Is(c.buf, b)
      BY <2>4, <2>11 DEF InCall
    <3> QED  BY <1>4, <2>6, <3>1, <3>2, <3>3 DEF Exact
  <2>14. \A r \in Using(g, d) : r = k0 \/ r \in Using(hand, call)
    BY <1>3, <1>4, <2>11 DEF Using
  <2>15. Follows(k0, c)
    BY <1>2, <2>4 DEF Follows, Writers, Readers, Lent, Pictured, Sources
  <2>16. InForce(g, d)
    BY <2>11 DEF InForce, PlanHolds, LoanEnds, KeptAlone, Borrowed, TakeStages
  <2>17. CarriersKept(n0, g, d)
    <3>1. \A r \in Using(g, d) : \E x \in Using(hand, call) : Follows(r, x)
      BY <1>3, <2>14, <2>15, FollowsSelf
    <3> QED  BY <1>4, <2>5, <2>9, <2>12, <2>13, <2>14, <2>16, <3>1, InvParts, Step
  <2>18. mem' = n0
    BY <1>2, <1>5
  <2> QED  BY <1>2, <2>17, <2>18 DEF CarriersInv
<1>6. CASE ~share
  <2>1. Fresh # {} /\ "built" \in Writers \cup {"built", "codec"}
    BY <1>2, <1>6
  <2>2. /\ k1 \in References /\ k1.kind = "built" /\ k1.buf = NewBuffer /\ k1.from = "caller"
        /\ NewBuffer \in Buffers \ DOMAIN mem
        /\ Blocks(n1) /\ SameBlocks(mem, n1)
        /\ \A b \in Buffers : Refs(n1, b) = Refs(mem, b) + Is(NewBuffer, b)
        /\ Sound(k1, n1)
    BY <1>2, <1>3, <2>1, OwnPacketMade
  <2> HIDE DEF k1, n1
  <2>3. d = [at |-> "built", src |-> c, road |-> way, tag |-> tag, made |-> k1]
    BY <1>6
  <2> HIDE DEF d
  <2>4. d \in Building /\ d.at = "built" /\ d.src = c /\ d.made = k1
    BY <1>3, <2>2, <2>3 DEF Building, BuildStages
  <2>5. Calls(d)
    BY <1>2, <2>2, <2>4 DEF Calls, Stage
  <2>6. Exact(n1, g, d)
    <3>1. \A b \in Buffers : Refs(mem, b) = InHands(hand, b) + 0
      BY <1>2, IdleCount, InvParts DEF Exact
    <3>2. \A b \in Buffers : InHands(hand, b) \in Nat /\ Is(c.buf, b) \in Int
                             /\ Is(NewBuffer, b) \in Int
      BY InvParts, HandsFinite, IsBit
    <3>3. \A b : InCall(d, b) = Is(c.buf, b) + Is(NewBuffer, b)
      BY <2>2, <2>4 DEF InCall
    <3> QED  BY <1>4, <2>2, <3>1, <3>2, <3>3 DEF Exact
  <2>7. \A r \in Using(g, d) : r = k1 \/ r \in Using(hand, call)
    BY <1>3, <1>4, <2>4 DEF Using
  <2>8. \A r \in Using(hand, call) : r.buf # NewBuffer
    BY <2>2, InvParts, Unused
  <2>9. Own(k1, Using(g, d))
    BY <2>2, <2>7, <2>8 DEF Own, Clash, Writers, Readers, Lent, Pictured
  <2>10. InForce(g, d)
    <3>1. \A u \in DOMAIN g : g[u].buf # NewBuffer
      BY <1>4, <2>8 DEF Using
    <3>2. KeptAlone(g, d)
      BY <1>3, <2>2, <2>4, <2>8, <3>1 DEF KeptAlone
    <3> QED  BY <2>4, <3>2 DEF InForce, PlanHolds, LoanEnds, Borrowed, TakeStages
  <2>11. CarriersKept(n1, g, d)
    <3>1. \A r \in Using(g, d) : Own(r, Using(g, d)) \/ \E x \in Using(hand, call) : Follows(r, x)
      BY <2>7, <2>9, FollowsSelf
    <3> QED  BY <1>4, <2>2, <2>5, <2>6, <2>7, <2>10, <3>1, InvParts, Step
  <2>12. mem' = n1
    BY <1>2, <1>6
  <2> QED  BY <1>2, <2>11, <2>12 DEF CarriersInv
<1> QED
  BY <1>5, <1>6

LEMMA GivenTo ==
  ASSUME NEW h, Hands(h), NEW t, t \in Handles, t \notin DOMAIN h,
         NEW r, r \in References, r.kind \in HandKinds, NEW g, g = Given(h, t, r)
  PROVE  /\ Hands(g) /\ DOMAIN g = DOMAIN h \cup {t} /\ g[t] = r
         /\ \A u \in DOMAIN h : g[u] = h[u]
         /\ \A b : InHands(g, b) = InHands(h, b) + Is(r.buf, b)
<1>1. t \in Handles \ DOMAIN h
  OBVIOUS
<1>2. /\ Hands(Given(h, t, r)) /\ DOMAIN Given(h, t, r) = DOMAIN h \cup {t}
      /\ Given(h, t, r)[t] = r
      /\ \A u \in DOMAIN h : Given(h, t, r)[u] = h[u]
      /\ \A b : InHands(Given(h, t, r), b) = InHands(h, b) + Is(r.buf, b)
  BY <1>1, GivenHands
<1> QED
  BY <1>2

LEMMA BuildingCall ==
  ASSUME CarriersInv, call.at \in BuildStages
  PROVE  /\ call \in Building /\ call.src.kind = "carrier" /\ call.made.kind = "built"
         /\ call.made.buf \in DOMAIN mem /\ call.made.buf \in Buffers
         /\ call.made.len \in Nat /\ call.made.len <= Budget
         /\ \A b \in Buffers :
              Refs(mem, b) = InHands(hand, b) + Is(call.src.buf, b) + Is(call.made.buf, b)
<1>1. call \in Building
  BY InvParts DEF Calls, Taking, Reserving, Idle, TakeStages, BuildStages
<1>2. call.src.kind = "carrier" /\ call.made.kind = "built"
  BY InvParts DEF Calls, Stage, BuildStages
<1>3. call.made.buf \in DOMAIN mem /\ call.made.buf \in Buffers
      /\ call.made.len \in Nat /\ call.made.len <= Budget
  BY <1>2, InvParts DEF Sound, Behind, Inside, Blocks, References
<1>4. \A b \in Buffers : Refs(mem, b) = InHands(hand, b) + (Is(call.src.buf, b) + Is(call.made.buf, b))
  BY InvParts DEF Exact, InCall
<1>5. \A b \in Buffers : InHands(hand, b) \in Nat /\ Is(call.src.buf, b) \in Int
                         /\ Is(call.made.buf, b) \in Int
  BY InvParts, HandsFinite, IsBit
<1> QED
  BY <1>1, <1>2, <1>3, <1>4, <1>5

\* The carrier goes back; m and h hold what the call leaves of its packet.
LEMMA SendEndsKeeps ==
  ASSUME CarriersInv, call.at \in BuildStages,
         NEW m, Blocks(m), SameBlocks(mem, m), NEW h, Hands(h),
         \A b \in Buffers : Refs(m, b) = InHands(h, b) + Is(call.src.buf, b),
         \A t \in DOMAIN h :
           \/ h[t] \in Using(hand, call)
           \/ /\ Sound(h[t], m)
              /\ \/ \E x \in Using(hand, call) : Follows(h[t], x)
                 \/ Own(h[t], {h[u] : u \in DOMAIN h} \cup {call.src}),
         SendEnds(m, h)
  PROVE  CarriersInv'
<1> DEFINE s == call.src
<1>1. PICK t \in Handles \ DOMAIN h : hand' = Given(h, t, s)
  BY DEF SendEnds
<1>2. mem' = m /\ call' = Idle
  BY DEF SendEnds
<1> DEFINE g == Given(h, t, s)
<1>3. s \in References /\ s \in Using(hand, call) /\ s.kind \in HandKinds
      /\ CarriersKept(mem, hand, call)
  BY BuildingCall, InvParts, UsingRefs DEF HandKinds
<1>4. /\ Hands(g) /\ DOMAIN g = DOMAIN h \cup {t} /\ g[t] = s
      /\ \A u \in DOMAIN h : g[u] = h[u]
      /\ \A b : InHands(g, b) = InHands(h, b) + Is(s.buf, b)
  <2>1. g = Given(h, t, s) /\ t \in Handles /\ t \notin DOMAIN h
    OBVIOUS
  <2>2. Hands(h)
    OBVIOUS
  <2> HIDE DEF g, s
  <2> QED  BY <1>3, <2>1, <2>2, GivenTo
<1>5. Exact(m, g, Idle)
  <2>1. \A b \in Buffers : InHands(h, b) \in Nat /\ Is(s.buf, b) \in Int
    BY HandsFinite, IsBit
  <2>2. \A b \in Buffers : Refs(m, b) = InHands(g, b) + 0
    BY <1>4, <2>1
  <2> QED  BY <2>2, IdleCount DEF Exact
<1>6. \A x \in Using(g, Idle) : x = s \/ x = Nobody \/ \E u \in DOMAIN h : x = h[u]
  BY <1>4, IdleCalls DEF Using
<1>7. \A n : Sound(Nobody, n)
  BY NobodyMade DEF Sound, Writers, Sources, PictureKinds
<1>8. \A x \in Using(g, Idle) : x \in Using(hand, call) \/ Sound(x, m)
  BY <1>3, <1>6, <1>7
<1>9. ASSUME NEW x, Own(x, {h[u] : u \in DOMAIN h} \cup {s})
      PROVE  Own(x, Using(g, Idle))
  <2>1. ASSUME NEW r \in Using(g, Idle), Clash(x, r) \/ Clash(r, x)
        PROVE  r \in {h[u] : u \in DOMAIN h} \cup {s}
    <3>1. r # Nobody
      BY <2>1, NobodyMade DEF Clash, Writers, Readers, Lent, Pictured, Sources
    <3> QED  BY <1>6, <3>1
  <2> QED  BY <1>9, <2>1 DEF Own
<1>10. Own(Nobody, Using(g, Idle))
  BY NobodyMade DEF Own, Clash, Writers, Readers, Lent, Pictured, Sources
<1>11. \A x \in Using(g, Idle) : Own(x, Using(g, Idle)) \/ \E y \in Using(hand, call) : Follows(x, y)
  BY <1>3, <1>6, <1>9, <1>10, FollowsSelf
<1>12. CarriersKept(m, g, Idle)
  BY <1>3, <1>4, <1>5, <1>8, <1>11, IdleForce, IdleCalls, Step
<1> QED
  BY <1>1, <1>2, <1>12 DEF CarriersInv

\* The packet built is dropped.
LEMMA BuiltDropped ==
  ASSUME CarriersInv, call.at \in BuildStages, NEW h, Hands(h),
         \A b \in Buffers : InHands(h, b) = InHands(hand, b),
         \A t \in DOMAIN h :
           \/ h[t] \in Using(hand, call)
           \/ Sound(h[t], mem) /\ h[t] \in References
              /\ \E x \in Using(hand, call) : Follows(h[t], x),
         SendEnds(Unreferenced(mem, call.made.buf), h)
  PROVE  CarriersInv'
<1> DEFINE m == Unreferenced(mem, call.made.buf)
<1>1. Blocks(m) /\ SameBlocks(mem, m)
  BY InvParts, UnreferencedBlocks
<1>2. call.made \in Using(hand, call)
  BY DEF Using
<1>3. \A b \in Buffers : Refs(m, b) = Refs(mem, b) - Is(call.made.buf, b)
  BY <1>2, UnreferencedFrom
<1>4. \A b \in Buffers : InHands(hand, b) \in Nat /\ Is(call.src.buf, b) \in Int
                         /\ Is(call.made.buf, b) \in Int
  BY InvParts, HandsFinite, IsBit
<1>5. \A b \in Buffers : Refs(m, b) = InHands(h, b) + Is(call.src.buf, b)
  BY <1>3, <1>4, BuildingCall
<1>6. ASSUME NEW t \in DOMAIN h, Sound(h[t], mem), h[t] \in References
      PROVE  Sound(h[t], m)
  <2>1. h[t].buf \in Buffers => h[t].buf \in DOMAIN m
    <3>1. SUFFICES ASSUME h[t].buf \in Buffers
                   PROVE  Refs(m, h[t].buf) > 0
      BY <1>1, RefsNat
    <3> DEFINE b == h[t].buf
               S == {u \in DOMAIN h : h[u].buf = b}
    <3>2. IsFiniteSet(S) /\ S # {} /\ InHands(h, b) \in Nat
      BY HandsFinite
    <3>3. InHands(h, b) # 0
      BY <3>2, FS_EmptySet DEF InHands
    <3>4. Is(call.src.buf, b) \in {0, 1}
      BY IsBit
    <3> QED  BY <1>5, <3>1, <3>2, <3>3, <3>4
  <2> QED  BY <1>1, <1>6, <2>1, InvParts, SoundStays
<1>7. \A t \in DOMAIN h :
        \/ h[t] \in Using(hand, call)
        \/ /\ Sound(h[t], m)
           /\ \/ \E x \in Using(hand, call) : Follows(h[t], x)
              \/ Own(h[t], {h[u] : u \in DOMAIN h} \cup {call.src})
  BY <1>6
<1>8. SendEnds(m, h)
  OBVIOUS
<1> HIDE DEF m
<1> QED
  BY <1>1, <1>5, <1>7, <1>8, SendEndsKeeps

LEMMA LoanReturned ==
  ASSUME CarriersInv, call.at \in BuildStages, SendEnds(Unreferenced(mem, call.made.buf), hand)
  PROVE  CarriersInv'
<1>1. Hands(hand) /\ \A t \in DOMAIN hand : hand[t] \in Using(hand, call)
  BY InvParts DEF Using
<1> QED
  BY <1>1, BuiltDropped

\* The packet built stays with somebody.
LEMMA BuiltStays ==
  ASSUME CarriersInv, call.at \in BuildStages, NEW kind \in {"packet", "codec"},
         kind = "packet" => call.at = "built" /\ call.road = "keep",
         NEW t \in Free, SendEnds(mem, Given(hand, t, As(call.made, kind)))
  PROVE  CarriersInv'
<1> DEFINE b0 == call.made.buf
           k == As(call.made, kind)
           h == Given(hand, t, k)
<1>1. call.made.kind = "built" /\ call.made \in References /\ Sound(call.made, mem)
      /\ b0 \in DOMAIN mem /\ call.made \in Using(hand, call) /\ call.made.len <= Budget
  BY BuildingCall, InvParts, UsingRefs
<1>2. kind \in AnyKind /\ kind \in HandKinds
  BY DEF AnyKind, HandKinds
<1>3. /\ k \in References /\ k.kind = kind /\ k.buf = b0 /\ k.from = call.made.from
      /\ k.off = call.made.off /\ k.len = call.made.len /\ k.stands = call.made.stands
  BY <1>1, <1>2, AsMade
<1>4. SendEnds(mem, h)
  OBVIOUS
<1> HIDE DEF k
<1>5. /\ Hands(h) /\ DOMAIN h = DOMAIN hand \cup {t} /\ h[t] = k
      /\ \A u \in DOMAIN hand : h[u] = hand[u]
      /\ \A b : InHands(h, b) = InHands(hand, b) + Is(b0, b)
  <2>1. t \in Handles \ DOMAIN hand /\ Hands(hand) /\ k.kind \in HandKinds
    BY <1>2, <1>3, InvParts DEF Free
  <2>2. /\ Hands(h) /\ DOMAIN h = DOMAIN hand \cup {t} /\ h[t] = k
        /\ \A u \in DOMAIN hand : h[u] = hand[u]
        /\ \A b : InHands(h, b) = InHands(hand, b) + Is(k.buf, b)
    <3>1. h = Given(hand, t, k)
      OBVIOUS
    <3>2. Hands(hand) /\ t \in Handles /\ t \notin DOMAIN hand
      BY <2>1
    <3>3. k \in References /\ k.kind \in HandKinds
      BY <1>3, <2>1
    <3> HIDE DEF h
    <3> QED  BY <3>1, <3>2, <3>3, GivenTo
  <2> QED  BY <1>3, <2>2
<1>6. \A b \in Buffers : Refs(mem, b) = InHands(h, b) + Is(call.src.buf, b)
  <2>1. \A b \in Buffers : InHands(hand, b) \in Nat /\ Is(call.src.buf, b) \in Int /\ Is(b0, b) \in Int
    BY InvParts, HandsFinite, IsBit
  <2> QED  BY <1>5, <2>1, BuildingCall
<1>7. Behind(k, mem, {"libavformat", "zeroes"}) /\ Inside(k, mem)
  BY <1>1, <1>3 DEF Sound, Behind, Inside
<1>8. CASE kind = "codec"
  <2>1. Sound(k, mem)
    BY <1>1, <1>3, <1>7, <1>8, InvParts, NoBufferIsNone
    DEF Sound, Writers, Sources, PictureKinds, Blocks
  <2>2. Follows(k, call.made)
    BY <1>1, <1>3, <1>8 DEF Follows, Writers, Readers, Lent, Pictured, Sources
  <2>3. \A u \in DOMAIN h :
          \/ h[u] \in Using(hand, call)
          \/ Sound(h[u], mem) /\ \E x \in Using(hand, call) : Follows(h[u], x)
    BY <1>1, <1>5, <2>1, <2>2 DEF Using
  <2> HIDE DEF h
  <2> QED  BY <1>4, <1>5, <1>6, <2>3, InvParts, SameSelf, SendEndsKeeps
<1>9. CASE kind = "packet"
  <2>1. /\ call.made.from = "caller" /\ b0 # call.src.buf
        /\ \A u \in DOMAIN hand : hand[u].buf # b0
    BY <1>9, InvParts DEF InForce, KeptAlone
  <2>2. Behind(k, mem, {"unknown", "zeroes"})
    BY <1>1, <1>3, <2>1 DEF Sound, Behind
  <2>3. Sound(k, mem)
    BY <1>1, <1>3, <1>9, <2>1, <2>2, InvParts, NoBufferIsNone
    DEF Sound, Writers, Sources, PictureKinds, Blocks
  <2>4. ~Clash(k, k)
    BY <1>3, <1>9 DEF Clash, Writers, Readers
  <2>5. Own(k, {h[u] : u \in DOMAIN h} \cup {call.src})
    BY <1>3, <1>5, <2>1, <2>4 DEF Own
  <2>6. \A u \in DOMAIN h :
          \/ h[u] \in Using(hand, call)
          \/ Sound(h[u], mem) /\ Own(h[u], {h[x] : x \in DOMAIN h} \cup {call.src})
    BY <1>5, <2>3, <2>5 DEF Using
  <2> HIDE DEF h
  <2> QED  BY <1>4, <1>5, <1>6, <2>6, InvParts, SameSelf, SendEndsKeeps
<1> QED
  BY <1>8, <1>9

LEMMA AttachesKeeps ==
  ASSUME CarriersInv, AttachesSideData
  PROVE  CarriersInv'
<1>1. call.at = "built" /\ call.at \in BuildStages
  BY DEF AttachesSideData, BuildStages
<1>2. CASE SendEnds(Unreferenced(mem, call.made.buf), hand)
  BY <1>1, <1>2, LoanReturned
<1>3. ASSUME call.road = "keep", NEW t \in Free, SendEnds(mem, Given(hand, t, As(call.made, "packet")))
      PROVE  CarriersInv'
  BY <1>1, <1>3, BuiltStays
<1>4. ASSUME call' = [call EXCEPT !.at = "lent"], mem' = mem, hand' = hand
      PROVE  CarriersInv'
  <2> DEFINE d == [call EXCEPT !.at = "lent"]
  <2>1. /\ d \in Building /\ d.at = "lent" /\ d.src = call.src /\ d.made = call.made
        /\ call.src.kind = "carrier" /\ call.made.kind = "built"
    BY <1>1, BuildingCall DEF Building, BuildStages
  <2> HIDE DEF d
  <2>2. Calls(d)
    BY <2>1 DEF Calls, Stage
  <2>3. Exact(mem, hand, d) /\ Using(hand, d) = Using(hand, call)
    BY <2>1, InvParts DEF Exact, InCall, Using
  <2>4. InForce(hand, d)
    BY <2>1 DEF InForce, PlanHolds, LoanEnds, KeptAlone, Borrowed, TakeStages
  <2>5. CarriersKept(mem, hand, d)
    BY <2>2, <2>3, <2>4, InvParts DEF CarriersKept, AllSound
  <2> QED  BY <1>4, <2>5 DEF CarriersInv, d
<1> QED
  BY <1>2, <1>3, <1>4 DEF AttachesSideData

LEMMA SubmitsLoanKeeps ==
  ASSUME CarriersInv, SubmitsLoan
  PROVE  CarriersInv'
<1>1. call.at \in BuildStages
  BY DEF SubmitsLoan, BuildStages
<1>2. ASSUME NEW t \in Free, SendEnds(mem, Given(hand, t, As(call.made, "codec")))
      PROVE  CarriersInv'
  BY <1>1, <1>2, BuiltStays
<1> QED
  BY <1>1, <1>2, LoanReturned DEF SubmitsLoan

\* The history goes to the caller: as much his as it was the probe's.
LEMMA HandedBackIs ==
  ASSUME CarriersInv
  PROVE  LET g == HandedBack(hand)
         IN /\ Hands(g) /\ DOMAIN g = DOMAIN hand
            /\ \A b : InHands(g, b) = InHands(hand, b)
            /\ \A t \in DOMAIN hand :
                 Sound(g[t], mem) /\ Follows(g[t], hand[t]) /\ g[t] \in References
<1> DEFINE g == HandedBack(hand)
<1>1. /\ DOMAIN g = DOMAIN hand
      /\ \A t \in DOMAIN hand :
           g[t] = IF hand[t].kind = "record" THEN As(hand[t], "packet") ELSE hand[t]
  BY DEF HandedBack
<1>2. ASSUME NEW t \in DOMAIN hand
      PROVE  /\ g[t] \in References /\ g[t].kind \in HandKinds /\ g[t].buf = hand[t].buf
             /\ Sound(g[t], mem) /\ Follows(g[t], hand[t])
  <2>1. hand[t] \in References /\ hand[t].kind \in HandKinds /\ Sound(hand[t], mem)
    BY InvParts
  <2>2. CASE hand[t].kind = "record"
    <3>1. "packet" \in AnyKind /\ "packet" \in HandKinds
      BY DEF AnyKind, HandKinds
    <3>2. /\ g[t] \in References /\ g[t].kind = "packet" /\ g[t].buf = hand[t].buf
          /\ g[t].from = hand[t].from /\ g[t].stands = hand[t].stands
      BY <1>1, <2>1, <2>2, <3>1, AsMade
    <3>3. hand[t].from = "caller" /\ Behind(hand[t], mem, {"unknown", "zeroes"})
          /\ hand[t].buf # NoBuffer
      BY <2>1, <2>2 DEF Sound, Writers
    <3>4. Behind(g[t], mem, {"unknown", "zeroes"})
      BY <3>2, <3>3 DEF Behind
    <3>5. Sound(g[t], mem)
      BY <2>1, <3>2, <3>3, <3>4 DEF Sound, Writers, Sources, PictureKinds
    <3>6. Follows(g[t], hand[t])
      BY <2>2, <3>2 DEF Follows, Writers, Readers, Lent, Pictured, Sources
    <3> QED  BY <3>1, <3>2, <3>5, <3>6
  <2>3. CASE hand[t].kind # "record"
    BY <1>1, <2>1, <2>3, FollowsSelf
  <2> QED  BY <2>2, <2>3
<1>3. Hands(g)
  BY <1>1, <1>2, InvParts DEF Hands, HandedBack
<1>4. \A b : InHands(g, b) = InHands(hand, b)
  BY <1>1, <1>2, SameHands
<1> QED
  BY <1>1, <1>2, <1>3, <1>4

LEMMA HandsBackKeeps ==
  ASSUME CarriersInv, HandsBack
  PROVE  CarriersInv'
<1> DEFINE g == HandedBack(hand)
<1>1. call = Idle /\ hand' = g /\ mem' = mem /\ call' = call
  BY IdleCall DEF HandsBack
<1>2. /\ Hands(g) /\ DOMAIN g = DOMAIN hand
      /\ \A b : InHands(g, b) = InHands(hand, b)
      /\ \A t \in DOMAIN hand :
           Sound(g[t], mem) /\ Follows(g[t], hand[t]) /\ g[t] \in References
  BY HandedBackIs
<1> HIDE DEF g
<1>3. Exact(mem, g, Idle)
  BY <1>1, <1>2, InvParts DEF Exact
<1>4. \A x \in Using(g, Idle) : x \in Using(hand, Idle) \/ \E t \in DOMAIN hand : x = g[t]
  BY <1>2, IdleCalls DEF Using
<1>5. \A x \in Using(g, Idle) : x \in Using(hand, Idle) \/ Sound(x, mem)
  BY <1>2, <1>4
<1>6. \A x \in Using(g, Idle) : \E y \in Using(hand, Idle) : Follows(x, y)
  <2>1. \A t \in DOMAIN hand : hand[t] \in Using(hand, Idle)
    BY DEF Using
  <2> QED  BY <1>2, <1>4, <2>1, FollowsSelf
<1>7. CarriersKept(mem, g, Idle)
  BY <1>1, <1>2, <1>3, <1>5, <1>6, InvParts, IdleForce, IdleCalls, SameSelf, Step
<1> QED
  BY <1>1, <1>7 DEF CarriersInv

LEMMA RecordedKeeps ==
  ASSUME CarriersInv, call.at = "lent", Fresh # {}, NEW t \in Free, NEW u \in Free \ {t},
         SendEnds(CloneMade(call.made, mem),
                  Given(Given(hand, t, As(call.made, "codec")), u, CloneOf(call.made, "record")))
  PROVE  CarriersInv'
<1> DEFINE b0 == call.made.buf
           len == call.made.len
           n == PaddedAlloc(mem, len)
           k == As(call.made, "codec")
           r == Holder("record", NewBuffer, 0, len, "caller")
           h0 == Given(hand, t, k)
           h == Given(h0, u, r)
<1>1. call.at \in BuildStages
  BY DEF BuildStages
<1>2. call.made.kind = "built" /\ call.made \in References /\ Sound(call.made, mem)
      /\ b0 \in DOMAIN mem /\ b0 \in Buffers /\ len \in Nat /\ len <= Budget
      /\ call.made \in Using(hand, call)
  BY <1>1, BuildingCall, InvParts, UsingRefs
<1>3. SendEnds(n, h)
  BY DEF CloneMade, CloneOf, OwnPacket
<1>4. "record" \in Writers \cup {"built", "codec"} /\ "record" \in HandKinds
      /\ "codec" \in HandKinds /\ "codec" \in AnyKind
  BY DEF Writers, HandKinds, AnyKind
<1>5. /\ r \in References /\ r.kind = "record" /\ r.buf = NewBuffer
      /\ NewBuffer \in Buffers \ DOMAIN mem
      /\ Blocks(n) /\ SameBlocks(mem, n) /\ DOMAIN n = DOMAIN mem \cup {NewBuffer}
      /\ \A b \in Buffers : Refs(n, b) = Refs(mem, b) + Is(NewBuffer, b)
      /\ Sound(r, n)
  BY <1>2, <1>4, OwnPacketMade
<1>6. /\ k \in References /\ k.kind = "codec" /\ k.buf = b0
      /\ k.off = call.made.off /\ k.len = len /\ k.stands = call.made.stands
      /\ k.from = call.made.from
  BY <1>2, <1>4, AsMade
<1> HIDE DEF k, r, n
<1>7. Sound(call.made, n)
  BY <1>2, <1>5, InvParts, SoundStays
<1>8. Sound(k, n)
  <2>1. Behind(k, n, {"libavformat", "zeroes"}) /\ Inside(k, n)
    BY <1>2, <1>6, <1>7 DEF Sound, Behind, Inside
  <2> QED  BY <1>2, <1>6, <1>7, <2>1, NoBufferIsNone DEF Sound, Writers, Sources, PictureKinds
<1>9. Follows(k, call.made)
  BY <1>2, <1>6 DEF Follows, Writers, Readers, Lent, Pictured, Sources
<1>10. /\ Hands(h0) /\ DOMAIN h0 = DOMAIN hand \cup {t} /\ h0[t] = k
       /\ \A x \in DOMAIN hand : h0[x] = hand[x]
       /\ \A b : InHands(h0, b) = InHands(hand, b) + Is(b0, b)
  <2>1. h0 = Given(hand, t, k) /\ t \in Handles /\ t \notin DOMAIN hand
    BY DEF Free
  <2>2. Hands(hand) /\ k.kind \in HandKinds
    BY <1>4, <1>6, InvParts
  <2> HIDE DEF h0
  <2>3. /\ Hands(h0) /\ DOMAIN h0 = DOMAIN hand \cup {t} /\ h0[t] = k
        /\ \A x \in DOMAIN hand : h0[x] = hand[x]
        /\ \A b : InHands(h0, b) = InHands(hand, b) + Is(k.buf, b)
    BY <1>6, <2>1, <2>2, GivenTo
  <2> QED  BY <1>6, <2>3
<1>11. /\ Hands(h) /\ DOMAIN h = DOMAIN h0 \cup {u} /\ h[u] = r
       /\ \A x \in DOMAIN h0 : h[x] = h0[x]
       /\ \A b : InHands(h, b) = InHands(h0, b) + Is(NewBuffer, b)
  <2>1. h = Given(h0, u, r) /\ u \in Handles /\ u \notin DOMAIN h0
    BY <1>10 DEF Free
  <2>2. Hands(h0) /\ r \in References /\ r.kind \in HandKinds
    BY <1>4, <1>5, <1>10
  <2> HIDE DEF h, h0
  <2>3. /\ Hands(h) /\ DOMAIN h = DOMAIN h0 \cup {u} /\ h[u] = r
        /\ \A x \in DOMAIN h0 : h[x] = h0[x]
        /\ \A b : InHands(h, b) = InHands(h0, b) + Is(r.buf, b)
    BY <2>1, <2>2, GivenTo
  <2> QED  BY <1>5, <2>3
<1>12. \A b \in Buffers : Refs(n, b) = InHands(h, b) + Is(call.src.buf, b)
  <2>1. \A b \in Buffers : InHands(hand, b) \in Nat /\ Is(call.src.buf, b) \in Int
                           /\ Is(b0, b) \in Int /\ Is(NewBuffer, b) \in Int
    BY InvParts, HandsFinite, IsBit
  <2>2. \A b \in Buffers : Refs(mem, b) = InHands(hand, b) + Is(call.src.buf, b) + Is(b0, b)
    BY <1>1, BuildingCall
  <2> QED  BY <1>5, <1>10, <1>11, <2>1, <2>2
<1>13. \A x \in DOMAIN h : h[x] = r \/ h[x] = k \/ h[x] \in Using(hand, call)
  BY <1>10, <1>11 DEF Using
<1>14. \A x \in Using(hand, call) : x.buf # NewBuffer
  BY <1>5, InvParts, Unused
<1>15. Own(r, {h[x] : x \in DOMAIN h} \cup {call.src})
  <2>1. ASSUME NEW x \in {h[y] : y \in DOMAIN h} \cup {call.src}, Clash(r, x) \/ Clash(x, r)
        PROVE  x.buf # r.buf
    <3>1. x # r
      BY <1>5, <2>1 DEF Clash, Writers, Readers
    <3>2. x = k \/ x \in Using(hand, call)
      BY <1>13, <3>1 DEF Using
    <3> QED  BY <1>2, <1>5, <1>6, <1>14, <3>2
  <2> QED  BY <2>1 DEF Own
<1>16. \A x \in DOMAIN h :
         \/ h[x] \in Using(hand, call)
         \/ /\ Sound(h[x], n)
            /\ \/ \E y \in Using(hand, call) : Follows(h[x], y)
               \/ Own(h[x], {h[y] : y \in DOMAIN h} \cup {call.src})
  BY <1>2, <1>5, <1>8, <1>9, <1>13, <1>15
<1>17. SendEnds(n, h)
  BY <1>3 DEF n, k, r
<1> HIDE DEF h, h0
<1> QED
  BY <1>1, <1>5, <1>11, <1>12, <1>16, <1>17, SendEndsKeeps

LEMMA RecordsKeeps ==
  ASSUME CarriersInv, RecordsAndSubmits
  PROVE  CarriersInv'
<1>1. call.at = "lent" /\ call.at \in BuildStages
  BY DEF RecordsAndSubmits, BuildStages
<1>2. CASE SendEnds(Unreferenced(mem, call.made.buf), HandedBack(hand))
  <2> DEFINE h == HandedBack(hand)
  <2>1. /\ Hands(h) /\ DOMAIN h = DOMAIN hand
        /\ \A b : InHands(h, b) = InHands(hand, b)
        /\ \A t \in DOMAIN hand :
             Sound(h[t], mem) /\ Follows(h[t], hand[t]) /\ h[t] \in References
    BY HandedBackIs
  <2>2. \A t \in DOMAIN h : Sound(h[t], mem) /\ h[t] \in References
                            /\ \E x \in Using(hand, call) : Follows(h[t], x)
    BY <2>1 DEF Using
  <2>3. SendEnds(Unreferenced(mem, call.made.buf), h)
    BY <1>2
  <2> HIDE DEF h
  <2> QED  BY <1>1, <2>1, <2>2, <2>3, BuiltDropped
<1> QED
  BY <1>1, <1>2, RecordedKeeps DEF RecordsAndSubmits

LEMMA ReplaysKeeps ==
  ASSUME CarriersInv, NEW u \in DOMAIN hand, ReplaysRecord(hand[u])
  PROVE  CarriersInv'
<1> DEFINE p == hand[u]
           n == PaddedAlloc(mem, p.len)
           r == Holder("codec", NewBuffer, 0, p.len, "caller")
<1>1. PICK t \in Free : hand' = Given(hand, t, r)
  BY DEF ReplaysRecord, CloneOf, OwnPacket
<1>2. p.kind = "record" /\ Fresh # {} /\ mem' = n /\ call' = call
  BY DEF ReplaysRecord, CloneMade
<1>3. p.len \in Nat /\ p.len <= Budget
  BY <1>2, InvParts DEF Sound, References
<1>4. "codec" \in Writers \cup {"built", "codec"} /\ "codec" \in HandKinds
  BY DEF HandKinds
<1>5. /\ r \in References /\ r.kind = "codec" /\ r.buf = NewBuffer
      /\ NewBuffer \in Buffers \ DOMAIN mem
      /\ Blocks(n) /\ SameBlocks(mem, n)
      /\ \A b \in Buffers : Refs(n, b) = Refs(mem, b) + Is(NewBuffer, b)
      /\ Sound(r, n)
  BY <1>2, <1>3, <1>4, OwnPacketMade
<1> HIDE DEF r, n
<1>6. CarriersKept(n, Given(hand, t, r), call)
  BY <1>4, <1>5, GivenStep
<1> QED
  BY <1>1, <1>2, <1>6 DEF CarriersInv

-----------------------------------------------------------------------------
(* Planes and outputs *)

\* A carrier over bytes a decoder or the resampler wrote clashes with nobody.
LEMMA OwnCarrier ==
  ASSUME CarriersInv, NEW k, k.kind = "carrier", k.buf \in DOMAIN mem, mem[k.buf].tail = "none",
         NEW V, \A x \in V : x = k \/ x \in Using(hand, call) \/ x = Nobody
  PROVE  Own(k, V)
<1>1. ASSUME NEW x \in V, Clash(k, x) \/ Clash(x, k)
      PROVE  x.buf # k.buf
  <2>1. x.kind \in Writers \/ x.kind = "queued"
    BY <1>1 DEF Clash, Writers
  <2>2. x \in Using(hand, call)
    BY <2>1, NobodyMade DEF Writers
  <2>3. Sound(x, mem)
    BY <2>2, InvParts DEF AllSound
  <2>4. mem[x.buf].tail # "none"
    BY <2>1, <2>3 DEF Sound, Behind
  <2> QED  BY <2>4
<1> QED
  BY <1>1 DEF Own

LEMMA PlaneWindowKeeps ==
  ASSUME CarriersInv, call = Idle, NEW u \in DOMAIN hand, hand[u].kind = "frame", NEW t \in Free,
         mem' = WindowOpens(hand[u]), hand' = Given(hand, t, Window(hand[u], "foreign")),
         call' = call
  PROVE  CarriersInv'
<1> DEFINE f == hand[u]
           n == Referenced(mem, f.buf)
           k == Holder("carrier", f.buf, f.off, f.len, "foreign")
           g == Given(hand, t, k)
<1>1. f \in References /\ Sound(f, mem) /\ f \in Using(hand, call) /\ f.off \in Nat /\ f.len \in Nat
  BY InvParts DEF Using, References
<1>2. f.buf \in DOMAIN mem /\ mem[f.buf].tail = "none" /\ f.buf \in Buffers
  BY <1>1, InvParts DEF Sound, Behind, PictureKinds, Blocks
<1>3. "carrier" \in AnyKind /\ "carrier" \in HandKinds /\ "foreign" \in Givers
  BY DEF AnyKind, HandKinds, Givers
<1>4. /\ k \in References /\ k.kind = "carrier" /\ k.buf = f.buf /\ k.from = "foreign" /\ k.stands
  BY <1>1, <1>2, <1>3, HolderMade
<1> HIDE DEF k
<1>5. Blocks(n) /\ SameBlocks(mem, n) /\ DOMAIN n = DOMAIN mem
  BY InvParts, ReferencedBlocks
<1>6. \A b \in Buffers : Refs(n, b) = Refs(mem, b) + Is(f.buf, b)
  BY <1>1, ReferencedFrom
<1>7. /\ Hands(g) /\ DOMAIN g = DOMAIN hand \cup {t} /\ g[t] = k
      /\ \A x \in DOMAIN hand : g[x] = hand[x]
      /\ \A b : InHands(g, b) = InHands(hand, b) + Is(f.buf, b)
  <2>1. g = Given(hand, t, k) /\ t \in Handles /\ t \notin DOMAIN hand
    BY DEF Free
  <2>2. Hands(hand) /\ k.kind \in HandKinds
    BY <1>3, <1>4, InvParts
  <2> HIDE DEF g
  <2>3. /\ Hands(g) /\ DOMAIN g = DOMAIN hand \cup {t} /\ g[t] = k
        /\ \A x \in DOMAIN hand : g[x] = hand[x]
        /\ \A b : InHands(g, b) = InHands(hand, b) + Is(k.buf, b)
    BY <1>4, <2>1, <2>2, GivenTo
  <2> QED  BY <1>4, <2>3
<1> HIDE DEF g, n
<1>8. Exact(n, g, call)
  <2>1. \A b \in Buffers : Refs(mem, b) = InHands(hand, b) + InCall(call, b)
    BY InvParts DEF Exact
  <2>2. \A b \in Buffers : InHands(hand, b) \in Nat /\ Is(f.buf, b) \in Int /\ InCall(call, b) \in Nat
    BY InvParts, HandsFinite, IsBit, InCallNat
  <2> QED  BY <1>6, <1>7, <2>1, <2>2 DEF Exact
<1>9. \A x \in Using(g, call) : x = k \/ x \in Using(hand, call)
  BY <1>7 DEF Using
<1>10. Sound(k, n)
  BY <1>2, <1>4, NoBufferIsNone DEF Sound, Writers, Sources, PictureKinds
<1>11. Own(k, Using(g, call))
  BY <1>2, <1>4, <1>9, OwnCarrier
<1>12. CarriersKept(n, g, call)
  <2>1. \A x \in Using(g, call) : Own(x, Using(g, call)) \/ \E y \in Using(hand, call) : Follows(x, y)
    BY <1>9, <1>11, FollowsSelf
  <2> QED  BY <1>5, <1>7, <1>8, <1>9, <1>10, <2>1, IdleForce, InvParts, Step
<1> QED
  BY <1>12 DEF CarriersInv, WindowOpens, Window, g, n, k

LEMMA CarriesPlaneKeeps ==
  ASSUME CarriersInv, NEW u \in DOMAIN hand, CarriesPlane(hand[u])
  PROVE  CarriersInv'
<1> DEFINE f == hand[u]
<1>1. call = Idle /\ call' = call /\ f.kind = "frame" /\ f \in References
  BY IdleCall, InvParts DEF CarriesPlane
<1>2. PICK t \in Free :
        \/ mem' = WindowOpens(f) /\ hand' = Given(hand, t, Window(f, "foreign"))
        \/ Fresh # {} /\ mem' = CopyMade(f) /\ hand' = Given(hand, t, CopyOf(f))
  BY DEF CarriesPlane
<1>3. CASE mem' = WindowOpens(f) /\ hand' = Given(hand, t, Window(f, "foreign"))
  BY <1>1, <1>3, PlaneWindowKeeps
<1>4. CASE Fresh # {} /\ mem' = CopyMade(f) /\ hand' = Given(hand, t, CopyOf(f))
  <2> DEFINE n == CopyMade(f)
             k == CopyOf(f)
  <2>1. /\ k \in References /\ k.kind = "carrier" /\ k.buf = NewBuffer
        /\ NewBuffer \in Buffers \ DOMAIN mem
        /\ Blocks(n) /\ SameBlocks(mem, n)
        /\ \A b \in Buffers : Refs(n, b) = Refs(mem, b) + Is(NewBuffer, b)
        /\ Sound(k, n)
    BY <1>1, <1>4, CopyMadeOf
  <2>2. "carrier" \in HandKinds
    BY DEF HandKinds
  <2>3. mem' = n /\ hand' = Given(hand, t, k)
    BY <1>4
  <2> HIDE DEF n, k
  <2>4. CarriersKept(n, Given(hand, t, k), call)
    BY <2>1, <2>2, GivenStep
  <2> QED  BY <1>1, <2>3, <2>4 DEF CarriersInv
<1> QED
  BY <1>2, <1>3, <1>4

LEMMA ReservedCall ==
  ASSUME NEW src \in References, src.kind = "output", NEW made \in References,
         made.kind = "reserved", NEW d, d = [at |-> "reserved", src |-> src, made |-> made]
  PROVE  Calls(d) /\ \A h : InForce(h, d)
<1>1. d \in Reserving /\ d.at = "reserved" /\ d.src = src /\ d.made = made
  BY DEF Reserving
<1>2. Calls(d)
  BY <1>1 DEF Calls, Stage
<1>3. ASSUME NEW h
      PROVE  InForce(h, d)
  BY <1>1 DEF InForce, PlanHolds, LoanEnds, KeptAlone, Borrowed, TakeStages
<1> QED
  BY <1>2, <1>3

\* What is decoded or resampled lies in a buffer nothing follows.
LEMMA WrittenSound ==
  ASSUME NEW r \in References, r.kind \in PictureKinds \cup {"carrier"}, r.from = "foreign",
         r.stands, r.buf \in Buffers, NEW n, r.buf \in DOMAIN n, n[r.buf].tail = "none"
  PROVE  Sound(r, n)
BY NoBufferIsNone DEF Sound, Behind, Writers, Sources, PictureKinds

\* A reservation begins: the output and what is reserved for its carrier.
LEMMA ReservationMade ==
  ASSUME CarriersInv, call = Idle, NEW n, Blocks(n), SameBlocks(mem, n),
         NEW b0 \in Buffers \ DOMAIN mem, NEW b1 \in Buffers \ DOMAIN mem,
         b0 \in DOMAIN n, b1 \in DOMAIN n, n[b0].tail = "none", n[b1].tail = "none",
         \A b \in Buffers : Refs(n, b) = Refs(mem, b) + Is(b0, b) + Is(b1, b),
         NEW src \in References, src.kind = "output", src.buf = b0, src.from = "foreign", src.stands,
         NEW made \in References, made.kind = "reserved", made.buf = b1, made.from = "foreign",
         made.stands
  PROVE  CarriersKept(n, hand, [at |-> "reserved", src |-> src, made |-> made])
<1> DEFINE d == [at |-> "reserved", src |-> src, made |-> made]
<1>1. d.src = src /\ d.made = made
  OBVIOUS
<1>2. Calls(d) /\ InForce(hand, d)
  BY ReservedCall
<1> HIDE DEF d
<1>3. Sound(src, n) /\ Sound(made, n)
  BY WrittenSound DEF PictureKinds
<1>4. Exact(n, hand, d)
  <2>1. \A b \in Buffers : Refs(mem, b) = InHands(hand, b) + 0
    BY IdleCount, InvParts DEF Exact
  <2>2. \A b \in Buffers : InHands(hand, b) \in Nat /\ Is(b0, b) \in Int /\ Is(b1, b) \in Int
    BY InvParts, HandsFinite, IsBit
  <2>3. \A b : InCall(d, b) = Is(b0, b) + Is(b1, b)
    BY <1>1 DEF InCall
  <2> QED  BY <2>1, <2>2, <2>3 DEF Exact
<1>5. \A x \in Using(hand, d) : x = src \/ x = made \/ x \in Using(hand, call)
  BY <1>1 DEF Using
<1>6. \A x \in Using(hand, d) :
        /\ ~Clash(src, x) /\ ~Clash(x, src)
        /\ ~Clash(made, x) /\ ~Clash(x, made)
  BY DEF Clash, Writers, Readers, Lent, Pictured, Sources
<1>7. Own(src, Using(hand, d)) /\ Own(made, Using(hand, d))
  BY <1>6 DEF Own
<1>8. \A x \in Using(hand, d) : Own(x, Using(hand, d)) \/ \E y \in Using(hand, call) : Follows(x, y)
  BY <1>5, <1>7, FollowsSelf
<1>9. \A x \in Using(hand, d) : x \in Using(hand, call) \/ Sound(x, n)
  BY <1>3, <1>5
<1>10. CarriersKept(n, hand, d)
  BY <1>2, <1>4, <1>8, <1>9, InvParts, Step
<1> QED
  BY <1>10 DEF d

LEMMA ReservesKeeps ==
  ASSUME CarriersInv, ReservesOutput
  PROVE  CarriersInv'
<1> DEFINE b0 == NewBuffer
           output == Holder("output", b0, 0, 1, "foreign")
           framed == Alloc(mem, b0, 1, "none")
           reserved == As(output, "reserved")
<1>1. call = Idle /\ Fresh # {} /\ hand' = hand
  BY IdleCall DEF ReservesOutput
<1>2. /\ b0 \in Buffers \ DOMAIN mem
      /\ Blocks(framed) /\ SameBlocks(mem, framed) /\ DOMAIN framed = DOMAIN mem \cup {b0}
      /\ framed[b0].tail = "none"
      /\ \A b \in Buffers : Refs(framed, b) = Refs(mem, b) + Is(b0, b)
  BY <1>1, FreshAlloc DEF Endings
<1>3. /\ output \in References /\ output.kind = "output" /\ output.buf = b0
      /\ output.from = "foreign" /\ output.stands
  BY <1>2, HolderMade DEF AnyKind, Givers
<1>4. /\ reserved \in References /\ reserved.kind = "reserved" /\ reserved.buf = b0
      /\ reserved.from = "foreign" /\ reserved.stands
  BY <1>3, AsMade DEF AnyKind
<1>5. ASSUME mem' = Referenced(framed, b0),
             call' = [at |-> "reserved", src |-> output, made |-> reserved]
      PROVE  CarriersInv'
  <2> DEFINE n == Referenced(framed, b0)
  <2>1. /\ Blocks(n) /\ SameBlocks(framed, n) /\ DOMAIN n = DOMAIN framed
        /\ \A b \in Buffers : Refs(n, b) = Refs(framed, b) + Is(b0, b)
    BY <1>2, ReferencedBlocks
  <2>2. SameBlocks(mem, n) /\ b0 \in DOMAIN n /\ n[b0].tail = "none"
    BY <1>2, <2>1 DEF SameBlocks
  <2>3. \A b \in Buffers : Refs(n, b) = Refs(mem, b) + Is(b0, b) + Is(b0, b)
    BY <1>2, <2>1
  <2> HIDE DEF n, output, reserved
  <2>4. CarriersKept(n, hand, [at |-> "reserved", src |-> output, made |-> reserved])
    BY <1>1, <1>2, <1>3, <1>4, <2>1, <2>2, <2>3, ReservationMade
  <2> QED  BY <1>1, <1>5, <2>4 DEF CarriersInv, n
<1>6. ASSUME Fresh \ {b0} # {}, mem' = Alloc(framed, OtherBuffer, 1, "none"),
             call' = [at |-> "reserved", src |-> output,
                      made |-> [reserved EXCEPT !.buf = OtherBuffer]]
      PROVE  CarriersInv'
  <2> DEFINE b1 == OtherBuffer
             n == Alloc(framed, b1, 1, "none")
             made == [reserved EXCEPT !.buf = b1]
  <2>1. b1 \in Fresh \ {b0}
    BY <1>6 DEF OtherBuffer
  <2>2. b1 \in Buffers \ DOMAIN mem /\ b1 \in Buffers \ DOMAIN framed
    BY <1>2, <2>1 DEF Fresh
  <2>3. n = Alloc(framed, b1, 1, "none") /\ 1 \in Nat /\ "none" \in Endings
    BY DEF Endings
  <2> HIDE DEF n, b1, framed
  <2>4. /\ Blocks(n) /\ DOMAIN n = DOMAIN framed \cup {b1} /\ SameBlocks(framed, n)
        /\ n[b1].tail = "none"
        /\ \A b \in Buffers : Refs(n, b) = Refs(framed, b) + Is(b1, b)
    <3>1. Blocks(framed) /\ b1 \in Buffers \ DOMAIN framed
      BY <1>2, <2>2
    <3>2. 1 \in Nat /\ "none" \in Endings
      BY <2>3
    <3>3. LET a == Alloc(framed, b1, 1, "none")
          IN /\ Blocks(a) /\ DOMAIN a = DOMAIN framed \cup {b1} /\ SameBlocks(framed, a)
             /\ a[b1].tail = "none"
             /\ \A b \in Buffers : Refs(a, b) = Refs(framed, b) + Is(b1, b)
      BY <3>1, <3>2, AllocBlocks
    <3> QED  BY <2>3, <3>3
  <2>5. SameBlocks(mem, n) /\ b0 \in DOMAIN n /\ b1 \in DOMAIN n /\ n[b0].tail = "none"
    BY <1>2, <2>4 DEF SameBlocks
  <2>6. \A b \in Buffers : Refs(n, b) = Refs(mem, b) + Is(b0, b) + Is(b1, b)
    BY <1>2, <2>4
  <2>7. /\ made \in References /\ made.kind = "reserved" /\ made.buf = b1
        /\ made.from = "foreign" /\ made.stands
    BY <1>4, <2>2 DEF References
  <2> HIDE DEF made, output, reserved
  <2>8. CarriersKept(n, hand, [at |-> "reserved", src |-> output, made |-> made])
    BY <1>1, <1>2, <1>3, <2>2, <2>4, <2>5, <2>6, <2>7, ReservationMade
  <2> QED  BY <1>1, <1>6, <2>8 DEF CarriersInv, n, b1, framed, made
<1>7. \/ /\ mem' = Referenced(framed, b0)
         /\ call' = [at |-> "reserved", src |-> output, made |-> reserved]
      \/ /\ Fresh \ {b0} # {} /\ mem' = Alloc(framed, OtherBuffer, 1, "none")
         /\ call' = [at |-> "reserved", src |-> output,
                     made |-> [reserved EXCEPT !.buf = OtherBuffer]]
  BY DEF ReservesOutput
<1> QED
  BY <1>5, <1>6, <1>7

LEMMA CommitsKeeps ==
  ASSUME CarriersInv, CommitsOutput
  PROVE  CarriersInv'
<1> DEFINE s == call.src
           r == call.made
           m == Unreferenced(mem, s.buf)
<1>1. call.at = "reserved" /\ call' = Idle /\ s.kind = "output" /\ r.kind = "reserved"
  BY InvParts DEF CommitsOutput, Calls, Stage
<1>2. s \in References /\ r \in References /\ Sound(s, mem) /\ Sound(r, mem)
      /\ s \in Using(hand, call) /\ r \in Using(hand, call)
  BY InvParts, UsingRefs
<1>3. /\ s.buf \in DOMAIN mem /\ s.buf \in Buffers
      /\ r.buf \in DOMAIN mem /\ mem[r.buf].tail = "none" /\ r.buf \in Buffers
  BY <1>1, <1>2, InvParts DEF Sound, Behind, PictureKinds, Blocks
<1>4. Blocks(m) /\ SameBlocks(mem, m) /\ DOMAIN m \subseteq DOMAIN mem
  BY InvParts, UnreferencedBlocks
<1>5. \A b \in Buffers : Refs(m, b) = Refs(mem, b) - Is(s.buf, b)
  BY <1>2, UnreferencedFrom
<1>6. \A b \in Buffers : InHands(hand, b) \in Nat /\ Is(s.buf, b) \in Int /\ Is(r.buf, b) \in Int
  BY InvParts, HandsFinite, IsBit
<1>7. \A b \in Buffers : Refs(mem, b) = InHands(hand, b) + (Is(s.buf, b) + Is(r.buf, b))
  BY InvParts DEF Exact, InCall
<1>8. \A b \in Buffers : Refs(m, b) = InHands(hand, b) + Is(r.buf, b)
  BY <1>5, <1>6, <1>7
<1>9. ~Clash(Nobody, Nobody) /\ \A n : Sound(Nobody, n)
  BY NobodyMade DEF Clash, Sound, Writers, Readers, Lent, Pictured, Sources, PictureKinds
<1>10. \A V : Own(Nobody, V)
  BY NobodyMade DEF Own, Clash, Writers, Readers, Lent, Pictured, Sources
<1> HIDE DEF m
<1>11. \A x \in Using(hand, call) : Follows(x, x)
  BY FollowsSelf
<1>12. r.buf \in DOMAIN m /\ m[r.buf].tail = "none"
  <2>1. Is(r.buf, r.buf) = 1
    BY DEF Is
  <2>2. Refs(m, r.buf) > 0
    BY <1>3, <1>6, <1>8, <2>1
  <2>3. r.buf \in DOMAIN m
    BY <1>4, <2>2, RefsNat
  <2> QED  BY <1>3, <1>4, <2>3 DEF SameBlocks
<1>13. ASSUME NEW t \in Free, mem' = m, hand' = Given(hand, t, As(r, "carrier"))
       PROVE  CarriersInv'
  <2> DEFINE k == As(r, "carrier")
             g == Given(hand, t, k)
  <2>1. "carrier" \in AnyKind /\ "carrier" \in HandKinds
    BY DEF AnyKind, HandKinds
  <2>2. /\ k \in References /\ k.kind = "carrier" /\ k.buf = r.buf /\ k.from = r.from
        /\ k.stands = r.stands
    BY <1>2, <2>1, AsMade
  <2> HIDE DEF k
  <2>3. /\ Hands(g) /\ DOMAIN g = DOMAIN hand \cup {t} /\ g[t] = k
        /\ \A x \in DOMAIN hand : g[x] = hand[x]
        /\ \A b : InHands(g, b) = InHands(hand, b) + Is(r.buf, b)
    <3>1. g = Given(hand, t, k) /\ t \in Handles /\ t \notin DOMAIN hand
      BY DEF Free
    <3>2. Hands(hand) /\ k \in References /\ k.kind \in HandKinds
      BY <2>1, <2>2, InvParts
    <3> HIDE DEF g
    <3>3. /\ Hands(g) /\ DOMAIN g = DOMAIN hand \cup {t} /\ g[t] = k
          /\ \A x \in DOMAIN hand : g[x] = hand[x]
          /\ \A b : InHands(g, b) = InHands(hand, b) + Is(k.buf, b)
      BY <3>1, <3>2, GivenTo
    <3> QED  BY <2>2, <3>3
  <2> HIDE DEF g
  <2>4. Exact(m, g, Idle)
    <3>1. \A b \in Buffers : Refs(m, b) = InHands(g, b) + 0
      BY <1>6, <1>8, <2>3
    <3> QED  BY <3>1, IdleCount DEF Exact
  <2>5. \A x \in Using(g, Idle) : x = k \/ x \in Using(hand, call) \/ x = Nobody
    BY <2>3, IdleCalls DEF Using
  <2>6. Sound(k, m)
    <3>1. k.from = "foreign" /\ k.stands
      BY <1>1, <1>2, <2>2 DEF Sound
    <3> QED  BY <1>3, <1>12, <2>2, <3>1, WrittenSound
  <2>7. Own(k, Using(g, Idle))
    BY <1>3, <2>2, <2>5, OwnCarrier
  <2>8. \A x \in Using(g, Idle) : x \in Using(hand, call) \/ Sound(x, m)
    BY <1>9, <2>5, <2>6
  <2>9. \A x \in Using(g, Idle) :
          Own(x, Using(g, Idle)) \/ \E y \in Using(hand, call) : Follows(x, y)
    BY <1>10, <1>11, <2>5, <2>7
  <2>10. CarriersKept(m, g, Idle)
    BY <1>4, <2>3, <2>4, <2>8, <2>9, IdleForce, IdleCalls, InvParts, Step
  <2> QED  BY <1>1, <1>13, <2>10 DEF CarriersInv, g, k
<1>14. ASSUME mem' = Unreferenced(m, r.buf), hand' = hand
       PROVE  CarriersInv'
  <2> DEFINE n == Unreferenced(m, r.buf)
  <2>1. /\ Blocks(n) /\ SameBlocks(m, n) /\ DOMAIN n \subseteq DOMAIN m
        /\ \A b \in Buffers : Refs(n, b) = Refs(m, b) - Is(r.buf, b)
    BY <1>4, <1>12, UnreferencedBlocks
  <2>2. SameBlocks(mem, n)
    BY <1>4, <2>1, SameThrough
  <2>3. \A b \in Buffers : Refs(n, b) = InHands(hand, b) + 0
    BY <1>6, <1>8, <2>1
  <2>4. Exact(n, hand, Idle)
    BY <2>3, IdleCount DEF Exact
  <2> HIDE DEF n
  <2>5. \A x \in Using(hand, Idle) : x \in Using(hand, call) \/ x = Nobody
    BY IdleCalls DEF Using
  <2>6. \A x \in Using(hand, Idle) : x \in Using(hand, call) \/ Sound(x, n)
    BY <1>9, <2>5
  <2>7. \A x \in Using(hand, Idle) :
          Own(x, Using(hand, Idle)) \/ \E y \in Using(hand, call) : Follows(x, y)
    BY <1>10, <1>11, <2>5
  <2>8. CarriersKept(n, hand, Idle)
    BY <2>1, <2>2, <2>4, <2>6, <2>7, IdleForce, IdleCalls, InvParts, Step
  <2> QED  BY <1>1, <1>14, <2>8 DEF CarriersInv, n
<1>15. \/ mem' = m /\ \E t \in Free : hand' = Given(hand, t, As(r, "carrier"))
       \/ mem' = Unreferenced(m, r.buf) /\ hand' = hand
  BY DEF CommitsOutput, m
<1> QED
  BY <1>13, <1>14, <1>15

-----------------------------------------------------------------------------
(* The specification *)

LEMMA CarriersBegin ==
  ASSUME CarriersInit
  PROVE  CarriersInv
<1>1. DOMAIN mem = {} /\ DOMAIN hand = {} /\ call = Idle
  BY DEF CarriersInit
<1>2. Blocks(mem)
  BY <1>1 DEF CarriersInit, Blocks
<1>3. Hands(hand)
  BY <1>1 DEF CarriersInit, Hands
<1>4. \A b \in Buffers : Refs(mem, b) = 0 /\ InHands(hand, b) = 0
  <2>1. ASSUME NEW b
        PROVE  {t \in DOMAIN hand : hand[t].buf = b} = {}
    BY <1>1
  <2> QED  BY <1>1, <2>1, FS_EmptySet DEF Refs, InHands
<1>5. Exact(mem, hand, Idle)
  BY <1>4, IdleCount DEF Exact
<1>6. Using(hand, Idle) = {Nobody}
  BY <1>1, IdleCalls DEF Using
<1>7. ~Clash(Nobody, Nobody) /\ Sound(Nobody, mem)
  BY NobodyMade DEF Clash, Sound, Writers, Readers, Lent, Pictured, Sources, PictureKinds
<1> QED
  BY <1>1, <1>2, <1>3, <1>5, <1>6, <1>7, IdleCalls, IdleForce
     DEF CarriersInv, CarriersKept, AllSound, AllApart

LEMMA CarriersStep ==
  ASSUME CarriersInv, [CarriersNext]_carrierVars
  PROVE  CarriersInv'
<1>1. CASE MakesPacket
  BY <1>1, MakesPacketKeeps
<1>2. ASSUME NEW t \in DOMAIN hand,
             \/ ClonesPacket(hand[t]) \/ WritesPacket(hand[t]) \/ ClonesCarrier(hand[t])
             \/ QueueWrites(hand[t]) \/ ReplaysRecord(hand[t]) \/ CarriesPlane(hand[t])
      PROVE  CarriersInv'
  BY <1>2, ClonesPacketKeeps, WritesPacketKeeps, ClonesCarrierKeeps, QueueWritesKeeps,
     ReplaysKeeps, CarriesPlaneKeeps
<1>3. ASSUME NEW t \in DOMAIN hand,
             Drops(t) \/ CallerConverts(t) \/ DemuxRetries(t) \/ BuildsPacket(t)
      PROVE  CarriersInv'
  BY <1>3, DropsKeeps, CallerConvertsKeeps, DemuxRetriesKeeps, BuildsPacketKeeps
<1>4. CASE DemuxReads \/ RefusesSource \/ DeliversBodiless \/ JudgesSource
  BY <1>4, DemuxReadsKeeps, RefusesSourceKeeps, DeliversBodilessKeeps, JudgesSourceKeeps
<1>5. CASE CapturesPayload \/ CaptureFails \/ TakeEnds
  BY <1>5, CapturesPayloadKeeps, CaptureFailsKeeps, TakeEndsKeeps
<1>6. CASE AttachesSideData \/ SubmitsLoan \/ RecordsAndSubmits \/ HandsBack
  BY <1>6, AttachesKeeps, SubmitsLoanKeeps, RecordsKeeps, HandsBackKeeps
<1>7. CASE PictureDecoded \/ ReservesOutput \/ CommitsOutput
  BY <1>7, PictureDecodedKeeps, ReservesKeeps, CommitsKeeps
<1>8. CASE UNCHANGED carrierVars
  BY <1>8 DEF carrierVars, CarriersInv, CarriersKept
<1> QED
  BY <1>1, <1>2, <1>3, <1>4, <1>5, <1>6, <1>7, <1>8 DEF CarriersNext

\* Whatever happens to packets, carriers, planes and the pool, every buffer is
\* counted by those who hold it, and every holder knows of its bytes what the
\* next step takes for granted (buffer.rs, boundary.rs, carrier.rs, view.rs).
THEOREM EveryBufferCounted == CarriersSpec => []CarriersInv
<1>1. CarriersInit => CarriersInv
  BY CarriersBegin
<1>2. CarriersInv /\ [CarriersNext]_carrierVars => CarriersInv'
  BY CarriersStep
<1> QED
  BY <1>1, <1>2, PTL DEF CarriersSpec

LEMMA InUseUsed == InUse \subseteq Using(hand, call)
BY DEF InUse, Using

\* From the moment a packet is judged, and for as long as a carrier or a decoder
\* holds its bytes, nobody writes them and no caller's packet can
\* (buffer.rs 1618-1648, boundary.rs 926-955).
THEOREM LentBytesStandAlways == CarriersSpec => []LentBytesStand
<1>1. ASSUME CarriersInv
      PROVE  LentBytesStand
  <2>1. \A r \in InUse : r.stands
    BY <1>1, InvParts, InUseUsed DEF AllSound, Sound
  <2>2. \A r, w \in InUse : w.kind \in Writers /\ r.kind \in Readers => w.buf # r.buf
    BY <1>1, InvParts, InUseUsed DEF AllApart, Clash
  <2> QED  BY <2>1, <2>2 DEF LentBytesStand
<1> QED
  BY <1>1, EveryBufferCounted, PTL

\* What a decoder is handed ends, with the padding it may read past it, inside
\* its buffer, over bytes that libavformat or the library wrote
\* (share_or_copy, boundary.rs 817-861).
THEOREM DecoderInside == CarriersSpec => []DecoderStaysInside
<1>1. ASSUME CarriersInv
      PROVE  DecoderStaysInside
  BY <1>1, InvParts, InUseUsed DEF AllSound, Sound, Behind, Inside, DecoderStaysInside
<1> QED
  BY <1>1, EveryBufferCounted, PTL

\* A buffer lives exactly as long as somebody holds it, whichever way out every
\* call took.
THEOREM NothingLeaks == CarriersSpec => []NothingStrays
<1>1. ASSUME CarriersInv
      PROVE  NothingStrays
  <2>1. Blocks(mem) /\ Hands(hand) /\ Exact(mem, hand, call)
    BY <1>1, InvParts
  <2>2. ASSUME NEW b \in DOMAIN mem
        PROVE  mem[b].refs = HoldersOf(b)
    <3>1. b \in Buffers /\ Refs(mem, b) = mem[b].refs
      BY <2>1 DEF Blocks, Refs
    <3>2. Refs(mem, b) = InHands(hand, b) + (Is(call.src.buf, b) + Is(call.made.buf, b))
      BY <2>1, <3>1 DEF Exact, InCall
    <3>3. InHands(hand, b) \in Nat
      BY <2>1, HandsFinite
    <3>4. Is(call.src.buf, b) \in Int /\ Is(call.made.buf, b) \in Int
      BY IsBit
    <3>5. HoldersOf(b) = InHands(hand, b) + Is(call.src.buf, b) + Is(call.made.buf, b)
      BY DEF HoldersOf, InHands, Is
    <3> QED  BY <3>1, <3>2, <3>3, <3>4, <3>5
  <2>3. ASSUME NEW r \in InUse
        PROVE  r.buf = NoBuffer \/ r.buf \in DOMAIN mem
    <3>1. r \in Using(hand, call) /\ Blocks(mem) /\ Calls(call) /\ Exact(mem, hand, call)
      BY <1>1, InvParts, InUseUsed
    <3>2. r.buf \in Buffers \/ r.buf = NoBuffer
      BY <2>1, <3>1, UsingRefs DEF References
    <3> QED  BY <2>1, <3>1, <3>2, Alive
  <2> QED  BY <2>2, <2>3 DEF NothingStrays
<1> QED
  BY <1>1, EveryBufferCounted, PTL

=============================================================================
