----------------------- MODULE SoftwareDecodersProofs -----------------------
(***************************************************************************)
(* Proofs about the decoders without hardware: on the audio and subtitle   *)
(* roads every frame is accounted for and leaves once, in the order of its *)
(* packet; an image is that of the packet of its own call; a refusal of    *)
(* the allocator's is never told as anything else; and every step of a     *)
(* push session is one of the push rhythm.                                 *)
(*                                                                         *)
(* The rest is about one conversion (FrameConversion.tla).  Its plan is a  *)
(* run of steps, so what it pays, hands over and may stop at are sums and  *)
(* runs of sequences: their lemmas come first, then the plan of a still,   *)
(* of an audio frame and of a subtitle, each followed to an honest end.    *)
(* Last, what a session carries was honestly converted.                    *)
(***************************************************************************)
EXTENDS SoftwareDecoders, LibavDecoderProofs, FiniteSetTheorems, WellFoundedInduction

-----------------------------------------------------------------------------
(***************************************************************************)
(* The inductive invariant.                                                *)
(***************************************************************************)

SessionType ==
  /\ road \in {"audio", "subtitle", "image"}
  /\ dec \in Decoder
  /\ parked = <<>> \/ \E p \in Nat : parked = <<p>>
  /\ eof \in BOOLEAN
  /\ nextPacket \in 1 .. MaxPackets + 1
  /\ accepted \in Seq(Nat) /\ delivered \in Seq(Nat)
  /\ discarded \subseteq Nat

\* Each set of frames is behind the one the caller reads from, and all of them
\* are behind the packet to come.
InTurn ==
  Pushed =>
    /\ Increasing(delivered) /\ Increasing(dec.inside)
    /\ Before(Range(delivered), Range(parked))
    /\ Before(Range(delivered), Range(dec.inside))
    /\ Before(Range(parked), Range(dec.inside))
    /\ Before(Range(delivered) \cup Range(parked) \cup Range(dec.inside), {nextPacket})
    /\ Before({0}, Range(parked) \cup Range(dec.inside))

\* The subtitle session never touches its decoder but to flush it.
Untouched ==
  road = "subtitle" => dec.inside = <<>> /\ dec.dropped = {} /\ dec.latch = {}

\* The audio session's end is its decoder's.
SameEnd == road = "audio" => eof = dec.ended

SoftwareInv ==
  /\ SessionType /\ NothingLost /\ InTurn /\ Untouched /\ SameEnd
  /\ ImageOfThisPacket /\ RefusalFirst

LEMMA OneBackend == "sw" \in Backends /\ MaxPackets \in Nat /\ MaxPackets >= 1
BY SoftwareAssumption

LEMMA NumberedPacket ==
  ASSUME SoftwareInv
  PROVE  nextPacket \in Nat /\ dec \in Decoder
BY OneBackend DEF SoftwareInv, SessionType

\* The scratch, as a sequence and as a set.
LEMMA Scratched ==
  ASSUME NEW p \in Nat
  PROVE  /\ <<p>> \in Seq(Nat) /\ Range(<<p>>) = {p} /\ Head(<<p>>) = p /\ <<p>> # <<>>
         /\ <<>> \in Seq(Nat) /\ Range(<<>>) = {}
BY DEF Range

LEMMA ScratchType ==
  ASSUME SessionType
  PROVE  /\ parked \in Seq(Nat) /\ Increasing(parked)
         /\ parked # <<>> => Head(parked) \in Nat /\ parked = <<Head(parked)>>
BY Scratched, IncreasingShort DEF SessionType

LEMMA NothingLostHeld ==
  NothingLost <=>
    (Pushed => Range(accepted) = Range(delivered) \cup discarded \cup Range(parked) \cup Held(dec))
BY DEF NothingLost, Held

LEMMA NothingLostNext ==
  NothingLost' <=>
    (Pushed' => Range(accepted') = Range(delivered') \cup discarded' \cup Range(parked') \cup Held(dec'))
BY DEF NothingLost, Held

\* The decoder of the road, and what an error of its own leaves: a refusal is
\* always collected.
LEMMA CollectedError ==
  ASSUME NEW d \in Decoder, NEW e \in SendErrors(d) \cup ReceiveErrors(d)
  PROVE  /\ Collected(e) \in Decoder /\ Collected(e).ended = d.ended
         /\ Collected(e).latch = {}
         /\ Held(Collected(e)) = Held(d) /\ Shrunk(Collected(e), d)
         /\ e.errno \in Errnos /\ Verdict(e) \in Errnos \cup {"budget"}
<1>1. e.errno \in Errnos /\ SameInput(e.after, d)
  BY SendErrorInput, ReceiveErrorInput
<1>2. e.after \in Decoder /\ e.after.ended = d.ended
  BY <1>1 DEF SameInput
<1>3. Held(e.after) = Held(d) /\ Shrunk(e.after, d)
  BY ErrorHeld, ErrorShrinks
<1>4. /\ Collected(e) \in Decoder /\ Collected(e).ended = e.after.ended
      /\ Collected(e).inside = e.after.inside /\ Collected(e).dropped = e.after.dropped
  BY <1>2 DEF Collected, Decoder
<1>5. Collected(e).latch = {}
  <2>1. e.after.latch \subseteq {"budget"}
    BY <1>2, SoftwareAssumption DEF Decoder
  <2>2. CASE "budget" \in e.after.latch
    BY <1>2, <2>2 DEF Collected, Verdict, Decoder
  <2>3. CASE "budget" \notin e.after.latch
    <3>1. e.after.latch = {}
      BY <2>1, <2>3
    <3>2. Verdict(e) # "budget"
      BY <1>1, <2>3 DEF Verdict, Errnos
    <3> QED
      BY <3>1, <3>2 DEF Collected
  <2> QED
    BY <2>2, <2>3
<1>6. Held(Collected(e)) = Held(d)
  BY <1>3, <1>4 DEF Held
<1>7. Shrunk(Collected(e), d)
  BY <1>3, <1>4 DEF Shrunk
<1>8. Verdict(e) \in Errnos \cup {"budget"}
  BY <1>1 DEF Verdict
<1> QED
  BY <1>1, <1>2, <1>4, <1>5, <1>6, <1>7, <1>8

LEMMA InitInv == Init => SoftwareInv
<1> SUFFICES ASSUME Init PROVE SoftwareInv
  OBVIOUS
<1> USE DEF Init
<1>1. dec \in Decoder
  BY OneBackend, OpenedDecoder
<1>2. dec.inside = <<>> /\ dec.dropped = {} /\ dec.latch = {} /\ dec.ended = FALSE
  BY DEF OpenDecoder
<1>3. <<>> \in Seq(Nat) /\ Range(<<>>) = {}
  BY Scratched
<1>4. SessionType
  <2>1. 1 \in 1 .. MaxPackets + 1
    BY OneBackend
  <2> QED
    BY <1>1, <1>3, <2>1 DEF SessionType
<1>5. NothingLost
  BY <1>2, <1>3 DEF NothingLost
<1>6. InTurn
  BY <1>2, <1>3, IncreasingShort DEF InTurn, Before
<1>7. Untouched /\ SameEnd /\ ImageOfThisPacket /\ RefusalFirst
  BY <1>2 DEF Untouched, SameEnd, ImageOfThisPacket, RefusalFirst
<1> QED
  BY <1>4, <1>5, <1>6, <1>7 DEF SoftwareInv

-----------------------------------------------------------------------------
(* What a packet, an answer and a conversion do to the frames.              *)

\* A packet joins the back of the line, or what was given up.
LEMMA PacketJoins ==
  ASSUME SoftwareInv, Pushed, Offered, Accepts, UNCHANGED delivered,
         \/ /\ UNCHANGED <<parked, discarded>>
            /\ dec' \in Decoder /\ Held(dec') = Held(dec) \cup {nextPacket}
            /\ dec'.inside \in {dec.inside, Append(dec.inside, nextPacket)}
         \/ /\ parked' = <<nextPacket>>
            /\ parked = <<>> /\ dec.inside = <<>>
            /\ UNCHANGED <<dec, discarded>>
         \/ /\ discarded' = discarded \cup {nextPacket}
            /\ UNCHANGED <<dec, parked>>
  PROVE  /\ dec' \in Decoder /\ accepted' \in Seq(Nat) /\ nextPacket' \in 1 .. MaxPackets + 1
         /\ parked' = <<>> \/ \E p \in Nat : parked' = <<p>>
         /\ discarded' \subseteq Nat
         /\ NothingLost' /\ InTurn'
<1>1. /\ nextPacket \in 1 .. MaxPackets /\ MaxPackets \in Nat
      /\ nextPacket \in Nat /\ accepted \in Seq(Nat) /\ delivered \in Seq(Nat)
      /\ dec \in Decoder /\ dec.inside \in Seq(Nat)
      /\ accepted' = Append(accepted, nextPacket) /\ nextPacket' = nextPacket + 1
      /\ delivered' = delivered /\ road' = road
  BY OneBackend DEF SoftwareInv, SessionType, Decoder, Accepts, Answers, Offered
<1>2. accepted' \in Seq(Nat) /\ Range(accepted') = Range(accepted) \cup {nextPacket}
  <2>1. Append(accepted, nextPacket) \in Seq(Nat)
    BY <1>1, AppendProperties
  <2>2. Range(Append(accepted, nextPacket)) = Range(accepted) \cup {nextPacket}
    <3>1. accepted \in Seq(Nat) /\ nextPacket \in Nat
      BY <1>1
    <3> QED
      BY <3>1, RangeOfAppend
  <2> QED
    BY <1>1, <2>1, <2>2
<1>3. /\ dec' \in Decoder /\ discarded' \subseteq Nat
      /\ parked' = <<>> \/ \E p \in Nat : parked' = <<p>>
  BY <1>1 DEF SoftwareInv, SessionType
<1>4. Range(parked) \cup Held(dec) \cup discarded \cup {nextPacket}
        = Range(parked') \cup Held(dec') \cup discarded'
  BY <1>1, Scratched
<1>5. NothingLost'
  BY <1>1, <1>2, <1>4, NothingLostHeld, NothingLostNext DEF SoftwareInv, Pushed
<1>6. /\ Range(delivered) \subseteq Nat /\ Range(parked) \subseteq Nat
      /\ Range(dec.inside) \subseteq Nat
  <2>1. parked \in Seq(Nat)
    BY ScratchType DEF SoftwareInv
  <2>2. \A t \in Seq(Nat) : Range(t) \subseteq Nat
    BY Indices
  <2> QED
    BY <1>1, <2>1, <2>2
<1>7. /\ Increasing(delivered) /\ Increasing(dec.inside)
      /\ Before(Range(delivered), Range(parked))
      /\ Before(Range(delivered), Range(dec.inside))
      /\ Before(Range(parked), Range(dec.inside))
      /\ Before(Range(delivered), {nextPacket}) /\ Before(Range(parked), {nextPacket})
      /\ Before(Range(dec.inside), {nextPacket})
      /\ Before({0}, Range(parked) \cup Range(dec.inside))
  BY DEF SoftwareInv, InTurn, Before
<1>8. ASSUME NEW x \in Range(delivered) \cup Range(parked) \cup Range(dec.inside) \cup {nextPacket}
      PROVE  x \in Nat /\ x < nextPacket + 1
  BY <1>1, <1>6, <1>7 DEF Before
<1>9. /\ Increasing(dec'.inside)
      /\ \/ Range(dec'.inside) = Range(dec.inside) /\ Range(parked') = Range(parked)
         \/ Range(dec'.inside) = Range(dec.inside) \cup {nextPacket} /\ Range(parked') = Range(parked)
         \/ Range(dec'.inside) = {} /\ Range(parked') = {nextPacket}
  BY <1>1, <1>7, IncreasingAppend, Scratched
<1>10. /\ Before(Range(delivered), Range(parked'))
       /\ Before(Range(delivered), Range(dec'.inside))
       /\ Before(Range(parked'), Range(dec'.inside))
  BY <1>7, <1>9 DEF Before
<1>11. Before(Range(delivered) \cup Range(parked') \cup Range(dec'.inside), {nextPacket + 1})
  BY <1>8, <1>9 DEF Before
<1>12. Before({0}, Range(parked') \cup Range(dec'.inside))
  BY <1>1, <1>7, <1>9 DEF Before
<1>13. InTurn'
  BY <1>1, <1>7, <1>9, <1>10, <1>11, <1>12 DEF InTurn
<1>14. nextPacket' \in 1 .. MaxPackets + 1
  BY <1>1
<1> QED
  BY <1>1, <1>2, <1>3, <1>5, <1>13, <1>14

\* An answer of the decoder's own gives no frame away.
LEMMA AnswerKeeps ==
  ASSUME SoftwareInv, UNCHANGED <<road, parked, discarded, delivered, accepted, nextPacket>>,
         dec' \in Decoder, Held(dec') = Held(dec), Shrunk(dec', dec)
  PROVE  NothingLost' /\ InTurn'
<1>1. NothingLost'
  BY NothingLostHeld, NothingLostNext DEF SoftwareInv, Pushed
<1>2. ASSUME Pushed
      PROVE  Increasing(dec'.inside) /\ Range(dec'.inside) \subseteq Range(dec.inside)
  <2>1. dec.inside \in Seq(Nat) /\ Increasing(dec.inside)
    BY <1>2 DEF SoftwareInv, SessionType, Decoder, InTurn
  <2> QED
    BY <2>1, IncreasingTail DEF Shrunk
<1>3. InTurn'
  BY <1>2 DEF SoftwareInv, InTurn, Pushed, Before
<1> QED
  BY <1>1, <1>3

\* The frame f at the front of I, behind D: it may join D, or wait in P.
LEMMA BehindTheFront ==
  ASSUME NEW D, NEW f, NEW I, NEW n,
         Before(D, {f}), Before(D, I), Before({f}, I),
         Before(D, {n}), Before({f}, {n}), Before(I, {n}),
         NEW E \in SUBSET (D \cup {f}), NEW P \in SUBSET {f}, P = {} \/ E = D
  PROVE  /\ Before(E, P) /\ Before(E, I) /\ Before(P, I)
         /\ Before(E \cup P \cup I, {n})
<1>1. Before(E, P)
  BY DEF Before
<1>2. Before(E, I) /\ Before(P, I)
  BY DEF Before
<1>3. Before(E \cup P \cup I, {n})
  BY DEF Before
<1> QED
  BY <1>1, <1>2, <1>3

\* The frame at the front of the line is delivered, parked or let go.
LEMMA FrontMoves ==
  ASSUME SoftwareInv, Pushed, NEW frame \in Nat, NEW s, Converts(frame, s),
         \/ parked = <<frame>> /\ dec' = dec
         \/ parked = <<>> /\ HasPicture(dec) /\ frame = NextPicture(dec) /\ dec' = Yielded(dec)
  PROVE  /\ dec' \in Decoder /\ delivered' \in Seq(Nat)
         /\ dec'.ended = dec.ended /\ dec'.latch = dec.latch
         /\ parked' = <<>> \/ parked' = <<frame>>
         /\ discarded' \subseteq Nat
         /\ NothingLost' /\ InTurn'
<1>1. /\ UNCHANGED <<road, nextPacket, accepted>>
      /\ \/ parked' = <<>> /\ delivered' = Append(delivered, frame) /\ discarded' = discarded
         \/ parked' = <<frame>> /\ delivered' = delivered /\ discarded' = discarded
         \/ parked' = <<>> /\ delivered' = delivered /\ discarded' = discarded \cup {frame}
  BY DEF Converts, Delivers, Parks, LetsGo, Free, Converted
<1>2. /\ dec \in Decoder /\ dec.inside \in Seq(Nat) /\ delivered \in Seq(Nat)
      /\ discarded \subseteq Nat
      /\ Increasing(delivered) /\ Increasing(dec.inside)
      /\ Before(Range(delivered), Range(parked))
      /\ Before(Range(delivered), Range(dec.inside))
      /\ Before(Range(parked), Range(dec.inside))
      /\ Before(Range(delivered), {nextPacket}) /\ Before(Range(parked), {nextPacket})
      /\ Before(Range(dec.inside), {nextPacket})
      /\ Before({0}, Range(parked) \cup Range(dec.inside))
  BY DEF SoftwareInv, SessionType, InTurn, Decoder, Before
\* What is behind the frame, and that nothing else moved.
<1>3. /\ dec' \in Decoder /\ dec'.ended = dec.ended /\ dec'.latch = dec.latch
      /\ dec'.inside \in Seq(Nat) /\ Increasing(dec'.inside)
      /\ Before({frame}, Range(dec'.inside))
      /\ Range(parked) \cup Held(dec) = {frame} \cup Held(dec')
      /\ Range(parked) \cup Range(dec.inside) = {frame} \cup Range(dec'.inside)
  <2>1. CASE parked = <<frame>> /\ dec' = dec
    BY <1>2, <2>1, Scratched
  <2>2. CASE parked = <<>> /\ HasPicture(dec) /\ frame = NextPicture(dec) /\ dec' = Yielded(dec)
    <3>1. dec' \in Decoder /\ dec'.ended = dec.ended
      BY <1>2, <2>2, YieldedInput DEF SameInput
    <3>2. dec'.inside = Tail(dec.inside) /\ dec'.latch = dec.latch
      BY <1>2, <2>2 DEF Yielded, Decoder
    <3>3. dec.inside # <<>> /\ frame = Head(dec.inside)
      BY <2>2 DEF HasPicture, NextPicture
    <3>4. /\ Increasing(Tail(dec.inside)) /\ Before({frame}, Range(Tail(dec.inside)))
          /\ Tail(dec.inside) \in Seq(Nat)
          /\ Range(dec.inside) = {frame} \cup Range(Tail(dec.inside))
      BY <1>2, <3>3, IncreasingTail
    <3>5. Held(dec) = Held(dec') \cup {frame}
      BY <1>2, <2>2, YieldedHeld
    <3> QED
      BY <2>2, <3>1, <3>2, <3>4, <3>5, RangeOfEmpty
  <2> QED
    BY <2>1, <2>2
<1>4. Before(Range(delivered), {frame}) /\ Before(Range(delivered), Range(dec'.inside))
        /\ Before({frame}, {nextPacket}) /\ Before(Range(dec'.inside), {nextPacket})
  BY <1>2, <1>3 DEF Before
<1>5. /\ Append(delivered, frame) \in Seq(Nat)
      /\ Increasing(Append(delivered, frame))
      /\ Range(Append(delivered, frame)) = Range(delivered) \cup {frame}
  BY <1>2, <1>4, AppendProperties, IncreasingAppend
<1>6. delivered' \in Seq(Nat) /\ Increasing(delivered')
  BY <1>1, <1>2, <1>5
<1>7. /\ Range(delivered') \cup Range(parked') \cup discarded'
           = Range(delivered) \cup discarded \cup {frame}
      /\ Range(delivered') \subseteq Range(delivered) \cup {frame}
      /\ Range(parked') \subseteq {frame}
      /\ Range(parked') = {} \/ Range(delivered') = Range(delivered)
  BY <1>1, <1>5, Scratched
<1>8. NothingLost'
  BY <1>1, <1>3, <1>7, NothingLostHeld, NothingLostNext DEF SoftwareInv, Pushed
<1>9. /\ Before(Range(delivered'), Range(parked'))
      /\ Before(Range(delivered'), Range(dec'.inside))
      /\ Before(Range(parked'), Range(dec'.inside))
      /\ Before(Range(delivered') \cup Range(parked') \cup Range(dec'.inside), {nextPacket})
  <2> DEFINE D == Range(delivered)
             I == Range(dec'.inside)
             E == Range(delivered')
             P == Range(parked')
  <2>1. /\ Before(D, {frame}) /\ Before(D, I) /\ Before({frame}, I)
        /\ Before(D, {nextPacket}) /\ Before({frame}, {nextPacket}) /\ Before(I, {nextPacket})
    BY <1>2, <1>3, <1>4
  <2>2. E \in SUBSET (D \cup {frame}) /\ P \in SUBSET {frame} /\ (P = {} \/ E = D)
    BY <1>7
  <2> HIDE DEF D, I, E, P
  <2>3. /\ Before(E, P) /\ Before(E, I) /\ Before(P, I)
        /\ Before(E \cup P \cup I, {nextPacket})
    BY <2>1, <2>2, BehindTheFront
  <2> QED
    BY <2>3 DEF I, E, P
<1>10. Before({0}, Range(parked') \cup Range(dec'.inside))
  BY <1>2, <1>3, <1>7 DEF Before
<1>11. InTurn'
  BY <1>1, <1>3, <1>6, <1>9, <1>10 DEF InTurn
<1> QED
  BY <1>1, <1>2, <1>3, <1>6, <1>8, <1>11

-----------------------------------------------------------------------------
(* The push sessions.                                                       *)

\* What the flow answers say of the latch.
FlowAnswers == {"needsInput", "ended", "mustDrain", "noImage"}

LEMMA PushedInv ==
  ASSUME Pushed, UNCHANGED road,
         dec' \in Decoder, parked' = <<>> \/ \E p \in Nat : parked' = <<p>>,
         eof' \in BOOLEAN, nextPacket' \in 1 .. MaxPackets + 1, accepted' \in Seq(Nat),
         delivered' \in Seq(Nat), discarded' \subseteq Nat, SoftwareInv,
         NothingLost', InTurn', Untouched', SameEnd',
         answer' \in FlowAnswers => dec'.latch = {}
  PROVE  SoftwareInv'
<1>1. SessionType'
  BY DEF SessionType, SoftwareInv
<1>2. ImageOfThisPacket' /\ RefusalFirst'
  BY DEF ImageOfThisPacket, RefusalFirst, Pushed, FlowAnswers
<1> QED
  BY <1>1, <1>2 DEF SoftwareInv

\* The session is as it was, and its decoder answered.
LEMMA LeavesInv ==
  ASSUME SoftwareInv, Pushed, NEW a, Leaves(a),
         \/ dec' = dec /\ (a \in FlowAnswers => dec.latch = {})
         \/ /\ road = "audio"
            /\ \E e \in SendErrors(dec) \cup ReceiveErrors(dec) : dec' = Collected(e)
  PROVE  SoftwareInv'
<1> USE DEF Leaves, Answers, seat, history
<1>1. dec \in Decoder
  BY DEF SoftwareInv, SessionType
<1>2. /\ dec' \in Decoder /\ dec'.ended = dec.ended /\ Held(dec') = Held(dec)
      /\ Shrunk(dec', dec)
      /\ a \in FlowAnswers => dec'.latch = {}
      /\ dec' = dec \/ road = "audio"
  <2>1. CASE dec' = dec /\ (a \in FlowAnswers => dec.latch = {})
    BY <1>1, <2>1 DEF Shrunk
  <2>2. CASE road = "audio" /\ \E e \in SendErrors(dec) \cup ReceiveErrors(dec) : dec' = Collected(e)
    <3>1. PICK e \in SendErrors(dec) \cup ReceiveErrors(dec) : dec' = Collected(e)
      BY <2>2
    <3> QED
      BY <1>1, <2>2, <3>1, CollectedError
  <2> QED
    BY <2>1, <2>2
<1>3. NothingLost' /\ InTurn'
  BY <1>2, AnswerKeeps
<1>4. Untouched' /\ SameEnd'
  BY <1>2 DEF SoftwareInv, Untouched, SameEnd
<1> QED
  BY <1>2, <1>3, <1>4, PushedInv DEF SoftwareInv, SessionType

LEMMA AudioTakesPacketInv ==
  ASSUME SoftwareInv, AudioTakesPacket
  PROVE  SoftwareInv'
<1> USE DEF AudioTakesPacket, seat
<1>1. dec \in Decoder /\ nextPacket \in Nat /\ dec' \in Takes(dec, nextPacket)
      /\ Pushed /\ Offered /\ Accepts
  BY OneBackend DEF SoftwareInv, SessionType, Pushed
<1>2. /\ dec' \in Decoder /\ dec'.ended = dec.ended
      /\ Held(dec') = Held(dec) \cup {nextPacket}
      /\ dec'.inside \in {dec.inside, Append(dec.inside, nextPacket)}
  <2>1. \A x \in Takes(dec, nextPacket) :
          /\ x \in Decoder /\ x.ended = dec.ended /\ Held(x) = Held(dec) \cup {nextPacket}
          /\ x.inside \in {dec.inside, Append(dec.inside, nextPacket)}
    BY <1>1, TakenInput, TakenHeld, TakenInside
  <2> QED
    BY <1>1, <2>1
<1>3. /\ accepted' \in Seq(Nat) /\ nextPacket' \in 1 .. MaxPackets + 1
      /\ parked' = <<>> \/ \E p \in Nat : parked' = <<p>>
      /\ discarded' \subseteq Nat /\ NothingLost' /\ InTurn'
  BY <1>1, <1>2, PacketJoins
<1>4. /\ Untouched' /\ SameEnd' /\ eof' \in BOOLEAN /\ delivered' \in Seq(Nat)
      /\ UNCHANGED road /\ answer' = "accepted"
  BY <1>2 DEF SoftwareInv, SessionType, Untouched, SameEnd, Accepts, Answers
<1> QED
  BY <1>1, <1>2, <1>3, <1>4, PushedInv DEF FlowAnswers

LEMMA AudioTakesEndInv ==
  ASSUME SoftwareInv, AudioTakesEnd
  PROVE  SoftwareInv'
<1> USE DEF AudioTakesEnd, Answers, history
<1>1. dec \in Decoder /\ Pushed /\ UNCHANGED road
  BY DEF SoftwareInv, SessionType, Pushed
<1>2. dec' \in Decoder /\ dec'.ended = TRUE /\ Held(dec') = Held(dec) /\ dec'.inside = dec.inside
  BY <1>1, EndTaken, EndTakenHeld, EndTakenBackend
<1>3. NothingLost' /\ InTurn'
  BY <1>2, AnswerKeeps DEF Shrunk
<1>4. Untouched' /\ SameEnd'
  BY <1>2 DEF Untouched, SameEnd
<1> QED
  BY <1>1, <1>2, <1>3, <1>4, PushedInv DEF SoftwareInv, SessionType, FlowAnswers

LEMMA AudioErrorInv ==
  ASSUME SoftwareInv, AudioUnbuilt \/ AudioRefusesPacket \/ AudioRefusesEnd
  PROVE  SoftwareInv'
<1>1. Pushed
  BY DEF AudioUnbuilt, AudioRefusesPacket, AudioRefusesEnd, Pushed
<1>2. CASE AudioUnbuilt
  BY <1>1, <1>2, LeavesInv DEF AudioUnbuilt, FlowAnswers
<1>3. CASE AudioRefusesPacket
  BY <1>1, <1>3, LeavesInv DEF AudioRefusesPacket
<1>4. CASE AudioRefusesEnd
  <2>1. PICK e \in SendErrors(dec) :
          dec' = Collected(e) /\ Answers(SendStatus(Verdict(e)))
    BY <1>4 DEF AudioRefusesEnd
  <2>2. road = "audio" /\ Leaves(SendStatus(Verdict(e)))
    BY <1>4, <2>1 DEF AudioRefusesEnd, EndKept, Leaves, seat
  <2> QED
    BY <1>1, <2>1, <2>2, LeavesInv
<1> QED
  BY <1>2, <1>3, <1>4

\* A conversion of the frame at the front, parked or just out of the decoder.
LEMMA ConvertsInv ==
  ASSUME SoftwareInv, Pushed, NEW frame \in Nat, NEW s, Converts(frame, s),
         \/ parked = <<frame>> /\ dec' = dec
         \/ /\ road = "audio" /\ parked = <<>>
            /\ HasPicture(dec) /\ frame = NextPicture(dec) /\ dec' = Yielded(dec)
  PROVE  SoftwareInv'
<1>1. /\ dec' \in Decoder /\ delivered' \in Seq(Nat)
      /\ dec'.ended = dec.ended /\ dec'.latch = dec.latch
      /\ parked' = <<>> \/ parked' = <<frame>>
      /\ discarded' \subseteq Nat
      /\ NothingLost' /\ InTurn'
  BY FrontMoves
<1>2. UNCHANGED <<eof, nextPacket, accepted, road>> /\ answer' \notin FlowAnswers
  BY DEF Converts, Delivers, Parks, LetsGo, Converted, FlowAnswers
<1>3. Untouched' /\ SameEnd'
  BY <1>1, <1>2 DEF SoftwareInv, Untouched, SameEnd
<1> QED
  BY <1>1, <1>2, <1>3, PushedInv DEF SoftwareInv, SessionType

LEMMA AudioReadsInv ==
  ASSUME SoftwareInv, AudioConvertsParked \/ AudioReceives
  PROVE  SoftwareInv'
<1>1. Pushed /\ road = "audio" /\ dec \in Decoder
  BY DEF AudioConvertsParked, AudioReceives, Pushed, SoftwareInv, SessionType
<1>2. CASE AudioConvertsParked
  <2>1. Head(parked) \in Nat /\ parked = <<Head(parked)>>
    BY <1>2, ScratchType DEF AudioConvertsParked, SoftwareInv
  <2> QED
    BY <1>1, <1>2, <2>1, ConvertsInv DEF AudioConvertsParked
<1>3. CASE AudioReceives
  <2>1. CASE HasPicture(dec) /\ dec' = Yielded(dec)
               /\ \E s \in Sources["audio"] : Converts(NextPicture(dec), s)
    <3>1. NextPicture(dec) \in Nat
      BY <1>1, <2>1, YieldedInput
    <3> QED
      BY <1>1, <1>3, <2>1, <3>1, ConvertsInv DEF AudioReceives
  <2>2. CASE \E e \in ReceiveErrors(dec) :
               dec' = Collected(e) /\ Leaves(ReceiveStatus(Verdict(e)))
    BY <1>1, <2>2, LeavesInv
  <2> QED
    BY <1>3, <2>1, <2>2 DEF AudioReceives
<1> QED
  BY <1>2, <1>3

LEMMA SubtitleDecodesInv ==
  ASSUME SoftwareInv, SubtitleDecodes
  PROVE  SoftwareInv'
<1> USE DEF SubtitleDecodes
<1>1. /\ Pushed /\ Offered /\ Accepts /\ parked = <<>> /\ dec.inside = <<>>
      /\ UNCHANGED <<dec, eof, delivered>>
  BY DEF SoftwareInv, Untouched, Pushed
<1>2. \/ parked' = <<nextPacket>> /\ UNCHANGED discarded
      \/ discarded' = discarded \cup {nextPacket} /\ UNCHANGED parked
  OBVIOUS
<1>3. /\ dec' \in Decoder /\ accepted' \in Seq(Nat) /\ nextPacket' \in 1 .. MaxPackets + 1
      /\ parked' = <<>> \/ \E p \in Nat : parked' = <<p>>
      /\ discarded' \subseteq Nat /\ NothingLost' /\ InTurn'
  BY <1>1, <1>2, PacketJoins
<1>4. /\ Untouched' /\ SameEnd' /\ UNCHANGED road /\ answer' = "accepted"
      /\ eof' \in BOOLEAN /\ delivered' \in Seq(Nat)
  BY DEF SoftwareInv, SessionType, Untouched, SameEnd, Accepts, Answers
<1> QED
  BY <1>1, <1>3, <1>4, PushedInv DEF FlowAnswers

LEMMA SubtitleEndsInv ==
  ASSUME SoftwareInv, SubtitleEnds
  PROVE  SoftwareInv'
<1> USE DEF SubtitleEnds, Answers, history
<1>1. Pushed /\ dec' = dec
  BY DEF Pushed
<1>2. NothingLost' /\ InTurn'
  BY <1>1, AnswerKeeps DEF SoftwareInv, SessionType, Shrunk
<1>3. Untouched' /\ SameEnd'
  BY DEF SoftwareInv, Untouched, SameEnd
<1> QED
  BY <1>1, <1>2, <1>3, PushedInv DEF SoftwareInv, SessionType, FlowAnswers

LEMMA SubtitleAnswersInv ==
  ASSUME SoftwareInv, SubtitleRefuses \/ SubtitleFails \/ SubtitleReceives
  PROVE  SoftwareInv'
<1>1. Pushed /\ dec' = dec /\ dec.latch = {}
  BY DEF SubtitleRefuses, SubtitleFails, SubtitleReceives, Pushed, SoftwareInv, Untouched
<1>2. CASE \E a : Leaves(a)
  BY <1>1, <1>2, LeavesInv
<1>3. CASE SubtitleReceives /\ parked # <<>>
  <2>1. Head(parked) \in Nat /\ parked = <<Head(parked)>> /\ Converts(Head(parked), source)
    BY <1>3, ScratchType DEF SubtitleReceives, SoftwareInv
  <2> QED
    BY <1>1, <2>1, ConvertsInv
<1> QED
  BY <1>2, <1>3 DEF SubtitleRefuses, SubtitleGates, SubtitleFails, SubtitleReceives

LEMMA FlushInv ==
  ASSUME SoftwareInv, Flush
  PROVE  SoftwareInv'
<1> USE DEF Flush, Free, Answers
<1>1. dec \in Decoder /\ Pushed /\ UNCHANGED <<road, nextPacket>>
  BY DEF SoftwareInv, SessionType, Pushed
<1>2. /\ dec' \in Decoder /\ dec'.ended = FALSE /\ Held(dec') = {}
      /\ dec'.inside = <<>> /\ dec'.dropped = {} /\ dec'.latch = dec.latch
  BY <1>1, FlushedInput, FlushedHeld DEF Flushed, Decoder
<1>3. <<>> \in Seq(Nat) /\ Range(<<>>) = {}
  BY Scratched
<1>4. NothingLost'
  BY <1>2, <1>3, NothingLostNext
<1>5. InTurn'
  BY <1>2, <1>3, IncreasingShort DEF InTurn, Before
<1>6. Untouched' /\ SameEnd'
  BY <1>1, <1>2 DEF SoftwareInv, Untouched, SameEnd
<1> QED
  BY <1>1, <1>2, <1>3, <1>4, <1>5, <1>6, PushedInv DEF SoftwareInv, SessionType, FlowAnswers

-----------------------------------------------------------------------------
(* Images.                                                                  *)

LEMMA ImageInv ==
  ASSUME SoftwareInv, road = "image", UNCHANGED road,
         NEW pictures \in Seq(Nat), Decodes(pictures),
         dec' \in Decoder, dec'.latch = {},
         answer' = "produced" => pictures = <<nextPacket>>
  PROVE  SoftwareInv'
<1> USE DEF Decodes, seat
<1>1. (nextPacket % MaxPackets) + 1 \in 1 .. MaxPackets + 1
  BY OneBackend DEF SoftwareInv, SessionType
<1>2. SessionType'
  BY <1>1 DEF SoftwareInv, SessionType
<1>3. NothingLost' /\ InTurn' /\ Untouched' /\ SameEnd'
  BY DEF NothingLost, InTurn, Untouched, SameEnd, Pushed
<1>4. ImageOfThisPacket' /\ RefusalFirst'
  BY DEF ImageOfThisPacket, RefusalFirst
<1> QED
  BY <1>2, <1>3, <1>4 DEF SoftwareInv

LEMMA UndecodedInv ==
  ASSUME SoftwareInv, road = "image", NEW a, Undecoded(a), a # "produced",
         dec' \in Decoder, dec'.latch = {}
  PROVE  SoftwareInv'
<1>1. <<>> \in Seq(Nat)
  BY EmptySeq
<1> QED
  BY <1>1, ImageInv DEF Undecoded, Answers

\* Between two images the decoder is empty, and no refusal is left in it.
LEMMA FreshDecoder ==
  ASSUME NEW d \in Decoder, d.latch = {}
  PROVE  /\ Flushed(d) \in Decoder /\ Flushed(d).latch = {}
         /\ Flushed(d).inside = <<>> /\ Flushed(d).ended = FALSE
<1>1. Flushed(d) \in Decoder
  BY FlushedInput
<1>2. Flushed(d).latch = {} /\ Flushed(d).inside = <<>> /\ Flushed(d).ended = FALSE
  BY DEF Flushed, Decoder
<1> QED
  BY <1>1, <1>2

\* A picture means that nothing of this packet was refused.
LEMMA FreshTakes ==
  ASSUME NEW d \in Decoder, d.latch = {}, d.inside = <<>>,
         NEW p \in Nat, NEW x \in Takes(d, p)
  PROVE  /\ x \in Decoder
         /\ HasPicture(x) => x.inside = <<p>> /\ x.latch = {}
<1> DEFINE fed == [d EXCEPT !.fed = Append(@, p)]
           gone == [fed EXCEPT !.dropped = @ \cup {p}]
<1>1. x = [fed EXCEPT !.inside = Append(@, p)] \/ x \in Latched(gone)
  BY DEF Takes
<1>2. Append(<<>>, p) = <<p>>
  OBVIOUS
<1>3. CASE x = [fed EXCEPT !.inside = Append(@, p)]
  <2>1. x.inside = Append(d.inside, p) /\ x.latch = d.latch
    BY <1>3 DEF Decoder
  <2> QED
    BY <1>2, <2>1, TakenInput
<1>4. CASE x \in Latched(gone)
  <2>1. gone.inside = <<>>
    BY DEF Decoder
  <2>2. x.inside = gone.inside
    BY <1>4 DEF Latched, Decoder
  <2> QED
    BY <2>1, <2>2, TakenInput DEF HasPicture
<1> QED
  BY <1>1, <1>3, <1>4

LEMMA LoadedDecoder ==
  ASSUME SoftwareInv, road = "image", NEW d \in Loaded
  PROVE  /\ d \in Decoder
         /\ HasPicture(d) => d.inside = <<nextPacket>> /\ d.latch = {}
<1>1. /\ Fresh \in Decoder /\ Fresh.latch = {} /\ Fresh.inside = <<>> /\ nextPacket \in Nat
  BY FreshDecoder, NumberedPacket DEF SoftwareInv, SessionType, RefusalFirst, Pushed, Fresh
<1>2. PICK c \in Takes(Fresh, nextPacket) : d \in TakesEnd(c)
  BY DEF Loaded
<1>3. c \in Decoder /\ (HasPicture(c) => c.inside = <<nextPacket>> /\ c.latch = {})
  BY <1>1, <1>2, FreshTakes
<1>4. d \in Decoder /\ d.inside = c.inside /\ d.latch = c.latch
  <2>1. d \in Decoder
    BY <1>2, <1>3, EndTaken
  <2>2. d.inside = c.inside /\ d.latch = c.latch
    BY <1>2, <1>3 DEF TakesEnd, Decoder
  <2> QED
    BY <2>1, <2>2
<1> QED
  BY <1>3, <1>4 DEF HasPicture

LEMMA ImageUnsentInv ==
  ASSUME SoftwareInv, ImageUnsent
  PROVE  SoftwareInv'
<1>1. /\ road = "image" /\ Undecoded("failed")
      /\ Fresh \in Decoder /\ Fresh.latch = {} /\ Fresh.inside = <<>> /\ nextPacket \in Nat
  BY FreshDecoder, NumberedPacket DEF ImageUnsent, SoftwareInv, SessionType, RefusalFirst, Pushed, Fresh
<1>2. dec' \in Decoder /\ dec'.latch = {}
  <2>1. CASE dec' = Fresh
    BY <1>1, <2>1
  <2>2. CASE \E d \in Decoder : \E e \in SendErrors(d) : dec' = Collected(e)
    BY <2>2, CollectedError
  <2>3. \A d \in Takes(Fresh, nextPacket) : d \in Decoder
    BY <1>1, FreshTakes
  <2> QED
    BY <1>1, <2>1, <2>2, <2>3 DEF ImageUnsent
<1> QED
  BY <1>1, <1>2, UndecodedInv

LEMMA ImageUnreadInv ==
  ASSUME SoftwareInv, ImageUnread
  PROVE  SoftwareInv'
<1>1. road = "image"
  BY DEF ImageUnread
<1>2. PICK d \in Loaded : \E e \in ReceiveErrors(d) :
        /\ dec' = Flushed(Collected(e))
        /\ Undecoded(IF Verdict(e) \in {"again", "eof"} THEN "noImage" ELSE "failed")
  BY DEF ImageUnread
<1>3. PICK e \in ReceiveErrors(d) :
        /\ dec' = Flushed(Collected(e))
        /\ Undecoded(IF Verdict(e) \in {"again", "eof"} THEN "noImage" ELSE "failed")
  BY <1>2
<1>4. Collected(e) \in Decoder /\ Collected(e).latch = {}
  BY <1>1, LoadedDecoder, CollectedError
<1>5. dec' \in Decoder /\ dec'.latch = {}
  BY <1>3, <1>4, FreshDecoder
<1> QED
  BY <1>1, <1>3, <1>5, UndecodedInv

LEMMA ImageReadInv ==
  ASSUME SoftwareInv, ImageRead
  PROVE  SoftwareInv'
<1>1. PICK d \in Loaded :
        /\ HasPicture(d)
        /\ dec' = Flushed(Yielded(d))
        /\ \/ Undecoded("failed")
           \/ \E s \in Sources["image"] : \E c \in Outcomes[s] :
                IF c.verdict = "produced"
                THEN Decodes(<<NextPicture(d)>>) /\ Converted(c, "produced")
                ELSE Decodes(<<>>) /\ Converted(c, "failed")
  BY DEF ImageRead
<1>2. road = "image" /\ nextPacket \in Nat
  BY OneBackend DEF ImageRead, SoftwareInv, SessionType
<1>3. d \in Decoder /\ d.inside = <<nextPacket>> /\ d.latch = {}
  BY <1>1, <1>2, LoadedDecoder
<1>4. NextPicture(d) = nextPacket /\ <<nextPacket>> \in Seq(Nat) /\ <<>> \in Seq(Nat)
  BY <1>2, <1>3, Scratched DEF NextPicture
<1>5. dec' \in Decoder /\ dec'.latch = {}
  <2>1. Yielded(d) \in Decoder
    BY <1>1, <1>3, YieldedInput DEF SameInput
  <2>2. Yielded(d).latch = {}
    BY <1>3 DEF Yielded, Decoder
  <2> QED
    BY <1>1, <2>1, <2>2, FreshDecoder
<1>6. CASE Undecoded("failed")
  BY <1>2, <1>5, <1>6, UndecodedInv
<1>7. CASE Decodes(<<NextPicture(d)>>) /\ (\E c : Converted(c, "produced"))
  BY <1>2, <1>4, <1>5, <1>7, ImageInv DEF Converted
<1>8. CASE Decodes(<<>>) /\ (\E c : Converted(c, "failed"))
  BY <1>2, <1>4, <1>5, <1>8, ImageInv DEF Converted
<1> QED
  BY <1>1, <1>6, <1>7, <1>8

LEMMA ImageRefusedInv ==
  ASSUME SoftwareInv, ImageRefused
  PROVE  SoftwareInv'
BY UndecodedInv DEF ImageRefused, SoftwareInv, SessionType, RefusalFirst, Pushed

-----------------------------------------------------------------------------
(* Every frame.                                                             *)

LEMMA NextInv == SoftwareInv /\ [Next]_vars => SoftwareInv'
<1> SUFFICES ASSUME SoftwareInv, [Next]_vars PROVE SoftwareInv'
  OBVIOUS
<1>1. CASE AudioStep
  BY <1>1, AudioTakesPacketInv, AudioTakesEndInv, AudioErrorInv, AudioReadsInv DEF AudioStep
<1>2. CASE SubtitleStep
  BY <1>2, SubtitleDecodesInv, SubtitleEndsInv, SubtitleAnswersInv DEF SubtitleStep
<1>3. CASE Flush
  BY <1>3, FlushInv
<1>4. CASE ImageStep
  BY <1>4, ImageRefusedInv, ImageUnsentInv, ImageUnreadInv, ImageReadInv DEF ImageStep
<1>5. CASE UNCHANGED vars
  <2> USE <1>5 DEF vars, seat, history
  <2>1. SessionType'
    BY DEF SoftwareInv, SessionType
  <2>2. NothingLost' /\ InTurn'
    BY DEF SoftwareInv, NothingLost, InTurn, Pushed
  <2>3. Untouched' /\ SameEnd' /\ ImageOfThisPacket' /\ RefusalFirst'
    BY DEF SoftwareInv, Untouched, SameEnd, ImageOfThisPacket, RefusalFirst, Pushed
  <2> QED
    BY <2>1, <2>2, <2>3 DEF SoftwareInv
<1> QED
  BY <1>1, <1>2, <1>3, <1>4, <1>5 DEF Next

LEMMA Inductive == Spec => []SoftwareInv
BY InitInv, NextInv, PTL DEF Spec

\* The three places one after another are in order.
LEMMA FramesTogether ==
  ASSUME SoftwareInv
  PROVE  InOrderOnce
<1> SUFFICES ASSUME Pushed
             PROVE  Increasing(delivered \o parked \o dec.inside)
  BY DEF InOrderOnce, Increasing
<1>1. /\ delivered \in Seq(Nat) /\ dec.inside \in Seq(Nat)
      /\ parked \in Seq(Nat) /\ Increasing(parked)
  BY ScratchType DEF SoftwareInv, SessionType, Decoder
<1>2. /\ Increasing(delivered) /\ Increasing(dec.inside)
      /\ Before(Range(delivered), Range(parked))
      /\ Before(Range(delivered), Range(dec.inside))
      /\ Before(Range(parked), Range(dec.inside))
  BY DEF SoftwareInv, InTurn
<1> DEFINE front == delivered \o parked
<1>3. front \in Seq(Nat) /\ Range(front) = Range(delivered) \cup Range(parked)
  BY <1>1, RangeOfConcat
<1>4. Increasing(front)
  BY <1>1, <1>2, IncreasingConcat
<1>5. Before(Range(front), Range(dec.inside))
  BY <1>2, <1>3 DEF Before
<1> HIDE DEF front
<1>6. Increasing(front \o dec.inside)
  BY <1>1, <1>2, <1>3, <1>4, <1>5, IncreasingConcat
<1> QED
  BY <1>6 DEF front

\* Each packet's frame reaches the caller once and in its place, an image is the
\* one asked for, and a refusal of the allocator's is told as what it is
\* (audio.rs, subtitle.rs, image.rs).
THEOREM EveryFrameKept == Spec => []FramesKept
<1>1. SoftwareInv => FramesKept
  BY FramesTogether DEF SoftwareInv, FramesKept
<1> QED
  BY <1>1, Inductive, PTL

-----------------------------------------------------------------------------
(* The push rhythm.                                                         *)

Waiting == Range(parked) \cup Range(dec.inside)

\* Of a push session, the steps of the rhythm that a call can be.
LEMMA RhythmSteps ==
  ASSUME Pushed, UNCHANGED road
  PROVE  /\ \A p \in 1 .. MaxPackets :
              ~eof /\ Waiting' \subseteq Waiting \cup {p} /\ answer' = "accepted" /\ eof' = eof
                => Rhythm!RhythmNext
         /\ \A p \in 1 .. MaxPackets :
              p \in Waiting /\ Waiting' \subseteq Waiting \ {p} /\ answer' = "produced" /\ eof' = eof
                => Rhythm!RhythmNext
         /\ Waiting' \subseteq Waiting /\ answer' = "failed" /\ eof' = eof => Rhythm!RhythmNext
         /\ Waiting' = Waiting /\ answer' = "accepted" /\ eof' = TRUE => Rhythm!RhythmNext
         /\ Waiting' = {} /\ answer' = "none" /\ eof' = FALSE => Rhythm!RhythmNext
<1> DEFINE fed == IF Pushed THEN Range(parked) \cup Range(dec.inside) ELSE {}
           heard == IF Pushed THEN answer ELSE "none"
<1>1. fed = Waiting /\ fed' = Waiting' /\ heard' = answer'
  BY DEF Waiting, Pushed
<1>2. ASSUME NEW p \in 1 .. MaxPackets,
             ~eof, Waiting' \subseteq Waiting \cup {p}, answer' = "accepted", eof' = eof
      PROVE  Rhythm!RhythmNext
  BY <1>1, <1>2 DEF Rhythm!RhythmNext, Rhythm!Accept, Rhythm!AtMost
<1>3. ASSUME NEW p \in 1 .. MaxPackets, p \in Waiting,
             Waiting' \subseteq Waiting \ {p}, answer' = "produced", eof' = eof
      PROVE  Rhythm!RhythmNext
  BY <1>1, <1>3 DEF Rhythm!RhythmNext, Rhythm!Produce, Rhythm!AtMost
<1>4. ASSUME Waiting' \subseteq Waiting, answer' = "failed", eof' = eof
      PROVE  Rhythm!RhythmNext
  BY <1>1, <1>4 DEF Rhythm!RhythmNext, Rhythm!AnswerOnly, Rhythm!AtMost
<1>5. ASSUME Waiting' = Waiting, answer' = "accepted", eof' = TRUE
      PROVE  Rhythm!RhythmNext
  BY <1>1, <1>5 DEF Rhythm!RhythmNext, Rhythm!EndStream
<1>6. ASSUME Waiting' = {}, answer' = "none", eof' = FALSE
      PROVE  Rhythm!RhythmNext
  BY <1>1, <1>6 DEF Rhythm!RhythmNext, Rhythm!Restart
<1> QED
  BY <1>2, <1>3, <1>4, <1>5, <1>6

\* The same of the answers that neither take nor give.
LEMMA FlowStep ==
  ASSUME Pushed, UNCHANGED <<road, eof>>, Waiting' = Waiting,
         \/ answer' \in {"mustDrain", "needsInput"} /\ ~eof
         \/ answer' = "afterEof" /\ eof
         \/ answer' = "ended" /\ eof /\ Waiting = {}
  PROVE  Rhythm!RhythmNext
<1> DEFINE fed == IF Pushed THEN Range(parked) \cup Range(dec.inside) ELSE {}
           heard == IF Pushed THEN answer ELSE "none"
<1>1. fed = Waiting /\ fed' = Waiting' /\ heard' = answer'
  BY DEF Waiting, Pushed
<1> QED
  BY <1>1 DEF Rhythm!RhythmNext, Rhythm!AskToDrain, Rhythm!AskForInput, Rhythm!AnswerEnded,
              Rhythm!AnswerOnly

\* A refused packet or end, and a receive without a frame.
LEMMA ErrorRhythm ==
  ASSUME SoftwareInv, road = "audio", UNCHANGED seat, UNCHANGED road,
         NEW e \in SendErrors(dec) \cup ReceiveErrors(dec), dec' = Collected(e),
         \/ e \in SendErrors(dec) /\ answer' = SendStatus(Verdict(e))
         \/ /\ e \in ReceiveErrors(dec) /\ parked = <<>>
            /\ answer' = ReceiveStatus(Verdict(e))
  PROVE  Rhythm!RhythmNext
<1>1. /\ Pushed /\ dec \in Decoder /\ eof = dec.ended /\ eof \in BOOLEAN
      /\ UNCHANGED <<parked, eof>>
  BY DEF SoftwareInv, SessionType, SameEnd, Pushed, seat
<1>2. Shrunk(dec', dec) /\ e.errno \in Errnos
  BY <1>1, CollectedError
<1>3. Waiting' \subseteq Waiting
  <2>1. dec.inside \in Seq(Nat)
    BY <1>1 DEF Decoder
  <2>2. Range(dec'.inside) \subseteq Range(dec.inside)
    BY <1>2, <2>1, RangeOfSplit DEF Shrunk
  <2> QED
    BY <1>1, <2>2 DEF Waiting
<1>4. CASE answer' = "failed"
  BY <1>1, <1>3, <1>4, RhythmSteps
<1>5. CASE answer' # "failed"
  <2>1. e.errno \in {"again", "eof"} /\ Verdict(e) = e.errno
    BY <1>2, <1>5 DEF SendStatus, ReceiveStatus, Verdict, Errnos
  <2>2. e.after = dec
    <3>1. e \in SendErrors(dec) => e.errno = "fail" \/ e.after = dec
      BY DEF SendErrors
    <3>2. e \in ReceiveErrors(dec) => e.errno = "fail" \/ e.after = dec
      BY DEF ReceiveErrors
    <3> QED
      BY <2>1, <3>1, <3>2
  <2>3. dec' = dec
    BY <2>1, <2>2 DEF Collected
  <2>4. Waiting' = Waiting
    BY <1>1, <2>3 DEF Waiting
  <2>5. CASE e \in SendErrors(dec) /\ answer' = SendStatus(Verdict(e))
    <3>1. answer' = "mustDrain" /\ ~eof
      BY <1>5, <2>5 DEF SendStatus
    <3> QED
      BY <1>1, <2>4, <3>1, FlowStep
  <2>6. CASE /\ e \in ReceiveErrors(dec) /\ parked = <<>>
             /\ answer' = ReceiveStatus(Verdict(e))
    <3>1. e.errno = "eof" \/ dec.ended => dec.ended /\ dec.inside = <<>>
      BY <2>1, <2>6 DEF ReceiveErrors, HasPicture
    <3>2. CASE eof \/ e.errno = "eof"
      <4>1. Waiting = {} /\ eof
        BY <1>1, <2>6, <3>1, <3>2, RangeOfEmpty DEF Waiting
      <4>2. answer' = "ended"
        BY <2>1, <2>6, <4>1 DEF ReceiveStatus
      <4> QED
        BY <1>1, <2>4, <4>1, <4>2, FlowStep
    <3>3. CASE ~eof /\ e.errno = "again"
      <4>1. answer' = "needsInput"
        BY <2>1, <2>6, <3>3 DEF ReceiveStatus
      <4> QED
        BY <1>1, <2>4, <3>3, <4>1, FlowStep
    <3> QED
      BY <2>1, <3>2, <3>3
  <2> QED
    BY <2>5, <2>6
<1> QED
  BY <1>4, <1>5

\* A packet taken waits, unless it was given up.
LEMMA TakesRhythm ==
  ASSUME SoftwareInv, AudioTakesPacket \/ SubtitleDecodes
  PROVE  Rhythm!RhythmNext
<1>1. /\ Pushed /\ UNCHANGED <<road, eof>> /\ answer' = "accepted"
      /\ nextPacket \in Nat /\ nextPacket <= MaxPackets /\ nextPacket >= 1
      /\ dec \in Decoder
  BY OneBackend DEF AudioTakesPacket, SubtitleDecodes, Accepts, Answers, Offered, Pushed, seat,
         SoftwareInv, SessionType
<1>2. nextPacket \in 1 .. MaxPackets
  BY <1>1, OneBackend
<1>3. ~eof /\ Waiting' \subseteq Waiting \cup {nextPacket}
  <2>1. CASE AudioTakesPacket
    <3>1. \A x \in Takes(dec, nextPacket) :
            ~dec.ended /\ x.inside \in {dec.inside, Append(dec.inside, nextPacket)}
      BY <1>1, TakenInput, TakenInside
    <3>2. /\ ~dec.ended /\ eof = dec.ended /\ parked' = parked
          /\ dec'.inside \in {dec.inside, Append(dec.inside, nextPacket)}
      BY <2>1, <3>1 DEF AudioTakesPacket, seat, SoftwareInv, SameEnd
    <3>3. Range(Append(dec.inside, nextPacket)) = Range(dec.inside) \cup {nextPacket}
      BY <1>1, RangeOfAppend DEF Decoder
    <3> QED
      BY <3>2, <3>3 DEF Waiting
  <2>2. CASE SubtitleDecodes
    <3>1. ~eof /\ dec' = dec /\ (parked' = parked \/ parked' = <<nextPacket>>)
      BY <2>2 DEF SubtitleDecodes
    <3> QED
      BY <1>1, <3>1, Scratched DEF Waiting
  <2> QED
    BY <2>1, <2>2
<1> QED
  BY <1>1, <1>2, <1>3, RhythmSteps

\* The frame at the front leaves, or waits on.
LEMMA ConvertsRhythm ==
  ASSUME SoftwareInv, Pushed, NEW frame \in Nat, NEW s, Converts(frame, s),
         \/ parked = <<frame>> /\ dec' = dec
         \/ parked = <<>> /\ HasPicture(dec) /\ frame = NextPicture(dec) /\ dec' = Yielded(dec)
  PROVE  Rhythm!RhythmNext
<1>1. /\ UNCHANGED <<road, eof>>
      /\ \/ answer' = "produced" /\ parked' = <<>>
         \/ answer' = "failed" /\ parked' \in {<<>>, <<frame>>}
  BY DEF Converts, Delivers, Parks, LetsGo, Free, Converted
<1>2. /\ dec \in Decoder /\ dec.inside \in Seq(Nat) /\ Increasing(dec.inside)
      /\ nextPacket \in Nat /\ nextPacket <= MaxPackets + 1 /\ MaxPackets \in Nat
      /\ Before({0}, Range(parked) \cup Range(dec.inside))
      /\ Before(Range(parked), Range(dec.inside))
      /\ Before(Range(parked) \cup Range(dec.inside), {nextPacket})
  BY OneBackend DEF SoftwareInv, SessionType, InTurn, Decoder, Before
<1>3. /\ Waiting = {frame} \cup Range(dec'.inside)
      /\ Before({frame}, Range(dec'.inside)) /\ Before({frame}, {nextPacket})
  <2>1. CASE parked = <<frame>> /\ dec' = dec
    BY <1>2, <2>1, Scratched DEF Waiting, Before
  <2>2. CASE parked = <<>> /\ HasPicture(dec) /\ frame = NextPicture(dec) /\ dec' = Yielded(dec)
    <3>1. dec'.inside = Tail(dec.inside) /\ dec.inside # <<>> /\ frame = Head(dec.inside)
      BY <1>2, <2>2 DEF Yielded, Decoder, HasPicture, NextPicture
    <3>2. /\ Before({frame}, Range(Tail(dec.inside)))
          /\ Range(dec.inside) = {frame} \cup Range(Tail(dec.inside))
      BY <1>2, <3>1, IncreasingTail
    <3> QED
      BY <1>2, <2>2, <3>1, <3>2, RangeOfEmpty DEF Waiting, Before
  <2> QED
    BY <2>1, <2>2
<1>4. /\ parked' = <<>> => Waiting' = Range(dec'.inside)
      /\ parked' \in {<<>>, <<frame>>} => Waiting' \subseteq Waiting
  BY <1>3, Scratched DEF Waiting
<1>5. CASE answer' = "failed"
  BY <1>1, <1>4, <1>5, RhythmSteps
<1>6. CASE answer' = "produced"
  <2>1. Waiting' \subseteq Waiting \ {frame} /\ frame \in Waiting
    BY <1>1, <1>3, <1>4, <1>6 DEF Before
  <2>2. frame \in 1 .. MaxPackets
    <3>1. 0 < frame /\ frame < nextPacket
      BY <1>2, <1>3 DEF Before, Waiting
    <3> QED
      BY <1>2, <3>1
  <2> QED
    BY <1>1, <1>6, <2>1, <2>2, RhythmSteps
<1> QED
  BY <1>1, <1>5, <1>6

LEMMA AudioRhythm ==
  ASSUME SoftwareInv, AudioStep
  PROVE  Rhythm!RhythmNext
<1>1. road = "audio" /\ Pushed /\ UNCHANGED road /\ dec \in Decoder
  BY DEF AudioStep, AudioUnbuilt, AudioTakesPacket, AudioRefusesPacket, AudioTakesEnd,
         AudioRefusesEnd, AudioConvertsParked, AudioReceives, Leaves, Accepts, Answers,
         Converts, Delivers, Parks, LetsGo, Converted, Pushed, SoftwareInv, SessionType
<1>2. CASE AudioUnbuilt
  BY <1>1, <1>2, RhythmSteps DEF AudioUnbuilt, Leaves, Answers, seat, Waiting
<1>3. CASE AudioTakesPacket
  BY <1>3, TakesRhythm
<1>4. CASE AudioTakesEnd
  <2>1. \A x \in TakesEnd(dec) : x.inside = dec.inside
    BY <1>1, EndTakenBackend
  <2>2. Waiting' = Waiting /\ eof' = TRUE /\ answer' = "accepted"
    BY <1>4, <2>1 DEF AudioTakesEnd, Answers, Waiting
  <2> QED
    BY <1>1, <2>2, RhythmSteps
<1>5. CASE AudioRefusesPacket \/ AudioRefusesEnd
  <2>1. PICK e \in SendErrors(dec) : dec' = Collected(e) /\ answer' = SendStatus(Verdict(e))
    BY <1>5 DEF AudioRefusesPacket, AudioRefusesEnd, Leaves, Answers
  <2>2. UNCHANGED seat
    BY <1>5 DEF AudioRefusesPacket, AudioRefusesEnd, EndKept, Leaves, seat
  <2> QED
    BY <1>1, <2>1, <2>2, ErrorRhythm
<1>6. CASE AudioConvertsParked
  <2>1. Head(parked) \in Nat /\ parked = <<Head(parked)>>
    BY <1>6, ScratchType DEF AudioConvertsParked, SoftwareInv
  <2> QED
    BY <1>1, <1>6, <2>1, ConvertsRhythm DEF AudioConvertsParked
<1>7. CASE AudioReceives
  <2>1. CASE HasPicture(dec) /\ dec' = Yielded(dec)
               /\ \E s \in Sources["audio"] : Converts(NextPicture(dec), s)
    <3>1. NextPicture(dec) \in Nat
      BY <1>1, <2>1, YieldedInput
    <3> QED
      BY <1>1, <1>7, <2>1, <3>1, ConvertsRhythm DEF AudioReceives
  <2>2. CASE \E e \in ReceiveErrors(dec) :
               dec' = Collected(e) /\ Leaves(ReceiveStatus(Verdict(e)))
    <3>1. PICK e \in ReceiveErrors(dec) :
            dec' = Collected(e) /\ Leaves(ReceiveStatus(Verdict(e)))
      BY <2>2
    <3>2. UNCHANGED seat /\ answer' = ReceiveStatus(Verdict(e)) /\ parked = <<>>
      BY <1>7, <3>1 DEF AudioReceives, Leaves, Answers
    <3> QED
      BY <1>1, <3>1, <3>2, ErrorRhythm
  <2> QED
    BY <1>7, <2>1, <2>2 DEF AudioReceives
<1> QED
  BY <1>2, <1>3, <1>4, <1>5, <1>6, <1>7 DEF AudioStep

LEMMA SubtitleRhythm ==
  ASSUME SoftwareInv, SubtitleStep
  PROVE  Rhythm!RhythmNext
<1>1. /\ Pushed /\ UNCHANGED road /\ eof \in BOOLEAN
      /\ road = "subtitle" /\ dec.inside = <<>>
  BY DEF SubtitleStep, SubtitleRefuses, SubtitleGates, SubtitleDecodes, SubtitleFails,
         SubtitleEnds, SubtitleReceives, Leaves, Accepts, Answers, Converts, Delivers, Parks,
         LetsGo, Converted, Pushed, SoftwareInv, SessionType, Untouched
<1>2. CASE SubtitleRefuses
  <2>1. /\ Waiting' = Waiting /\ eof' = eof
        /\ (answer' = "mustDrain" /\ ~eof) \/ (answer' = "afterEof" /\ eof)
    BY <1>2 DEF SubtitleRefuses, SubtitleGates, Leaves, Answers, seat, Waiting
  <2> QED
    BY <1>1, <2>1, FlowStep
<1>3. CASE SubtitleDecodes
  BY <1>3, TakesRhythm
<1>4. CASE SubtitleFails
  BY <1>1, <1>4, RhythmSteps DEF SubtitleFails, Leaves, Answers, seat, Waiting
<1>5. CASE SubtitleEnds
  BY <1>1, <1>5, RhythmSteps DEF SubtitleEnds, Answers, Waiting
<1>6. CASE SubtitleReceives /\ parked = <<>>
  <2>1. /\ Waiting' = Waiting /\ Waiting = {} /\ eof' = eof
        /\ (answer' = "needsInput" /\ ~eof) \/ (answer' = "ended" /\ eof)
    BY <1>1, <1>6, RangeOfEmpty DEF SubtitleReceives, Leaves, Answers, seat, Waiting
  <2> QED
    BY <1>1, <2>1, FlowStep
<1>7. CASE SubtitleReceives /\ parked # <<>>
  <2>1. /\ Head(parked) \in Nat /\ parked = <<Head(parked)>>
        /\ Converts(Head(parked), source) /\ dec' = dec
    BY <1>7, ScratchType DEF SubtitleReceives, SoftwareInv
  <2> QED
    BY <1>1, <2>1, ConvertsRhythm
<1> QED
  BY <1>2, <1>3, <1>4, <1>5, <1>6, <1>7 DEF SubtitleStep

\* The rhythm hears nothing of images.
LEMMA SilentStep ==
  ASSUME UNCHANGED <<road, eof>>, ~Pushed \/ UNCHANGED <<parked, dec, answer>>
  PROVE  UNCHANGED Rhythm!rhythmVars
BY DEF Rhythm!rhythmVars, Pushed

LEMMA RhythmNextStep ==
  SoftwareInv /\ [Next]_vars => [Rhythm!RhythmNext]_(Rhythm!rhythmVars)
<1> SUFFICES ASSUME SoftwareInv, [Next]_vars
             PROVE  Rhythm!RhythmNext \/ UNCHANGED Rhythm!rhythmVars
  OBVIOUS
<1>1. CASE AudioStep
  BY <1>1, AudioRhythm
<1>2. CASE SubtitleStep
  BY <1>2, SubtitleRhythm
<1>3. CASE Flush
  <2>1. Pushed /\ UNCHANGED road /\ eof' = FALSE /\ answer' = "none" /\ parked' = <<>>
    BY <1>3 DEF Flush, Free, Answers, Pushed
  <2>2. dec'.inside = <<>>
    BY <1>3 DEF Flush, Flushed, SoftwareInv, SessionType, Decoder
  <2>3. Waiting' = {}
    BY <2>1, <2>2, RangeOfEmpty DEF Waiting
  <2> QED
    BY <2>1, <2>3, RhythmSteps
<1>4. CASE ImageStep
  <2>1. ~Pushed /\ UNCHANGED <<road, eof>>
    BY <1>4 DEF ImageStep, ImageRefused, ImageUnsent, ImageUnread, ImageRead, Undecoded,
                Decodes, Answers, Converted, seat, Pushed
  <2> QED
    BY <2>1, SilentStep
<1>5. CASE UNCHANGED vars
  BY <1>5, SilentStep DEF vars, seat
<1> QED
  BY <1>1, <1>2, <1>3, <1>4, <1>5 DEF Next

LEMMA RhythmInitial == Init => Rhythm!RhythmInit
<1> SUFFICES ASSUME Init PROVE Rhythm!RhythmInit
  OBVIOUS
<1>1. Range(parked) \cup Range(dec.inside) = {}
  BY RangeOfEmpty DEF Init, OpenDecoder
<1> QED
  BY <1>1 DEF Init, Rhythm!RhythmInit

\* A session that leaves its refusals to libavcodec and one that makes them all
\* keep the same rhythm (rhythm.rs: Sent and Received).
THEOREM SoftwareRhythm == Spec => RhythmKept
BY RhythmInitial, RhythmNextStep, Inductive, PTL DEF Spec, RhythmKept, Rhythm!RhythmSpec
-----------------------------------------------------------------------------
(* Sequences                                                                *)

(***************************************************************************)
(* A nonempty set of naturals has a least element.  The induction every    *)
(* other lemma here needs is an appeal to this one.                        *)
(***************************************************************************)
LEMMA LeastNat ==
  ASSUME NEW S \in SUBSET Nat, S # {}
  PROVE  \E m \in S : \A k \in S : m <= k
<1> DEFINE R == OpToRel(<, Nat)
<1>1. IsWellFoundedOn(R, Nat)
  BY NatLessThanWellFounded
<1>2. PICK m \in S : \A k \in S : ~(<<k, m>> \in R)
  BY <1>1, WFMin
<1>3. \A k \in S : ~(k < m)
  BY <1>2 DEF OpToRel
<1> QED
  BY <1>3

\* A sequence, over whatever is in it.
IsSeq(s) == s \in Seq(Range(s))

\* Induction over a set: what 0 is in and nothing leaves holds every number.
LEMMA Counting ==
  ASSUME NEW N \in Nat, NEW good, 0 \in good,
         \A n \in 1 .. N : n - 1 \in good => n \in good
  PROVE  \A n \in 0 .. N : n \in good
<1> DEFINE bad == {n \in 0 .. N : n \notin good}
<1>1. SUFFICES ASSUME bad # {} PROVE FALSE
  OBVIOUS
<1>2. bad \in SUBSET Nat
  OBVIOUS
<1> HIDE DEF bad
<1>3. PICK n \in bad : \A k \in bad : n <= k
  BY <1>1, <1>2, LeastNat
<1>4. n \in 0 .. N /\ n \notin good
  BY <1>3 DEF bad
<1>5. n \in 1 .. N /\ n - 1 \in 0 .. N /\ ~(n <= n - 1)
  BY <1>4
<1>6. n - 1 \in good
  BY <1>3, <1>5 DEF bad
<1> QED
  BY <1>4, <1>5, <1>6

LEMMA SeqIs ==
  ASSUME NEW S, NEW s \in Seq(S)
  PROVE  /\ IsSeq(s) /\ Range(s) \subseteq S
         /\ Len(s) \in Nat /\ DOMAIN s = 1 .. Len(s)
<1>1. Len(s) \in Nat /\ DOMAIN s = 1 .. Len(s) /\ s = [i \in 1 .. Len(s) |-> s[i]]
  OBVIOUS
<1>2. \A i \in 1 .. Len(s) : s[i] \in Range(s) /\ s[i] \in S
  BY <1>1 DEF Range
<1>3. Range(s) \subseteq S
  BY <1>1, <1>2 DEF Range
<1>4. s \in [1 .. Len(s) -> Range(s)]
  BY <1>1, <1>2
<1>5. IsSeq(s)
  BY <1>1, <1>4, SeqDef DEF IsSeq
<1> QED
  BY <1>1, <1>3, <1>5

LEMMA SeqShape ==
  ASSUME NEW s, IsSeq(s)
  PROVE  Len(s) \in Nat /\ DOMAIN s = 1 .. Len(s)
BY DEF IsSeq

LEMMA FunctionIsSeq ==
  ASSUME NEW n \in Nat, NEW s, s = [i \in 1 .. n |-> s[i]]
  PROVE  IsSeq(s) /\ Len(s) = n /\ DOMAIN s = 1 .. n
<1>1. \A i \in 1 .. n : s[i] \in Range(s)
  BY DEF Range
<1>2. s \in [1 .. n -> Range(s)]
  BY <1>1
<1>3. s \in Seq(Range(s))
  BY <1>2, SeqDef
<1> QED
  BY <1>3 DEF IsSeq

LEMMA SameSeq ==
  ASSUME NEW s, NEW t, IsSeq(s), IsSeq(t), Len(s) = Len(t),
         \A i \in 1 .. Len(s) : s[i] = t[i]
  PROVE  s = t
<1>1. s = [i \in 1 .. Len(s) |-> s[i]] /\ t = [i \in 1 .. Len(t) |-> t[i]]
  BY DEF IsSeq
<1> QED
  BY <1>1

LEMMA Cat ==
  ASSUME NEW s, NEW t, IsSeq(s), IsSeq(t)
  PROVE  /\ IsSeq(s \o t)
         /\ Len(s \o t) = Len(s) + Len(t)
         /\ Range(s \o t) = Range(s) \cup Range(t)
         /\ \A i \in 1 .. Len(s) : (s \o t)[i] = s[i]
         /\ \A i \in 1 .. Len(t) : (s \o t)[Len(s) + i] = t[i]
<1> DEFINE S == Range(s) \cup Range(t)
<1>1. s \in Seq(S) /\ t \in Seq(S)
  <2>1. /\ Len(s) \in Nat /\ s \in [1 .. Len(s) -> Range(s)]
        /\ Len(t) \in Nat /\ t \in [1 .. Len(t) -> Range(t)]
    BY DEF IsSeq
  <2>2. s \in [1 .. Len(s) -> S] /\ t \in [1 .. Len(t) -> S]
    BY <2>1
  <2> QED
    BY <2>1, <2>2, SeqDef
<1>2. /\ Len(s) \in Nat /\ Len(t) \in Nat /\ DOMAIN s = 1 .. Len(s) /\ DOMAIN t = 1 .. Len(t)
  BY <1>1
<1> HIDE DEF S
<1>3. /\ s \o t \in Seq(S) /\ Len(s \o t) = Len(s) + Len(t)
      /\ \A i \in 1 .. Len(s) + Len(t) :
           (s \o t)[i] = IF i <= Len(s) THEN s[i] ELSE t[i - Len(s)]
  BY <1>1, ConcatProperties
<1>4. \A i \in 1 .. Len(s) : (s \o t)[i] = s[i]
  BY <1>2, <1>3
<1>5. \A i \in 1 .. Len(t) : (s \o t)[Len(s) + i] = t[i]
  <2> TAKE i \in 1 .. Len(t)
  <2> DEFINE k == Len(s) + i
  <2>1. k \in 1 .. Len(s) + Len(t) /\ ~(k <= Len(s)) /\ k - Len(s) = i
    BY <1>2
  <2> HIDE DEF k
  <2>2. (s \o t)[k] = t[i]
    BY <2>1, <1>3
  <2> QED
    BY <2>2 DEF k
<1>6. DOMAIN (s \o t) = 1 .. Len(s) + Len(t)
  BY <1>3
<1>7. Range(s \o t) = Range(s) \cup Range(t)
  <2>1. ASSUME NEW i \in 1 .. Len(s) + Len(t) PROVE (s \o t)[i] \in Range(s) \cup Range(t)
    <3>1. CASE i <= Len(s)
      <4>1. i \in 1 .. Len(s)
        BY <3>1, <1>2
      <4> QED
        BY <4>1, <1>4, <1>2 DEF Range
    <3>2. CASE ~(i <= Len(s))
      <4>1. i - Len(s) \in 1 .. Len(t)
        BY <3>2, <1>2
      <4>2. (s \o t)[i] = t[i - Len(s)]
        BY <3>2, <1>3
      <4> QED
        BY <4>1, <4>2, <1>2 DEF Range
    <3> QED
      BY <3>1, <3>2
  <2>2. \A i \in 1 .. Len(s) : i \in 1 .. Len(s) + Len(t)
    BY <1>2
  <2>3. \A i \in 1 .. Len(t) : Len(s) + i \in 1 .. Len(s) + Len(t)
    BY <1>2
  <2>4. Range(s) \subseteq Range(s \o t)
    BY <2>2, <1>4, <1>6, <1>2 DEF Range
  <2>5. Range(t) \subseteq Range(s \o t)
    BY <2>3, <1>5, <1>6, <1>2 DEF Range
  <2>6. Range(s \o t) \subseteq Range(s) \cup Range(t)
    BY <2>1, <1>6 DEF Range
  <2> QED
    BY <2>4, <2>5, <2>6
<1>8. IsSeq(s \o t)
  BY <1>3, SeqIs
<1> QED
  BY <1>3, <1>4, <1>5, <1>7, <1>8

LEMMA NoSeq == IsSeq(<<>>) /\ Len(<<>>) = 0 /\ Range(<<>>) = {} /\ DOMAIN <<>> = 1 .. 0
<1>1. <<>> \in Seq({}) /\ Len(<<>>) = 0
  OBVIOUS
<1>2. DOMAIN <<>> = 1 .. 0
  BY <1>1
<1>3. IsSeq(<<>>)
  BY <1>1, SeqIs
<1>4. Range(<<>>) = {}
  BY <1>2 DEF Range
<1> QED
  BY <1>1, <1>2, <1>3, <1>4

LEMMA OneSeq ==
  ASSUME NEW x
  PROVE  /\ IsSeq(<<x>>) /\ Len(<<x>>) = 1 /\ Range(<<x>>) = {x} /\ DOMAIN <<x>> = 1 .. 1
         /\ <<x>>[1] = x
<1>1. <<x>> \in Seq({x}) /\ Len(<<x>>) = 1 /\ <<x>>[1] = x
  OBVIOUS
<1>2. DOMAIN <<x>> = 1 .. 1
  BY <1>1
<1>3. IsSeq(<<x>>)
  BY <1>1, SeqIs
<1>4. Range(<<x>>) = {x}
  <2>1. Range(<<x>>) \subseteq {x}
    BY <1>1, SeqIs
  <2>2. 1 \in 1 .. 1
    OBVIOUS
  <2>3. x \in Range(<<x>>)
    BY <1>1, <1>2, <2>2 DEF Range
  <2> QED
    BY <2>1, <2>3
<1> QED
  BY <1>1, <1>2, <1>3, <1>4

LEMMA CatNone ==
  ASSUME NEW s, IsSeq(s)
  PROVE  <<>> \o s = s /\ s \o <<>> = s
BY DEF IsSeq

LEMMA CatThree ==
  ASSUME NEW s, NEW t, NEW u, IsSeq(s), IsSeq(t), IsSeq(u)
  PROVE  (s \o t) \o u = s \o (t \o u)
<1> DEFINE S == Range(s) \cup Range(t) \cup Range(u)
<1>1. ASSUME NEW v, IsSeq(v), Range(v) \subseteq S PROVE v \in Seq(S)
  <2>1. Len(v) \in Nat /\ v \in [1 .. Len(v) -> Range(v)]
    BY <1>1 DEF IsSeq
  <2>2. v \in [1 .. Len(v) -> S]
    BY <2>1, <1>1
  <2> QED
    BY <2>1, <2>2, SeqDef
<1>2. Range(s) \subseteq S /\ Range(t) \subseteq S /\ Range(u) \subseteq S
  OBVIOUS
<1> HIDE DEF S
<1>3. s \in Seq(S) /\ t \in Seq(S) /\ u \in Seq(S)
  BY <1>1, <1>2
<1> QED
  BY <1>3, ConcatAssociative

-----------------------------------------------------------------------------
(* Sums                                                                     *)

\* The recursion Total is defined by.
Summed(sums, n, f) == IF n = 0 THEN 0 ELSE f[n - 1] + sums[n]
SumTo(sums) == CHOOSE f : f = [n \in 0 .. Len(sums) |-> Summed(sums, n, f)]

LEMMA SumsExist ==
  ASSUME NEW sums, Len(sums) \in Nat
  PROVE  \E f : f = [n \in 0 .. Len(sums) |-> Summed(sums, n, f)]
<1> DEFINE N == Len(sums)
           UpTo(m, f) == f = [n \in 0 .. m |-> Summed(sums, n, f)]
           bad == {m \in 0 .. N : ~ \E f : UpTo(m, f)}
<1> HIDE DEF N
<1>1. N \in Nat
  BY DEF N
<1>2. SUFFICES ASSUME bad # {} PROVE FALSE
  <2>1. N \in 0 .. N
    BY <1>1
  <2> QED
    BY <2>1 DEF N
<1>3. bad \in SUBSET Nat
  BY <1>1
<1>4. PICK m \in bad : \A k \in bad : m <= k
  <2> HIDE DEF bad
  <2> QED
    BY <1>2, <1>3, LeastNat
<1>5. m \in Nat /\ m \in 0 .. N /\ ~ \E f : UpTo(m, f)
  BY <1>1, <1>4
<1>6. CASE m = 0
  <2> DEFINE g == [n \in 0 .. 0 |-> 0]
  <2>1. UpTo(0, g)
    BY DEF Summed
  <2> QED
    BY <2>1, <1>5, <1>6
<1>7. CASE m # 0
  <2>1. m - 1 \in 0 .. N /\ ~(m <= m - 1)
    BY <1>5, <1>7, <1>1
  <2>2. m - 1 \notin bad
    BY <2>1, <1>4
  <2>3. PICK f : UpTo(m - 1, f)
    BY <2>1, <2>2
  <2> DEFINE g == [n \in 0 .. m |-> IF n = m THEN f[m - 1] + sums[m] ELSE f[n]]
  <2>4. \A n \in 0 .. m - 1 : f[n] = Summed(sums, n, f)
    <3> HIDE DEF Summed
    <3> QED
      BY <2>3
  <2>5. \A n \in 0 .. m : g[n] = Summed(sums, n, g)
    <3> TAKE n \in 0 .. m
    <3>1. CASE n = m
      <4>1. g[m] = f[m - 1] + sums[m] /\ g[m - 1] = f[m - 1]
        BY <1>5, <1>7
      <4> HIDE DEF g
      <4> QED
        BY <4>1, <3>1, <1>7 DEF Summed
    <3>2. CASE n # m
      <4>1. n \in 0 .. m - 1 /\ g[n] = f[n]
        BY <3>2, <1>5
      <4>2. n # 0 => n - 1 \in 0 .. m /\ n - 1 # m
        BY <4>1, <1>5
      <4>3. n # 0 => g[n - 1] = f[n - 1]
        BY <4>2
      <4> HIDE DEF g
      <4> QED
        BY <4>1, <4>3, <2>4 DEF Summed
    <3> QED
      BY <3>1, <3>2
  <2>6. UpTo(m, g)
    <3> HIDE DEF Summed
    <3>1. g = [n \in 0 .. m |-> g[n]]
      OBVIOUS
    <3> HIDE DEF g
    <3> QED
      BY <2>5, <3>1
  <2> QED
    BY <2>6, <1>5
<1> QED
  BY <1>6, <1>7

\* A sum is the last of its running sums.
LEMMA RunningSum ==
  ASSUME NEW sums, Len(sums) \in Nat
  PROVE  /\ Total(sums) = SumTo(sums)[Len(sums)]
         /\ SumTo(sums)[0] = 0
         /\ \A n \in 1 .. Len(sums) : SumTo(sums)[n] = SumTo(sums)[n - 1] + sums[n]
<1> DEFINE f == SumTo(sums)
<1>1. Total(sums) = f[Len(sums)]
  BY DEF Total, SumTo, Summed
<1>2. f = [n \in 0 .. Len(sums) |-> Summed(sums, n, f)]
  BY SumsExist, Zenon DEF SumTo
<1> HIDE DEF f
<1>3. \A n \in 0 .. Len(sums) : f[n] = Summed(sums, n, f)
  <2> HIDE DEF Summed
  <2> QED
    BY <1>2
<1>4. f[0] = 0
  BY <1>3 DEF Summed
<1>5. \A n \in 1 .. Len(sums) : f[n] = f[n - 1] + sums[n]
  BY <1>3 DEF Summed
<1> QED
  BY <1>1, <1>4, <1>5 DEF f

\* The running sums of integers are integers; those of naturals grow.
LEMMA SumsGrow ==
  ASSUME NEW sums, Len(sums) \in Nat, \A n \in 1 .. Len(sums) : sums[n] \in Nat
  PROVE  /\ \A n \in 0 .. Len(sums) : SumTo(sums)[n] \in Nat
         /\ \A n \in 0 .. Len(sums) : SumTo(sums)[n] <= Total(sums)
         /\ Total(sums) \in Nat
<1> DEFINE N == Len(sums)
           f == SumTo(sums)
           bad == {n \in 0 .. N : f[n] \notin Nat}
           low == {k \in 0 .. N : ~(f[N - k] <= f[N])}
<1>1. /\ N \in Nat /\ Total(sums) = f[N] /\ f[0] = 0
      /\ \A n \in 1 .. N : f[n] = f[n - 1] + sums[n] /\ sums[n] \in Nat
  BY RunningSum
<1> HIDE DEF N, f
<1>2. bad = {}
  <2>1. SUFFICES ASSUME bad # {} PROVE FALSE
    OBVIOUS
  <2>2. bad \in SUBSET Nat
    BY <1>1
  <2> HIDE DEF bad
  <2>3. PICK m \in bad : \A k \in bad : m <= k
    BY <2>1, <2>2, LeastNat
  <2>4. m \in 0 .. N /\ f[m] \notin Nat
    BY <2>3 DEF bad
  <2>5. m # 0
    BY <2>4, <1>1
  <2>6. m - 1 \in 0 .. N /\ ~(m <= m - 1) /\ m \in 1 .. N
    BY <2>4, <2>5, <1>1
  <2>7. f[m - 1] \in Nat
    BY <2>3, <2>6 DEF bad
  <2>8. f[m] = f[m - 1] + sums[m] /\ sums[m] \in Nat
    BY <2>6, <1>1
  <2> QED
    BY <2>4, <2>7, <2>8
<1>3. \A n \in 0 .. N : f[n] \in Nat
  BY <1>2
<1>4. low = {}
  <2>1. SUFFICES ASSUME low # {} PROVE FALSE
    OBVIOUS
  <2>2. low \in SUBSET Nat
    BY <1>1
  <2> HIDE DEF low
  <2>3. PICK m \in low : \A k \in low : m <= k
    BY <2>1, <2>2, LeastNat
  <2>4. m \in 0 .. N /\ ~(f[N - m] <= f[N])
    BY <2>3 DEF low
  <2>5. m # 0
    <3>1. N - 0 = N /\ N \in 0 .. N
      BY <1>1
    <3>2. f[N] \in Nat
      BY <3>1, <1>3
    <3> QED
      BY <3>1, <3>2, <2>4
  <2>6. m - 1 \in 0 .. N /\ ~(m <= m - 1)
    BY <2>4, <2>5, <1>1
  <2>7. f[N - (m - 1)] <= f[N]
    BY <2>3, <2>6 DEF low
  <2> DEFINE n == N - (m - 1)
  <2>8. n \in 1 .. N /\ n - 1 = N - m /\ n - 1 \in 0 .. N /\ n \in 0 .. N /\ N \in 0 .. N
    BY <2>4, <2>5, <1>1
  <2>9. f[n] <= f[N]
    BY <2>7
  <2> HIDE DEF n
  <2>10. f[n] = f[n - 1] + sums[n] /\ sums[n] \in Nat
    BY <2>8, <1>1
  <2>11. f[n - 1] \in Nat /\ f[n] \in Nat /\ f[N] \in Nat
    BY <2>8, <1>3
  <2>12. f[n - 1] <= f[N]
    BY <2>9, <2>10, <2>11
  <2> QED
    BY <2>12, <2>8, <2>4
<1>5. ASSUME NEW n \in 0 .. N PROVE f[n] <= f[N]
  <2>1. N - n \in 0 .. N /\ N - (N - n) = n
    BY <1>1
  <2>2. N - n \notin low
    BY <1>4
  <2> QED
    BY <2>1, <2>2
<1>6. N \in 0 .. N
  BY <1>1
<1> QED
  BY <1>1, <1>3, <1>5, <1>6 DEF N, f

\* Sums that begin alike are alike so far.
LEMMA SumsAlike ==
  ASSUME NEW s, NEW t, Len(s) \in Nat, Len(t) \in Nat, NEW m \in Nat,
         m <= Len(s), m <= Len(t), \A n \in 1 .. m : s[n] = t[n]
  PROVE  SumTo(s)[m] = SumTo(t)[m]
<1> DEFINE f == SumTo(s)
           g == SumTo(t)
           bad == {n \in 0 .. m : f[n] # g[n]}
<1>1. /\ f[0] = 0 /\ g[0] = 0
      /\ \A n \in 1 .. Len(s) : f[n] = f[n - 1] + s[n]
      /\ \A n \in 1 .. Len(t) : g[n] = g[n - 1] + t[n]
  BY RunningSum
<1> HIDE DEF f, g
<1>2. bad = {}
  <2>1. SUFFICES ASSUME bad # {} PROVE FALSE
    OBVIOUS
  <2>2. bad \in SUBSET Nat
    OBVIOUS
  <2> HIDE DEF bad
  <2>3. PICK n \in bad : \A k \in bad : n <= k
    BY <2>1, <2>2, LeastNat
  <2>4. n \in 0 .. m /\ f[n] # g[n]
    BY <2>3 DEF bad
  <2>5. n # 0
    BY <2>4, <1>1
  <2>6. n - 1 \in 0 .. m /\ ~(n <= n - 1) /\ n \in 1 .. m /\ n \in 1 .. Len(s) /\ n \in 1 .. Len(t)
    BY <2>4, <2>5
  <2>7. f[n - 1] = g[n - 1]
    BY <2>3, <2>6 DEF bad
  <2>8. f[n] = f[n - 1] + s[n] /\ g[n] = g[n - 1] + t[n] /\ s[n] = t[n]
    BY <2>6, <1>1
  <2> QED
    BY <2>4, <2>7, <2>8
<1>3. m \in 0 .. m
  OBVIOUS
<1> QED
  BY <1>2, <1>3 DEF f, g

\* The sum of one run after another.
LEMMA TotalCat ==
  ASSUME NEW s, NEW t, NEW u, Len(s) \in Nat, Len(t) \in Nat,
         Len(u) = Len(s) + Len(t),
         \A n \in 1 .. Len(s) : s[n] \in Int /\ u[n] = s[n],
         \A n \in 1 .. Len(t) : t[n] \in Int /\ u[Len(s) + n] = t[n]
  PROVE  Total(u) = Total(s) + Total(t) /\ Total(s) \in Int /\ Total(t) \in Int
<1> DEFINE m == Len(s)
           r == Len(t)
           f == SumTo(s)
           g == SumTo(t)
           h == SumTo(u)
           odd == {n \in 0 .. m : f[n] \notin Int}
           bad == {n \in 0 .. r : ~(g[n] \in Int /\ h[m + n] = f[m] + g[n])}
<1>1. /\ m \in Nat /\ r \in Nat /\ Len(u) = m + r /\ m <= m + r /\ m \in 0 .. m /\ r \in 0 .. r
      /\ Total(s) = f[m] /\ Total(t) = g[r] /\ Total(u) = h[m + r]
  <2>1. Len(u) \in Nat /\ Len(u) = m + r
    OBVIOUS
  <2>2. Total(s) = f[m] /\ Total(t) = g[r] /\ Total(u) = h[Len(u)]
    BY <2>1, RunningSum
  <2>3. m \in Nat /\ r \in Nat
    OBVIOUS
  <2> HIDE DEF m, r, f, g, h
  <2>4. m <= m + r /\ m \in 0 .. m /\ r \in 0 .. r
    BY <2>3
  <2>5. Total(u) = h[m + r]
    BY <2>1, <2>2
  <2> QED
    BY <2>1, <2>2, <2>3, <2>4, <2>5
<1>2. /\ f[0] = 0 /\ g[0] = 0
      /\ \A n \in 1 .. m : f[n] = f[n - 1] + s[n] /\ s[n] \in Int
      /\ \A n \in 1 .. r : g[n] = g[n - 1] + t[n] /\ t[n] \in Int
      /\ \A n \in 1 .. m + r : h[n] = h[n - 1] + u[n]
      /\ \A n \in 1 .. r : u[m + n] = t[n]
  <2>1. Len(u) \in Nat
    BY <1>1
  <2>2. \A n \in 1 .. Len(u) : h[n] = h[n - 1] + u[n]
    BY <2>1, RunningSum
  <2> QED
    BY <2>2, RunningSum
<1>3. h[m] = f[m]
  <2>1. Len(u) \in Nat /\ m <= Len(u) /\ m <= Len(s)
    BY <1>1
  <2>2. \A n \in 1 .. m : u[n] = s[n]
    OBVIOUS
  <2> HIDE DEF m
  <2> QED
    BY <2>1, <2>2, <1>1, SumsAlike
<1> HIDE DEF m, r, f, g, h
<1>4. odd = {}
  <2>1. SUFFICES ASSUME odd # {} PROVE FALSE
    OBVIOUS
  <2>2. odd \in SUBSET Nat
    BY <1>1
  <2> HIDE DEF odd
  <2>3. PICK n \in odd : \A k \in odd : n <= k
    BY <2>1, <2>2, LeastNat
  <2>4. n \in 0 .. m /\ f[n] \notin Int
    BY <2>3 DEF odd
  <2>5. n # 0
    BY <2>4, <1>2
  <2>6. n - 1 \in 0 .. m /\ ~(n <= n - 1) /\ n \in 1 .. m
    BY <2>4, <2>5, <1>1
  <2>7. f[n - 1] \in Int
    BY <2>3, <2>6 DEF odd
  <2>8. f[n] = f[n - 1] + s[n] /\ s[n] \in Int
    BY <2>6, <1>2
  <2> QED
    BY <2>4, <2>7, <2>8
<1>5. f[m] \in Int
  BY <1>4, <1>1
<1>6. bad = {}
  <2>1. SUFFICES ASSUME bad # {} PROVE FALSE
    OBVIOUS
  <2>2. bad \in SUBSET Nat
    BY <1>1
  <2> HIDE DEF bad
  <2>3. PICK n \in bad : \A k \in bad : n <= k
    BY <2>1, <2>2, LeastNat
  <2>4. n \in 0 .. r /\ ~(g[n] \in Int /\ h[m + n] = f[m] + g[n])
    BY <2>3 DEF bad
  <2>5. n # 0
    <3>1. m + 0 = m /\ f[m] + 0 = f[m]
      BY <1>1, <1>5
    <3> QED
      BY <3>1, <2>4, <1>2, <1>3
  <2>6. /\ n - 1 \in 0 .. r /\ ~(n <= n - 1) /\ n \in 1 .. r
        /\ m + n \in 1 .. m + r /\ (m + n) - 1 = m + (n - 1)
    BY <2>4, <2>5, <1>1
  <2>7. g[n - 1] \in Int /\ h[m + (n - 1)] = f[m] + g[n - 1]
    BY <2>3, <2>6 DEF bad
  <2>8. g[n] = g[n - 1] + t[n] /\ t[n] \in Int
    BY <2>6, <1>2
  <2>9. h[m + n] = h[m + (n - 1)] + t[n]
    <3>1. h[m + n] = h[(m + n) - 1] + u[m + n]
      BY <2>6, <1>2
    <3> QED
      BY <3>1, <2>6, <1>2
  <2> QED
    BY <2>4, <2>7, <2>8, <2>9, <1>5
<1>7. r \notin bad
  BY <1>6
<1> QED
  BY <1>1, <1>5, <1>7

\* Of nothing, and of nothing but zeros, the sum is zero.
LEMMA TotalNone ==
  ASSUME NEW s, Len(s) \in Nat, \A n \in 1 .. Len(s) : s[n] = 0
  PROVE  Total(s) = 0 /\ \A n \in 0 .. Len(s) : SumTo(s)[n] = 0
<1> DEFINE f == SumTo(s)
           bad == {n \in 0 .. Len(s) : f[n] # 0}
<1>1. /\ f[0] = 0 /\ \A n \in 1 .. Len(s) : f[n] = f[n - 1] + s[n]
      /\ Total(s) = f[Len(s)]
  BY RunningSum
<1> HIDE DEF f
<1>2. bad = {}
  <2>1. SUFFICES ASSUME bad # {} PROVE FALSE
    OBVIOUS
  <2>2. bad \in SUBSET Nat
    OBVIOUS
  <2> HIDE DEF bad
  <2>3. PICK n \in bad : \A k \in bad : n <= k
    BY <2>1, <2>2, LeastNat
  <2>4. n \in 0 .. Len(s) /\ f[n] # 0
    BY <2>3 DEF bad
  <2>5. n # 0
    BY <2>4, <1>1
  <2>6. n - 1 \in 0 .. Len(s) /\ ~(n <= n - 1) /\ n \in 1 .. Len(s)
    BY <2>4, <2>5
  <2>7. f[n - 1] = 0
    BY <2>3, <2>6 DEF bad
  <2> QED
    BY <2>4, <2>6, <2>7, <1>1
<1>3. Len(s) \in 0 .. Len(s)
  OBVIOUS
<1> QED
  BY <1>1, <1>2, <1>3 DEF f

LEMMA TotalOne ==
  ASSUME NEW s, Len(s) = 1, s[1] \in Int
  PROVE  Total(s) = s[1]
<1>1. /\ SumTo(s)[0] = 0 /\ Total(s) = SumTo(s)[1]
      /\ \A n \in 1 .. 1 : SumTo(s)[n] = SumTo(s)[n - 1] + s[n]
  BY RunningSum
<1>2. 1 \in 1 .. 1 /\ 1 - 1 = 0
  OBVIOUS
<1>3. SumTo(s)[1] = SumTo(s)[1 - 1] + s[1]
  BY <1>1, <1>2
<1> QED
  BY <1>1, <1>2, <1>3

-----------------------------------------------------------------------------
(* Runs of sequences                                                        *)

\* The recursion FlattenSeq is defined by, and what it has come to after n.
Joining(b, n, f) == IF n = 1 THEN b[n] ELSE f[n - 1] \o b[n]
FlatFrom(b) == CHOOSE f : f = [n \in 1 .. Len(b) |-> Joining(b, n, f)]
FlatTo(b, n) == IF n = 0 THEN <<>> ELSE FlatFrom(b)[n]

LEMMA FlatExists ==
  ASSUME NEW b, Len(b) \in Nat
  PROVE  \E f : f = [n \in 1 .. Len(b) |-> Joining(b, n, f)]
<1> DEFINE N == Len(b)
           UpTo(m, f) == f = [n \in 1 .. m |-> Joining(b, n, f)]
           bad == {m \in 0 .. N : ~ \E f : UpTo(m, f)}
<1> HIDE DEF N
<1>1. N \in Nat
  BY DEF N
<1>2. SUFFICES ASSUME bad # {} PROVE FALSE
  <2>1. N \in 0 .. N
    BY <1>1
  <2> QED
    BY <2>1 DEF N
<1>3. bad \in SUBSET Nat
  BY <1>1
<1>4. PICK m \in bad : \A k \in bad : m <= k
  <2> HIDE DEF bad
  <2> QED
    BY <1>2, <1>3, LeastNat
<1>5. m \in Nat /\ m \in 0 .. N /\ ~ \E f : UpTo(m, f)
  BY <1>1, <1>4
<1>6. CASE m = 0
  <2> DEFINE g == [n \in 1 .. 0 |-> 0]
  <2>1. UpTo(0, g)
    BY DEF Joining
  <2> QED
    BY <2>1, <1>5, <1>6
<1>7. CASE m # 0
  <2>1. m - 1 \in 0 .. N /\ ~(m <= m - 1)
    BY <1>5, <1>7, <1>1
  <2>2. m - 1 \notin bad
    BY <2>1, <1>4
  <2>3. PICK f : UpTo(m - 1, f)
    BY <2>1, <2>2
  <2> DEFINE g == [n \in 1 .. m |-> IF n = m THEN Joining(b, m, f) ELSE f[n]]
  <2>4. \A n \in 1 .. m - 1 : f[n] = Joining(b, n, f)
    <3> HIDE DEF Joining
    <3> QED
      BY <2>3
  <2>5. \A n \in 1 .. m : g[n] = Joining(b, n, g)
    <3> TAKE n \in 1 .. m
    <3>1. CASE n = m
      <4>1. g[m] = Joining(b, m, f) /\ (m # 1 => g[m - 1] = f[m - 1])
        BY <1>5, <1>7
      <4> HIDE DEF g
      <4> QED
        BY <4>1, <3>1, <1>7 DEF Joining
    <3>2. CASE n # m
      <4>1. n \in 1 .. m - 1 /\ g[n] = f[n]
        BY <3>2, <1>5
      <4>2. n # 1 => n - 1 \in 1 .. m /\ n - 1 # m
        BY <4>1, <1>5
      <4>3. n # 1 => g[n - 1] = f[n - 1]
        BY <4>2
      <4> HIDE DEF g
      <4> QED
        BY <4>1, <4>3, <2>4 DEF Joining
    <3> QED
      BY <3>1, <3>2
  <2>6. UpTo(m, g)
    <3> HIDE DEF Joining
    <3>1. g = [n \in 1 .. m |-> g[n]]
      OBVIOUS
    <3> HIDE DEF g
    <3> QED
      BY <2>5, <3>1
  <2> QED
    BY <2>6, <1>5
<1> QED
  BY <1>6, <1>7

\* Blocks: a sequence of sequences.
Blocks(b) == IsSeq(b) /\ \A i \in 1 .. Len(b) : IsSeq(b[i])

LEMMA RunningFlat ==
  ASSUME NEW b, Blocks(b)
  PROVE  /\ FlattenSeq(b) = FlatTo(b, Len(b))
         /\ FlatTo(b, 0) = <<>>
         /\ \A n \in 1 .. Len(b) : FlatTo(b, n) = FlatTo(b, n - 1) \o b[n]
<1>1. IsSeq(b) /\ Len(b) \in Nat /\ \A i \in 1 .. Len(b) : IsSeq(b[i])
  BY SeqShape DEF Blocks
<1> DEFINE f == FlatFrom(b)
<1>2. FlattenSeq(b) = FlatTo(b, Len(b))
  <2>1. CASE Len(b) = 0
    <3>1. b = <<>>
      BY <2>1, <1>1 DEF IsSeq
    <3> QED
      BY <2>1, <3>1 DEF FlattenSeq, FlatTo
  <2>2. CASE Len(b) # 0
    BY <2>2 DEF FlattenSeq, FlatTo, FlatFrom, Joining
  <2> QED
    BY <2>1, <2>2
<1>3. f = [n \in 1 .. Len(b) |-> Joining(b, n, f)]
  BY <1>1, FlatExists, Zenon DEF FlatFrom
<1> HIDE DEF f
<1>4. \A n \in 1 .. Len(b) : f[n] = Joining(b, n, f)
  <2> HIDE DEF Joining
  <2> QED
    BY <1>3
<1>5. ASSUME NEW n \in 1 .. Len(b) PROVE FlatTo(b, n) = FlatTo(b, n - 1) \o b[n]
  <2>1. FlatTo(b, n) = f[n]
    BY DEF FlatTo, f
  <2>2. CASE n = 1
    <3>1. f[n] = b[n] /\ FlatTo(b, n - 1) = <<>>
      BY <2>2, <1>4 DEF FlatTo, Joining
    <3>2. <<>> \o b[n] = b[n]
      BY <1>1, CatNone
    <3> QED
      BY <2>1, <3>1, <3>2
  <2>3. CASE n # 1
    <3>1. f[n] = f[n - 1] \o b[n]
      BY <2>3, <1>4 DEF Joining
    <3>2. FlatTo(b, n - 1) = f[n - 1]
      BY <2>3 DEF FlatTo, f
    <3> QED
      BY <2>1, <3>1, <3>2
  <2> QED
    BY <2>2, <2>3
<1> QED
  BY <1>2, <1>5 DEF FlatTo

\* What is in a run of sequences is in one of them.
LEMMA FlatRange ==
  ASSUME NEW b, Blocks(b)
  PROVE  /\ IsSeq(FlattenSeq(b))
         /\ \A n \in 0 .. Len(b) : IsSeq(FlatTo(b, n))
         /\ \A n \in 0 .. Len(b) : \A x :
              x \in Range(FlatTo(b, n)) <=> \E i \in 1 .. n : x \in Range(b[i])
<1>1. /\ Len(b) \in Nat /\ \A i \in 1 .. Len(b) : IsSeq(b[i])
      /\ FlattenSeq(b) = FlatTo(b, Len(b)) /\ FlatTo(b, 0) = <<>>
      /\ \A n \in 1 .. Len(b) : FlatTo(b, n) = FlatTo(b, n - 1) \o b[n]
  BY SeqShape, RunningFlat DEF Blocks
<1> DEFINE Right(n) == /\ IsSeq(FlatTo(b, n))
                       /\ \A x : x \in Range(FlatTo(b, n)) <=> \E i \in 1 .. n : x \in Range(b[i])
           bad == {n \in 0 .. Len(b) : ~Right(n)}
<1>2. bad = {}
  <2>1. SUFFICES ASSUME bad # {} PROVE FALSE
    OBVIOUS
  <2>2. bad \in SUBSET Nat
    BY <1>1
  <2> HIDE DEF bad
  <2>3. PICK n \in bad : \A k \in bad : n <= k
    BY <2>1, <2>2, LeastNat
  <2>4. n \in 0 .. Len(b) /\ ~Right(n)
    BY <2>3 DEF bad
  <2>5. n # 0
    <3>1. Right(0)
      BY <1>1, NoSeq
    <3> QED
      BY <3>1, <2>4
  <2>6. n - 1 \in 0 .. Len(b) /\ ~(n <= n - 1) /\ n \in 1 .. Len(b)
    BY <2>4, <2>5, <1>1
  <2>7. Right(n - 1)
    BY <2>3, <2>6 DEF bad
  <2>8. FlatTo(b, n) = FlatTo(b, n - 1) \o b[n] /\ IsSeq(b[n])
    BY <2>6, <1>1
  <2>9. IsSeq(FlatTo(b, n)) /\ Range(FlatTo(b, n)) = Range(FlatTo(b, n - 1)) \cup Range(b[n])
    BY <2>7, <2>8, Cat
  <2>10. \A i : i \in 1 .. n <=> i \in 1 .. n - 1 \/ i = n
    BY <2>6
  <2>11. ASSUME NEW x PROVE x \in Range(FlatTo(b, n)) <=> \E i \in 1 .. n : x \in Range(b[i])
    <3>1. x \in Range(FlatTo(b, n - 1)) <=> \E i \in 1 .. n - 1 : x \in Range(b[i])
      BY <2>7
    <3> QED
      BY <3>1, <2>9, <2>10
  <2> QED
    BY <2>4, <2>9, <2>11
<1>3. \A n \in 0 .. Len(b) : Right(n)
  BY <1>2
<1>4. Len(b) \in 0 .. Len(b)
  BY <1>1
<1> HIDE DEF bad
<1> QED
  BY <1>1, <1>3, <1>4

\* The same, of the whole.
LEMMA InFlat ==
  ASSUME NEW b, Blocks(b), NEW x
  PROVE  x \in Range(FlattenSeq(b)) <=> \E i \in 1 .. Len(b) : x \in Range(b[i])
<1>1. FlattenSeq(b) = FlatTo(b, Len(b)) /\ Len(b) \in 0 .. Len(b)
  <2>1. Len(b) \in Nat
    BY SeqShape DEF Blocks
  <2>2. FlattenSeq(b) = FlatTo(b, Len(b))
    BY RunningFlat
  <2> QED
    BY <2>1, <2>2
<1> QED
  BY <1>1, FlatRange

\* Runs that begin alike are alike so far.
LEMMA FlatAlike ==
  ASSUME NEW s, NEW t, Blocks(s), Blocks(t), NEW m \in Nat,
         m <= Len(s), m <= Len(t), \A n \in 1 .. m : s[n] = t[n]
  PROVE  FlatTo(s, m) = FlatTo(t, m)
<1> DEFINE bad == {n \in 0 .. m : FlatTo(s, n) # FlatTo(t, n)}
<1>1. /\ FlatTo(s, 0) = FlatTo(t, 0) /\ Len(s) \in Nat /\ Len(t) \in Nat
      /\ \A n \in 1 .. Len(s) : FlatTo(s, n) = FlatTo(s, n - 1) \o s[n]
      /\ \A n \in 1 .. Len(t) : FlatTo(t, n) = FlatTo(t, n - 1) \o t[n]
  <2>1. Len(s) \in Nat /\ Len(t) \in Nat
    BY SeqShape DEF Blocks
  <2>2. FlatTo(s, 0) = <<>> /\ \A n \in 1 .. Len(s) : FlatTo(s, n) = FlatTo(s, n - 1) \o s[n]
    BY RunningFlat
  <2>3. FlatTo(t, 0) = <<>> /\ \A n \in 1 .. Len(t) : FlatTo(t, n) = FlatTo(t, n - 1) \o t[n]
    BY RunningFlat
  <2> QED
    BY <2>1, <2>2, <2>3
<1>2. bad = {}
  <2>1. SUFFICES ASSUME bad # {} PROVE FALSE
    OBVIOUS
  <2>2. bad \in SUBSET Nat
    OBVIOUS
  <2> HIDE DEF bad
  <2>3. PICK n \in bad : \A k \in bad : n <= k
    BY <2>1, <2>2, LeastNat
  <2>4. n \in 0 .. m /\ FlatTo(s, n) # FlatTo(t, n)
    BY <2>3 DEF bad
  <2>5. n # 0
    BY <2>4, <1>1
  <2>6. n - 1 \in 0 .. m /\ ~(n <= n - 1) /\ n \in 1 .. m /\ n \in 1 .. Len(s) /\ n \in 1 .. Len(t)
    BY <2>4, <2>5, <1>1
  <2>7. FlatTo(s, n - 1) = FlatTo(t, n - 1)
    BY <2>3, <2>6 DEF bad
  <2>8. FlatTo(s, n) = FlatTo(s, n - 1) \o s[n] /\ FlatTo(t, n) = FlatTo(t, n - 1) \o t[n]
        /\ s[n] = t[n]
    BY <2>6, <1>1
  <2> QED
    BY <2>4, <2>7, <2>8
<1>3. m \in 0 .. m
  OBVIOUS
<1> QED
  BY <1>2, <1>3

\* One run after another.
LEMMA FlatCat ==
  ASSUME NEW s, NEW t, NEW u, Blocks(s), Blocks(t), IsSeq(u), Len(u) = Len(s) + Len(t),
         \A n \in 1 .. Len(s) : u[n] = s[n],
         \A n \in 1 .. Len(t) : u[Len(s) + n] = t[n]
  PROVE  FlattenSeq(u) = FlattenSeq(s) \o FlattenSeq(t) /\ Blocks(u)
<1> DEFINE m == Len(s)
           r == Len(t)
           bad == {n \in 0 .. r : FlatTo(u, m + n) # FlatTo(s, m) \o FlatTo(t, n)}
<1>1. /\ m \in Nat /\ r \in Nat /\ Len(u) = m + r
      /\ \A n \in 1 .. m : IsSeq(s[n]) /\ u[n] = s[n]
      /\ \A n \in 1 .. r : IsSeq(t[n]) /\ u[m + n] = t[n]
  BY SeqShape DEF Blocks
<1> HIDE DEF m, r
<1>2. Blocks(u)
  <2>1. ASSUME NEW n \in 1 .. m + r PROVE IsSeq(u[n])
    <3>1. CASE n <= m
      <4>1. n \in 1 .. m
        BY <3>1, <1>1
      <4> QED
        BY <4>1, <1>1
    <3>2. CASE ~(n <= m)
      <4>1. n - m \in 1 .. r /\ m + (n - m) = n
        BY <3>2, <1>1
      <4> QED
        BY <4>1, <1>1
    <3> QED
      BY <3>1, <3>2
  <2> QED
    BY <2>1, <1>1 DEF Blocks
<1>3. FlatTo(u, m) = FlatTo(s, m)
  <2>1. m <= Len(u) /\ m <= Len(s)
    BY <1>1 DEF m
  <2> QED
    BY <2>1, <1>1, <1>2, FlatAlike
<1>4. /\ FlatTo(t, 0) = <<>> /\ FlattenSeq(s) = FlatTo(s, m) /\ FlattenSeq(t) = FlatTo(t, r)
      /\ FlattenSeq(u) = FlatTo(u, m + r)
      /\ \A n \in 1 .. r : FlatTo(t, n) = FlatTo(t, n - 1) \o t[n]
      /\ \A n \in 1 .. m + r : FlatTo(u, n) = FlatTo(u, n - 1) \o u[n]
  BY <1>1, <1>2, RunningFlat DEF m, r
<1>5. IsSeq(FlatTo(s, m)) /\ \A n \in 0 .. r : IsSeq(FlatTo(t, n))
  <2>1. m \in 0 .. m
    BY <1>1
  <2> QED
    BY <2>1, FlatRange DEF m, r
<1>6. bad = {}
  <2>1. SUFFICES ASSUME bad # {} PROVE FALSE
    OBVIOUS
  <2>2. bad \in SUBSET Nat
    BY <1>1
  <2> HIDE DEF bad
  <2>3. PICK n \in bad : \A k \in bad : n <= k
    BY <2>1, <2>2, LeastNat
  <2>4. n \in 0 .. r /\ FlatTo(u, m + n) # FlatTo(s, m) \o FlatTo(t, n)
    BY <2>3 DEF bad
  <2>5. n # 0
    <3>1. m + 0 = m
      BY <1>1
    <3>2. FlatTo(s, m) \o <<>> = FlatTo(s, m)
      BY <1>5, CatNone
    <3> QED
      BY <3>1, <3>2, <2>4, <1>3, <1>4
  <2>6. /\ n - 1 \in 0 .. r /\ ~(n <= n - 1) /\ n \in 1 .. r
        /\ m + n \in 1 .. m + r /\ (m + n) - 1 = m + (n - 1)
    BY <2>4, <2>5, <1>1
  <2>7. FlatTo(u, m + (n - 1)) = FlatTo(s, m) \o FlatTo(t, n - 1)
    BY <2>3, <2>6 DEF bad
  <2>8. FlatTo(u, m + n) = FlatTo(u, m + (n - 1)) \o t[n]
    <3>1. FlatTo(u, m + n) = FlatTo(u, (m + n) - 1) \o u[m + n]
      BY <2>6, <1>4
    <3> QED
      BY <3>1, <2>6, <1>1
  <2>9. (FlatTo(s, m) \o FlatTo(t, n - 1)) \o t[n] = FlatTo(s, m) \o (FlatTo(t, n - 1) \o t[n])
    <3> DEFINE p == FlatTo(s, m)
               q == FlatTo(t, n - 1)
               w == t[n]
    <3>1. IsSeq(p) /\ IsSeq(q) /\ IsSeq(w)
      BY <2>6, <1>1, <1>5
    <3> HIDE DEF p, q, w
    <3>2. (p \o q) \o w = p \o (q \o w)
      BY <3>1, CatThree
    <3> QED
      BY <3>2 DEF p, q, w
  <2>10. FlatTo(t, n) = FlatTo(t, n - 1) \o t[n]
    BY <2>6, <1>4
  <2> QED
    BY <2>4, <2>7, <2>8, <2>9, <2>10
<1>7. r \in 0 .. r
  BY <1>1
<1>8. FlatTo(u, m + r) = FlatTo(s, m) \o FlatTo(t, r)
  BY <1>6, <1>7
<1> QED
  BY <1>2, <1>4, <1>8

\* A run of sequences of one element each.
LEMMA FlatSingles ==
  ASSUME NEW b, NEW v, Blocks(b), IsSeq(v), Len(v) = Len(b),
         \A n \in 1 .. Len(b) : b[n] = <<v[n]>>
  PROVE  FlattenSeq(b) = v
<1> DEFINE N == Len(b)
           Right(n) == Len(FlatTo(b, n)) = n /\ \A k \in 1 .. n : FlatTo(b, n)[k] = v[k]
           bad == {n \in 0 .. N : ~Right(n)}
<1>1. /\ N \in Nat /\ FlattenSeq(b) = FlatTo(b, N) /\ FlatTo(b, 0) = <<>>
      /\ \A n \in 1 .. N : FlatTo(b, n) = FlatTo(b, n - 1) \o b[n]
      /\ \A n \in 0 .. N : IsSeq(FlatTo(b, n))
      /\ \A n \in 1 .. N : b[n] = <<v[n]>>
  BY RunningFlat, FlatRange, SeqShape DEF Blocks
<1> HIDE DEF N
<1>2. bad = {}
  <2>1. SUFFICES ASSUME bad # {} PROVE FALSE
    OBVIOUS
  <2>2. bad \in SUBSET Nat
    BY <1>1
  <2> HIDE DEF bad
  <2>3. PICK n \in bad : \A k \in bad : n <= k
    BY <2>1, <2>2, LeastNat
  <2>4. n \in 0 .. N /\ ~Right(n)
    BY <2>3 DEF bad
  <2>5. n # 0
    <3>1. Right(0)
      BY <1>1, NoSeq
    <3> QED
      BY <3>1, <2>4
  <2>6. n - 1 \in 0 .. N /\ ~(n <= n - 1) /\ n \in 1 .. N
    BY <2>4, <2>5, <1>1
  <2>7. Right(n - 1)
    BY <2>3, <2>6 DEF bad
  <2> DEFINE s == FlatTo(b, n - 1)
  <2>8. IsSeq(s) /\ Len(s) = n - 1 /\ \A k \in 1 .. n - 1 : s[k] = v[k]
    BY <2>6, <2>7, <1>1
  <2>9. FlatTo(b, n) = s \o <<v[n]>>
    BY <2>6, <1>1
  <2> HIDE DEF s
  <2>10. /\ Len(s \o <<v[n]>>) = (n - 1) + 1
         /\ \A k \in 1 .. n - 1 : (s \o <<v[n]>>)[k] = s[k]
         /\ (s \o <<v[n]>>)[(n - 1) + 1] = v[n]
    <3> DEFINE w == <<v[n]>>
    <3>1. IsSeq(w) /\ Len(w) = 1 /\ w[1] = v[n] /\ 1 \in 1 .. 1
      BY OneSeq
    <3> HIDE DEF w
    <3>2. /\ Len(s \o w) = Len(s) + Len(w)
          /\ \A i \in 1 .. Len(s) : (s \o w)[i] = s[i]
          /\ \A i \in 1 .. Len(w) : (s \o w)[Len(s) + i] = w[i]
      <4>1. IsSeq(s) /\ IsSeq(w)
        BY <3>1, <2>8
      <4> QED
        BY <4>1, Cat
    <3>3. (s \o w)[(n - 1) + 1] = v[n]
      BY <3>1, <3>2, <2>8
    <3> QED
      BY <3>1, <3>2, <3>3, <2>8 DEF w
  <2>11. (n - 1) + 1 = n /\ \A k \in 1 .. n : k \in 1 .. n - 1 \/ k = n
    BY <2>6
  <2>12. Right(n)
    BY <2>8, <2>9, <2>10, <2>11
  <2> QED
    BY <2>4, <2>12
<1>3. N \in 0 .. N
  BY <1>1
<1>4. Right(N)
  BY <1>2, <1>3
<1> HIDE DEF bad
<1> QED
  BY <1>1, <1>3, <1>4, SameSeq DEF N

\* Sequences with nothing in them.
LEMMA NothingIn ==
  ASSUME NEW s, IsSeq(s), \A x : x \notin Range(s)
  PROVE  s = <<>>
<1>1. Len(s) \in Nat /\ DOMAIN s = 1 .. Len(s)
  BY SeqShape
<1>2. Len(s) = 0
  <2>1. SUFFICES ASSUME Len(s) # 0 PROVE FALSE
    OBVIOUS
  <2>2. 1 \in 1 .. Len(s)
    BY <2>1, <1>1
  <2> QED
    BY <2>2, <1>1 DEF Range
<1> QED
  BY <1>2 DEF IsSeq

-----------------------------------------------------------------------------
(* What is carried                                                          *)

Handed(step) == IF step.is = "judge" \/ step.item = Scratch THEN <<>> ELSE <<step.item>>
HandedOf(steps) == [i \in DOMAIN steps |-> Handed(steps[i])]

\* The items of a part among some.
Fits(item, part) == IF item.part = part THEN <<item>> ELSE <<>>
FitsOf(items, part) == [i \in DOMAIN items |-> Fits(items[i], part)]
Part(items, part) == FlattenSeq(FitsOf(items, part))

LEMMA HandedBlocks ==
  ASSUME NEW p, IsSeq(p)
  PROVE  /\ Blocks(HandedOf(p)) /\ Len(HandedOf(p)) = Len(p)
         /\ \A i \in 1 .. Len(p) : HandedOf(p)[i] = Handed(p[i])
         /\ Carried(p) = FlattenSeq(HandedOf(p))
<1> DEFINE b == HandedOf(p)
<1>1. Len(p) \in Nat /\ DOMAIN p = 1 .. Len(p)
  BY SeqShape
<1>2. b = [i \in 1 .. Len(p) |-> Handed(p[i])]
  BY <1>1 DEF HandedOf
<1>3. \A i \in 1 .. Len(p) : b[i] = Handed(p[i])
  BY <1>2
<1>4. b = [i \in 1 .. Len(p) |-> b[i]]
  BY <1>2
<1> HIDE DEF b
<1>5. IsSeq(b) /\ Len(b) = Len(p)
  BY <1>1, <1>4, FunctionIsSeq
<1>6. ASSUME NEW i \in 1 .. Len(p) PROVE IsSeq(b[i])
  <2>1. b[i] = Handed(p[i])
    BY <1>3
  <2>2. b[i] = <<>> \/ b[i] = <<p[i].item>>
    BY <2>1, Zenon DEF Handed
  <2> QED
    BY <2>2, NoSeq, OneSeq, Zenon
<1>7. Carried(p) = FlattenSeq(b)
  BY DEF b, Carried, HandedOf, Handed
<1> QED
  BY <1>3, <1>5, <1>6, <1>7 DEF b, Blocks

LEMMA FitsBlocks ==
  ASSUME NEW p, IsSeq(p), NEW part
  PROVE  /\ Blocks(FitsOf(p, part)) /\ Len(FitsOf(p, part)) = Len(p)
         /\ \A i \in 1 .. Len(p) : FitsOf(p, part)[i] = Fits(p[i], part)
<1> DEFINE b == FitsOf(p, part)
<1>1. Len(p) \in Nat /\ DOMAIN p = 1 .. Len(p)
  BY SeqShape
<1>2. b = [i \in 1 .. Len(p) |-> Fits(p[i], part)]
  BY <1>1 DEF FitsOf
<1>3. \A i \in 1 .. Len(p) : b[i] = Fits(p[i], part)
  BY <1>2
<1>4. b = [i \in 1 .. Len(p) |-> b[i]]
  BY <1>2
<1> HIDE DEF b
<1>5. IsSeq(b) /\ Len(b) = Len(p)
  BY <1>1, <1>4, FunctionIsSeq
<1>6. ASSUME NEW i \in 1 .. Len(p) PROVE IsSeq(b[i])
  <2>1. b[i] = Fits(p[i], part)
    BY <1>3
  <2>2. b[i] = <<>> \/ b[i] = <<p[i]>>
    BY <2>1, Zenon DEF Fits
  <2> QED
    BY <2>2, NoSeq, OneSeq, Zenon
<1> QED
  BY <1>3, <1>5, <1>6 DEF b, Blocks

LEMMA CarriedCat ==
  ASSUME NEW p, NEW q, IsSeq(p), IsSeq(q)
  PROVE  Carried(p \o q) = Carried(p) \o Carried(q)
<1> DEFINE s == HandedOf(p)
           t == HandedOf(q)
           u == HandedOf(p \o q)
<1>1. IsSeq(p \o q) /\ Len(p \o q) = Len(p) + Len(q) /\ Len(p) \in Nat /\ Len(q) \in Nat
      /\ (\A i \in 1 .. Len(p) : (p \o q)[i] = p[i])
      /\ (\A i \in 1 .. Len(q) : (p \o q)[Len(p) + i] = q[i])
  BY Cat, SeqShape
<1>2. /\ Blocks(s) /\ Len(s) = Len(p) /\ Carried(p) = FlattenSeq(s)
      /\ \A i \in 1 .. Len(p) : s[i] = Handed(p[i])
  BY HandedBlocks
<1>3. /\ Blocks(t) /\ Len(t) = Len(q) /\ Carried(q) = FlattenSeq(t)
      /\ \A i \in 1 .. Len(q) : t[i] = Handed(q[i])
  BY HandedBlocks
<1>4. /\ Blocks(u) /\ Len(u) = Len(p \o q) /\ Carried(p \o q) = FlattenSeq(u)
      /\ \A i \in 1 .. Len(p \o q) : u[i] = Handed((p \o q)[i])
  BY <1>1, HandedBlocks
<1> HIDE DEF s, t, u
<1>5. \A i \in 1 .. Len(p) : i \in 1 .. Len(p) + Len(q)
  BY <1>1
<1>6. \A i \in 1 .. Len(q) : Len(p) + i \in 1 .. Len(p) + Len(q)
  BY <1>1
<1>7. \A i \in 1 .. Len(s) : u[i] = s[i]
  BY <1>1, <1>2, <1>4, <1>5
<1>8. \A i \in 1 .. Len(t) : u[Len(s) + i] = t[i]
  BY <1>1, <1>2, <1>3, <1>4, <1>6
<1>9. IsSeq(u) /\ Len(u) = Len(s) + Len(t)
  BY <1>1, <1>2, <1>3, <1>4 DEF Blocks
<1>10. FlattenSeq(u) = FlattenSeq(s) \o FlattenSeq(t)
  BY <1>2, <1>3, <1>7, <1>8, <1>9, FlatCat
<1> QED
  BY <1>2, <1>3, <1>4, <1>10

LEMMA PartCat ==
  ASSUME NEW p, NEW q, IsSeq(p), IsSeq(q), NEW part
  PROVE  Part(p \o q, part) = Part(p, part) \o Part(q, part)
<1> DEFINE s == FitsOf(p, part)
           t == FitsOf(q, part)
           u == FitsOf(p \o q, part)
<1>1. IsSeq(p \o q) /\ Len(p \o q) = Len(p) + Len(q) /\ Len(p) \in Nat /\ Len(q) \in Nat
      /\ (\A i \in 1 .. Len(p) : (p \o q)[i] = p[i])
      /\ (\A i \in 1 .. Len(q) : (p \o q)[Len(p) + i] = q[i])
  BY Cat, SeqShape
<1>2. /\ Blocks(s) /\ Len(s) = Len(p) /\ \A i \in 1 .. Len(p) : s[i] = Fits(p[i], part)
  BY FitsBlocks
<1>3. /\ Blocks(t) /\ Len(t) = Len(q) /\ \A i \in 1 .. Len(q) : t[i] = Fits(q[i], part)
  BY FitsBlocks
<1>4. /\ Blocks(u) /\ Len(u) = Len(p \o q)
      /\ \A i \in 1 .. Len(p \o q) : u[i] = Fits((p \o q)[i], part)
  BY <1>1, FitsBlocks
<1>0. Part(p, part) = FlattenSeq(s) /\ Part(q, part) = FlattenSeq(t)
      /\ Part(p \o q, part) = FlattenSeq(u)
  BY DEF Part
<1> HIDE DEF s, t, u
<1>5. \A i \in 1 .. Len(p) : i \in 1 .. Len(p) + Len(q)
  BY <1>1
<1>6. \A i \in 1 .. Len(q) : Len(p) + i \in 1 .. Len(p) + Len(q)
  BY <1>1
<1>7. \A i \in 1 .. Len(s) : u[i] = s[i]
  BY <1>1, <1>2, <1>4, <1>5
<1>8. \A i \in 1 .. Len(t) : u[Len(s) + i] = t[i]
  BY <1>1, <1>2, <1>3, <1>4, <1>6
<1>9. IsSeq(u) /\ Len(u) = Len(s) + Len(t)
  BY <1>1, <1>2, <1>3, <1>4 DEF Blocks
<1>10. FlattenSeq(u) = FlattenSeq(s) \o FlattenSeq(t)
  BY <1>2, <1>3, <1>7, <1>8, <1>9, FlatCat
<1> QED
  BY <1>0, <1>10

\* What is carried is what a step hands over.
LEMMA CarriedRange ==
  ASSUME NEW p, IsSeq(p)
  PROVE  /\ IsSeq(Carried(p))
         /\ \A x : x \in Range(Carried(p)) <=>
              \E step \in Range(p) : step.is # "judge" /\ step.item # Scratch /\ x = step.item
<1>1. /\ Blocks(HandedOf(p)) /\ Len(HandedOf(p)) = Len(p)
      /\ \A i \in 1 .. Len(p) : HandedOf(p)[i] = Handed(p[i])
      /\ Carried(p) = FlattenSeq(HandedOf(p))
      /\ DOMAIN p = 1 .. Len(p)
  BY HandedBlocks, SeqShape
<1>2. IsSeq(Carried(p))
  BY <1>1, FlatRange
<1>3. \A step, x : x \in Range(Handed(step)) <=>
        step.is # "judge" /\ step.item # Scratch /\ x = step.item
  BY NoSeq, OneSeq DEF Handed
<1>4. ASSUME NEW x
      PROVE  x \in Range(Carried(p)) <=>
               \E step \in Range(p) : step.is # "judge" /\ step.item # Scratch /\ x = step.item
  <2>1. x \in Range(Carried(p)) <=> \E i \in 1 .. Len(HandedOf(p)) : x \in Range(HandedOf(p)[i])
    BY <1>1, InFlat, Zenon
  <2>2. x \in Range(Carried(p)) <=> \E i \in 1 .. Len(p) : x \in Range(Handed(p[i]))
    BY <1>1, <2>1, Zenon
  <2>3. Range(p) = {p[i] : i \in 1 .. Len(p)}
    BY <1>1 DEF Range
  <2> QED
    BY <1>3, <2>2, <2>3, Zenon
<1> QED
  BY <1>2, <1>4, Zenon

LEMMA PartRange ==
  ASSUME NEW p, IsSeq(p), NEW part
  PROVE  /\ IsSeq(Part(p, part))
         /\ \A x : x \in Range(Part(p, part)) <=> x \in Range(p) /\ x.part = part
<1>1. /\ Blocks(FitsOf(p, part)) /\ Len(FitsOf(p, part)) = Len(p)
      /\ \A i \in 1 .. Len(p) : FitsOf(p, part)[i] = Fits(p[i], part)
      /\ Part(p, part) = FlattenSeq(FitsOf(p, part))
      /\ DOMAIN p = 1 .. Len(p)
  BY FitsBlocks, SeqShape DEF Part
<1>2. IsSeq(Part(p, part))
  BY <1>1, FlatRange
<1>3. \A item, x : x \in Range(Fits(item, part)) <=> item.part = part /\ x = item
  BY NoSeq, OneSeq DEF Fits
<1>4. ASSUME NEW x
      PROVE  x \in Range(Part(p, part)) <=> x \in Range(p) /\ x.part = part
  <2>1. x \in Range(Part(p, part)) <=>
          \E i \in 1 .. Len(FitsOf(p, part)) : x \in Range(FitsOf(p, part)[i])
    BY <1>1, InFlat, Zenon
  <2>2. x \in Range(Part(p, part)) <=> \E i \in 1 .. Len(p) : x \in Range(Fits(p[i], part))
    BY <1>1, <2>1, Zenon
  <2>3. Range(p) = {p[i] : i \in 1 .. Len(p)}
    BY <1>1 DEF Range
  <2>4. x \in Range(p) <=> \E i \in 1 .. Len(p) : x = p[i]
    BY <2>3, Zenon
  <2>5. \A i \in 1 .. Len(p) : x \in Range(Fits(p[i], part)) <=> x.part = part /\ x = p[i]
    BY <1>3
  <2> QED
    BY <2>2, <2>4, <2>5, Zenon
<1> QED
  BY <1>2, <1>4, Zenon

\* The items of a part that a plan hands over.
Yield(p, part) == Part(Carried(p), part)

LEMMA YieldCat ==
  ASSUME NEW p, NEW q, IsSeq(p), IsSeq(q), NEW part
  PROVE  Yield(p \o q, part) = Yield(p, part) \o Yield(q, part)
<1>1. Carried(p \o q) = Carried(p) \o Carried(q)
  BY CarriedCat
<1>2. IsSeq(Carried(p)) /\ IsSeq(Carried(q))
  BY CarriedRange
<1> HIDE DEF Part
<1> QED
  BY <1>1, <1>2, PartCat DEF Yield

LEMMA YieldRange ==
  ASSUME NEW p, IsSeq(p), NEW part
  PROVE  /\ IsSeq(Yield(p, part))
         /\ \A x : x \in Range(Yield(p, part)) <=>
              \E step \in Range(p) :
                step.is # "judge" /\ step.item # Scratch /\ x = step.item /\ x.part = part
<1>1. IsSeq(Carried(p))
  BY CarriedRange
<1>2. IsSeq(Part(Carried(p), part))
      /\ \A x : x \in Range(Part(Carried(p), part)) <=> x \in Range(Carried(p)) /\ x.part = part
  BY <1>1, PartRange
<1> QED
  BY <1>2, CarriedRange DEF Yield

\* A plan without the part yields none.
Without(p, part) == \A step \in Range(p) : step.is = "judge" \/ step.item.part # part

LEMMA YieldNone ==
  ASSUME NEW p, IsSeq(p), NEW part, Without(p, part)
  PROVE  Yield(p, part) = <<>>
<1>1. IsSeq(Yield(p, part)) /\ \A x : x \notin Range(Yield(p, part))
  BY YieldRange DEF Without
<1> QED
  BY <1>1, NothingIn

-----------------------------------------------------------------------------
(* Plans                                                                    *)

IsStep(step) ==
  /\ step.is \in {"judge", "buy", "give"} /\ step.holds \in BOOLEAN
  /\ step.holds => step.is = "judge" /\ step.fault \notin {"produced", "alloc"}
  /\ step.is = "buy" => step.cost \in Int

IsPlan(p) == IsSeq(p) /\ \A i \in 1 .. Len(p) : IsStep(p[i])

\* No fact judged on the way holds.
Clear(p) == \A i \in 1 .. Len(p) : ~p[i].holds

Cost(step) == IF step.is = "buy" THEN step.cost ELSE 0
CostsOf(p) == [i \in DOMAIN p |-> Cost(p[i])]

\* The prefix of a sequence.
LEMMA Prefix ==
  ASSUME NEW p, IsSeq(p), NEW k \in 0 .. Len(p)
  PROVE  /\ IsSeq(SubSeq(p, 1, k)) /\ Len(SubSeq(p, 1, k)) = k
         /\ \A i \in 1 .. k : SubSeq(p, 1, k)[i] = p[i]
<1>1. Len(p) \in Nat /\ k \in Nat
  BY SeqShape
<1>2. p \in Seq(Range(p))
  <2>1. p \in [1 .. Len(p) -> Range(p)]
    BY DEF IsSeq, Range
  <2> QED
    BY <1>1, <2>1, SeqDef
<1>3. SubSeq(p, 1, k) \in Seq(Range(p)) /\ Len(SubSeq(p, 1, k)) = k
      /\ \A i \in 1 .. k : SubSeq(p, 1, k)[i] = p[i]
  BY <1>1, <1>2
<1> QED
  BY <1>3, SeqIs

LEMMA CostsShape ==
  ASSUME NEW p, IsPlan(p)
  PROVE  /\ Len(CostsOf(p)) = Len(p) /\ Len(p) \in Nat
         /\ \A i \in 1 .. Len(p) : CostsOf(p)[i] = Cost(p[i]) /\ Cost(p[i]) \in Int
         /\ Paid(p) = Total(CostsOf(p))
<1> DEFINE b == CostsOf(p)
<1>1. Len(p) \in Nat /\ DOMAIN p = 1 .. Len(p)
  BY SeqShape DEF IsPlan
<1>2. b = [i \in 1 .. Len(p) |-> Cost(p[i])]
  BY <1>1 DEF CostsOf
<1>3. \A i \in 1 .. Len(p) : b[i] = Cost(p[i])
  BY <1>2
<1>4. b = [i \in 1 .. Len(p) |-> b[i]]
  BY <1>2
<1>5. Paid(p) = Total(b)
  BY DEF Paid, CostsOf, Cost
<1> HIDE DEF b
<1>6. Len(b) = Len(p)
  BY <1>1, <1>4, FunctionIsSeq
<1>7. \A i \in 1 .. Len(p) : Cost(p[i]) \in Int
  BY DEF IsPlan, IsStep, Cost
<1> QED
  BY <1>1, <1>3, <1>5, <1>6, <1>7 DEF b

LEMMA PlanCat ==
  ASSUME NEW p, NEW q, IsPlan(p), IsPlan(q)
  PROVE  /\ IsPlan(p \o q)
         /\ Clear(p \o q) <=> Clear(p) /\ Clear(q)
<1>1. IsSeq(p \o q) /\ Len(p \o q) = Len(p) + Len(q) /\ Len(p) \in Nat /\ Len(q) \in Nat
      /\ (\A i \in 1 .. Len(p) : (p \o q)[i] = p[i])
      /\ (\A i \in 1 .. Len(q) : (p \o q)[Len(p) + i] = q[i])
  BY Cat, SeqShape DEF IsPlan
<1> DEFINE u == p \o q
<1>2. u = p \o q
  OBVIOUS
<1> HIDE DEF u
<1>3. ASSUME NEW i \in 1 .. Len(u)
      PROVE  \/ i \in 1 .. Len(p) /\ u[i] = p[i]
             \/ \E j \in 1 .. Len(q) : i = Len(p) + j /\ u[i] = q[j]
  <2>1. CASE i <= Len(p)
    BY <1>1, <1>2, <2>1
  <2>2. CASE i > Len(p)
    <3> DEFINE j == i - Len(p)
    <3>1. j \in 1 .. Len(q) /\ i = Len(p) + j
      BY <1>1, <1>2, <2>2
    <3> HIDE DEF j
    <3>2. u[Len(p) + j] = q[j]
      BY <1>1, <1>2, <3>1
    <3> QED
      BY <3>1, <3>2
  <2> QED
    BY <1>1, <1>2, <2>1, <2>2
<1>4. /\ \A i \in 1 .. Len(p) : i \in 1 .. Len(u) /\ u[i] = p[i]
      /\ \A i \in 1 .. Len(q) : Len(p) + i \in 1 .. Len(u) /\ u[Len(p) + i] = q[i]
  BY <1>1, <1>2
<1>5. IsPlan(u)
  BY <1>1, <1>2, <1>3 DEF IsPlan
<1>6. Clear(u) <=> Clear(p) /\ Clear(q)
  BY <1>3, <1>4 DEF Clear
<1> QED
  BY <1>2, <1>5, <1>6

LEMMA PaidCat ==
  ASSUME NEW p, NEW q, IsPlan(p), IsPlan(q)
  PROVE  Paid(p \o q) = Paid(p) + Paid(q) /\ Paid(p) \in Int /\ Paid(q) \in Int
<1> DEFINE s == CostsOf(p)
           t == CostsOf(q)
           u == CostsOf(p \o q)
<1>1. IsSeq(p \o q) /\ Len(p \o q) = Len(p) + Len(q) /\ Len(p) \in Nat /\ Len(q) \in Nat
      /\ (\A i \in 1 .. Len(p) : (p \o q)[i] = p[i])
      /\ (\A i \in 1 .. Len(q) : (p \o q)[Len(p) + i] = q[i])
  BY Cat, SeqShape DEF IsPlan
<1>2. /\ Len(s) = Len(p) /\ Paid(p) = Total(s)
      /\ \A i \in 1 .. Len(p) : s[i] = Cost(p[i]) /\ s[i] \in Int
  BY CostsShape
<1>3. /\ Len(t) = Len(q) /\ Paid(q) = Total(t)
      /\ \A i \in 1 .. Len(q) : t[i] = Cost(q[i]) /\ t[i] \in Int
  BY CostsShape
<1>4. IsPlan(p \o q)
  BY PlanCat
<1>5. /\ Len(u) = Len(p \o q) /\ Paid(p \o q) = Total(u)
      /\ \A i \in 1 .. Len(p \o q) : u[i] = Cost((p \o q)[i])
  BY <1>4, CostsShape
<1> HIDE DEF s, t, u
<1>6. \A i \in 1 .. Len(p) : i \in 1 .. Len(p) + Len(q)
  BY <1>1
<1>7. \A i \in 1 .. Len(q) : Len(p) + i \in 1 .. Len(p) + Len(q)
  BY <1>1
<1>8. \A i \in 1 .. Len(s) : s[i] \in Int /\ u[i] = s[i]
  BY <1>1, <1>2, <1>5, <1>6
<1>9. \A i \in 1 .. Len(t) : t[i] \in Int /\ u[Len(s) + i] = t[i]
  BY <1>1, <1>2, <1>3, <1>5, <1>7
<1>10. Len(u) = Len(s) + Len(t) /\ Len(s) \in Nat /\ Len(t) \in Nat
  BY <1>1, <1>2, <1>3, <1>5
<1>11. Total(u) = Total(s) + Total(t) /\ Total(s) \in Int /\ Total(t) \in Int
  BY <1>8, <1>9, <1>10, TotalCat
<1> QED
  BY <1>2, <1>3, <1>5, <1>11

\* A plan that buys nothing costs nothing; one whose costs are naturals has cost
\* no more on the way than at its end.
LEMMA PaidNone ==
  ASSUME NEW p, IsPlan(p), \A i \in 1 .. Len(p) : Cost(p[i]) = 0
  PROVE  Paid(p) = 0
<1> DEFINE s == CostsOf(p)
<1>1. /\ Len(s) = Len(p) /\ Len(p) \in Nat /\ Paid(p) = Total(s)
      /\ \A i \in 1 .. Len(p) : s[i] = Cost(p[i])
  BY CostsShape
<1> HIDE DEF s
<1>2. Len(s) \in Nat /\ \A i \in 1 .. Len(s) : s[i] = 0
  BY <1>1
<1> QED
  BY <1>1, <1>2, TotalNone

Frugal(p) == \A i \in 1 .. Len(p) : Cost(p[i]) \in Nat

LEMMA PaidGrows ==
  ASSUME NEW p, IsPlan(p), Frugal(p), NEW k \in 0 .. Len(p)
  PROVE  Paid(SubSeq(p, 1, k)) \in Nat /\ Paid(SubSeq(p, 1, k)) <= Paid(p) /\ Paid(p) \in Nat
<1> DEFINE q == SubSeq(p, 1, k)
           s == CostsOf(p)
           t == CostsOf(q)
<1>1. Len(s) = Len(p) /\ Len(p) \in Nat /\ Paid(p) = Total(s)
      /\ \A i \in 1 .. Len(p) : s[i] = Cost(p[i])
  BY CostsShape
<1>2. IsSeq(q) /\ Len(q) = k /\ \A i \in 1 .. k : q[i] = p[i]
  BY Prefix DEF IsPlan
<1> HIDE DEF q
<1>3. IsPlan(q)
  BY <1>1, <1>2 DEF IsPlan
<1>4. Len(t) = Len(q) /\ Paid(q) = Total(t)
      /\ \A i \in 1 .. Len(q) : t[i] = Cost(q[i])
  BY <1>3, CostsShape
<1> HIDE DEF s, t
<1>5. k \in Nat /\ k <= Len(s) /\ k <= Len(t) /\ Len(s) \in Nat /\ Len(t) \in Nat
  BY <1>1, <1>2, <1>4
<1>6. \A n \in 1 .. k : s[n] = t[n]
  BY <1>1, <1>2, <1>4, <1>5
<1>7. SumTo(s)[k] = SumTo(t)[k]
  BY <1>5, <1>6, SumsAlike
<1>8. Total(t) = SumTo(t)[k]
  BY <1>2, <1>4, <1>5, RunningSum
<1>9. \A n \in 1 .. Len(s) : s[n] \in Nat
  BY <1>1 DEF Frugal
<1>10. SumTo(s)[k] \in Nat /\ SumTo(s)[k] <= Total(s) /\ Total(s) \in Nat
  BY <1>1, <1>5, <1>9, SumsGrow
<1> QED
  BY <1>1, <1>4, <1>7, <1>8, <1>10 DEF q

\* How a plan may end before its last step: what was paid, and the verdict.
Faults(step, f) == (step.is = "buy" /\ f = "alloc") \/ (step.holds /\ f = step.fault)
Ending(p, m, f) ==
  \E k \in 1 .. Len(p) :
    /\ \A j \in 1 .. k - 1 : ~p[j].holds
    /\ m = Paid(SubSeq(p, 1, k - 1))
    /\ Faults(p[k], f)

LEMMA JudgePlan ==
  ASSUME NEW fault, fault \notin {"produced", "alloc"}, NEW h \in BOOLEAN
  PROVE  /\ IsPlan(Judge(fault, h)) /\ (Clear(Judge(fault, h)) <=> ~h)
         /\ \A m, f : Ending(Judge(fault, h), m, f) => h /\ f = fault /\ m = 0
         /\ Paid(Judge(fault, h)) = 0 /\ Len(Judge(fault, h)) = 1
         /\ Judge(fault, h)[1].is = "judge" /\ Frugal(Judge(fault, h))
<1> DEFINE step == [is |-> "judge", fault |-> fault, holds |-> h]
           p == <<step>>
<1>1. step.is = "judge" /\ step.fault = fault /\ step.holds = h
  OBVIOUS
<1>2. Judge(fault, h) = p
  BY DEF Judge
<1> HIDE DEF step
<1>3. IsSeq(p) /\ Len(p) = 1 /\ p[1] = step
  BY OneSeq
<1> HIDE DEF p
<1>4. \A i \in 1 .. 1 : i = 1
  OBVIOUS
<1>5. IsStep(step)
  BY <1>1 DEF IsStep
<1>6. IsPlan(p)
  BY <1>3, <1>4, <1>5, Zenon DEF IsPlan
<1>7. Clear(p) <=> ~h
  <2>1. 1 \in 1 .. 1
    OBVIOUS
  <2> QED
    BY <1>1, <1>3, <1>4, <2>1, Zenon DEF Clear
<1>8. \A i \in 1 .. Len(p) : Cost(p[i]) = 0
  BY <1>1, <1>3, <1>4 DEF Cost
<1>9. Paid(p) = 0
  BY <1>6, <1>8, PaidNone
<1>11. Frugal(p)
  BY <1>8 DEF Frugal
<1>10. ASSUME NEW m, NEW f, Ending(p, m, f) PROVE h /\ f = fault /\ m = 0
  <2>1. m = Paid(SubSeq(p, 1, 1 - 1)) /\ Faults(step, f)
    BY <1>3, <1>4, <1>10, Zenon DEF Ending
  <2>2. f = fault /\ h
    BY <2>1, <1>1 DEF Faults
  <2>3. 0 \in 0 .. Len(p) /\ 1 - 1 = 0
    BY <1>3
  <2>5. Paid(SubSeq(p, 1, 0)) \in Nat /\ Paid(SubSeq(p, 1, 0)) <= Paid(p)
    BY <2>3, <1>11, <1>6, PaidGrows
  <2> QED
    BY <2>1, <2>2, <2>3, <2>5, <1>9
<1> QED
  BY <1>1, <1>2, <1>3, <1>4, <1>6, <1>7, <1>9, <1>10, <1>11, Zenon

LEMMA BuyPlan ==
  ASSUME NEW cost \in Int, NEW item
  PROVE  /\ IsPlan(Buy(cost, item)) /\ Clear(Buy(cost, item))
         /\ cost \in Nat => Frugal(Buy(cost, item))
         /\ \A m, f : Ending(Buy(cost, item), m, f) => f = "alloc" /\ m = 0
         /\ Paid(Buy(cost, item)) = cost /\ Len(Buy(cost, item)) = 1
         /\ Buy(cost, item)[1].is = "buy" /\ Buy(cost, item)[1].item = item
         /\ Buy(cost, item)[1].cost = cost
<1> DEFINE step == [is |-> "buy", holds |-> FALSE, cost |-> cost, item |-> item]
           p == <<step>>
<1>1. step.is = "buy" /\ step.cost = cost /\ step.holds = FALSE /\ step.item = item
  OBVIOUS
<1>2. Buy(cost, item) = p
  BY DEF Buy
<1> HIDE DEF step
<1>3. IsSeq(p) /\ Len(p) = 1 /\ p[1] = step
  BY OneSeq
<1> HIDE DEF p
<1>4. \A i \in 1 .. 1 : i = 1
  OBVIOUS
<1>5. IsStep(step)
  BY <1>1 DEF IsStep
<1>6. IsPlan(p)
  BY <1>3, <1>4, <1>5, Zenon DEF IsPlan
<1>7. Clear(p)
  BY <1>1, <1>3, <1>4, Zenon DEF Clear
<1>8. Paid(p) = cost
  <2>1. Len(CostsOf(p)) = 1 /\ 1 \in 1 .. Len(p) /\ Paid(p) = Total(CostsOf(p))
    BY <1>3, <1>6, CostsShape
  <2>2. CostsOf(p)[1] = Cost(step)
    BY <2>1, <1>3, <1>6, CostsShape
  <2>3. Cost(step) = cost
    BY <1>1 DEF Cost
  <2> HIDE DEF CostsOf
  <2> QED
    BY <2>1, <2>2, <2>3, TotalOne
<1>9. Paid(SubSeq(p, 1, 0)) = 0
  <2> DEFINE q == SubSeq(p, 1, 0)
  <2>1. 0 \in 0 .. Len(p)
    BY <1>3
  <2>2. IsSeq(q) /\ Len(q) = 0
    BY <1>3, <2>1, Prefix
  <2> HIDE DEF q
  <2>3. IsPlan(q) /\ \A i \in 1 .. Len(q) : Cost(q[i]) = 0
    BY <2>2 DEF IsPlan
  <2>4. Paid(q) = 0
    BY <2>3, PaidNone
  <2> QED
    BY <2>4 DEF q
<1>10. ASSUME NEW m, NEW f, Ending(p, m, f) PROVE f = "alloc" /\ m = 0
  <2>1. m = Paid(SubSeq(p, 1, 1 - 1)) /\ Faults(step, f)
    BY <1>3, <1>4, <1>10, Zenon DEF Ending
  <2>2. f = "alloc"
    BY <2>1, <1>1 DEF Faults
  <2> QED
    BY <2>1, <2>2, <1>9
<1>11. cost \in Nat => Frugal(p)
  BY <1>1, <1>3, <1>4 DEF Frugal, Cost
<1> QED
  BY <1>1, <1>2, <1>3, <1>4, <1>6, <1>7, <1>8, <1>10, <1>11, Zenon

LEMMA GivePlan ==
  ASSUME NEW item
  PROVE  /\ IsPlan(Give(item)) /\ Clear(Give(item)) /\ Frugal(Give(item))
         /\ \A m, f : ~Ending(Give(item), m, f)
         /\ Paid(Give(item)) = 0 /\ Len(Give(item)) = 1
         /\ Give(item)[1].is = "give" /\ Give(item)[1].item = item
<1> DEFINE step == [is |-> "give", holds |-> FALSE, item |-> item]
           p == <<step>>
<1>1. step.is = "give" /\ step.holds = FALSE /\ step.item = item
  OBVIOUS
<1>2. Give(item) = p
  BY DEF Give
<1> HIDE DEF step
<1>3. IsSeq(p) /\ Len(p) = 1 /\ p[1] = step
  BY OneSeq
<1> HIDE DEF p
<1>4. \A i \in 1 .. 1 : i = 1
  OBVIOUS
<1>5. IsStep(step)
  BY <1>1 DEF IsStep
<1>6. IsPlan(p)
  BY <1>3, <1>4, <1>5, Zenon DEF IsPlan
<1>7. Clear(p)
  BY <1>1, <1>3, <1>4, Zenon DEF Clear
<1>8. \A i \in 1 .. Len(p) : Cost(p[i]) = 0
  BY <1>1, <1>3, <1>4 DEF Cost
<1>9. Paid(p) = 0
  BY <1>6, <1>8, PaidNone
<1>11. Frugal(p)
  BY <1>8 DEF Frugal
<1>10. ASSUME NEW m, NEW f, Ending(p, m, f) PROVE FALSE
  <2>1. Faults(step, f)
    BY <1>3, <1>4, <1>10, Zenon DEF Ending
  <2> QED
    BY <2>1, <1>1 DEF Faults
<1> QED
  BY <1>1, <1>2, <1>3, <1>4, <1>6, <1>7, <1>9, <1>10, <1>11, Zenon

LEMMA NoPlan ==
  /\ IsPlan(<<>>) /\ Clear(<<>>) /\ Paid(<<>>) = 0 /\ Frugal(<<>>)
  /\ \A m, f : ~Ending(<<>>, m, f)
<1>1. IsSeq(<<>>) /\ Len(<<>>) = 0 /\ \A i \in 1 .. 0 : FALSE
  BY NoSeq
<1>2. IsPlan(<<>>)
  BY <1>1, Zenon DEF IsPlan
<1>3. Clear(<<>>)
  BY <1>1, Zenon DEF Clear
<1>4. \A m, f : ~Ending(<<>>, m, f)
  BY <1>1, Zenon DEF Ending
<1>5. Paid(<<>>) = 0
  <2>1. \A i \in 1 .. Len(<<>>) : Cost(<<>>[i]) = 0
    BY <1>1, Zenon
  <2> QED
    BY <2>1, <1>2, PaidNone
<1>6. Frugal(<<>>)
  BY <1>1, Zenon DEF Frugal
<1> QED
  BY <1>2, <1>3, <1>4, <1>5, <1>6

\* A plan that is made of two ends in the first, or gets past it and ends in the
\* second, having paid for the first.
LEMMA EndingCat ==
  ASSUME NEW p, NEW q, IsPlan(p), IsPlan(q), NEW m, NEW f, Ending(p \o q, m, f)
  PROVE  \/ Ending(p, m, f)
         \/ Clear(p) /\ \E n : Ending(q, n, f) /\ m = Paid(p) + n
<1> DEFINE u == p \o q
<1>1. IsSeq(u) /\ Len(u) = Len(p) + Len(q) /\ Len(p) \in Nat /\ Len(q) \in Nat
      /\ (\A i \in 1 .. Len(p) : u[i] = p[i])
      /\ (\A i \in 1 .. Len(q) : u[Len(p) + i] = q[i])
  BY Cat, SeqShape DEF IsPlan
<1>0. /\ \A i : i \in 1 .. Len(p) => u[i] = p[i]
      /\ \A i : i \in 1 .. Len(q) => u[Len(p) + i] = q[i]
  BY <1>1
<1>2. u = p \o q
  OBVIOUS
<1>3. IsSeq(p) /\ IsSeq(q)
  BY DEF IsPlan
<1> HIDE DEF u
<1>4. PICK k \in 1 .. Len(u) :
        /\ \A j \in 1 .. k - 1 : ~u[j].holds
        /\ m = Paid(SubSeq(u, 1, k - 1))
        /\ Faults(u[k], f)
  BY <1>2 DEF Ending
<1>5. CASE k <= Len(p)
  <2>1. k \in 1 .. Len(p) /\ k - 1 \in 0 .. Len(p) /\ k - 1 \in 0 .. Len(u)
    BY <1>1, <1>5
  <2>2. IsSeq(SubSeq(p, 1, k - 1)) /\ Len(SubSeq(p, 1, k - 1)) = k - 1
        /\ \A i \in 1 .. k - 1 : SubSeq(p, 1, k - 1)[i] = p[i]
    BY <1>3, <2>1, Prefix
  <2>3. IsSeq(SubSeq(u, 1, k - 1)) /\ Len(SubSeq(u, 1, k - 1)) = k - 1
        /\ \A i \in 1 .. k - 1 : SubSeq(u, 1, k - 1)[i] = u[i]
    BY <1>1, <2>1, Prefix
  <2>4. \A i \in 1 .. k - 1 : i \in 1 .. Len(p) /\ u[i] = p[i]
    BY <1>1, <2>1
  <2>5. SubSeq(u, 1, k - 1) = SubSeq(p, 1, k - 1)
    BY <2>2, <2>3, <2>4, SameSeq
  <2>6. Ending(p, m, f)
    BY <1>1, <1>4, <2>1, <2>4, <2>5 DEF Ending
  <2> QED
    BY <2>6
<1>6. CASE k > Len(p)
  <2> DEFINE l == k - Len(p)
             r == SubSeq(q, 1, l - 1)
             v == SubSeq(u, 1, k - 1)
  <2>1. l \in 1 .. Len(q) /\ k = Len(p) + l /\ l - 1 \in 0 .. Len(q) /\ k - 1 \in 0 .. Len(u)
        /\ l - 1 \in Nat /\ k - 1 = Len(p) + (l - 1)
    BY <1>1, <1>6
  <2> HIDE DEF l
  <2>2. IsSeq(r) /\ Len(r) = l - 1 /\ \A i \in 1 .. l - 1 : r[i] = q[i]
    BY <1>3, <2>1, Prefix
  <2>3. IsSeq(v) /\ Len(v) = k - 1 /\ \A i \in 1 .. k - 1 : v[i] = u[i]
    BY <1>1, <2>1, Prefix
  <2> HIDE DEF r, v
  <2>4. IsPlan(r)
    <3>1. \A i \in 1 .. l - 1 : i \in 1 .. Len(q)
      BY <1>1, <2>1
    <3> QED
      BY <2>2, <3>1 DEF IsPlan
  <2>5. /\ IsSeq(p \o r) /\ Len(p \o r) = Len(p) + Len(r)
        /\ \A i \in 1 .. Len(p) : (p \o r)[i] = p[i]
        /\ \A i \in 1 .. Len(r) : (p \o r)[Len(p) + i] = r[i]
    <3>1. IsSeq(p \o r) /\ Len(p \o r) = Len(p) + Len(r)
      BY <1>3, <2>2, Cat
    <3>2. \A i \in 1 .. Len(p) : (p \o r)[i] = p[i]
      BY <1>3, <2>2, Cat
    <3>3. \A i \in 1 .. Len(r) : (p \o r)[Len(p) + i] = r[i]
      BY <1>3, <2>2, Cat
    <3> QED
      BY <3>1, <3>2, <3>3
  <2> DEFINE w == p \o r
  <2>6. v = w
    <3>1. Len(v) = Len(w) /\ IsSeq(v) /\ IsSeq(w)
      BY <2>1, <2>2, <2>3, <2>5
    <3>2. /\ \A i \in 1 .. Len(p) : w[i] = p[i]
          /\ \A i \in 1 .. Len(r) : w[Len(p) + i] = r[i]
      BY <2>5
    <3> HIDE DEF w
    <3>3. ASSUME NEW i \in 1 .. Len(v) PROVE v[i] = w[i]
      <4>1. CASE i <= Len(p)
        <5>1. i \in 1 .. Len(p) /\ i \in 1 .. k - 1
          BY <1>1, <2>3, <4>1
        <5> QED
          BY <1>1, <2>3, <3>2, <5>1
      <4>2. CASE i > Len(p)
        <5> DEFINE j == i - Len(p)
        <5>1. j \in 1 .. l - 1 /\ i = Len(p) + j /\ i \in 1 .. k - 1 /\ j \in 1 .. Len(q)
              /\ j \in 1 .. Len(r)
          BY <1>1, <2>1, <2>2, <2>3, <4>2
        <5> HIDE DEF j
        <5>2. v[i] = u[i] /\ u[Len(p) + j] = q[j] /\ w[Len(p) + j] = r[j] /\ r[j] = q[j]
          <6>1. v[i] = u[i]
            BY <2>3, <5>1, Zenon
          <6>2. u[Len(p) + j] = q[j]
            BY <1>0, <5>1, Zenon
          <6>3. w[Len(p) + j] = r[j]
            BY <3>2, <5>1, Zenon
          <6>4. r[j] = q[j]
            BY <2>2, <5>1, Zenon
          <6> QED
            BY <6>1, <6>2, <6>3, <6>4
        <5> QED
          BY <5>1, <5>2
      <4> QED
        BY <1>1, <2>1, <2>3, <4>1, <4>2
    <3> QED
      BY <3>1, <3>3, SameSeq
  <2>7. Paid(v) = Paid(p) + Paid(r)
    BY <2>4, <2>6, PaidCat
  <2>8. Clear(p)
    <3>1. \A i \in 1 .. Len(p) : i \in 1 .. k - 1 /\ u[i] = p[i]
      BY <1>1, <1>6
    <3> QED
      BY <1>4, <3>1 DEF Clear
  <2>9. \A j \in 1 .. l - 1 : ~q[j].holds
    <3>1. ASSUME NEW j \in 1 .. l - 1 PROVE ~q[j].holds
      <4>1. Len(p) + j \in 1 .. k - 1 /\ j \in 1 .. Len(q)
        BY <1>1, <2>1
      <4>2. u[Len(p) + j] = q[j]
        BY <1>0, <4>1, Zenon
      <4> QED
        BY <1>4, <4>1, <4>2
    <3> QED
      BY <3>1
  <2>10. u[k] = q[l]
    BY <1>0, <2>1, Zenon
  <2>11. Ending(q, Paid(r), f)
    BY <1>4, <2>1, <2>9, <2>10 DEF Ending, r
  <2>12. m = Paid(p) + Paid(r)
    BY <1>4, <2>7 DEF v
  <2> QED
    BY <2>8, <2>11, <2>12
<1> QED
  BY <1>1, <1>4, <1>5, <1>6

\* What is paid on the way is no more than the whole costs.
LEMMA EndingPaid ==
  ASSUME NEW p, IsPlan(p), Frugal(p), NEW m, NEW f, Ending(p, m, f)
  PROVE  m \in Nat /\ m <= Paid(p) /\ Paid(p) \in Nat
<1>1. PICK k \in 1 .. Len(p) : m = Paid(SubSeq(p, 1, k - 1))
  BY DEF Ending
<1>2. k - 1 \in 0 .. Len(p)
  BY CostsShape
<1> QED
  BY <1>1, <1>2, PaidGrows

LEMMA FrugalCat ==
  ASSUME NEW p, NEW q, IsPlan(p), IsPlan(q), Frugal(p), Frugal(q)
  PROVE  Frugal(p \o q)
<1> DEFINE u == p \o q
<1>1. IsSeq(u) /\ Len(u) = Len(p) + Len(q) /\ Len(p) \in Nat /\ Len(q) \in Nat
      /\ (\A i \in 1 .. Len(p) : u[i] = p[i])
      /\ (\A i \in 1 .. Len(q) : u[Len(p) + i] = q[i])
  BY Cat, SeqShape DEF IsPlan
<1>0. \A i : i \in 1 .. Len(q) => u[Len(p) + i] = q[i]
  BY <1>1
<1> HIDE DEF u
<1>2. ASSUME NEW i \in 1 .. Len(u) PROVE Cost(u[i]) \in Nat
  <2>1. CASE i <= Len(p)
    <3>1. i \in 1 .. Len(p)
      BY <1>1, <2>1
    <3> QED
      BY <1>1, <3>1 DEF Frugal
  <2>2. CASE i > Len(p)
    <3> DEFINE j == i - Len(p)
    <3>1. j \in 1 .. Len(q) /\ i = Len(p) + j
      BY <1>1, <2>2
    <3> HIDE DEF j
    <3>2. u[Len(p) + j] = q[j]
      BY <1>0, <3>1, Zenon
    <3> QED
      BY <3>1, <3>2 DEF Frugal
  <2> QED
    BY <1>1, <2>1, <2>2
<1> QED
  BY <1>2 DEF Frugal, u

\* A conversion has followed its whole plan, or has ended on the way with nothing.
LEMMA FollowsOutcome ==
  ASSUME NEW p, IsPlan(p), NEW refused, refused \in {0} \cup Buys(p)
  PROVE  \/ /\ Follows(p, refused).verdict = "produced" /\ Clear(p)
            /\ Follows(p, refused).carried = Carried(p) /\ Follows(p, refused).paid = Paid(p)
         \/ /\ Follows(p, refused).verdict # "produced"
            /\ Follows(p, refused).carried = <<>>
            /\ Ending(p, Follows(p, refused).paid, Follows(p, refused).verdict)
<1> DEFINE c == Follows(p, refused)
           ends == Ends(p, refused)
<1>1. Len(p) \in Nat /\ DOMAIN p = 1 .. Len(p) /\ IsSeq(p)
  BY SeqShape DEF IsPlan
<1>2. ends = {i \in 1 .. Len(p) : p[i].holds \/ i = refused}
  BY <1>1 DEF Ends
<1>3. refused \in 1 .. Len(p) => p[refused].is = "buy"
  BY <1>1 DEF Buys
<1> HIDE DEF ends
<1>4. CASE ends = {}
  <2> DEFINE q == SubSeq(p, 1, Len(p))
  <2>1. q = p
    <3>1. Len(p) \in 0 .. Len(p)
      BY <1>1
    <3>2. IsSeq(q) /\ Len(q) = Len(p) /\ \A i \in 1 .. Len(p) : q[i] = p[i]
      BY <1>1, <3>1, Prefix
    <3> HIDE DEF q
    <3> QED
      BY <1>1, <3>2, SameSeq
  <2>2. Upto(p, Len(p) + 1) = p
    BY <1>1, <2>1 DEF Upto
  <2>3. c.verdict = "produced" /\ c.paid = Paid(p) /\ c.carried = Carried(p)
    <3>1. /\ c.verdict = "produced" /\ c.paid = Paid(Upto(p, Len(p) + 1))
          /\ c.carried = Carried(Upto(p, Len(p) + 1))
      <4>1. Len(p) + 1 # refused
        BY <1>1 DEF Buys
      <4> QED
        BY <1>4, <4>1 DEF c, ends, Follows
    <3> QED
      BY <2>2, <3>1
  <2>4. Clear(p)
    BY <1>2, <1>4 DEF Clear
  <2> QED
    BY <2>3, <2>4
<1>5. CASE ends # {}
  <2>1. ends \in SUBSET Nat
    BY <1>2
  <2> DEFINE k == Min(ends)
  <2>2. k \in ends /\ \A i \in ends : k <= i
    <3>1. \E m \in ends : \A i \in ends : m <= i
      BY <1>5, <2>1, LeastNat
    <3> QED
      BY <3>1 DEF Min
  <2>3. /\ c.verdict = (IF k = refused THEN "alloc" ELSE p[k].fault)
        /\ c.paid = Paid(Upto(p, k)) /\ c.carried = <<>>
    BY <1>5 DEF c, ends, Follows
  <2> HIDE DEF k
  <2>4. k \in 1 .. Len(p) /\ (p[k].holds \/ k = refused)
    BY <1>2, <2>2
  <2>5. \A j \in 1 .. k - 1 : ~p[j].holds
    BY <1>1, <1>2, <2>2, <2>4
  <2>6. Faults(p[k], c.verdict) /\ c.verdict # "produced"
    <3>1. IsStep(p[k])
      BY <2>4 DEF IsPlan
    <3> QED
      BY <1>3, <2>3, <2>4, <3>1 DEF IsStep, Faults
  <2>7. Ending(p, c.paid, c.verdict)
    BY <2>3, <2>4, <2>5, <2>6 DEF Ending, Upto
  <2> QED
    BY <2>3, <2>6, <2>7
<1> QED
  BY <1>4, <1>5

-----------------------------------------------------------------------------
(* Plans end to end                                                         *)

Plans(b) == IsSeq(b) /\ \A i \in 1 .. Len(b) : IsPlan(b[i])

LEMMA PlansJoin ==
  ASSUME NEW b, Plans(b)
  PROVE  /\ Blocks(b) /\ Len(b) \in Nat /\ FlattenSeq(b) = FlatTo(b, Len(b))
         /\ FlatTo(b, 0) = <<>>
         /\ \A n \in 1 .. Len(b) : FlatTo(b, n) = FlatTo(b, n - 1) \o b[n]
         /\ \A n \in 0 .. Len(b) : IsPlan(FlatTo(b, n))
         /\ \A n \in 0 .. Len(b) : Clear(FlatTo(b, n)) <=> \A i \in 1 .. n : Clear(b[i])
<1> DEFINE N == Len(b)
           Right(n) == IsPlan(FlatTo(b, n))
                       /\ (Clear(FlatTo(b, n)) <=> \A i \in 1 .. n : Clear(b[i]))
           good == {n \in 0 .. N : Right(n)}
<1>1. Blocks(b) /\ N \in Nat
  BY SeqShape DEF Plans, Blocks, IsPlan
<1>2. /\ FlattenSeq(b) = FlatTo(b, N) /\ FlatTo(b, 0) = <<>>
      /\ \A n \in 1 .. N : FlatTo(b, n) = FlatTo(b, n - 1) \o b[n]
  BY <1>1, RunningFlat
<1>3. \A n \in 1 .. N : IsPlan(b[n])
  BY DEF Plans
<1> HIDE DEF N
<1>4. 0 \in good
  <2>1. 0 \in 0 .. N /\ \A i \in 1 .. 0 : FALSE
    BY <1>1
  <2> QED
    BY <1>2, <2>1, NoPlan
<1>5. ASSUME NEW n \in 1 .. N, n - 1 \in good PROVE n \in good
  <2> DEFINE p == FlatTo(b, n - 1)
             q == b[n]
  <2>1. IsPlan(p) /\ (Clear(p) <=> \A i \in 1 .. n - 1 : Clear(b[i]))
    BY <1>5
  <2>2. IsPlan(q) /\ FlatTo(b, n) = p \o q
    BY <1>2, <1>3
  <2>3. IsPlan(p \o q) /\ (Clear(p \o q) <=> Clear(p) /\ Clear(q))
    BY <2>1, <2>2, PlanCat
  <2>4. n \in 0 .. N /\ \A i : i \in 1 .. n <=> i \in 1 .. n - 1 \/ i = n
    BY <1>1
  <2>5. (\A i \in 1 .. n : Clear(b[i])) <=> (\A i \in 1 .. n - 1 : Clear(b[i])) /\ Clear(q)
    BY <2>4
  <2>6. Right(n)
    BY <2>1, <2>2, <2>3, <2>5
  <2> QED
    BY <2>4, <2>6
<1> HIDE DEF good
<1>6. \A n \in 0 .. N : n \in good
  BY <1>1, <1>4, <1>5, Counting
<1>7. \A n \in 0 .. N : Right(n)
  BY <1>6 DEF good
<1> QED
  BY <1>1, <1>2, <1>7 DEF N

\* Where such a plan ends, everything before that block was got past.
LEMMA EndingFlat ==
  ASSUME NEW b, Plans(b), NEW m, NEW f, Ending(FlattenSeq(b), m, f)
  PROVE  \E n \in 1 .. Len(b) : \E l :
           /\ Clear(FlatTo(b, n - 1)) /\ Ending(b[n], l, f)
           /\ m = Paid(FlatTo(b, n - 1)) + l
<1> DEFINE N == Len(b)
           Place(k) == \A x : Ending(FlatTo(b, k), x, f) =>
                         \E n \in 1 .. k : \E l :
                           /\ Clear(FlatTo(b, n - 1)) /\ Ending(b[n], l, f)
                           /\ x = Paid(FlatTo(b, n - 1)) + l
           good == {k \in 0 .. N : Place(k)}
<1>1. /\ N \in Nat /\ FlattenSeq(b) = FlatTo(b, N) /\ FlatTo(b, 0) = <<>>
      /\ \A n \in 1 .. N : FlatTo(b, n) = FlatTo(b, n - 1) \o b[n]
      /\ \A n \in 0 .. N : IsPlan(FlatTo(b, n))
      /\ \A n \in 1 .. N : IsPlan(b[n])
  BY PlansJoin DEF Plans
<1> HIDE DEF N
<1>2. 0 \in good
  <2>1. 0 \in 0 .. N
    BY <1>1
  <2> QED
    BY <1>1, <2>1, NoPlan, Zenon
<1>3. ASSUME NEW k \in 1 .. N, k - 1 \in good PROVE k \in good
  <2> DEFINE p == FlatTo(b, k - 1)
             q == b[k]
  <2>1. k - 1 \in 0 .. N /\ k \in 0 .. N /\ k \in 1 .. k /\ \A n \in 1 .. k - 1 : n \in 1 .. k
    BY <1>1
  <2>2. IsPlan(p) /\ IsPlan(q) /\ FlatTo(b, k) = p \o q
    BY <1>1, <2>1
  <2>3. ASSUME NEW x, Ending(FlatTo(b, k), x, f)
        PROVE  \E n \in 1 .. k : \E l :
                 /\ Clear(FlatTo(b, n - 1)) /\ Ending(b[n], l, f)
                 /\ x = Paid(FlatTo(b, n - 1)) + l
    <3>1. \/ Ending(p, x, f)
          \/ Clear(p) /\ \E l : Ending(q, l, f) /\ x = Paid(p) + l
      BY <2>2, <2>3, EndingCat
    <3>2. CASE Ending(p, x, f)
      <4>1. Place(k - 1)
        BY <1>3
      <4> QED
        BY <2>1, <3>2, <4>1, Zenon
    <3>3. CASE Clear(p) /\ \E l : Ending(q, l, f) /\ x = Paid(p) + l
      BY <2>1, <3>3, Zenon
    <3> QED
      BY <3>1, <3>2, <3>3
  <2> QED
    BY <2>1, <2>3, Zenon
<1> HIDE DEF good
<1>4. \A n \in 0 .. N : n \in good
  BY <1>1, <1>2, <1>3, Counting
<1>5. N \in good
  BY <1>1, <1>4
<1> QED
  BY <1>1, <1>5, Zenon DEF good, N

LEMMA PaidFlat ==
  ASSUME NEW b, Plans(b)
  PROVE  /\ Paid(FlatTo(b, 0)) = 0
         /\ \A n \in 1 .. Len(b) : Paid(FlatTo(b, n)) = Paid(FlatTo(b, n - 1)) + Paid(b[n])
         /\ \A n \in 0 .. Len(b) : Paid(FlatTo(b, n)) \in Int
         /\ \A n \in 1 .. Len(b) : Paid(b[n]) \in Int
<1>1. /\ Len(b) \in Nat /\ FlatTo(b, 0) = <<>>
      /\ \A n \in 1 .. Len(b) : FlatTo(b, n) = FlatTo(b, n - 1) \o b[n]
      /\ \A n \in 0 .. Len(b) : IsPlan(FlatTo(b, n))
      /\ \A n \in 1 .. Len(b) : IsPlan(b[n])
  BY PlansJoin DEF Plans
<1>2. \A n \in 1 .. Len(b) : n - 1 \in 0 .. Len(b)
  BY <1>1
<1>3. ASSUME NEW n \in 1 .. Len(b)
      PROVE  Paid(FlatTo(b, n)) = Paid(FlatTo(b, n - 1)) + Paid(b[n]) /\ Paid(b[n]) \in Int
  BY <1>1, <1>2, PaidCat
<1>4. ASSUME NEW n \in 0 .. Len(b) PROVE Paid(FlatTo(b, n)) \in Int
  BY <1>1, PaidCat
<1> QED
  BY <1>1, <1>3, <1>4, NoPlan

LEMMA FrugalFlat ==
  ASSUME NEW b, Plans(b), \A n \in 1 .. Len(b) : Frugal(b[n])
  PROVE  Frugal(FlattenSeq(b)) /\ \A n \in 0 .. Len(b) : Frugal(FlatTo(b, n))
<1> DEFINE N == Len(b)
           good == {n \in 0 .. N : Frugal(FlatTo(b, n))}
<1>1. /\ N \in Nat /\ FlattenSeq(b) = FlatTo(b, N) /\ FlatTo(b, 0) = <<>>
      /\ \A n \in 1 .. N : FlatTo(b, n) = FlatTo(b, n - 1) \o b[n]
      /\ \A n \in 0 .. N : IsPlan(FlatTo(b, n))
      /\ \A n \in 1 .. N : IsPlan(b[n]) /\ Frugal(b[n])
  BY PlansJoin DEF Plans
<1> HIDE DEF N
<1>2. 0 \in good
  <2>1. 0 \in 0 .. N
    BY <1>1
  <2>2. Frugal(<<>>)
    BY NoSeq DEF Frugal
  <2> QED
    BY <1>1, <2>1, <2>2
<1>3. ASSUME NEW n \in 1 .. N, n - 1 \in good PROVE n \in good
  <2>1. n - 1 \in 0 .. N /\ n \in 0 .. N
    BY <1>1
  <2>2. Frugal(FlatTo(b, n - 1))
    BY <1>3
  <2>3. Frugal(FlatTo(b, n - 1) \o b[n])
    BY <1>1, <2>1, <2>2, FrugalCat
  <2> QED
    BY <1>1, <2>1, <2>3
<1> HIDE DEF good
<1>4. \A n \in 0 .. N : n \in good
  BY <1>1, <1>2, <1>3, Counting
<1>5. \A n \in 0 .. N : Frugal(FlatTo(b, n))
  BY <1>4 DEF good
<1>6. N \in 0 .. N
  BY <1>1
<1> QED
  BY <1>1, <1>5, <1>6 DEF N

\* What the blocks cost adds up.
LEMMA PaidSum ==
  ASSUME NEW b, Plans(b), NEW sums, Len(sums) = Len(b),
         \A n \in 1 .. Len(b) : sums[n] = Paid(b[n])
  PROVE  Paid(FlattenSeq(b)) = Total(sums)
         /\ \A n \in 0 .. Len(b) : Paid(FlatTo(b, n)) = SumTo(sums)[n]
<1> DEFINE N == Len(b)
           f == SumTo(sums)
           good == {n \in 0 .. N : Paid(FlatTo(b, n)) = f[n]}
<1>1. N \in Nat /\ FlattenSeq(b) = FlatTo(b, N)
  BY PlansJoin
<1>2. /\ Paid(FlatTo(b, 0)) = 0
      /\ \A n \in 1 .. N : Paid(FlatTo(b, n)) = Paid(FlatTo(b, n - 1)) + Paid(b[n])
  BY PaidFlat
<1>3. Total(sums) = f[N] /\ f[0] = 0 /\ \A n \in 1 .. N : f[n] = f[n - 1] + sums[n]
  BY <1>1, RunningSum
<1>4. \A n \in 1 .. N : sums[n] = Paid(b[n])
  OBVIOUS
<1> HIDE DEF N, f
<1>5. 0 \in good
  BY <1>1, <1>2, <1>3
<1>6. ASSUME NEW n \in 1 .. N, n - 1 \in good PROVE n \in good
  <2>1. n \in 0 .. N /\ Paid(FlatTo(b, n - 1)) = f[n - 1]
    BY <1>1, <1>6
  <2>2. Paid(FlatTo(b, n)) = f[n]
    BY <1>2, <1>3, <1>4, <2>1
  <2> QED
    BY <2>1, <2>2
<1> HIDE DEF good
<1>7. \A n \in 0 .. N : n \in good
  BY <1>1, <1>5, <1>6, Counting
<1>8. \A n \in 0 .. N : Paid(FlatTo(b, n)) = f[n]
  BY <1>7 DEF good
<1>9. N \in 0 .. N
  BY <1>1
<1> QED
  BY <1>1, <1>3, <1>8, <1>9 DEF N, f

-----------------------------------------------------------------------------
(* What plans yield                                                         *)

LEMMA FlatOne ==
  ASSUME NEW b, IsSeq(b), Len(b) = 1, IsSeq(b[1])
  PROVE  FlattenSeq(b) = b[1]
<1>1. \A i \in 1 .. 1 : i = 1
  OBVIOUS
<1>2. Blocks(b)
  BY <1>1 DEF Blocks
<1>3. FlattenSeq(b) = FlatTo(b, Len(b)) /\ FlatTo(b, 0) = <<>>
      /\ \A n \in 1 .. Len(b) : FlatTo(b, n) = FlatTo(b, n - 1) \o b[n]
  BY <1>2, RunningFlat
<1>4. 1 \in 1 .. Len(b) /\ 1 - 1 = 0
  OBVIOUS
<1>5. FlatTo(b, 1) = FlatTo(b, 0) \o b[1]
  BY <1>3, <1>4
<1>6. <<>> \o b[1] = b[1]
  BY CatNone
<1> QED
  BY <1>3, <1>5, <1>6

LEMMA PartOne ==
  ASSUME NEW p, IsSeq(p), Len(p) = 1, NEW part
  PROVE  Part(p, part) = Fits(p[1], part)
<1> DEFINE b == FitsOf(p, part)
<1>1. Blocks(b) /\ Len(b) = 1 /\ b[1] = Fits(p[1], part) /\ Part(p, part) = FlattenSeq(b)
  BY FitsBlocks DEF Part
<1> HIDE DEF b
<1>2. IsSeq(b) /\ IsSeq(b[1])
  BY <1>1 DEF Blocks
<1> QED
  BY <1>1, <1>2, FlatOne

LEMMA CarriedOne ==
  ASSUME NEW p, IsSeq(p), Len(p) = 1
  PROVE  Carried(p) = Handed(p[1])
<1> DEFINE b == HandedOf(p)
<1>1. Blocks(b) /\ Len(b) = 1 /\ b[1] = Handed(p[1]) /\ Carried(p) = FlattenSeq(b)
  BY HandedBlocks
<1> HIDE DEF b
<1>2. IsSeq(b) /\ IsSeq(b[1])
  BY <1>1 DEF Blocks
<1> QED
  BY <1>1, <1>2, FlatOne

LEMMA YieldOne ==
  ASSUME NEW p, IsPlan(p), Len(p) = 1, NEW part
  PROVE  /\ p[1].is # "judge" /\ p[1].item # Scratch => Yield(p, part) = Fits(p[1].item, part)
         /\ p[1].is = "judge" \/ p[1].item = Scratch => Yield(p, part) = <<>>
<1>1. IsSeq(p) /\ Carried(p) = Handed(p[1])
  BY CarriedOne DEF IsPlan
<1>2. ASSUME p[1].is # "judge" /\ p[1].item # Scratch
      PROVE  Yield(p, part) = Fits(p[1].item, part)
  <2> DEFINE w == <<p[1].item>>
  <2>1. Carried(p) = w
    BY <1>1, <1>2 DEF Handed
  <2>2. IsSeq(w) /\ Len(w) = 1 /\ w[1] = p[1].item
    BY OneSeq
  <2> HIDE DEF w
  <2>3. Part(w, part) = Fits(w[1], part)
    BY <2>2, PartOne
  <2> QED
    BY <2>1, <2>2, <2>3 DEF Yield
<1>3. ASSUME p[1].is = "judge" \/ p[1].item = Scratch
      PROVE  Yield(p, part) = <<>>
  <2>1. Carried(p) = <<>>
    BY <1>1, <1>3 DEF Handed
  <2>2. IsSeq(Yield(p, part)) /\ IsSeq(<<>>) /\ Range(<<>>) = {}
    BY <1>1, YieldRange, NoSeq
  <2>3. \A x : x \notin Range(Part(<<>>, part))
    BY <2>2, PartRange
  <2> QED
    BY <2>1, <2>2, <2>3, NothingIn DEF Yield
<1> QED
  BY <1>2, <1>3

LEMMA YieldBuy ==
  ASSUME NEW cost \in Int, NEW item, item # Scratch, NEW part
  PROVE  Yield(Buy(cost, item), part) = Fits(item, part)
<1> DEFINE p == Buy(cost, item)
<1>1. IsPlan(p) /\ Len(p) = 1 /\ p[1].is = "buy" /\ p[1].item = item
  BY BuyPlan
<1> HIDE DEF p
<1>2. Yield(p, part) = Fits(p[1].item, part)
  BY <1>1, YieldOne
<1> QED
  BY <1>1, <1>2 DEF p

LEMMA YieldGive ==
  ASSUME NEW item, item # Scratch, NEW part
  PROVE  Yield(Give(item), part) = Fits(item, part)
<1> DEFINE p == Give(item)
<1>1. IsPlan(p) /\ Len(p) = 1 /\ p[1].is = "give" /\ p[1].item = item
  BY GivePlan
<1> HIDE DEF p
<1>2. Yield(p, part) = Fits(p[1].item, part)
  BY <1>1, YieldOne
<1> QED
  BY <1>1, <1>2 DEF p

LEMMA YieldScratch ==
  ASSUME NEW cost \in Int, NEW part
  PROVE  Yield(Buy(cost, Scratch), part) = <<>>
<1> DEFINE p == Buy(cost, Scratch)
<1>1. IsPlan(p) /\ Len(p) = 1 /\ p[1].item = Scratch
  BY BuyPlan
<1> HIDE DEF p
<1>2. Yield(p, part) = <<>>
  BY <1>1, YieldOne
<1> QED
  BY <1>2 DEF p

LEMMA YieldJudge ==
  ASSUME NEW fault, fault \notin {"produced", "alloc"}, NEW h \in BOOLEAN, NEW part
  PROVE  Yield(Judge(fault, h), part) = <<>>
<1> DEFINE p == Judge(fault, h)
<1>1. IsPlan(p) /\ Len(p) = 1 /\ p[1].is = "judge"
  BY JudgePlan
<1> HIDE DEF p
<1>2. Yield(p, part) = <<>>
  BY <1>1, YieldOne
<1> QED
  BY <1>2 DEF p

LEMMA YieldNothing ==
  ASSUME NEW part
  PROVE  Yield(<<>>, part) = <<>>
<1>1. IsSeq(<<>>) /\ Range(<<>>) = {}
  BY NoSeq
<1> QED
  BY <1>1, YieldNone DEF Without

LEMMA YieldFlat ==
  ASSUME NEW b, Blocks(b), NEW part
  PROVE  /\ Yield(FlatTo(b, 0), part) = <<>>
         /\ \A n \in 1 .. Len(b) :
              Yield(FlatTo(b, n), part) = Yield(FlatTo(b, n - 1), part) \o Yield(b[n], part)
         /\ \A n \in 0 .. Len(b) : IsSeq(Yield(FlatTo(b, n), part))
         /\ \A n \in 1 .. Len(b) : IsSeq(Yield(b[n], part))
<1>1. /\ Len(b) \in Nat /\ FlatTo(b, 0) = <<>>
      /\ \A n \in 1 .. Len(b) : FlatTo(b, n) = FlatTo(b, n - 1) \o b[n]
      /\ \A n \in 0 .. Len(b) : IsSeq(FlatTo(b, n))
      /\ \A n \in 1 .. Len(b) : IsSeq(b[n])
  BY RunningFlat, FlatRange, SeqShape DEF Blocks
<1>2. ASSUME NEW n \in 1 .. Len(b)
      PROVE  Yield(FlatTo(b, n), part) = Yield(FlatTo(b, n - 1), part) \o Yield(b[n], part)
  <2>1. n - 1 \in 0 .. Len(b)
    BY <1>1
  <2> DEFINE p == FlatTo(b, n - 1)
             q == b[n]
  <2>2. IsSeq(p) /\ IsSeq(q) /\ FlatTo(b, n) = p \o q
    BY <1>1, <2>1
  <2> HIDE DEF p, q
  <2>3. Yield(p \o q, part) = Yield(p, part) \o Yield(q, part)
    BY <2>2, YieldCat
  <2> QED
    BY <2>2, <2>3 DEF p, q
<1>3. ASSUME NEW n \in 0 .. Len(b) PROVE IsSeq(Yield(FlatTo(b, n), part))
  BY <1>1, YieldRange
<1>4. ASSUME NEW n \in 1 .. Len(b) PROVE IsSeq(Yield(b[n], part))
  BY <1>1, YieldRange
<1> QED
  BY <1>1, <1>2, <1>3, <1>4, YieldNothing

\* Where each block yields one item, the whole yields them in their order.
LEMMA YieldSingles ==
  ASSUME NEW b, Blocks(b), NEW part, NEW v, IsSeq(v), Len(v) = Len(b),
         \A n \in 1 .. Len(b) : Yield(b[n], part) = <<v[n]>>
  PROVE  Yield(FlattenSeq(b), part) = v
<1> DEFINE N == Len(b)
           y == [n \in 1 .. N |-> <<v[n]>>]
           good == {n \in 0 .. N : Yield(FlatTo(b, n), part) = FlatTo(y, n)}
<1>1. N \in Nat /\ FlattenSeq(b) = FlatTo(b, N)
  BY RunningFlat, SeqShape DEF Blocks
<1>2. /\ Yield(FlatTo(b, 0), part) = <<>>
      /\ \A n \in 1 .. N :
           Yield(FlatTo(b, n), part) = Yield(FlatTo(b, n - 1), part) \o Yield(b[n], part)
  BY YieldFlat
<1>3. \A n \in 1 .. N : Yield(b[n], part) = <<v[n]>> /\ y[n] = <<v[n]>>
  OBVIOUS
<1>4. y = [n \in 1 .. N |-> y[n]]
  OBVIOUS
<1> HIDE DEF y, N
<1>5. IsSeq(y) /\ Len(y) = N
  BY <1>1, <1>4, FunctionIsSeq
<1>6. \A n \in 1 .. Len(y) : IsSeq(y[n])
  BY <1>3, <1>5, OneSeq
<1>7. Blocks(y)
  BY <1>5, <1>6 DEF Blocks
<1>8. /\ FlattenSeq(y) = FlatTo(y, N) /\ FlatTo(y, 0) = <<>>
      /\ \A n \in 1 .. N : FlatTo(y, n) = FlatTo(y, n - 1) \o y[n]
  BY <1>5, <1>7, RunningFlat
<1>9. 0 \in good
  BY <1>1, <1>2, <1>8
<1>10. ASSUME NEW n \in 1 .. N, n - 1 \in good PROVE n \in good
  <2>1. n \in 0 .. N /\ Yield(FlatTo(b, n - 1), part) = FlatTo(y, n - 1)
    BY <1>1, <1>10
  <2>2. Yield(FlatTo(b, n), part) = FlatTo(y, n)
    BY <1>2, <1>3, <1>8, <2>1, Zenon
  <2> QED
    BY <2>1, <2>2
<1> HIDE DEF good
<1>11. N \in 0 .. N
  BY <1>1
<1>12. N \in good
  BY <1>1, <1>9, <1>10, <1>11, Counting
<1>13. Yield(FlatTo(b, N), part) = FlatTo(y, N)
  BY <1>12 DEF good
<1>14. FlattenSeq(y) = v
  <2>1. Len(v) = Len(y) /\ \A n \in 1 .. Len(y) : y[n] = <<v[n]>>
    BY <1>3, <1>5 DEF N
  <2> QED
    BY <1>7, <2>1, FlatSingles
<1> QED
  BY <1>1, <1>8, <1>13, <1>14

\* The items of a part that blocks yield are those of its blocks.
LEMMA YieldInFlat ==
  ASSUME NEW b, Blocks(b), NEW part, NEW x
  PROVE  x \in Range(Yield(FlattenSeq(b), part)) <=>
           \E n \in 1 .. Len(b) : x \in Range(Yield(b[n], part))
<1> DEFINE OfPart(step) ==
             step.is # "judge" /\ step.item # Scratch /\ x = step.item /\ x.part = part
<1>1. IsSeq(FlattenSeq(b)) /\ \A n \in 1 .. Len(b) : IsSeq(b[n])
  BY FlatRange DEF Blocks
<1>2. x \in Range(Yield(FlattenSeq(b), part)) <=>
        \E step \in Range(FlattenSeq(b)) : OfPart(step)
  BY <1>1, YieldRange
<1>3. \A n \in 1 .. Len(b) :
        x \in Range(Yield(b[n], part)) <=> \E step \in Range(b[n]) : OfPart(step)
  BY <1>1, YieldRange
<1> HIDE DEF OfPart
<1>4. \A step : step \in Range(FlattenSeq(b)) <=> \E n \in 1 .. Len(b) : step \in Range(b[n])
  BY InFlat
<1> QED
  BY <1>2, <1>3, <1>4, Zenon

-----------------------------------------------------------------------------
(* Side data                                                                *)

IsSide(side) == IsSeq(side) /\ \A i \in 1 .. Len(side) : side[i] \in Nat \cup {Null}

Positives(side) == [i \in DOMAIN side |-> Positive(side[i])]

LEMMA PositivesShape ==
  ASSUME NEW side, IsSide(side)
  PROVE  /\ Len(Positives(side)) = Len(side) /\ Len(side) \in Nat
         /\ \A i \in 1 .. Len(side) :
              Positives(side)[i] = Positive(side[i]) /\ Positives(side)[i] \in Nat
         /\ SideBytes(side) = Total(Positives(side))
         /\ SideBytes(side) \in Nat
<1> DEFINE b == Positives(side)
<1>1. Len(side) \in Nat /\ DOMAIN side = 1 .. Len(side)
  BY SeqShape DEF IsSide
<1>2. b = [i \in 1 .. Len(side) |-> Positive(side[i])]
  BY <1>1 DEF Positives
<1>3. \A i \in 1 .. Len(side) : b[i] = Positive(side[i])
  BY <1>2
<1>4. b = [i \in 1 .. Len(side) |-> b[i]]
  BY <1>2
<1>5. SideBytes(side) = Total(b)
  BY DEF SideBytes, Positives
<1> HIDE DEF b
<1>6. Len(b) = Len(side)
  BY <1>1, <1>4, FunctionIsSeq
<1>7. \A i \in 1 .. Len(side) : Positive(side[i]) \in Nat
  BY DEF IsSide, Null, Positive
<1>8. \A n \in 1 .. Len(b) : b[n] \in Nat
  BY <1>3, <1>6, <1>7
<1>9. Total(b) \in Nat
  BY <1>1, <1>6, <1>8, SumsGrow
<1> QED
  BY <1>1, <1>3, <1>5, <1>6, <1>7, <1>9 DEF b

SideBlock(side, i) ==
  CASE side[i] = Null -> <<>>
    [] side[i] = 0 -> Give(Item("side", i, <<>>))
    [] OTHER -> Buy(side[i], Item("side", i, <<>>))
SideBlocks(side) == [i \in DOMAIN side |-> SideBlock(side, i)]

LEMMA SideItem ==
  ASSUME NEW i
  PROVE  /\ Item("side", i, <<>>) # Scratch /\ Item("side", i, <<>>).part = "side"
         /\ Item("side", i, <<>>).at = i
BY DEF Item, Scratch

LEMMA SideBlockPlan ==
  ASSUME NEW side, NEW i, side[i] \in Nat \cup {Null}
  PROVE  /\ IsPlan(SideBlock(side, i)) /\ Clear(SideBlock(side, i)) /\ Frugal(SideBlock(side, i))
         /\ Paid(SideBlock(side, i)) = Positive(side[i])
         /\ \A m, f : Ending(SideBlock(side, i), m, f) => f = "alloc"
         /\ Yield(SideBlock(side, i), "side") =
              IF side[i] = Null THEN <<>> ELSE <<Item("side", i, <<>>)>>
         /\ \A part : part # "side" => Yield(SideBlock(side, i), part) = <<>>
<1> DEFINE item == Item("side", i, <<>>)
<1>1. item # Scratch /\ item.part = "side"
  BY SideItem
<1> HIDE DEF item
<1>2. CASE side[i] = Null
  <2>1. SideBlock(side, i) = <<>>
    BY <1>2 DEF SideBlock, Null
  <2>2. Positive(side[i]) = 0
    BY <1>2 DEF Positive, Null
  <2> QED
    BY <1>2, <2>1, <2>2, NoPlan, YieldNothing
<1>3. CASE side[i] = 0
  <2>1. SideBlock(side, i) = Give(item) /\ side[i] # Null
    BY <1>3 DEF SideBlock, Null, item
  <2>2. Positive(side[i]) = 0
    BY <1>3 DEF Positive
  <2>3. \A part : Yield(Give(item), part) = Fits(item, part)
    BY <1>1, YieldGive
  <2>4. Yield(Give(item), "side") = <<item>> /\ \A part : part # "side" => Yield(Give(item), part) = <<>>
    BY <1>1, <2>3 DEF Fits
  <2> QED
    BY <2>1, <2>2, <2>4, GivePlan DEF item
<1>4. CASE side[i] \notin {0, Null}
  <2>1. SideBlock(side, i) = Buy(side[i], item)
    BY <1>4 DEF SideBlock, item
  <2>2. Positive(side[i]) = side[i] /\ side[i] \in Nat /\ side[i] \in Int
    BY <1>4 DEF Positive
  <2>3. \A part : Yield(Buy(side[i], item), part) = Fits(item, part)
    BY <1>1, <2>2, YieldBuy
  <2>4. /\ Yield(Buy(side[i], item), "side") = <<item>>
        /\ \A part : part # "side" => Yield(Buy(side[i], item), part) = <<>>
    BY <1>1, <2>3 DEF Fits
  <2>5. side[i] # Null
    BY <1>4
  <2> QED
    BY <2>1, <2>2, <2>4, <2>5, BuyPlan DEF item
<1> QED
  BY <1>2, <1>3, <1>4

LEMMA SideBlocksJoin ==
  ASSUME NEW side, IsSide(side)
  PROVE  /\ Plans(SideBlocks(side)) /\ Len(SideBlocks(side)) = Len(side)
         /\ \A i \in 1 .. Len(side) : SideBlocks(side)[i] = SideBlock(side, i)
<1> DEFINE b == SideBlocks(side)
<1>1. Len(side) \in Nat /\ DOMAIN side = 1 .. Len(side)
  BY SeqShape DEF IsSide
<1>2. b = [i \in 1 .. Len(side) |-> SideBlock(side, i)]
  BY <1>1 DEF SideBlocks
<1>3. \A i \in 1 .. Len(side) : b[i] = SideBlock(side, i)
  BY <1>2
<1>4. b = [i \in 1 .. Len(side) |-> b[i]]
  BY <1>2
<1> HIDE DEF b
<1>5. IsSeq(b) /\ Len(b) = Len(side)
  BY <1>1, <1>4, FunctionIsSeq
<1>6. \A i \in 1 .. Len(side) : IsPlan(SideBlock(side, i))
  BY SideBlockPlan DEF IsSide
<1> QED
  BY <1>3, <1>5, <1>6 DEF Plans, b

\* Every entry that is there is copied and nothing else is; that costs its bytes.
LEMMA CollectSidePlan ==
  ASSUME NEW side, IsSide(side)
  PROVE  /\ IsPlan(CollectSide(side)) /\ Clear(CollectSide(side)) /\ Frugal(CollectSide(side))
         /\ Paid(CollectSide(side)) = SideBytes(side)
         /\ \A m, f : Ending(CollectSide(side), m, f) => f = "alloc"
         /\ \A x : x \in Range(Yield(CollectSide(side), "side")) <=>
              \E i \in 1 .. Len(side) : side[i] # Null /\ x = Item("side", i, <<>>)
         /\ \A part : part # "side" => Yield(CollectSide(side), part) = <<>>
<1> DEFINE p == CollectSide(side)
<1>1. CASE side = <<>>
  <2>1. p = <<>>
    BY <1>1 DEF CollectSide
  <2>2. Len(side) = 0 /\ 1 .. 0 = {}
    BY <1>1
  <2>3. SideBytes(side) = 0
    <3>1. Len(Positives(side)) \in Nat /\ \A n \in 1 .. Len(Positives(side)) : Positives(side)[n] = 0
      BY <2>2, PositivesShape
    <3> QED
      BY <3>1, TotalNone, PositivesShape
  <2> QED
    BY <2>1, <2>2, <2>3, NoPlan, YieldNothing, NoSeq
<1>2. CASE side # <<>>
  <2> DEFINE b == SideBlocks(side)
             q == FlattenSeq(b)
             t == Buy(0, Scratch)
             s == Positives(side)
  <2>1. p = t \o q
    BY <1>2 DEF CollectSide, SideBlocks, SideBlock
  <2>2. Plans(b) /\ Len(b) = Len(side) /\ \A i \in 1 .. Len(side) : b[i] = SideBlock(side, i)
    BY SideBlocksJoin
  <2>3. Len(side) \in Nat /\ \A i \in 1 .. Len(side) : side[i] \in Nat \cup {Null}
    BY SeqShape DEF IsSide
  <2> HIDE DEF b
  <2>4. IsPlan(q) /\ Clear(q) /\ Blocks(b)
    <3>1. Blocks(b) /\ Len(b) \in 0 .. Len(b) /\ q = FlatTo(b, Len(b))
      <4>1. Blocks(b) /\ q = FlatTo(b, Len(b)) /\ Len(b) \in Nat
        BY <2>2, PlansJoin
      <4> QED
        BY <4>1
    <3>2. \A i \in 1 .. Len(b) : Clear(b[i])
      BY <2>2, <2>3, SideBlockPlan
    <3> QED
      BY <2>2, <3>1, <3>2, PlansJoin
  <2>5. Frugal(q)
    <3>1. \A i \in 1 .. Len(b) : Frugal(b[i])
      BY <2>2, <2>3, SideBlockPlan
    <3> QED
      BY <2>2, <3>1, FrugalFlat
  <2>6. Paid(q) = SideBytes(side)
    <3>1. Len(s) = Len(side) /\ SideBytes(side) = Total(s)
          /\ \A i \in 1 .. Len(side) : s[i] = Positive(side[i])
      BY PositivesShape
    <3> HIDE DEF s
    <3>2. \A i \in 1 .. Len(b) : s[i] = Paid(b[i])
      BY <2>2, <2>3, <3>1, SideBlockPlan
    <3>3. Len(s) = Len(b)
      BY <2>2, <3>1
    <3> QED
      BY <2>2, <3>1, <3>2, <3>3, PaidSum
  <2>7. ASSUME NEW m, NEW f, Ending(q, m, f) PROVE f = "alloc"
    <3>1. PICK n \in 1 .. Len(b) : \E l : Ending(b[n], l, f)
      BY <2>2, <2>7, EndingFlat
    <3> QED
      BY <2>2, <2>3, <3>1, SideBlockPlan
  <2>8. ASSUME NEW x
        PROVE  x \in Range(Yield(q, "side")) <=>
                 \E i \in 1 .. Len(side) : side[i] # Null /\ x = Item("side", i, <<>>)
    <3>1. x \in Range(Yield(q, "side")) <=> \E i \in 1 .. Len(b) : x \in Range(Yield(b[i], "side"))
      BY <2>4, YieldInFlat
    <3>2. ASSUME NEW i \in 1 .. Len(side)
          PROVE  x \in Range(Yield(b[i], "side")) <=> side[i] # Null /\ x = Item("side", i, <<>>)
      <4> DEFINE item == Item("side", i, <<>>)
      <4>1. Yield(b[i], "side") = IF side[i] = Null THEN <<>> ELSE <<item>>
        BY <2>2, <2>3, SideBlockPlan
      <4> HIDE DEF item
      <4>2. Range(<<item>>) = {item} /\ Range(<<>>) = {}
        BY OneSeq, NoSeq
      <4>3. x \in Range(Yield(b[i], "side")) <=> side[i] # Null /\ x = item
        BY <4>1, <4>2
      <4> QED
        BY <4>3 DEF item
    <3> QED
      BY <2>2, <3>1, <3>2
  <2>9. ASSUME NEW part, part # "side" PROVE Yield(q, part) = <<>>
    <3>1. \A i \in 1 .. Len(b) : Yield(b[i], part) = <<>>
      BY <2>2, <2>3, <2>9, SideBlockPlan
    <3>2. ASSUME NEW x PROVE x \notin Range(Yield(q, part))
      <4>1. x \in Range(Yield(q, part)) <=> \E i \in 1 .. Len(b) : x \in Range(Yield(b[i], part))
        BY <2>4, YieldInFlat
      <4> QED
        BY <3>1, <4>1, NoSeq
    <3>3. IsSeq(Yield(q, part))
      BY <2>4, YieldRange DEF IsPlan
    <3> QED
      BY <3>2, <3>3, NothingIn
  <2>10. IsPlan(t) /\ Clear(t) /\ Frugal(t) /\ Paid(t) = 0
         /\ (\A m, f : Ending(t, m, f) => f = "alloc")
    BY BuyPlan
  <2>11. \A part : Yield(t, part) = <<>>
    BY YieldScratch
  <2> HIDE DEF t, q
  <2>12. IsPlan(p) /\ Clear(p)
    BY <2>1, <2>4, <2>10, PlanCat
  <2>13. Frugal(p)
    BY <2>1, <2>4, <2>5, <2>10, FrugalCat
  <2>14. Paid(p) = SideBytes(side)
    <3>1. Paid(p) = Paid(t) + Paid(q) /\ Paid(q) \in Int
      BY <2>1, <2>4, <2>10, PaidCat
    <3> QED
      BY <2>6, <2>10, <3>1
  <2>15. ASSUME NEW m, NEW f, Ending(p, m, f) PROVE f = "alloc"
    <3>1. Ending(t, m, f) \/ \E n : Ending(q, n, f)
      BY <2>1, <2>4, <2>10, <2>15, EndingCat
    <3> QED
      BY <2>7, <2>10, <3>1
  <2>16. ASSUME NEW part PROVE Yield(p, part) = Yield(q, part)
    <3>1. IsSeq(t) /\ IsSeq(q)
      BY <2>4, <2>10 DEF IsPlan
    <3>2. Yield(p, part) = Yield(t, part) \o Yield(q, part)
      BY <2>1, <3>1, YieldCat
    <3>3. IsSeq(Yield(q, part))
      BY <3>1, YieldRange
    <3> QED
      BY <2>11, <3>2, <3>3, CatNone
  <2> HIDE DEF p
  <2> QED
    BY <2>8, <2>9, <2>12, <2>13, <2>14, <2>15, <2>16 DEF p
<1> QED
  BY <1>1, <1>2

-----------------------------------------------------------------------------
(* Stretches of a plan: their cost, and the verdicts they may end with      *)

Works(p, cost, faults) ==
  /\ IsPlan(p) /\ Frugal(p) /\ Paid(p) = cost
  /\ \A m, f : Ending(p, m, f) => f \in faults

LEMMA WorksCat ==
  ASSUME NEW p, NEW q, NEW c, NEW d, NEW F, NEW G, Works(p, c, F), Works(q, d, G)
  PROVE  Works(p \o q, c + d, F \cup G)
<1>1. IsPlan(p) /\ IsPlan(q) /\ Frugal(p) /\ Frugal(q) /\ Paid(p) = c /\ Paid(q) = d
  BY DEF Works
<1>2. IsPlan(p \o q) /\ Frugal(p \o q)
  BY <1>1, PlanCat, FrugalCat
<1>3. Paid(p \o q) = c + d
  BY <1>1, PaidCat
<1>4. ASSUME NEW m, NEW f, Ending(p \o q, m, f) PROVE f \in F \cup G
  <2>1. Ending(p, m, f) \/ \E n : Ending(q, n, f)
    BY <1>1, <1>4, EndingCat
  <2> QED
    BY <2>1 DEF Works
<1> QED
  BY <1>2, <1>3, <1>4 DEF Works

LEMMA WorksEnding ==
  ASSUME NEW p, NEW c, NEW F, Works(p, c, F), NEW m, NEW f, Ending(p, m, f)
  PROVE  m \in Nat /\ m <= c /\ f \in F /\ c \in Nat
BY EndingPaid DEF Works

LEMMA WorksNat ==
  ASSUME NEW p, NEW c, NEW F, Works(p, c, F)
  PROVE  c \in Nat
<1>1. IsPlan(p) /\ Frugal(p) /\ Paid(p) = c /\ Len(p) \in Nat
  BY CostsShape DEF Works
<1>2. 0 \in 0 .. Len(p)
  BY <1>1
<1> QED
  BY <1>1, <1>2, PaidGrows

LEMMA WorksJudge ==
  ASSUME NEW fault, fault \notin {"produced", "alloc"}, NEW h \in BOOLEAN
  PROVE  Works(Judge(fault, h), 0, {fault})
<1>1. IsPlan(Judge(fault, h)) /\ Frugal(Judge(fault, h)) /\ Paid(Judge(fault, h)) = 0
  BY JudgePlan
<1>2. \A m, f : Ending(Judge(fault, h), m, f) => f = fault
  BY JudgePlan
<1> QED
  BY <1>1, <1>2 DEF Works

\* Something got past ends only for want of memory.
LEMMA ClearEnding ==
  ASSUME NEW p, Clear(p), NEW m, NEW f, Ending(p, m, f)
  PROVE  f = "alloc"
BY DEF Clear, Ending, Faults

LEMMA YieldPast ==
  ASSUME NEW p, NEW q, IsPlan(p), IsPlan(q), NEW part
  PROVE  /\ Yield(p, part) = <<>> => Yield(p \o q, part) = Yield(q, part)
         /\ Yield(q, part) = <<>> => Yield(p \o q, part) = Yield(p, part)
<1>1. IsSeq(p) /\ IsSeq(q)
  BY DEF IsPlan
<1>2. Yield(p \o q, part) = Yield(p, part) \o Yield(q, part)
  BY <1>1, YieldCat
<1>3. IsSeq(Yield(p, part)) /\ IsSeq(Yield(q, part))
  BY <1>1, YieldRange
<1> QED
  BY <1>2, <1>3, CatNone

LEMMA ProductNat ==
  ASSUME NEW a \in Nat, NEW b \in Nat
  PROVE  a * b \in Nat
OBVIOUS

LEMMA ProductGrows ==
  ASSUME NEW a \in Nat, NEW b \in Nat, a <= b, NEW c \in Nat
  PROVE  a * c <= b * c
OBVIOUS

LEMMA Position ==
  ASSUME NEW row \in Nat, row > 0, NEW rows \in Nat, NEW n \in 1 .. row * rows
  PROVE  /\ (n - 1) \div row \in 0 .. rows - 1 /\ (n - 1) % row \in 0 .. row - 1
         /\ n - 1 = ((n - 1) \div row) * row + ((n - 1) % row)
<1> DEFINE x == n - 1
           q == x \div row
           r == x % row
<1>1. row * rows \in Nat
  BY ProductNat
<1>2. x \in Nat /\ x < row * rows
  BY <1>1
<1> HIDE DEF x
<1>3. q \in Nat /\ r \in 0 .. row - 1 /\ x = q * row + r
  BY <1>2
<1> HIDE DEF q, r
<1>4. q < rows
  <2>1. SUFFICES ASSUME rows <= q PROVE FALSE
    BY <1>3
  <2>2. rows * row <= q * row
    BY <1>3, <2>1, ProductGrows
  <2> QED
    BY <1>2, <1>3, <2>2
<1> QED
  BY <1>3, <1>4 DEF x, q, r

LEMMA Place ==
  ASSUME NEW row \in Nat, row > 0, NEW rows \in Nat, NEW r \in 0 .. rows - 1, NEW b \in 0 .. row - 1
  PROVE  /\ r * row + b + 1 \in 1 .. row * rows
         /\ ((r * row + b + 1) - 1) \div row = r /\ ((r * row + b + 1) - 1) % row = b
<1> DEFINE x == r * row + b
           y == r * row
           z == row * rows
<1>1. y \in Nat /\ z \in Nat
  BY ProductNat
<1>2. (r + 1) * row <= rows * row
  BY ProductGrows
<1>3. y + row <= z
  <2>1. (r + 1) * row = y + row /\ rows * row = z
    OBVIOUS
  <2> QED
    BY <1>2, <2>1
<1>4. x = y + b
  OBVIOUS
<1> HIDE DEF y, z
<1>5. x \in Nat /\ x + 1 \in 1 .. z /\ (x + 1) - 1 = x
  BY <1>1, <1>3, <1>4
<1>6. x \div row = r /\ x % row = b
  OBVIOUS
<1> HIDE DEF x
<1>7. ((x + 1) - 1) \div row = r /\ ((x + 1) - 1) % row = b
  BY <1>5, <1>6
<1> QED
  BY <1>5, <1>7 DEF x, z

LEMMA WorksFlat ==
  ASSUME NEW b, IsSeq(b), NEW sums, Len(sums) = Len(b), NEW F,
         \A n \in 1 .. Len(b) : Works(b[n], sums[n], F)
  PROVE  /\ Works(FlattenSeq(b), Total(sums), F) /\ Plans(b)
         /\ Clear(FlattenSeq(b)) <=> \A n \in 1 .. Len(b) : Clear(b[n])
<1>1. Plans(b) /\ \A n \in 1 .. Len(b) : Frugal(b[n]) /\ sums[n] = Paid(b[n])
  BY DEF Plans, Works
<1>2. FlattenSeq(b) = FlatTo(b, Len(b)) /\ Len(b) \in Nat
  BY <1>1, PlansJoin
<1>3. Len(b) \in 0 .. Len(b)
  BY <1>2
<1>4. /\ IsPlan(FlattenSeq(b))
      /\ Clear(FlattenSeq(b)) <=> \A n \in 1 .. Len(b) : Clear(b[n])
  BY <1>1, <1>2, <1>3, PlansJoin
<1>5. Frugal(FlattenSeq(b))
  BY <1>1, FrugalFlat
<1>6. Paid(FlattenSeq(b)) = Total(sums)
  BY <1>1, PaidSum
<1>7. ASSUME NEW m, NEW f, Ending(FlattenSeq(b), m, f) PROVE f \in F
  <2>1. \E n \in 1 .. Len(b) : \E l : Ending(b[n], l, f)
    BY <1>1, <1>7, EndingFlat
  <2> QED
    BY <2>1 DEF Works
<1> QED
  BY <1>1, <1>4, <1>5, <1>6, <1>7 DEF Works

LEMMA YieldFlatNone ==
  ASSUME NEW b, Blocks(b), NEW part, \A n \in 1 .. Len(b) : Yield(b[n], part) = <<>>
  PROVE  Yield(FlattenSeq(b), part) = <<>>
<1>1. ASSUME NEW x PROVE x \notin Range(Yield(FlattenSeq(b), part))
  <2>1. x \in Range(Yield(FlattenSeq(b), part)) <=>
          \E i \in 1 .. Len(b) : x \in Range(Yield(b[i], part))
    BY YieldInFlat
  <2> QED
    BY <2>1, NoSeq
<1>2. IsSeq(Yield(FlattenSeq(b), part))
  BY FlatRange, YieldRange
<1> QED
  BY <1>1, <1>2, NothingIn

-----------------------------------------------------------------------------
(* Stills                                                                   *)

GeometryOf(s) == Geometry(s.format, s.width, s.height)

IsPlane(g) ==
  /\ g.row \in Nat /\ g.rows \in Nat /\ g.flat \in BOOLEAN
  /\ g.flat => g.rows = 1
  /\ ~g.flat => g.row > 0 /\ g.rows > 0

LEMMA CeilingNat ==
  ASSUME NEW name \in CeilingNames
  PROVE  Ceiling[name] \in Nat
BY CeilingAssumption

LEMMA GeometryShape ==
  ASSUME NEW s \in Still
  PROVE  /\ IsSeq(GeometryOf(s)) /\ Len(GeometryOf(s)) \in 0 .. 2
         /\ \A i \in 1 .. Len(GeometryOf(s)) : IsPlane(GeometryOf(s)[i])
<1> DEFINE w == s.width
           h == s.height
           plane(row, rows) == [row |-> row, rows |-> rows, flat |-> FALSE]
           one == plane(w, h)
           half == plane((w + 1) \div 2, (h + 1) \div 2)
           flat == [row |-> Ceiling.palette, rows |-> 1, flat |-> TRUE]
           g == GeometryOf(s)
<1>1. w \in Int /\ h \in Int /\ s.format \in {"gray", "halved", "indexed", "opaque"}
  BY DEF Still
<1>2. g = IF w <= 0 \/ h <= 0 \/ s.format = "opaque" THEN <<>>
          ELSE CASE s.format = "gray" -> <<one>>
                 [] s.format = "halved" -> <<one, half>>
                 [] s.format = "indexed" -> <<one, flat>>
  BY DEF GeometryOf, Geometry
<1>3. IsPlane(flat)
  <2>1. Ceiling.palette \in Nat
    BY CeilingNat DEF CeilingNames
  <2> QED
    BY <2>1 DEF IsPlane
<1>4. ASSUME w > 0, h > 0 PROVE IsPlane(one) /\ IsPlane(half)
  <2>1. IsPlane(one)
    BY <1>1, <1>4 DEF IsPlane
  <2>2. (w + 1) \div 2 \in Nat /\ (w + 1) \div 2 > 0 /\ (h + 1) \div 2 \in Nat /\ (h + 1) \div 2 > 0
    BY <1>1, <1>4
  <2>3. IsPlane(half)
    BY <2>2 DEF IsPlane
  <2> QED
    BY <2>1, <2>3
<1> HIDE DEF one, half, flat, g
<1>5. ASSUME NEW a, NEW b
      PROVE  /\ IsSeq(<<a, b>>) /\ Len(<<a, b>>) = 2
             /\ \A i \in 1 .. 2 : <<a, b>>[i] = a \/ <<a, b>>[i] = b
  <2>1. <<a, b>> \in Seq({a, b}) /\ Len(<<a, b>>) = 2 /\ \A i \in 1 .. 2 : i = 1 \/ i = 2
    OBVIOUS
  <2>2. IsSeq(<<a, b>>)
    BY <2>1, SeqIs
  <2> QED
    BY <2>1, <2>2
<1>6. CASE w <= 0 \/ h <= 0 \/ s.format = "opaque"
  <2>1. g = <<>>
    BY <1>1, <1>2, <1>6
  <2> QED
    BY <2>1, NoSeq DEF g
<1>7. CASE ~(w <= 0 \/ h <= 0 \/ s.format = "opaque")
  <2>1. w > 0 /\ h > 0
    BY <1>1, <1>7
  <2>2. g = <<one>> \/ g = <<one, half>> \/ g = <<one, flat>>
    BY <1>1, <1>2, <1>7
  <2>3. IsSeq(<<one>>) /\ Len(<<one>>) = 1 /\ \A i \in 1 .. 1 : <<one>>[i] = one
    <3>1. IsSeq(<<one>>) /\ Len(<<one>>) = 1 /\ <<one>>[1] = one /\ \A i \in 1 .. 1 : i = 1
      BY OneSeq
    <3> QED
      BY <3>1
  <2>4. IsSeq(g) /\ Len(g) \in 1 .. 2 /\ \A i \in 1 .. Len(g) : g[i] \in {one, half, flat}
    BY <1>5, <2>2, <2>3
  <2> QED
    BY <1>3, <1>4, <2>1, <2>4 DEF g
<1> QED
  BY <1>6, <1>7

LEMMA MeasurePlan ==
  ASSUME NEW side, IsSide(side)
  PROVE  /\ Works(MeasureSide(side), 0, {"entries", "side"})
         /\ Clear(MeasureSide(side)) => SideBytes(side) <= Ceiling.stillSide
         /\ \A part : Yield(MeasureSide(side), part) = <<>>
<1> DEFINE h == Len(side) > Ceiling.entries
           k == SideBytes(side) > Ceiling.stillSide
           p == Judge("entries", h)
           q == Judge("side", k)
<1>1. h \in BOOLEAN /\ k \in BOOLEAN
  OBVIOUS
<1>2. SideBytes(side) \in Nat /\ Ceiling.stillSide \in Nat
  BY PositivesShape, CeilingNat DEF CeilingNames
<1>3. k <=> ~(SideBytes(side) <= Ceiling.stillSide)
  BY <1>2
<1>4. MeasureSide(side) = p \o q
  BY DEF MeasureSide
<1> HIDE DEF h, k
<1>5. "entries" \notin {"produced", "alloc"} /\ "side" \notin {"produced", "alloc"}
  OBVIOUS
<1>6. Works(p, 0, {"entries"}) /\ Works(q, 0, {"side"})
  BY <1>1, <1>5, WorksJudge
<1>7. (Clear(q) <=> ~k) /\ IsPlan(p) /\ IsPlan(q)
  BY <1>1, <1>5, JudgePlan
<1>8. \A part : Yield(p, part) = <<>> /\ Yield(q, part) = <<>>
  BY <1>1, <1>5, YieldJudge
<1> HIDE DEF p, q
<1>9. Works(p \o q, 0 + 0, {"entries"} \cup {"side"})
  BY <1>6, WorksCat
<1>10. 0 + 0 = 0 /\ {"entries"} \cup {"side"} = {"entries", "side"}
  OBVIOUS
<1>11. Clear(p \o q) <=> Clear(p) /\ Clear(q)
  BY <1>7, PlanCat
<1>12. \A part : Yield(p \o q, part) = <<>>
  BY <1>7, <1>8, YieldPast
<1> QED
  BY <1>3, <1>4, <1>7, <1>9, <1>10, <1>11, <1>12

LEMMA StillFields ==
  ASSUME NEW s \in Still
  PROVE  /\ s.medium = "image" /\ s.width \in Int /\ s.height \in Int /\ IsSide(s.side)
         /\ \A i \in 1 .. 2 : s.linesize[i] \in Int /\ s.at[i] \in Nat \cup {Null}
<1>1. s.side \in Seq(Nat \cup {Null}) /\ s.medium = "image" /\ s.width \in Int /\ s.height \in Int
  BY DEF Still, SideData
<1>2. s.linesize \in [1 .. 2 -> Int] /\ s.at \in [1 .. 2 -> Nat \cup {Null}]
  BY DEF Still, Pointer
<1>3. IsSeq(s.side) /\ Range(s.side) \subseteq Nat \cup {Null} /\ DOMAIN s.side = 1 .. Len(s.side)
  BY <1>1, SeqIs
<1>4. \A i \in 1 .. Len(s.side) : s.side[i] \in Nat \cup {Null}
  BY <1>1
<1> QED
  BY <1>1, <1>2, <1>3, <1>4 DEF IsSide

CopyFaults == {"pointer", "unbacked", "alloc"}

Copies(p, cost, item) ==
  /\ IsPlan(p) /\ (cost \in Nat => Works(p, cost, CopyFaults))
  /\ Yield(p, "plane") = <<item>>
  /\ \A part : part # "plane" => Yield(p, part) = <<>>

\* One plane: its pointer and its buffer judged, then its bytes copied.
LEMMA CopyPlan ==
  ASSUME NEW h \in BOOLEAN, NEW k \in BOOLEAN, NEW cost \in Int, NEW item,
         item # Scratch, item.part = "plane",
         NEW p, p = Judge("pointer", h) \o Judge("unbacked", k) \o Buy(cost, item)
  PROVE  Copies(p, cost, item) /\ (Clear(p) => ~h /\ ~k)
<1> DEFINE a == Judge("pointer", h)
           b == Judge("unbacked", k)
           r == Buy(cost, item)
<1>1. "pointer" \notin {"produced", "alloc"} /\ "unbacked" \notin {"produced", "alloc"}
  OBVIOUS
<1>2. Works(a, 0, {"pointer"}) /\ Works(b, 0, {"unbacked"})
  BY <1>1, WorksJudge
<1>3. IsPlan(r) /\ (cost \in Nat => Works(r, cost, {"alloc"}))
  BY BuyPlan DEF Works
<1>4. (Clear(a) <=> ~h) /\ (Clear(b) <=> ~k)
  BY <1>1, JudgePlan
<1>5. \A part : Yield(a, part) = <<>> /\ Yield(b, part) = <<>>
  BY <1>1, YieldJudge
<1>6. \A part : Yield(r, part) = Fits(item, part)
  BY YieldBuy
<1>7. p = (a \o b) \o r
  OBVIOUS
<1> HIDE DEF a, b, r
<1>8. IsPlan(a) /\ IsPlan(b)
  BY <1>2 DEF Works
<1>9. Works(a \o b, 0 + 0, {"pointer"} \cup {"unbacked"}) /\ IsPlan(a \o b)
  BY <1>2, <1>8, WorksCat, PlanCat
<1>10. ASSUME cost \in Nat PROVE Works((a \o b) \o r, cost, CopyFaults)
  <2>1. Works((a \o b) \o r, (0 + 0) + cost, ({"pointer"} \cup {"unbacked"}) \cup {"alloc"})
    BY <1>3, <1>9, <1>10, WorksCat
  <2>2. (0 + 0) + cost = cost /\ ({"pointer"} \cup {"unbacked"}) \cup {"alloc"} = CopyFaults
    BY DEF CopyFaults
  <2> QED
    BY <2>1, <2>2
<1>11. IsPlan((a \o b) \o r) /\ (Clear((a \o b) \o r) => ~h /\ ~k)
  BY <1>3, <1>4, <1>8, <1>9, PlanCat
<1>12. ASSUME NEW part PROVE Yield((a \o b) \o r, part) = Fits(item, part)
  <2>1. Yield(a \o b, part) = <<>>
    BY <1>5, <1>8, YieldPast
  <2> QED
    BY <2>1, <1>3, <1>6, <1>9, YieldPast
<1>13. Fits(item, "plane") = <<item>> /\ \A part : part # "plane" => Fits(item, part) = <<>>
  BY DEF Fits
<1> QED
  BY <1>7, <1>10, <1>11, <1>12, <1>13 DEF Copies

LEMMA CopyPlanePlan ==
  ASSUME NEW s, NEW g, IsPlane(g), NEW i
  PROVE  /\ Works(CopyPlane(s, g, i), g.row * g.rows, CopyFaults)
         /\ Clear(CopyPlane(s, g, i)) => s.at[i] # Null /\ Backed(s, s.at[i], Extent(s, g, i))
         /\ Yield(CopyPlane(s, g, i), "plane") = <<Item("plane", i, Rows(s, g, i))>>
         /\ \A part : part # "plane" => Yield(CopyPlane(s, g, i), part) = <<>>
<1> DEFINE h == s.at[i] = Null
           k == ~Backed(s, s.at[i], Extent(s, g, i))
           item == Item("plane", i, Rows(s, g, i))
           cost == g.row * g.rows
           p == CopyPlane(s, g, i)
<1>1. h \in BOOLEAN /\ k \in BOOLEAN
  OBVIOUS
<1>2. cost \in Nat /\ cost \in Int
  BY ProductNat DEF IsPlane
<1>3. item # Scratch /\ item.part = "plane"
  BY DEF Item, Scratch
<1>4. p = Judge("pointer", h) \o Judge("unbacked", k) \o Buy(cost, item)
  BY DEF CopyPlane
<1>5. ~h /\ ~k => s.at[i] # Null /\ Backed(s, s.at[i], Extent(s, g, i))
  OBVIOUS
<1> HIDE DEF h, k, item, cost, p
<1>6. Copies(p, cost, item)
  BY <1>1, <1>2, <1>3, <1>4, CopyPlan
<1>7. Clear(p) => ~h /\ ~k
  BY <1>1, <1>2, <1>3, <1>4, CopyPlan
<1> QED
  BY <1>2, <1>5, <1>6, <1>7 DEF item, cost, p, Copies

Stride(s, g, i) == Judge("stride", ~g.flat /\ s.linesize[i] < g.row)
StrideBlocks(s) == [i \in DOMAIN GeometryOf(s) |-> Stride(s, GeometryOf(s)[i], i)]
CopyBlocks(s) == [i \in DOMAIN GeometryOf(s) |-> CopyPlane(s, GeometryOf(s)[i], i)]
Weights(geometry) == [i \in DOMAIN geometry |-> geometry[i].row * geometry[i].rows]

\* What is judged of the planes before the first of them is copied.
JudgedPlanes(s) ==
  Judge("pixels", s.width * s.height > Ceiling.pixels)
  \o Judge("format", GeometryOf(s) = <<>>)
  \o Judge("bytes", Exported(GeometryOf(s)) > Ceiling.bytes)
  \o FlattenSeq(StrideBlocks(s))

LEMMA StridesPlan ==
  ASSUME NEW s \in Still
  PROVE  /\ Works(FlattenSeq(StrideBlocks(s)), 0, {"stride"})
         /\ Clear(FlattenSeq(StrideBlocks(s))) =>
              \A i \in 1 .. Len(GeometryOf(s)) :
                ~GeometryOf(s)[i].flat => s.linesize[i] >= GeometryOf(s)[i].row
         /\ \A part : Yield(FlattenSeq(StrideBlocks(s)), part) = <<>>
<1> DEFINE g == GeometryOf(s)
           b == StrideBlocks(s)
           sums == [i \in 1 .. Len(g) |-> 0]
<1>1. IsSeq(g) /\ Len(g) \in Nat /\ DOMAIN g = 1 .. Len(g) /\ Len(g) \in 0 .. 2
      /\ \A i \in 1 .. Len(g) : IsPlane(g[i])
  BY GeometryShape, SeqShape
<1> HIDE DEF g
<1>2. b = [i \in 1 .. Len(g) |-> Stride(s, g[i], i)]
  BY <1>1 DEF StrideBlocks, g
<1>3. \A i \in 1 .. Len(g) : b[i] = Stride(s, g[i], i)
  BY <1>2
<1>4. b = [i \in 1 .. Len(g) |-> b[i]]
  BY <1>2
<1> HIDE DEF b
<1>5. IsSeq(b) /\ Len(b) = Len(g)
  BY <1>1, <1>4, FunctionIsSeq
<1>6. sums = [i \in 1 .. Len(g) |-> sums[i]] /\ \A i \in 1 .. Len(g) : sums[i] = 0
  OBVIOUS
<1> HIDE DEF sums
<1>7. Len(sums) = Len(g)
  BY <1>1, <1>6, FunctionIsSeq
<1>8. ASSUME NEW i \in 1 .. Len(g)
      PROVE  /\ Works(b[i], 0, {"stride"})
             /\ Clear(b[i]) => (~g[i].flat => s.linesize[i] >= g[i].row)
             /\ \A part : Yield(b[i], part) = <<>>
  <2> DEFINE h == ~g[i].flat /\ s.linesize[i] < g[i].row
  <2>1. h \in BOOLEAN /\ b[i] = Judge("stride", h)
    BY <1>3 DEF Stride
  <2>2. s.linesize[i] \in Int /\ g[i].row \in Nat
    <3>1. i \in 1 .. 2
      BY <1>1
    <3>2. IsPlane(g[i])
      BY <1>1
    <3> QED
      BY <3>1, <3>2, StillFields DEF IsPlane
  <2>3. ~h => (~g[i].flat => s.linesize[i] >= g[i].row)
    BY <2>2
  <2> HIDE DEF h
  <2>4. "stride" \notin {"produced", "alloc"}
    OBVIOUS
  <2>5. Works(Judge("stride", h), 0, {"stride"})
    BY <2>1, <2>4, WorksJudge
  <2>6. Clear(Judge("stride", h)) <=> ~h
    BY <2>1, <2>4, JudgePlan
  <2>7. \A part : Yield(Judge("stride", h), part) = <<>>
    BY <2>1, <2>4, YieldJudge
  <2> QED
    BY <2>1, <2>3, <2>5, <2>6, <2>7
<1>9. \A n \in 1 .. Len(b) : Works(b[n], sums[n], {"stride"})
  BY <1>5, <1>6, <1>8
<1>10. Total(sums) = 0
  BY <1>1, <1>6, <1>7, TotalNone
<1>11. /\ Works(FlattenSeq(b), Total(sums), {"stride"}) /\ Plans(b)
       /\ Clear(FlattenSeq(b)) <=> \A n \in 1 .. Len(b) : Clear(b[n])
  BY <1>5, <1>7, <1>9, WorksFlat
<1>12. Blocks(b)
  BY <1>11, PlansJoin
<1>13. \A part : Yield(FlattenSeq(b), part) = <<>>
  BY <1>5, <1>8, <1>12, YieldFlatNone
<1>14. Works(FlattenSeq(b), 0, {"stride"})
  BY <1>10, <1>11
<1>15. Clear(FlattenSeq(b)) => \A i \in 1 .. Len(g) : ~g[i].flat => s.linesize[i] >= g[i].row
  BY <1>5, <1>8, <1>11
<1> QED
  BY <1>13, <1>14, <1>15 DEF b, g

LEMMA JudgedPlan ==
  ASSUME NEW s \in Still
  PROVE  /\ Works(JudgedPlanes(s), 0, {"pixels", "format", "bytes", "stride"})
         /\ Clear(JudgedPlanes(s)) =>
              /\ ~(Exported(GeometryOf(s)) > Ceiling.bytes)
              /\ \A i \in 1 .. Len(GeometryOf(s)) :
                   ~GeometryOf(s)[i].flat => s.linesize[i] >= GeometryOf(s)[i].row
         /\ \A part : Yield(JudgedPlanes(s), part) = <<>>
<1> DEFINE h == s.width * s.height > Ceiling.pixels
           j == GeometryOf(s) = <<>>
           k == Exported(GeometryOf(s)) > Ceiling.bytes
           p == Judge("pixels", h)
           q == Judge("format", j)
           r == Judge("bytes", k)
           t == FlattenSeq(StrideBlocks(s))
           Strides == \A i \in 1 .. Len(GeometryOf(s)) :
                        ~GeometryOf(s)[i].flat => s.linesize[i] >= GeometryOf(s)[i].row
<1>1. h \in BOOLEAN /\ j \in BOOLEAN /\ k \in BOOLEAN
  OBVIOUS
<1>2. JudgedPlanes(s) = ((p \o q) \o r) \o t
  BY DEF JudgedPlanes
<1>3. k <=> Exported(GeometryOf(s)) > Ceiling.bytes
  OBVIOUS
<1> HIDE DEF h, j, k
<1>4. /\ "pixels" \notin {"produced", "alloc"} /\ "format" \notin {"produced", "alloc"}
      /\ "bytes" \notin {"produced", "alloc"}
  OBVIOUS
<1>5. Works(p, 0, {"pixels"}) /\ Works(q, 0, {"format"}) /\ Works(r, 0, {"bytes"})
  BY <1>1, <1>4, WorksJudge
<1>6. Works(t, 0, {"stride"}) /\ (Clear(t) => Strides) /\ \A part : Yield(t, part) = <<>>
  BY StridesPlan
<1>7. Clear(r) <=> ~k
  BY <1>1, <1>4, JudgePlan
<1>8. \A part : Yield(p, part) = <<>> /\ Yield(q, part) = <<>> /\ Yield(r, part) = <<>>
  BY <1>1, <1>4, YieldJudge
<1> HIDE DEF p, q, r, t, Strides
<1>9. IsPlan(p) /\ IsPlan(q) /\ IsPlan(r) /\ IsPlan(t)
  BY <1>5, <1>6 DEF Works
<1> DEFINE u == p \o q
           v == u \o r
           w == v \o t
<1>10. Works(u, 0 + 0, {"pixels"} \cup {"format"}) /\ IsPlan(u)
  BY <1>5, <1>9, WorksCat, PlanCat
<1>11. \A part : Yield(u, part) = <<>>
  BY <1>8, <1>9, YieldPast
<1> HIDE DEF u
<1>12. Works(v, (0 + 0) + 0, ({"pixels"} \cup {"format"}) \cup {"bytes"}) /\ IsPlan(v)
       /\ (Clear(v) => ~k)
  BY <1>5, <1>7, <1>9, <1>10, WorksCat, PlanCat
<1>13. \A part : Yield(v, part) = <<>>
  BY <1>8, <1>9, <1>10, <1>11, YieldPast
<1> HIDE DEF v
<1>14. Works(w, ((0 + 0) + 0) + 0, (({"pixels"} \cup {"format"}) \cup {"bytes"}) \cup {"stride"})
  BY <1>6, <1>12, WorksCat
<1>15. Clear(w) => ~k /\ Strides
  BY <1>6, <1>9, <1>12, PlanCat
<1>16. \A part : Yield(w, part) = <<>>
  BY <1>6, <1>9, <1>12, <1>13, YieldPast
<1>17. ((0 + 0) + 0) + 0 = 0
       /\ (({"pixels"} \cup {"format"}) \cup {"bytes"}) \cup {"stride"}
            = {"pixels", "format", "bytes", "stride"}
  OBVIOUS
<1>18. JudgedPlanes(s) = w
  BY <1>2 DEF w, v, u
<1> HIDE DEF w
<1>19. Works(w, 0, {"pixels", "format", "bytes", "stride"})
  BY <1>14, <1>17
<1> QED
  BY <1>3, <1>15, <1>16, <1>18, <1>19 DEF Strides

\* The planes: judged all together, then copied one by one.
LEMMA CopiedPlan ==
  ASSUME NEW s \in Still
  PROVE  /\ CopyPlanes(s) = JudgedPlanes(s) \o FlattenSeq(CopyBlocks(s))
         /\ Works(FlattenSeq(CopyBlocks(s)), Exported(GeometryOf(s)), CopyFaults)
         /\ Clear(FlattenSeq(CopyBlocks(s))) =>
              \A i \in 1 .. Len(GeometryOf(s)) :
                s.at[i] # Null /\ Backed(s, s.at[i], Extent(s, GeometryOf(s)[i], i))
         /\ Yield(FlattenSeq(CopyBlocks(s)), "plane") =
              [i \in 1 .. Len(GeometryOf(s)) |-> Item("plane", i, Rows(s, GeometryOf(s)[i], i))]
         /\ \A part : part # "plane" => Yield(FlattenSeq(CopyBlocks(s)), part) = <<>>
<1> DEFINE g == GeometryOf(s)
           b == CopyBlocks(s)
           sums == Weights(g)
           v == [i \in 1 .. Len(g) |-> Item("plane", i, Rows(s, g[i], i))]
<1>0. CopyPlanes(s) = JudgedPlanes(s) \o FlattenSeq(CopyBlocks(s))
  BY DEF CopyPlanes, JudgedPlanes, CopyBlocks, StrideBlocks, Stride, GeometryOf
<1>1. IsSeq(g) /\ Len(g) \in Nat /\ DOMAIN g = 1 .. Len(g)
      /\ \A i \in 1 .. Len(g) : IsPlane(g[i])
  BY GeometryShape, SeqShape
<1>2. Exported(g) = Total(sums)
  BY DEF Exported, Weights
<1> HIDE DEF g
<1>3. b = [i \in 1 .. Len(g) |-> CopyPlane(s, g[i], i)]
  BY <1>1 DEF CopyBlocks, g
<1>4. \A i \in 1 .. Len(g) : b[i] = CopyPlane(s, g[i], i)
  BY <1>3
<1>5. b = [i \in 1 .. Len(g) |-> b[i]]
  BY <1>3
<1> HIDE DEF b
<1>6. IsSeq(b) /\ Len(b) = Len(g)
  BY <1>1, <1>5, FunctionIsSeq
<1>7. sums = [i \in 1 .. Len(g) |-> g[i].row * g[i].rows]
  BY <1>1 DEF Weights
<1>8. \A i \in 1 .. Len(g) : sums[i] = g[i].row * g[i].rows
  BY <1>7
<1>9. sums = [i \in 1 .. Len(g) |-> sums[i]]
  BY <1>7
<1>10. v = [i \in 1 .. Len(g) |-> v[i]]
       /\ \A i \in 1 .. Len(g) : v[i] = Item("plane", i, Rows(s, g[i], i))
  OBVIOUS
<1> HIDE DEF sums, v
<1>11. Len(sums) = Len(g)
  BY <1>1, <1>9, FunctionIsSeq
<1>12. IsSeq(v) /\ Len(v) = Len(g)
  BY <1>1, <1>10, FunctionIsSeq
<1> DEFINE F == CopyFaults
<1>13. \A n \in 1 .. Len(b) : Works(b[n], sums[n], F)
  BY <1>1, <1>4, <1>6, <1>8, CopyPlanePlan
<1> HIDE DEF F
<1>14. /\ Works(FlattenSeq(b), Total(sums), F) /\ Plans(b)
       /\ Clear(FlattenSeq(b)) <=> \A n \in 1 .. Len(b) : Clear(b[n])
  BY <1>6, <1>11, <1>13, WorksFlat
<1>15. Blocks(b)
  BY <1>14, PlansJoin
<1>16. ASSUME NEW n \in 1 .. Len(b)
       PROVE  /\ Yield(b[n], "plane") = <<v[n]>>
              /\ \A part : part # "plane" => Yield(b[n], part) = <<>>
  <2>1. b[n] = CopyPlane(s, g[n], n) /\ v[n] = Item("plane", n, Rows(s, g[n], n)) /\ IsPlane(g[n])
    BY <1>1, <1>4, <1>6, <1>10
  <2>2. Yield(CopyPlane(s, g[n], n), "plane") = <<Item("plane", n, Rows(s, g[n], n))>>
    BY <2>1, CopyPlanePlan
  <2>3. \A part : part # "plane" => Yield(CopyPlane(s, g[n], n), part) = <<>>
    BY <2>1, CopyPlanePlan
  <2> QED
    BY <2>1, <2>2, <2>3
<1>17. Yield(FlattenSeq(b), "plane") = v
  <2>1. Len(v) = Len(b)
    BY <1>6, <1>12
  <2> QED
    BY <1>12, <1>15, <1>16, <2>1, YieldSingles
<1>18. ASSUME NEW part, part # "plane" PROVE Yield(FlattenSeq(b), part) = <<>>
  <2>1. \A n \in 1 .. Len(b) : Yield(b[n], part) = <<>>
    BY <1>16, <1>18
  <2> QED
    BY <1>15, <2>1, YieldFlatNone
<1>19. Clear(FlattenSeq(b)) =>
         \A i \in 1 .. Len(g) : s.at[i] # Null /\ Backed(s, s.at[i], Extent(s, g[i], i))
  BY <1>1, <1>4, <1>6, <1>14, CopyPlanePlan
<1> QED
  BY <1>0, <1>2, <1>14, <1>17, <1>18, <1>19 DEF b, g, v, F

\* A still: what it may cost, where it may end, and what a whole one holds.
LEMMA StillPlanOutcome ==
  ASSUME NEW s \in Still
  PROVE  /\ IsPlan(StillPlan(s))
         /\ \A m, f : Ending(StillPlan(s), m, f) =>
              /\ m <= Ceiling.bytes + Ceiling.stillSide
              /\ f \notin {"alloc", "pointer", "unbacked"} => m = 0
         /\ Clear(StillPlan(s)) =>
              /\ Paid(StillPlan(s)) <= Ceiling.bytes + Ceiling.stillSide
              /\ \A i \in 1 .. Len(GeometryOf(s)) :
                   /\ s.at[i] # Null /\ Backed(s, s.at[i], Extent(s, GeometryOf(s)[i], i))
                   /\ ~GeometryOf(s)[i].flat => s.linesize[i] >= GeometryOf(s)[i].row
         /\ Yield(StillPlan(s), "plane") =
              [i \in 1 .. Len(GeometryOf(s)) |-> Item("plane", i, Rows(s, GeometryOf(s)[i], i))]
         /\ Yield(StillPlan(s), "rect") = <<Item("rect", 0, VisibleRect(s))>>
         /\ \A x : x \in Range(Yield(StillPlan(s), "side")) <=>
              \E i \in 1 .. Len(s.side) : s.side[i] # Null /\ x = Item("side", i, <<>>)
         /\ Yield(StillPlan(s), "text") = <<>>
<1> DEFINE h == s.width < 0 \/ s.height < 0
           g == GeometryOf(s)
           v == [i \in 1 .. Len(g) |-> Item("plane", i, Rows(s, g[i], i))]
           rect == Item("rect", 0, VisibleRect(s))
           d == Judge("dimensions", h)
           M == MeasureSide(s.side)
           a == JudgedPlanes(s)
           c == FlattenSeq(CopyBlocks(s))
           e == Give(rect)
           k == CollectSide(s.side)
           B == Exported(g)
           S == SideBytes(s.side)
           Strides == \A i \in 1 .. Len(g) : ~g[i].flat => s.linesize[i] >= g[i].row
           Stands == \A i \in 1 .. Len(g) : s.at[i] # Null /\ Backed(s, s.at[i], Extent(s, g[i], i))
           top == Ceiling.bytes + Ceiling.stillSide
           Owed(x) == \E i \in 1 .. Len(s.side) : s.side[i] # Null /\ x = Item("side", i, <<>>)
<1>1. h \in BOOLEAN /\ "dimensions" \notin {"produced", "alloc"}
  OBVIOUS
<1>2. IsSide(s.side)
  BY StillFields
<1>3. StillPlan(s) = ((((d \o M) \o (a \o c)) \o e) \o M) \o k
  BY CopiedPlan DEF StillPlan
<1>4. Ceiling.bytes \in Nat /\ Ceiling.stillSide \in Nat
  BY CeilingNat DEF CeilingNames
<1> HIDE DEF h
<1>5. Works(d, 0, {"dimensions"}) /\ \A part : Yield(d, part) = <<>>
  BY <1>1, WorksJudge, YieldJudge
<1>6. Works(M, 0, {"entries", "side"}) /\ (Clear(M) => S <= Ceiling.stillSide)
      /\ \A part : Yield(M, part) = <<>>
  BY <1>2, MeasurePlan
<1>7. Works(a, 0, {"pixels", "format", "bytes", "stride"})
      /\ (Clear(a) => ~(B > Ceiling.bytes) /\ Strides)
      /\ \A part : Yield(a, part) = <<>>
  BY JudgedPlan
<1>8. Works(c, B, CopyFaults) /\ (Clear(c) => Stands)
      /\ Yield(c, "plane") = v /\ \A part : part # "plane" => Yield(c, part) = <<>>
  BY CopiedPlan
<1>9. rect # Scratch /\ rect.part = "rect"
  BY DEF Item, Scratch
<1> HIDE DEF rect
<1>10. Works(e, 0, {}) /\ Yield(e, "rect") = <<rect>> /\ \A part : part # "rect" => Yield(e, part) = <<>>
  <2>1. Works(e, 0, {})
    BY GivePlan DEF Works
  <2>2. \A part : Yield(e, part) = Fits(rect, part)
    BY <1>9, YieldGive
  <2> HIDE DEF e
  <2> QED
    BY <1>9, <2>1, <2>2 DEF Fits
<1>11. Works(k, S, {"alloc"}) /\ (\A x : x \in Range(Yield(k, "side")) <=> Owed(x))
       /\ \A part : part # "side" => Yield(k, part) = <<>>
  BY <1>2, CollectSidePlan DEF Works
<1> HIDE DEF d, M, a, c, e, k, B, S, Strides, Stands, v, Owed, g
<1>12. B \in Nat /\ S \in Nat
  BY <1>8, <1>11, WorksNat
<1>13. IsPlan(d) /\ IsPlan(M) /\ IsPlan(a) /\ IsPlan(c) /\ IsPlan(e) /\ IsPlan(k)
  BY <1>5, <1>6, <1>7, <1>8, <1>10, <1>11 DEF Works
<1> DEFINE p1 == d \o M
           p2 == a \o c
           p3 == p1 \o p2
           p4 == p3 \o e
           p5 == p4 \o M
           p6 == p5 \o k
<1>14. IsPlan(p1) /\ IsPlan(p2)
  BY <1>13, PlanCat
<1>15. IsPlan(p3)
  BY <1>14, PlanCat
<1>16. IsPlan(p4)
  BY <1>13, <1>15, PlanCat
<1>17. IsPlan(p5)
  BY <1>13, <1>16, PlanCat
<1>18. IsPlan(p6)
  BY <1>13, <1>17, PlanCat
<1>20. Paid(p1) = 0 /\ Paid(p2) = B
  <2>1. Paid(d) = 0 /\ Paid(M) = 0 /\ Paid(a) = 0 /\ Paid(c) = B
    BY <1>5, <1>6, <1>7, <1>8 DEF Works
  <2>2. Paid(p1) = Paid(d) + Paid(M)
    BY <1>13, PaidCat
  <2>3. Paid(p2) = Paid(a) + Paid(c)
    BY <1>13, PaidCat
  <2> QED
    BY <2>1, <2>2, <2>3, <1>12
<1>21. Paid(p3) = B
  <2>1. Paid(p3) = Paid(p1) + Paid(p2)
    BY <1>14, PaidCat
  <2> QED
    BY <2>1, <1>20, <1>12
<1>22. Paid(p4) = B
  <2>1. Paid(p4) = Paid(p3) + Paid(e) /\ Paid(e) = 0
    BY <1>13, <1>15, <1>10, PaidCat DEF Works
  <2> QED
    BY <2>1, <1>21, <1>12
<1>23. Paid(p5) = B
  <2>1. Paid(p5) = Paid(p4) + Paid(M) /\ Paid(M) = 0
    BY <1>13, <1>16, <1>6, PaidCat DEF Works
  <2> QED
    BY <2>1, <1>22, <1>12
<1>24. Paid(p6) = B + S
  <2>1. Paid(p6) = Paid(p5) + Paid(k) /\ Paid(k) = S
    BY <1>13, <1>17, <1>11, PaidCat DEF Works
  <2> QED
    BY <2>1, <1>23, <1>12
<1>30. Clear(p1) => Clear(M)
  BY <1>13, PlanCat
<1>31. Clear(p2) => Clear(a) /\ Clear(c)
  BY <1>13, PlanCat
<1>32. Clear(p3) => Clear(p1) /\ Clear(p2)
  BY <1>14, PlanCat
<1>33. Clear(p4) => Clear(p3)
  BY <1>13, <1>15, PlanCat
<1>34. Clear(p5) => Clear(p4)
  BY <1>13, <1>16, PlanCat
<1>35. Clear(p6) => Clear(p5)
  BY <1>13, <1>17, PlanCat
<1> DEFINE Low(m, f) == m <= top /\ (f \notin {"alloc", "pointer", "unbacked"} => m = 0)
<1>40. ASSUME NEW m, NEW f, Ending(p1, m, f) PROVE Low(m, f)
  <2>1. Works(p1, 0 + 0, {"dimensions"} \cup {"entries", "side"})
    BY <1>5, <1>6, WorksCat
  <2>2. m \in Nat /\ m <= 0 + 0
    BY <1>40, <2>1, WorksEnding
  <2> QED
    BY <1>4, <2>2
<1>41. ASSUME NEW m, NEW f, Ending(p2, m, f) PROVE Low(m, f) /\ m \in Nat
  <2>1. Ending(a, m, f) \/ (Clear(a) /\ \E n : Ending(c, n, f) /\ m = Paid(a) + n)
    BY <1>13, <1>41, EndingCat
  <2>2. CASE Ending(a, m, f)
    <3>1. m \in Nat /\ m <= 0
      BY <1>7, <2>2, WorksEnding
    <3> QED
      BY <1>4, <3>1
  <2>3. CASE Clear(a) /\ \E n : Ending(c, n, f) /\ m = Paid(a) + n
    <3>1. PICK n : Ending(c, n, f) /\ m = Paid(a) + n
      BY <2>3
    <3>2. n \in Nat /\ n <= B /\ f \in {"pointer", "unbacked", "alloc"}
      BY <1>8, <3>1, WorksEnding DEF CopyFaults
    <3>3. Paid(a) = 0
      BY <1>7 DEF Works
    <3>4. m = n /\ ~(B > Ceiling.bytes)
      BY <1>7, <2>3, <3>1, <3>2, <3>3
    <3> QED
      BY <1>4, <1>12, <3>2, <3>4
  <2> QED
    BY <2>1, <2>2, <2>3
<1>42. ASSUME NEW m, NEW f, Ending(p3, m, f) PROVE Low(m, f)
  <2>1. Ending(p1, m, f) \/ \E n : Ending(p2, n, f) /\ m = Paid(p1) + n
    BY <1>14, <1>42, EndingCat
  <2>2. CASE Ending(p1, m, f)
    BY <1>40, <2>2
  <2>3. CASE \E n : Ending(p2, n, f) /\ m = Paid(p1) + n
    <3>1. PICK n : Ending(p2, n, f) /\ m = Paid(p1) + n
      BY <2>3
    <3>2. Low(n, f) /\ n \in Nat
      BY <1>41, <3>1
    <3>3. m = n
      BY <1>20, <3>1, <3>2
    <3> QED
      BY <3>2, <3>3
  <2> QED
    BY <2>1, <2>2, <2>3
<1>43. ASSUME NEW m, NEW f, Ending(p4, m, f) PROVE Low(m, f)
  <2>1. Ending(p3, m, f) \/ \E n : Ending(e, n, f)
    BY <1>13, <1>15, <1>43, EndingCat
  <2>2. \A n : ~Ending(e, n, f)
    BY <1>10 DEF Works
  <2> QED
    BY <1>42, <2>1, <2>2
<1>44. ASSUME NEW m, NEW f, Ending(p5, m, f) PROVE Low(m, f)
  <2>1. Ending(p4, m, f) \/ (Clear(p4) /\ \E n : Ending(M, n, f))
    BY <1>13, <1>16, <1>44, EndingCat
  <2>2. CASE Clear(p4) /\ \E n : Ending(M, n, f)
    <3>1. Clear(M)
      BY <2>2, <1>30, <1>32, <1>33
    <3>2. f = "alloc" /\ f \in {"entries", "side"}
      BY <2>2, <3>1, <1>6, ClearEnding DEF Works
    <3> QED
      BY <3>2
  <2> QED
    BY <1>43, <2>1, <2>2
<1>45. ASSUME NEW m, NEW f, Ending(p6, m, f) PROVE Low(m, f)
  <2>1. Ending(p5, m, f) \/ (Clear(p5) /\ \E n : Ending(k, n, f) /\ m = Paid(p5) + n)
    BY <1>13, <1>17, <1>45, EndingCat
  <2>2. CASE Clear(p5) /\ \E n : Ending(k, n, f) /\ m = Paid(p5) + n
    <3>1. PICK n : Ending(k, n, f) /\ m = Paid(p5) + n
      BY <2>2
    <3>2. n \in Nat /\ n <= S /\ f = "alloc"
      <4>1. f \in {"alloc"} /\ n \in Nat /\ n <= S
        BY <1>11, <3>1, WorksEnding
      <4> QED
        BY <4>1
    <3>3. Clear(M) /\ Clear(a)
      BY <2>2, <1>30, <1>31, <1>32, <1>33, <1>34
    <3>4. S <= Ceiling.stillSide /\ ~(B > Ceiling.bytes)
      BY <1>6, <1>7, <3>3
    <3>5. m = B + n
      BY <1>23, <3>1
    <3> QED
      BY <1>4, <1>12, <3>2, <3>4, <3>5
  <2> QED
    BY <1>44, <2>1, <2>2
<1>46. ASSUME Clear(p6) PROVE Paid(p6) <= top /\ Strides /\ Stands
  <2>1. Clear(M) /\ Clear(a) /\ Clear(c)
    BY <1>46, <1>30, <1>31, <1>32, <1>33, <1>34, <1>35
  <2>2. S <= Ceiling.stillSide /\ ~(B > Ceiling.bytes) /\ Strides /\ Stands
    BY <1>6, <1>7, <1>8, <2>1
  <2>3. B + S <= Ceiling.bytes + Ceiling.stillSide
    BY <1>4, <1>12, <2>2
  <2> QED
    BY <1>24, <2>2, <2>3
<1>50. \A part : Yield(p1, part) = <<>>
  BY <1>5, <1>6, <1>13, YieldPast
<1>51. \A part : Yield(p2, part) = Yield(c, part)
  BY <1>7, <1>13, YieldPast
<1> HIDE DEF p1, p2
<1>52. \A part : Yield(p3, part) = Yield(c, part)
  BY <1>14, <1>50, <1>51, YieldPast
<1> HIDE DEF p3
<1>53. Yield(p4, "rect") = <<rect>> /\ \A part : part # "rect" => Yield(p4, part) = Yield(c, part)
  <2>1. Yield(p4, "rect") = Yield(e, "rect")
    <3>1. Yield(p3, "rect") = <<>>
      BY <1>8, <1>52
    <3> QED
      BY <1>13, <1>15, <3>1, YieldPast
  <2>2. ASSUME NEW part, part # "rect" PROVE Yield(p4, part) = Yield(c, part)
    <3>1. Yield(e, part) = <<>>
      BY <1>10, <2>2
    <3>2. Yield(p4, part) = Yield(p3, part)
      BY <1>13, <1>15, <3>1, YieldPast
    <3> QED
      BY <3>2, <1>52
  <2> QED
    BY <1>10, <2>1, <2>2
<1> HIDE DEF p4
<1>54. \A part : Yield(p5, part) = Yield(p4, part)
  BY <1>6, <1>13, <1>16, YieldPast
<1> HIDE DEF p5
<1>55. \A part : part # "side" => Yield(p6, part) = Yield(p4, part)
  BY <1>11, <1>13, <1>17, <1>54, YieldPast
<1>56. Yield(p6, "side") = Yield(k, "side")
  <2>1. Yield(p5, "side") = <<>>
    BY <1>8, <1>53, <1>54
  <2> QED
    BY <1>13, <1>17, <2>1, YieldPast
<1>57. Yield(p6, "plane") = v /\ Yield(p6, "rect") = <<rect>>
       /\ (\A x : x \in Range(Yield(p6, "side")) <=> Owed(x))
       /\ Yield(p6, "text") = <<>>
  BY <1>8, <1>11, <1>53, <1>55, <1>56
<1>58. StillPlan(s) = p6
  BY <1>3 DEF p6, p5, p4, p3, p2, p1
<1> HIDE DEF p6
<1> QED
  BY <1>18, <1>45, <1>46, <1>57, <1>58 DEF Strides, Stands, v, Owed, g, rect

LEMMA PartNone ==
  ASSUME NEW part
  PROVE  Part(<<>>, part) = <<>>
<1>1. IsSeq(<<>>) /\ Range(<<>>) = {}
  BY NoSeq
<1>2. IsSeq(Part(<<>>, part)) /\ \A x : x \notin Range(Part(<<>>, part))
  BY <1>1, PartRange
<1> QED
  BY <1>2, NothingIn

\* Whatever a conversion comes to, it got past its plan or ended on the way.
LEMMA ConversionOutcome ==
  ASSUME NEW s, s.medium \in {"image", "audio"}, IsPlan(Plan(s)), NEW c \in Conversions(s)
  PROVE  /\ c.source = s
         /\ \/ /\ Produced(c) /\ Clear(Plan(s)) /\ c.paid = Paid(Plan(s))
               /\ \A part : Of(c, part) = Yield(Plan(s), part)
            \/ /\ ~Produced(c) /\ Ending(Plan(s), c.paid, c.verdict)
               /\ \A part : Of(c, part) = <<>>
<1> DEFINE p == Plan(s)
<1>1. PICK refused \in {0} \cup Buys(p) :
        c = [source |-> s, verdict |-> Follows(p, refused).verdict,
             paid |-> Follows(p, refused).paid,
             carried |-> IF s.medium = "subtitle" THEN Payload(s, Follows(p, refused).carried)
                         ELSE Follows(p, refused).carried]
  BY DEF Conversions
<1> HIDE DEF p
<1> DEFINE d == Follows(p, refused)
<1>2. \/ /\ d.verdict = "produced" /\ Clear(p) /\ d.carried = Carried(p) /\ d.paid = Paid(p)
      \/ /\ d.verdict # "produced" /\ d.carried = <<>> /\ Ending(p, d.paid, d.verdict)
  BY FollowsOutcome DEF p
<1>3. s.medium # "subtitle"
  OBVIOUS
<1>4. c = [source |-> s, verdict |-> d.verdict, paid |-> d.paid, carried |-> d.carried]
  BY <1>1, <1>3
<1> HIDE DEF d
<1>5. c.source = s /\ c.verdict = d.verdict /\ c.paid = d.paid /\ c.carried = d.carried
  BY <1>4
<1>6. \A part : Of(c, part) = Part(c.carried, part)
  BY DEF Of, Part, FitsOf, Fits
<1>7. CASE d.verdict = "produced"
  <2>1. c.carried = Carried(p) /\ Clear(p) /\ c.paid = Paid(p) /\ Produced(c)
    BY <1>2, <1>5, <1>7 DEF Produced
  <2>2. \A part : Of(c, part) = Yield(p, part)
    BY <1>6, <2>1 DEF Yield
  <2> QED
    BY <1>5, <2>1, <2>2 DEF p
<1>8. CASE d.verdict # "produced"
  <2>1. c.carried = <<>> /\ Ending(p, c.paid, c.verdict) /\ ~Produced(c)
    BY <1>2, <1>5, <1>8 DEF Produced
  <2>2. \A part : Of(c, part) = <<>>
    BY <1>6, <2>1, PartNone
  <2> QED
    BY <1>5, <2>1, <2>2 DEF p
<1> QED
  BY <1>7, <1>8

Written(s, g, i, bytes) ==
  /\ IsSeq(bytes) /\ Len(bytes) = g.row * g.rows
  /\ \A n \in 1 .. g.row * g.rows : Backed(s, bytes[n], 1)
  /\ g.flat => \A n \in 1 .. g.row * g.rows : bytes[n] = s.at[i] + n - 1
  /\ ~g.flat => \A r \in 0 .. g.rows - 1, b \in 0 .. g.row - 1 :
       bytes[r * g.row + b + 1] = Pixel(s, i, r, b)

\* The bytes of a plane: each is the producer's, and each is in its place.
LEMMA RowsWritten ==
  ASSUME NEW s, NEW g, IsPlane(g), NEW i, s.at[i] \in Nat, s.linesize[i] \in Int,
         s.buffers \in Backing,
         ~g.flat => s.linesize[i] >= g.row, Backed(s, s.at[i], Extent(s, g, i))
  PROVE  Written(s, g, i, Rows(s, g, i))
<1> DEFINE row == g.row
           rows == g.rows
           at == s.at[i]
           pitch == Pitch(s, g, i)
           all == row * rows
           x == Rows(s, g, i)
<1>1. row \in Nat /\ rows \in Nat /\ (g.flat => rows = 1) /\ (~g.flat => row > 0 /\ rows > 0)
      /\ g.flat \in BOOLEAN
  BY DEF IsPlane
<1>2. at \in Nat
  OBVIOUS
<1>3. pitch \in Nat /\ pitch >= row /\ (g.flat => pitch = row) /\ (~g.flat => pitch = s.linesize[i])
  BY <1>1 DEF Pitch
<1>4. x = [n \in 1 .. all |-> at + ((n - 1) \div row) * pitch + ((n - 1) % row)]
  BY DEF Rows
<1>5. Extent(s, g, i) = (rows - 1) * pitch + row
  BY DEF Extent
<1>6. PICK w \in s.buffers : w.start <= at /\ at + ((rows - 1) * pitch + row) <= w.start + w.size
  BY <1>5 DEF Backed
<1>7. w.start \in Nat /\ w.size \in Nat
  BY <1>6 DEF Backing
<1>8. \A r, b : Pixel(s, i, r, b) = at + r * s.linesize[i] + b
  BY DEF Pixel
<1>9. rows >= 1
  BY <1>1
<1> HIDE DEF row, rows, at, pitch, x
<1>10. all \in Nat
  BY <1>1, ProductNat
<1>11. x = [n \in 1 .. all |-> x[n]]
       /\ \A n \in 1 .. all : x[n] = at + ((n - 1) \div row) * pitch + ((n - 1) % row)
  BY <1>4
<1>12. IsSeq(x) /\ Len(x) = all
  BY <1>10, <1>11, FunctionIsSeq
<1>13. ASSUME NEW n \in 1 .. all
       PROVE  /\ Backed(s, x[n], 1)
              /\ rows = 1 => x[n] = at + n - 1
  <2> DEFINE q == (n - 1) \div row
             r == (n - 1) % row
             far == (rows - 1) * pitch
             near == q * pitch
  <2>1. row > 0
    <3>1. SUFFICES ASSUME row = 0 PROVE FALSE
      BY <1>1
    <3>2. all = 0
      BY <1>1, <3>1
    <3> QED
      BY <1>13, <3>2
  <2>2. q \in 0 .. rows - 1 /\ r \in 0 .. row - 1 /\ n - 1 = q * row + r
    BY <1>1, <2>1, Position
  <2>3. x[n] = at + near + r
    BY <1>11
  <2> HIDE DEF q, r
  <2>4. near \in Nat /\ far \in Nat
    BY <1>1, <1>3, <1>9, <2>2, ProductNat
  <2>5. near <= far
    BY <1>1, <1>3, <1>9, <2>2, ProductGrows
  <2>6. w.start <= at /\ at + (far + row) <= w.start + w.size
    BY <1>6
  <2>7. ASSUME rows = 1 PROVE n - 1 = r /\ near = 0
    <3>1. q = 0
      BY <2>2, <2>7
    <3>2. q * row = 0 /\ near = 0
      BY <1>1, <1>3, <3>1
    <3> QED
      BY <2>2, <3>2
  <2> HIDE DEF near, far
  <2>8. w.start <= x[n] /\ x[n] + 1 <= w.start + w.size
    BY <1>1, <1>2, <1>7, <2>2, <2>3, <2>4, <2>5, <2>6
  <2>9. rows = 1 => x[n] = at + n - 1
    BY <1>2, <2>2, <2>3, <2>7
  <2> QED
    BY <1>6, <2>8, <2>9 DEF Backed
<1>14. ASSUME ~g.flat, NEW r \in 0 .. rows - 1, NEW b \in 0 .. row - 1
       PROVE  x[r * row + b + 1] = Pixel(s, i, r, b)
  <2> DEFINE n == r * row + b + 1
  <2>1. row > 0
    BY <1>1, <1>14
  <2>2. n \in 1 .. all /\ (n - 1) \div row = r /\ (n - 1) % row = b
    BY <1>1, <2>1, Place
  <2> HIDE DEF n
  <2>3. x[n] = at + r * pitch + b
    BY <1>11, <2>2
  <2>4. x[n] = Pixel(s, i, r, b)
    BY <1>3, <1>8, <1>14, <2>3
  <2> QED
    BY <2>4 DEF n
<1> QED
  BY <1>1, <1>12, <1>13, <1>14 DEF x, row, rows, at, Written

\* The planes of a whole still are those of its geometry, each as it was written.
LEMMA StillWritten ==
  ASSUME NEW s \in Still, NEW c, c.source = s, Clear(StillPlan(s)),
         \A part : Of(c, part) = Yield(StillPlan(s), part)
  PROVE  ExposesWritten(c)
<1> DEFINE g == GeometryOf(s)
           v == [i \in 1 .. Len(g) |-> Item("plane", i, Rows(s, g[i], i))]
           planes == Of(c, "plane")
<1>1. planes = v
  BY StillPlanOutcome
<1>2. \A i \in 1 .. Len(g) :
        /\ s.at[i] # Null /\ Backed(s, s.at[i], Extent(s, g[i], i))
        /\ ~g[i].flat => s.linesize[i] >= g[i].row
  BY StillPlanOutcome
<1>3. Len(g) \in 0 .. 2 /\ \A i \in 1 .. Len(g) : IsPlane(g[i])
  BY GeometryShape
<1>4. s.medium = "image" /\ s.buffers \in Backing
      /\ \A i \in 1 .. 2 : s.linesize[i] \in Int /\ s.at[i] \in Nat \cup {Null}
  BY StillFields DEF Still
<1>5. g = Geometry(s.format, s.width, s.height)
  BY DEF GeometryOf
<1> HIDE DEF g, planes
<1>6. ASSUME NEW k \in DOMAIN planes
      PROVE  LET bytes == planes[k].bytes
                 e == g[k]
             IN  /\ planes[k].at = k
                 /\ Len(bytes) = e.row * e.rows
                 /\ \A n \in DOMAIN bytes : Backed(s, bytes[n], 1)
                 /\ IF e.flat
                      THEN \A n \in DOMAIN bytes : bytes[n] = s.at[k] + n - 1
                      ELSE \A r \in 0 .. e.rows - 1, b \in 0 .. e.row - 1 :
                             bytes[r * e.row + b + 1] = Pixel(s, k, r, b)
  <2> DEFINE e == g[k]
             x == Rows(s, e, k)
  <2>1. k \in 1 .. Len(g) /\ planes[k] = Item("plane", k, x) /\ k \in 1 .. 2
    BY <1>1, <1>3, <1>6
  <2>2. planes[k].at = k /\ planes[k].bytes = x
    BY <2>1 DEF Item
  <2>3. IsPlane(e) /\ s.at[k] \in Nat /\ s.linesize[k] \in Int
        /\ (~e.flat => s.linesize[k] >= e.row) /\ Backed(s, s.at[k], Extent(s, e, k))
    BY <1>2, <1>3, <1>4, <2>1
  <2> HIDE DEF e
  <2> DEFINE all == e.row * e.rows
  <2>4. /\ IsSeq(x) /\ Len(x) = all
        /\ \A n \in 1 .. all : Backed(s, x[n], 1)
        /\ e.flat => \A n \in 1 .. all : x[n] = s.at[k] + n - 1
        /\ ~e.flat => \A r \in 0 .. e.rows - 1, b \in 0 .. e.row - 1 :
             x[r * e.row + b + 1] = Pixel(s, k, r, b)
    <3>1. Written(s, e, k, x)
      BY <1>4, <2>3, RowsWritten
    <3> HIDE DEF x
    <3> QED
      BY <3>1 DEF Written
  <2> HIDE DEF x
  <2>8. DOMAIN x = 1 .. all
    BY <2>4, SeqShape
  <2> HIDE DEF all
  <2>9. /\ \A n \in DOMAIN x : Backed(s, x[n], 1)
        /\ IF e.flat THEN \A n \in DOMAIN x : x[n] = s.at[k] + n - 1
           ELSE \A r \in 0 .. e.rows - 1, b \in 0 .. e.row - 1 :
                  x[r * e.row + b + 1] = Pixel(s, k, r, b)
    BY <2>4, <2>8
  <2> QED
    BY <2>2, <2>4, <2>9 DEF e, all
<1> QED
  BY <1>4, <1>5, <1>6 DEF ExposesWritten, planes

LEMMA StillCarries ==
  ASSUME NEW s \in Still, NEW c, c.source = s,
         \A part : Of(c, part) = Yield(StillPlan(s), part)
  PROVE  CarriesAll(c)
<1> DEFINE g == GeometryOf(s)
           v == [i \in 1 .. Len(g) |-> Item("plane", i, Rows(s, g[i], i))]
           Owed(x) == \E i \in 1 .. Len(s.side) : s.side[i] # Null /\ x = Item("side", i, <<>>)
           owed == {i \in DOMAIN s.side : s.side[i] # Null}
           held(part) == {i.at : i \in Range(Of(c, part))}
<1>1. Of(c, "plane") = v /\ \A x : x \in Range(Of(c, "side")) <=> Owed(x)
  BY StillPlanOutcome
<1>2. IsSeq(g) /\ DOMAIN g = 1 .. Len(g)
  BY GeometryShape, SeqShape
<1>3. s.medium = "image" /\ DOMAIN s.side = 1 .. Len(s.side)
  BY StillFields, SeqShape DEF IsSide
<1>4. held("side") = owed
  <2>1. \A i : Item("side", i, <<>>).at = i
    BY SideItem
  <2>2. \A j : j \in held("side") <=> \E x : x \in Range(Of(c, "side")) /\ j = x.at
    OBVIOUS
  <2> HIDE DEF held
  <2>3. ASSUME NEW j
        PROVE  j \in held("side") <=> \E i \in 1 .. Len(s.side) : s.side[i] # Null /\ j = i
    <3>1. ASSUME j \in held("side") PROVE \E i \in 1 .. Len(s.side) : s.side[i] # Null /\ j = i
      <4>1. PICK x : x \in Range(Of(c, "side")) /\ j = x.at
        BY <2>2, <3>1
      <4>2. PICK i \in 1 .. Len(s.side) : s.side[i] # Null /\ x = Item("side", i, <<>>)
        BY <1>1, <4>1
      <4> QED
        BY <2>1, <4>1, <4>2
    <3>2. ASSUME NEW i \in 1 .. Len(s.side), s.side[i] # Null, j = i PROVE j \in held("side")
      <4>1. Item("side", i, <<>>) \in Range(Of(c, "side"))
        BY <1>1, <3>2
      <4> QED
        BY <2>1, <2>2, <3>2, <4>1
    <3> QED
      BY <3>1, <3>2
  <2>4. \A j : j \in held("side") <=> j \in owed
    BY <1>3, <2>3
  <2> QED
    BY <2>4
<1>5. held("plane") = DOMAIN g
  <2>1. \A i \in 1 .. Len(g) : v[i].at = i
    BY DEF Item
  <2>2. DOMAIN v = 1 .. Len(g)
    OBVIOUS
  <2> HIDE DEF v, g
  <2>3. Range(Of(c, "plane")) = {v[i] : i \in 1 .. Len(g)}
    BY <1>1, <2>2 DEF Range
  <2>4. \A j : j \in held("plane") <=> \E i \in 1 .. Len(g) : j = v[i].at
    BY <2>3
  <2> HIDE DEF held
  <2>5. \A j : j \in held("plane") <=> j \in 1 .. Len(g)
    BY <2>1, <2>4
  <2>6. held("plane") = 1 .. Len(g)
    BY <2>5, Zenon
  <2> QED
    BY <1>2, <2>6 DEF g
<1>6. g = Geometry(s.format, s.width, s.height)
  BY DEF GeometryOf
<1> HIDE DEF g, v
<1> QED
  BY <1>3, <1>4, <1>5, <1>6 DEF CarriesAll

LEMMA VisibleInside ==
  ASSUME NEW s \in Still, VisibleRect(s) # NoRect
  PROVE  /\ VisibleRect(s)[3] > 0 /\ VisibleRect(s)[1] + VisibleRect(s)[3] <= s.width
         /\ VisibleRect(s)[4] > 0 /\ VisibleRect(s)[2] + VisibleRect(s)[4] <= s.height
<1> DEFINE left == s.crop.left
           right == s.crop.right
           upper == s.crop.top
           bottom == s.crop.bottom
           w == s.width
           h == s.height
           rect == <<left, upper, w - (left + right), h - (upper + bottom)>>
<1>1. left \in Nat /\ right \in Nat /\ upper \in Nat /\ bottom \in Nat /\ w \in Int /\ h \in Int
  BY DEF Still
<1>2. VisibleRect(s) = rect /\ ~(left + right >= w) /\ ~(upper + bottom >= h)
  BY DEF VisibleRect
<1> HIDE DEF left, right, upper, bottom, w, h
<1>3. rect[1] = left /\ rect[2] = upper /\ rect[3] = w - (left + right)
      /\ rect[4] = h - (upper + bottom)
  OBVIOUS
<1>4. rect[3] > 0 /\ rect[1] + rect[3] <= w /\ rect[4] > 0 /\ rect[2] + rect[4] <= h
  BY <1>1, <1>2, <1>3
<1> QED
  BY <1>2, <1>4 DEF w, h

LEMMA StillRect ==
  ASSUME NEW s \in Still, NEW c, c.source = s,
         \A part : Of(c, part) = Yield(StillPlan(s), part)
  PROVE  RectInside(c)
<1> DEFINE item == Item("rect", 0, VisibleRect(s))
<1>1. Of(c, "rect") = <<item>>
  BY StillPlanOutcome
<1>2. item.bytes = VisibleRect(s)
  BY DEF Item
<1>3. DOMAIN <<item>> = 1 .. 1 /\ <<item>>[1] = item /\ \A k \in 1 .. 1 : k = 1
  BY OneSeq
<1> HIDE DEF item
<1>4. \A k \in DOMAIN Of(c, "rect") : Of(c, "rect")[k].bytes = VisibleRect(s)
  BY <1>1, <1>2, <1>3
<1> QED
  BY <1>4, VisibleInside DEF RectInside

LEMMA NothingOf ==
  ASSUME NEW c, \A part : Of(c, part) = <<>>, ~Produced(c)
  PROVE  ExposesWritten(c) /\ CarriesAll(c) /\ TextWithin(c) /\ RectInside(c)
<1>1. DOMAIN <<>> = {}
  OBVIOUS
<1>2. TextWithin(c)
  BY <1>1 DEF TextWithin
<1> QED
  BY <1>2 DEF ExposesWritten, CarriesAll, RectInside

\* Every conversion of a still is honest.
LEMMA StillHonest ==
  ASSUME NEW s \in Still, NEW c \in Conversions(s)
  PROVE  Honest(c)
<1>1. s.medium = "image"
  BY StillFields
<1>2. Plan(s) = StillPlan(s)
  BY <1>1 DEF Plan
<1>3. IsPlan(StillPlan(s)) /\ Yield(StillPlan(s), "text") = <<>>
  BY StillPlanOutcome
<1>4. Ceiling.bytes \in Nat /\ Ceiling.stillSide \in Nat
  BY CeilingNat DEF CeilingNames
<1> DEFINE top == Ceiling.bytes + Ceiling.stillSide
<1>5. ASSUME c.source = s, c.paid <= top,
             c.verdict \notin {"produced", "alloc", "pointer", "unbacked"} => c.paid = 0
      PROVE  PaysWithin(c)
  BY <1>1, <1>5 DEF PaysWithin
<1>6. \/ /\ Produced(c) /\ Clear(StillPlan(s)) /\ c.paid = Paid(StillPlan(s))
         /\ \A part : Of(c, part) = Yield(StillPlan(s), part)
      \/ /\ ~Produced(c) /\ Ending(StillPlan(s), c.paid, c.verdict)
         /\ \A part : Of(c, part) = <<>>
  BY <1>1, <1>2, <1>3, ConversionOutcome
<1>7. c.source = s
  BY <1>1, <1>2, <1>3, ConversionOutcome
<1>8. CASE /\ Produced(c) /\ Clear(StillPlan(s)) /\ c.paid = Paid(StillPlan(s))
           /\ \A part : Of(c, part) = Yield(StillPlan(s), part)
  <2>1. Paid(StillPlan(s)) <= top
    BY <1>8, StillPlanOutcome
  <2>2. PaysWithin(c)
    BY <1>5, <1>7, <1>8, <2>1 DEF Produced
  <2>3. ExposesWritten(c) /\ CarriesAll(c) /\ RectInside(c)
    BY <1>7, <1>8, StillWritten, StillCarries, StillRect
  <2>4. DOMAIN <<>> = {} /\ Of(c, "text") = <<>>
    BY <1>3, <1>8
  <2>5. TextWithin(c)
    BY <2>4 DEF TextWithin
  <2> QED
    BY <2>2, <2>3, <2>5 DEF Honest
<1>9. CASE /\ ~Produced(c) /\ Ending(StillPlan(s), c.paid, c.verdict)
           /\ \A part : Of(c, part) = <<>>
  <2>1. c.paid <= top /\ (c.verdict \notin {"alloc", "pointer", "unbacked"} => c.paid = 0)
    BY <1>9, StillPlanOutcome
  <2>2. PaysWithin(c)
    BY <1>5, <1>7, <2>1
  <2> QED
    BY <1>9, <2>2, NothingOf DEF Honest
<1> QED
  BY <1>6, <1>8, <1>9

-----------------------------------------------------------------------------
(* Audio                                                                    *)

LEMMA TotalSame ==
  ASSUME NEW sums, Len(sums) \in Nat, NEW v \in Int, \A n \in 1 .. Len(sums) : sums[n] = v
  PROVE  Total(sums) = Len(sums) * v
<1> DEFINE N == Len(sums)
           f == SumTo(sums)
           good == {n \in 0 .. N : f[n] = n * v}
<1>1. N \in Nat /\ Total(sums) = f[N] /\ f[0] = 0 /\ \A n \in 1 .. N : f[n] = f[n - 1] + sums[n]
  BY RunningSum
<1>2. \A n \in 1 .. N : sums[n] = v
  OBVIOUS
<1> HIDE DEF N, f
<1>3. 0 \in good
  BY <1>1
<1>4. ASSUME NEW n \in 1 .. N, n - 1 \in good PROVE n \in good
  <2>1. n \in 0 .. N /\ f[n - 1] = (n - 1) * v
    BY <1>1, <1>4
  <2>2. f[n] = (n - 1) * v + v
    BY <1>1, <1>2, <2>1
  <2>3. (n - 1) * v + v = n * v
    BY <1>1
  <2> QED
    BY <2>1, <2>2, <2>3
<1> HIDE DEF good
<1>5. N \in 0 .. N
  BY <1>1
<1>6. N \in good
  BY <1>1, <1>3, <1>4, <1>5, Counting
<1> QED
  BY <1>1, <1>6 DEF good, N

LEMMA SidePrefix ==
  ASSUME NEW side, IsSide(side), NEW k \in 0 .. Len(side)
  PROVE  /\ IsSide(SubSeq(side, 1, k)) /\ Len(SubSeq(side, 1, k)) = k
         /\ SideBytes(SubSeq(side, 1, k)) = SumTo(Positives(side))[k]
<1> DEFINE q == SubSeq(side, 1, k)
           s == Positives(side)
           t == Positives(q)
<1>1. IsSeq(side) /\ Len(side) \in Nat /\ k \in Nat /\ k <= Len(side)
  BY SeqShape DEF IsSide
<1>2. IsSeq(q) /\ Len(q) = k /\ \A i \in 1 .. k : q[i] = side[i]
  BY <1>1, Prefix
<1> HIDE DEF q
<1>3. \A i \in 1 .. k : i \in 1 .. Len(side)
  BY <1>1
<1>4. IsSide(q)
  BY <1>2, <1>3 DEF IsSide
<1>5. Len(t) = k /\ SideBytes(q) = Total(t) /\ \A i \in 1 .. k : t[i] = Positive(q[i])
  BY <1>2, <1>4, PositivesShape
<1>6. Len(s) = Len(side) /\ \A i \in 1 .. Len(side) : s[i] = Positive(side[i])
  BY PositivesShape
<1> HIDE DEF s, t
<1>7. \A n \in 1 .. k : s[n] = t[n]
  BY <1>2, <1>3, <1>5, <1>6
<1>8. SumTo(s)[k] = SumTo(t)[k]
  BY <1>1, <1>5, <1>6, <1>7, SumsAlike
<1>9. Total(t) = SumTo(t)[k]
  BY <1>1, <1>5, RunningSum
<1> QED
  BY <1>2, <1>4, <1>5, <1>8, <1>9 DEF q, s

\* What is admitted is a beginning of the side data, within both of its caps.
LEMMA AdmittedWithin ==
  ASSUME NEW side, IsSide(side)
  PROVE  /\ IsSide(Admitted(side)) /\ Len(Admitted(side)) \in 0 .. Len(side)
         /\ Admitted(side) = SubSeq(side, 1, Len(Admitted(side)))
         /\ SideBytes(Admitted(side)) <= Ceiling.side
<1> DEFINE N == Least(Len(side), Ceiling.entries)
           head == SubSeq(side, 1, N)
           fits == {i \in 0 .. Len(head) : SideBytes(SubSeq(head, 1, i)) <= Ceiling.side}
           past == {i \in DOMAIN head : head[i] > 0 /\ i \notin fits}
           K == IF past = {} THEN N ELSE Min(past) - 1
           f == SumTo(Positives(side))
           good == {i \in 0 .. K : f[i] <= Ceiling.side}
<1>1. IsSeq(side) /\ Len(side) \in Nat /\ \A i \in 1 .. Len(side) : side[i] \in Nat \cup {Null}
  BY SeqShape DEF IsSide
<1>2. Ceiling.entries \in Nat /\ Ceiling.side \in Nat
  BY CeilingNat DEF CeilingNames
<1>3. N \in 0 .. Len(side)
  BY <1>1, <1>2 DEF Least
<1> HIDE DEF N
<1>4. IsSeq(head) /\ Len(head) = N /\ IsSide(head) /\ \A i \in 1 .. N : head[i] = side[i]
  BY <1>1, <1>3, Prefix, SidePrefix
<1>5. Admitted(side) = IF past = {} THEN head ELSE SubSeq(head, 1, Min(past) - 1)
  BY DEF Admitted, N
<1>6. DOMAIN head = 1 .. N
  BY <1>4, SeqShape
<1> HIDE DEF head
<1>7. \A k \in 0 .. N : SubSeq(head, 1, k) = SubSeq(side, 1, k)
  <2>1. SUFFICES ASSUME NEW k \in 0 .. N PROVE SubSeq(head, 1, k) = SubSeq(side, 1, k)
    OBVIOUS
  <2>2. k \in 0 .. Len(head) /\ k \in 0 .. Len(side) /\ \A i \in 1 .. k : i \in 1 .. N
    BY <1>3, <1>4
  <2>3. IsSeq(SubSeq(head, 1, k)) /\ Len(SubSeq(head, 1, k)) = k
        /\ \A i \in 1 .. k : SubSeq(head, 1, k)[i] = head[i]
    BY <1>4, <2>2, Prefix
  <2>4. IsSeq(SubSeq(side, 1, k)) /\ Len(SubSeq(side, 1, k)) = k
        /\ \A i \in 1 .. k : SubSeq(side, 1, k)[i] = side[i]
    BY <1>1, <2>2, Prefix
  <2> QED
    BY <1>4, <2>2, <2>3, <2>4, SameSeq
<1>8. K \in 0 .. N /\ (\A i \in 1 .. K : i \notin past) /\ Admitted(side) = SubSeq(head, 1, K)
  <2>1. CASE past = {}
    <3>1. N \in 0 .. Len(head)
      BY <1>3, <1>4
    <3>2. IsSeq(SubSeq(head, 1, N)) /\ Len(SubSeq(head, 1, N)) = N
          /\ \A i \in 1 .. N : SubSeq(head, 1, N)[i] = head[i]
      BY <1>4, <3>1, Prefix
    <3>3. head = SubSeq(head, 1, N)
      BY <1>4, <3>2, SameSeq
    <3> QED
      BY <1>3, <1>5, <2>1, <3>3
  <2>2. CASE past # {}
    <3>1. past \in SUBSET Nat /\ \A i \in past : i \in 1 .. N
      BY <1>6
    <3> HIDE DEF past
    <3>2. Min(past) \in past /\ \A i \in past : Min(past) <= i
      <4>1. \E m \in past : \A i \in past : m <= i
        BY <2>2, <3>1, LeastNat
      <4> QED
        BY <4>1 DEF Min
    <3> HIDE DEF Min
    <3> DEFINE m == Min(past)
    <3>3. m \in 1 .. N /\ \A i \in past : m <= i
      BY <3>1, <3>2
    <3>4. K = m - 1 /\ Admitted(side) = SubSeq(head, 1, m - 1)
      BY <1>5, <2>2
    <3> HIDE DEF m
    <3>5. K \in 0 .. N /\ \A i \in 1 .. K : ~(m <= i)
      BY <1>3, <3>3, <3>4
    <3> QED
      BY <3>3, <3>4, <3>5
  <2> QED
    BY <2>1, <2>2
<1>9. \A i \in 1 .. K : i \in 1 .. N /\ i \in 0 .. N /\ (side[i] > 0 => f[i] <= Ceiling.side)
  <2>1. SUFFICES ASSUME NEW i \in 1 .. K
                 PROVE  i \in 1 .. N /\ i \in 0 .. N /\ (side[i] > 0 => f[i] <= Ceiling.side)
    OBVIOUS
  <2>2. i \in 1 .. N /\ i \in 0 .. N /\ i \in 0 .. Len(side) /\ i \notin past
    BY <1>3, <1>8
  <2>3. SideBytes(SubSeq(head, 1, i)) = f[i]
    BY <1>7, <2>2, SidePrefix
  <2>4. head[i] > 0 => i \in fits
    BY <1>6, <2>2
  <2> QED
    BY <1>4, <2>2, <2>3, <2>4
<1> HIDE DEF past, fits
<1>10. /\ f[0] = 0
       /\ \A n \in 1 .. Len(side) : f[n] = f[n - 1] + Positive(side[n])
       /\ \A n \in 0 .. Len(side) : f[n] \in Nat
  <2> DEFINE s == Positives(side)
  <2>1. Len(s) = Len(side) /\ \A i \in 1 .. Len(side) : s[i] = Positive(side[i]) /\ s[i] \in Nat
    BY PositivesShape
  <2> HIDE DEF s
  <2>2. SumTo(s)[0] = 0 /\ \A n \in 1 .. Len(side) : SumTo(s)[n] = SumTo(s)[n - 1] + s[n]
    BY <1>1, <2>1, RunningSum
  <2>3. \A n \in 0 .. Len(side) : SumTo(s)[n] \in Nat
    BY <1>1, <2>1, SumsGrow
  <2> QED
    BY <2>1, <2>2, <2>3 DEF s
<1> HIDE DEF f, K
<1>11. 0 \in good
  BY <1>2, <1>8, <1>10
<1>12. ASSUME NEW n \in 1 .. K, n - 1 \in good PROVE n \in good
  <2>1. n \in 0 .. K /\ n \in 1 .. Len(side) /\ n - 1 \in 0 .. Len(side) /\ f[n - 1] <= Ceiling.side
    BY <1>3, <1>8, <1>12
  <2>2. side[n] \in Nat \cup {Null} /\ f[n] = f[n - 1] + Positive(side[n]) /\ f[n - 1] \in Nat
    BY <1>1, <1>10, <2>1
  <2>3. CASE side[n] > 0
    BY <1>9, <2>1, <2>3
  <2>4. CASE ~(side[n] > 0)
    <3>1. Positive(side[n]) = 0
      BY <2>4 DEF Positive
    <3> QED
      BY <2>1, <2>2, <3>1
  <2> QED
    BY <2>3, <2>4
<1> HIDE DEF good
<1>13. K \in Nat /\ K \in 0 .. K /\ K \in 0 .. Len(side)
  BY <1>3, <1>8
<1>14. K \in good
  BY <1>11, <1>12, <1>13, Counting
<1>15. f[K] <= Ceiling.side
  BY <1>14 DEF good
<1>16. Admitted(side) = SubSeq(side, 1, K)
  BY <1>7, <1>8
<1>17. IsSide(Admitted(side)) /\ Len(Admitted(side)) = K /\ SideBytes(Admitted(side)) = f[K]
  BY <1>13, <1>16, SidePrefix DEF f
<1> QED
  BY <1>13, <1>15, <1>16, <1>17

\* A stretch that costs nothing and hands nothing over.
Idle(p, F) == Works(p, 0, F) /\ \A part : Yield(p, part) = <<>>

LEMMA IdleCat ==
  ASSUME NEW p, NEW q, NEW F, Idle(p, F), Idle(q, F)
  PROVE  Idle(p \o q, F) /\ (Clear(p \o q) <=> Clear(p) /\ Clear(q))
<1>1. Works(p, 0, F) /\ Works(q, 0, F) /\ IsPlan(p) /\ IsPlan(q)
      /\ \A part : Yield(p, part) = <<>> /\ Yield(q, part) = <<>>
  BY DEF Idle, Works
<1>2. Works(p \o q, 0 + 0, F \cup F)
  BY <1>1, WorksCat
<1>3. 0 + 0 = 0 /\ F \cup F = F
  OBVIOUS
<1>4. \A part : Yield(p \o q, part) = <<>>
  BY <1>1, YieldPast
<1>5. Clear(p \o q) <=> Clear(p) /\ Clear(q)
  BY <1>1, PlanCat
<1> QED
  BY <1>2, <1>3, <1>4, <1>5 DEF Idle

LEMMA IdleJudge ==
  ASSUME NEW F, NEW fault \in F, fault \notin {"produced", "alloc"}, NEW h \in BOOLEAN
  PROVE  Idle(Judge(fault, h), F) /\ (Clear(Judge(fault, h)) <=> ~h)
<1>1. Works(Judge(fault, h), 0, {fault})
  BY WorksJudge
<1>2. Works(Judge(fault, h), 0, F)
  BY <1>1 DEF Works
<1>3. \A part : Yield(Judge(fault, h), part) = <<>>
  BY YieldJudge
<1>4. Clear(Judge(fault, h)) <=> ~h
  BY JudgePlan
<1> QED
  BY <1>2, <1>3, <1>4 DEF Idle

LEMMA IdleScratch ==
  ASSUME NEW F, "alloc" \in F
  PROVE  Idle(Buy(0, Scratch), F) /\ Idle(<<>>, F)
<1>1. Works(Buy(0, Scratch), 0, F)
  BY BuyPlan DEF Works
<1>2. Works(<<>>, 0, F)
  BY NoPlan DEF Works
<1> QED
  BY <1>1, <1>2, YieldScratch, YieldNothing DEF Idle

LEMMA SoundFields ==
  ASSUME NEW s \in Sound
  PROVE  /\ s.medium = "audio" /\ s.samples \in Int /\ s.channels \in Int /\ s.linesize \in Int
         /\ s.width \in Nat /\ s.planar \in BOOLEAN /\ s.buffers \in Backing
         /\ IsSide(s.side) /\ AudioPlanes(s) \in Int /\ AudioPlanes(s) <= Len(s.at)
         /\ Len(s.at) \in Nat /\ \A i \in 1 .. Len(s.at) : s.at[i] \in Nat \cup {Null}
         /\ Valid(s) \in Int /\ (s.samples >= 0 /\ s.channels >= 0 => Valid(s) \in Nat)
<1>1. s \in [medium : {"audio"}, samples : Int, channels : Int, planar : BOOLEAN, width : Nat,
             layout : {"native", "custom", "unspecified", "broken"}, linesize : Int,
             at : Seq(Pointer), buffers : Backing, side : SideData]
      /\ AudioPlanes(s) <= Len(s.at)
  BY DEF Sound
<1>2. /\ s.medium = "audio" /\ s.samples \in Int /\ s.channels \in Int /\ s.linesize \in Int
      /\ s.width \in Nat /\ s.planar \in BOOLEAN /\ s.buffers \in Backing
      /\ s.at \in Seq(Nat \cup {Null}) /\ s.side \in Seq(Nat \cup {Null})
  BY <1>1 DEF SideData, Pointer
<1>3. IsSeq(s.side) /\ \A i \in 1 .. Len(s.side) : s.side[i] \in Nat \cup {Null}
  BY <1>2, SeqIs
<1>4. Len(s.at) \in Nat /\ \A i \in 1 .. Len(s.at) : s.at[i] \in Nat \cup {Null}
  BY <1>2
<1>5. AudioPlanes(s) \in Int
  BY <1>2 DEF AudioPlanes
<1> DEFINE n == IF s.planar THEN 1 ELSE s.channels
           x == s.samples * s.width
<1>6. x \in Int /\ n \in Int /\ Valid(s) = x * n
  BY <1>2 DEF Valid
<1>7. ASSUME s.samples >= 0, s.channels >= 0 PROVE x \in Nat /\ n \in Nat
  <2>1. s.samples \in Nat /\ n \in Nat
    BY <1>2, <1>7
  <2> QED
    BY <1>2, <2>1, ProductNat
<1> HIDE DEF x, n
<1>8. Valid(s) \in Int
  BY <1>6
<1>9. s.samples >= 0 /\ s.channels >= 0 => Valid(s) \in Nat
  BY <1>6, <1>7, ProductNat
<1> QED
  BY <1>1, <1>2, <1>3, <1>4, <1>5, <1>8, <1>9 DEF IsSide

AudioFaults == {"samples", "channels", "layout", "format", "planes", "stride", "bytes", "alloc"}

LEMMA CountsPlan ==
  ASSUME NEW s \in Sound
  PROVE  /\ Idle(JudgeCounts(s), AudioFaults)
         /\ Clear(JudgeCounts(s)) => s.samples >= 0 /\ s.channels >= 0
<1> DEFINE h == s.samples < 0
           j == s.channels < 0 \/ s.channels > Ceiling.channels
           k == s.channels = 0 /\ s.samples > 0
           p == Judge("samples", h)
           q == Judge("channels", j)
           r == Judge("channels", k)
           F == AudioFaults
<1>1. h \in BOOLEAN /\ j \in BOOLEAN /\ k \in BOOLEAN
  OBVIOUS
<1>2. ~h => s.samples >= 0
  BY SoundFields
<1>3. ~j => s.channels >= 0
  BY SoundFields
<1>4. JudgeCounts(s) = (p \o q) \o r
  BY DEF JudgeCounts
<1>5. "samples" \in F /\ "channels" \in F /\ "samples" \notin {"produced", "alloc"}
      /\ "channels" \notin {"produced", "alloc"}
  BY DEF AudioFaults
<1> HIDE DEF h, j, k, F
<1>6. Idle(p, F) /\ (Clear(p) <=> ~h)
  BY <1>1, <1>5, IdleJudge
<1>7. Idle(q, F) /\ (Clear(q) <=> ~j)
  BY <1>1, <1>5, IdleJudge
<1>8. Idle(r, F)
  BY <1>1, <1>5, IdleJudge
<1> HIDE DEF p, q, r
<1>9. Idle(p \o q, F) /\ (Clear(p \o q) <=> Clear(p) /\ Clear(q))
  BY <1>6, <1>7, IdleCat
<1>10. Idle((p \o q) \o r, F) /\ (Clear((p \o q) \o r) => Clear(p \o q))
  BY <1>8, <1>9, IdleCat
<1> QED
  BY <1>2, <1>3, <1>4, <1>6, <1>7, <1>9, <1>10 DEF F

LEMMA LayoutPlan ==
  ASSUME NEW layout
  PROVE  Idle(DescribeLayout(layout), AudioFaults)
<1> DEFINE h == layout = "broken"
           p == Judge("layout", h)
           q == IF layout = "unspecified" THEN <<>> ELSE Buy(0, Scratch)
           r == IF layout = "custom" THEN Buy(0, Scratch) ELSE <<>>
           F == AudioFaults
<1>1. h \in BOOLEAN
  OBVIOUS
<1>2. DescribeLayout(layout) = (p \o q) \o r
  BY DEF DescribeLayout
<1>3. "layout" \in F /\ "alloc" \in F /\ "layout" \notin {"produced", "alloc"}
  BY DEF AudioFaults
<1> HIDE DEF h, F
<1>4. Idle(p, F)
  BY <1>1, <1>3, IdleJudge
<1>5. Idle(Buy(0, Scratch), F) /\ Idle(<<>>, F)
  BY <1>3, IdleScratch
<1>6. Idle(q, F) /\ Idle(r, F)
  BY <1>5
<1> HIDE DEF p, q, r
<1>7. Idle(p \o q, F)
  BY <1>4, <1>6, IdleCat
<1>8. Idle((p \o q) \o r, F)
  BY <1>6, <1>7, IdleCat
<1> QED
  BY <1>2, <1>8 DEF F

LEMMA ExtentPlan ==
  ASSUME NEW s \in Sound
  PROVE  /\ Idle(JudgeExtent(s), AudioFaults)
         /\ Clear(JudgeExtent(s)) =>
              Valid(s) <= s.linesize /\ ~(Valid(s) * AudioPlanes(s) > Ceiling.bytes)
<1> DEFINE h1 == s.width = 0
           h2 == AudioPlanes(s) > Ceiling.planes
           h3 == s.linesize < 0 \/ (s.samples > 0 /\ s.linesize = 0)
           h4 == s.linesize < Valid(s)
           h5 == Valid(s) * AudioPlanes(s) > Ceiling.bytes
           p1 == Judge("format", h1)
           p2 == Judge("planes", h2)
           p3 == Judge("stride", h3)
           p4 == Judge("stride", h4)
           p5 == Judge("bytes", h5)
           F == AudioFaults
<1>1. h1 \in BOOLEAN /\ h2 \in BOOLEAN /\ h3 \in BOOLEAN /\ h4 \in BOOLEAN /\ h5 \in BOOLEAN
  OBVIOUS
<1>2. ~h4 => Valid(s) <= s.linesize
  BY SoundFields
<1>3. ~h5 => ~(Valid(s) * AudioPlanes(s) > Ceiling.bytes)
  OBVIOUS
<1>4. JudgeExtent(s) = (((p1 \o p2) \o p3) \o p4) \o p5
  BY DEF JudgeExtent
<1>5. /\ "format" \in F /\ "planes" \in F /\ "stride" \in F /\ "bytes" \in F
      /\ "format" \notin {"produced", "alloc"} /\ "planes" \notin {"produced", "alloc"}
      /\ "stride" \notin {"produced", "alloc"} /\ "bytes" \notin {"produced", "alloc"}
  BY DEF AudioFaults
<1> HIDE DEF h1, h2, h3, h4, h5, F
<1>6. Idle(p1, F) /\ Idle(p2, F) /\ Idle(p3, F)
  BY <1>1, <1>5, IdleJudge
<1>7. Idle(p4, F) /\ (Clear(p4) <=> ~h4)
  BY <1>1, <1>5, IdleJudge
<1>8. Idle(p5, F) /\ (Clear(p5) <=> ~h5)
  BY <1>1, <1>5, IdleJudge
<1> HIDE DEF p1, p2, p3, p4, p5
<1> DEFINE q2 == p1 \o p2
           q3 == q2 \o p3
           q4 == q3 \o p4
           q5 == q4 \o p5
<1>9. Idle(q2, F)
  BY <1>6, IdleCat
<1>10. Idle(q3, F)
  BY <1>6, <1>9, IdleCat
<1>11. Idle(q4, F) /\ (Clear(q4) <=> Clear(q3) /\ Clear(p4))
  BY <1>7, <1>10, IdleCat
<1>12. Idle(q5, F) /\ (Clear(q5) <=> Clear(q4) /\ Clear(p5))
  BY <1>8, <1>11, IdleCat
<1> QED
  BY <1>2, <1>3, <1>4, <1>7, <1>8, <1>11, <1>12 DEF F

Tracks(s) == IF s.samples = 0 \/ AudioPlanes(s) < 0 THEN 0 ELSE AudioPlanes(s)
Track(s, i) ==
  Judge("pointer", s.at[i] = Null)
  \o Judge("unbacked", ~Backed(s, s.at[i], s.linesize))
  \o Buy(Valid(s), Item("plane", i, Samples(s, i)))
TrackBlocks(s) == [i \in 1 .. Tracks(s) |-> Track(s, i)]

LEMMA TrackPlan ==
  ASSUME NEW s \in Sound, NEW i
  PROVE  /\ IsPlan(Track(s, i)) /\ (Valid(s) \in Nat => Works(Track(s, i), Valid(s), CopyFaults))
         /\ Clear(Track(s, i)) => s.at[i] # Null /\ Backed(s, s.at[i], s.linesize)
         /\ Yield(Track(s, i), "plane") = <<Item("plane", i, Samples(s, i))>>
         /\ \A part : part # "plane" => Yield(Track(s, i), part) = <<>>
<1> DEFINE h == s.at[i] = Null
           k == ~Backed(s, s.at[i], s.linesize)
           item == Item("plane", i, Samples(s, i))
           cost == Valid(s)
           p == Track(s, i)
<1>1. h \in BOOLEAN /\ k \in BOOLEAN
  OBVIOUS
<1>2. cost \in Int
  BY SoundFields
<1>3. item # Scratch /\ item.part = "plane"
  BY DEF Item, Scratch
<1>4. p = Judge("pointer", h) \o Judge("unbacked", k) \o Buy(cost, item)
  BY DEF Track
<1>5. ~h /\ ~k => s.at[i] # Null /\ Backed(s, s.at[i], s.linesize)
  OBVIOUS
<1> HIDE DEF h, k, item, cost, p
<1>6. Copies(p, cost, item)
  BY <1>1, <1>2, <1>3, <1>4, CopyPlan
<1>7. Clear(p) => ~h /\ ~k
  BY <1>1, <1>2, <1>3, <1>4, CopyPlan
<1> QED
  BY <1>2, <1>5, <1>6, <1>7 DEF item, cost, p, Copies

\* The planes of samples, each whole: their sum is what the frame was judged by.
LEMMA SamplesPlan ==
  ASSUME NEW s \in Sound
  PROVE  /\ IsPlan(CopySamples(s))
         /\ Valid(s) \in Nat => Works(CopySamples(s), Tracks(s) * Valid(s), CopyFaults)
         /\ Clear(CopySamples(s)) =>
              \A i \in 1 .. Tracks(s) : s.at[i] # Null /\ Backed(s, s.at[i], s.linesize)
         /\ Yield(CopySamples(s), "plane") =
              [i \in 1 .. Tracks(s) |-> Item("plane", i, Samples(s, i))]
         /\ \A part : part # "plane" => Yield(CopySamples(s), part) = <<>>
         /\ Tracks(s) \in Nat /\ Tracks(s) <= Len(s.at)
         /\ 1 .. Tracks(s) = 1 .. (IF s.samples = 0 THEN 0 ELSE AudioPlanes(s))
<1> DEFINE N == Tracks(s)
           b == TrackBlocks(s)
           cost == Valid(s)
           sums == [i \in 1 .. N |-> cost]
           v == [i \in 1 .. N |-> Item("plane", i, Samples(s, i))]
<1>1. N \in Nat /\ N <= Len(s.at) /\ 1 .. N = 1 .. (IF s.samples = 0 THEN 0 ELSE AudioPlanes(s))
  BY SoundFields DEF Tracks
<1>2. CopySamples(s) = FlattenSeq(b)
  BY <1>1 DEF CopySamples, TrackBlocks, Track
<1>3. b = [i \in 1 .. N |-> b[i]] /\ \A i \in 1 .. N : b[i] = Track(s, i)
  BY DEF TrackBlocks
<1>4. v = [i \in 1 .. N |-> v[i]] /\ \A i \in 1 .. N : v[i] = Item("plane", i, Samples(s, i))
  OBVIOUS
<1>5. sums = [i \in 1 .. N |-> sums[i]] /\ \A i \in 1 .. N : sums[i] = cost
  OBVIOUS
<1> HIDE DEF N, b, v, sums, cost
<1>6. IsSeq(b) /\ Len(b) = N /\ IsSeq(v) /\ Len(v) = N /\ Len(sums) = N
  <2>1. IsSeq(b) /\ Len(b) = N
    BY <1>1, <1>3, FunctionIsSeq
  <2>2. IsSeq(v) /\ Len(v) = N
    BY <1>1, <1>4, FunctionIsSeq
  <2>3. Len(sums) = N
    BY <1>1, <1>5, FunctionIsSeq
  <2> QED
    BY <2>1, <2>2, <2>3
<1>7. ASSUME NEW n \in 1 .. N
      PROVE  /\ IsPlan(b[n]) /\ (cost \in Nat => Works(b[n], cost, CopyFaults))
             /\ Clear(b[n]) => s.at[n] # Null /\ Backed(s, s.at[n], s.linesize)
             /\ Yield(b[n], "plane") = <<v[n]>>
             /\ \A part : part # "plane" => Yield(b[n], part) = <<>>
  <2>1. b[n] = Track(s, n) /\ v[n] = Item("plane", n, Samples(s, n))
    BY <1>3, <1>4
  <2>2. IsPlan(Track(s, n)) /\ (Valid(s) \in Nat => Works(Track(s, n), Valid(s), CopyFaults))
    BY TrackPlan
  <2>3. Clear(Track(s, n)) => s.at[n] # Null /\ Backed(s, s.at[n], s.linesize)
    BY TrackPlan
  <2>4. Yield(Track(s, n), "plane") = <<Item("plane", n, Samples(s, n))>>
    BY TrackPlan
  <2>5. \A part : part # "plane" => Yield(Track(s, n), part) = <<>>
    BY TrackPlan
  <2> QED
    BY <2>1, <2>2, <2>3, <2>4, <2>5 DEF cost
<1>8. Plans(b) /\ Blocks(b)
  BY <1>6, <1>7, PlansJoin DEF Plans
<1>9. IsPlan(FlattenSeq(b)) /\ (Clear(FlattenSeq(b)) => \A n \in 1 .. N : Clear(b[n]))
  <2>1. FlattenSeq(b) = FlatTo(b, Len(b)) /\ Len(b) \in Nat
    BY <1>8, PlansJoin
  <2>2. N \in 0 .. Len(b) /\ FlattenSeq(b) = FlatTo(b, N)
    BY <1>1, <1>6, <2>1
  <2> QED
    BY <1>6, <1>8, <2>2, PlansJoin
<1>10. ASSUME cost \in Nat PROVE Works(FlattenSeq(b), N * cost, CopyFaults)
  <2>1. \A n \in 1 .. Len(b) : Works(b[n], sums[n], CopyFaults)
    BY <1>5, <1>6, <1>7, <1>10
  <2>2. Works(FlattenSeq(b), Total(sums), CopyFaults)
    BY <1>6, <2>1, WorksFlat
  <2>3. Total(sums) = N * cost
    <3>1. Len(sums) \in Nat /\ cost \in Int /\ \A n \in 1 .. Len(sums) : sums[n] = cost
      BY <1>1, <1>5, <1>6, <1>10
    <3>2. Total(sums) = Len(sums) * cost
      BY <3>1, TotalSame
    <3> QED
      BY <1>6, <3>2
  <2> QED
    BY <2>2, <2>3
<1>11. Yield(FlattenSeq(b), "plane") = v
  <2>1. Len(v) = Len(b) /\ \A n \in 1 .. Len(b) : Yield(b[n], "plane") = <<v[n]>>
    BY <1>6, <1>7
  <2> QED
    BY <1>6, <1>8, <2>1, YieldSingles
<1>12. ASSUME NEW part, part # "plane" PROVE Yield(FlattenSeq(b), part) = <<>>
  <2>1. \A n \in 1 .. Len(b) : Yield(b[n], part) = <<>>
    BY <1>6, <1>7, <1>12
  <2> QED
    BY <1>8, <2>1, YieldFlatNone
<1>13. Clear(FlattenSeq(b)) =>
         \A i \in 1 .. N : s.at[i] # Null /\ Backed(s, s.at[i], s.linesize)
  BY <1>7, <1>9
<1> QED
  BY <1>1, <1>2, <1>9, <1>10, <1>11, <1>12, <1>13 DEF N, v, cost

\* An audio frame: what it may cost, where it may end, and what a whole one holds.
LEMMA AudioPlanOutcome ==
  ASSUME NEW s \in Sound
  PROVE  /\ IsPlan(AudioPlan(s))
         /\ \A m, f : Ending(AudioPlan(s), m, f) =>
              /\ m <= Ceiling.bytes + Ceiling.side
              /\ f \notin {"alloc", "pointer", "unbacked"} => m = 0
         /\ Clear(AudioPlan(s)) =>
              /\ Paid(AudioPlan(s)) <= Ceiling.bytes + Ceiling.side
              /\ Valid(s) \in Nat /\ Valid(s) <= s.linesize
              /\ \A i \in 1 .. Tracks(s) : s.at[i] # Null /\ Backed(s, s.at[i], s.linesize)
         /\ Yield(AudioPlan(s), "plane") =
              [i \in 1 .. Tracks(s) |-> Item("plane", i, Samples(s, i))]
         /\ \A x : x \in Range(Yield(AudioPlan(s), "side")) <=>
              \E i \in 1 .. Len(Admitted(s.side)) :
                Admitted(s.side)[i] # Null /\ x = Item("side", i, <<>>)
         /\ Yield(AudioPlan(s), "text") = <<>>
<1> DEFINE t == Admitted(s.side)
           j == JudgeCounts(s)
           d == DescribeLayout(s.layout)
           e == JudgeExtent(s)
           c == CopySamples(s)
           k == CollectSide(t)
           N == Tracks(s)
           V == Valid(s)
           S == SideBytes(t)
           v == [i \in 1 .. N |-> Item("plane", i, Samples(s, i))]
           Stands == \A i \in 1 .. N : s.at[i] # Null /\ Backed(s, s.at[i], s.linesize)
           Owed(x) == \E i \in 1 .. Len(t) : t[i] # Null /\ x = Item("side", i, <<>>)
           top == Ceiling.bytes + Ceiling.side
           Low(m, f) == m <= top /\ (f \notin {"alloc", "pointer", "unbacked"} => m = 0)
           F == AudioFaults
<1>1. IsSide(t) /\ S <= Ceiling.side
  BY SoundFields, AdmittedWithin
<1>2. Ceiling.bytes \in Nat /\ Ceiling.side \in Nat
  BY CeilingNat DEF CeilingNames
<1>3. AudioPlan(s) = (((j \o d) \o e) \o c) \o k
  BY DEF AudioPlan
<1>4. Idle(j, F) /\ (Clear(j) => s.samples >= 0 /\ s.channels >= 0)
  BY CountsPlan
<1>5. Idle(d, F)
  BY LayoutPlan
<1>6. Idle(e, F) /\ (Clear(e) => V <= s.linesize /\ ~(V * AudioPlanes(s) > Ceiling.bytes))
  BY ExtentPlan
<1>7. s.samples >= 0 /\ s.channels >= 0 => V \in Nat
  BY SoundFields
<1>8. /\ IsPlan(c) /\ (V \in Nat => Works(c, N * V, CopyFaults)) /\ (Clear(c) => Stands)
      /\ Yield(c, "plane") = v /\ \A part : part # "plane" => Yield(c, part) = <<>>
  BY SamplesPlan
<1>9. Works(k, S, {"alloc"}) /\ (\A x : x \in Range(Yield(k, "side")) <=> Owed(x))
      /\ \A part : part # "side" => Yield(k, part) = <<>>
  BY <1>1, CollectSidePlan DEF Works
<1>10. S \in Nat
  BY <1>1, PositivesShape
<1>11. V \in Nat /\ ~(V * AudioPlanes(s) > Ceiling.bytes) => N * V \in Nat /\ N * V <= Ceiling.bytes
  <2>1. SUFFICES ASSUME V \in Nat, ~(V * AudioPlanes(s) > Ceiling.bytes)
                 PROVE  N * V \in Nat /\ N * V <= Ceiling.bytes
    OBVIOUS
  <2>2. N \in Nat /\ AudioPlanes(s) \in Int
    BY SamplesPlan, SoundFields
  <2>3. N = 0 \/ N = AudioPlanes(s)
    BY DEF Tracks
  <2> HIDE DEF N, V
  <2>4. CASE N = 0
    BY <1>2, <2>1, <2>4
  <2>5. CASE N = AudioPlanes(s)
    <3>1. N * V = V * AudioPlanes(s)
      BY <2>1, <2>2, <2>5
    <3>2. N * V \in Nat
      BY <2>1, <2>2, ProductNat
    <3> QED
      BY <1>2, <2>1, <3>1, <3>2
  <2> QED
    BY <2>3, <2>4, <2>5
<1> HIDE DEF t, j, d, e, c, k, N, V, S, v, Stands, Owed, F
<1> DEFINE a == (j \o d) \o e
           p == a \o c
           q == p \o k
           B == N * V
<1>12. Idle(a, F) /\ (Clear(a) => Clear(j) /\ Clear(e))
  <2>1. Idle(j \o d, F) /\ (Clear(j \o d) <=> Clear(j) /\ Clear(d))
    BY <1>4, <1>5, IdleCat
  <2>2. Idle(a, F) /\ (Clear(a) <=> Clear(j \o d) /\ Clear(e))
    BY <1>6, <2>1, IdleCat
  <2> QED
    BY <2>1, <2>2
<1> HIDE DEF a
<1>13. IsPlan(a) /\ IsPlan(k) /\ Paid(a) = 0 /\ Paid(k) = S /\ Works(a, 0, F)
       /\ \A part : Yield(a, part) = <<>>
  BY <1>9, <1>12 DEF Idle, Works
<1>14. IsPlan(p) /\ IsPlan(q)
  <2>1. IsPlan(p)
    BY <1>8, <1>13, PlanCat
  <2> QED
    BY <1>13, <2>1, PlanCat
<1>15. Clear(a) => V \in Nat /\ V <= s.linesize /\ B \in Nat /\ B <= Ceiling.bytes
                   /\ Works(c, B, CopyFaults)
  BY <1>4, <1>6, <1>7, <1>8, <1>11, <1>12
<1>16. Clear(p) => Clear(a) /\ Clear(c)
  BY <1>8, <1>13, PlanCat
<1>17. Clear(q) => Clear(p)
  BY <1>13, <1>14, PlanCat
<1> HIDE DEF B
<1>18. Clear(a) => Paid(p) = B
  <2>1. Paid(p) = Paid(a) + Paid(c)
    BY <1>8, <1>13, PaidCat
  <2> QED
    BY <1>13, <1>15, <2>1 DEF Works
<1>19. ASSUME NEW m, NEW f, Ending(p, m, f) PROVE Low(m, f)
  <2>1. Ending(a, m, f) \/ (Clear(a) /\ \E n : Ending(c, n, f) /\ m = Paid(a) + n)
    BY <1>8, <1>13, <1>19, EndingCat
  <2>2. CASE Ending(a, m, f)
    <3>1. m \in Nat /\ m <= 0
      BY <1>13, <2>2, WorksEnding
    <3> QED
      BY <1>2, <3>1
  <2>3. CASE Clear(a) /\ \E n : Ending(c, n, f) /\ m = Paid(a) + n
    <3>1. PICK n : Ending(c, n, f) /\ m = Paid(a) + n
      BY <2>3
    <3>2. n \in Nat /\ n <= B /\ f \in CopyFaults
      BY <1>15, <2>3, <3>1, WorksEnding
    <3>3. m = n /\ f \in {"pointer", "unbacked", "alloc"}
      BY <1>13, <3>1, <3>2 DEF CopyFaults
    <3> QED
      BY <1>2, <1>15, <2>3, <3>2, <3>3
  <2> QED
    BY <2>1, <2>2, <2>3
<1>20. ASSUME NEW m, NEW f, Ending(q, m, f) PROVE Low(m, f)
  <2>1. Ending(p, m, f) \/ (Clear(p) /\ \E n : Ending(k, n, f) /\ m = Paid(p) + n)
    BY <1>13, <1>14, <1>20, EndingCat
  <2>2. CASE Clear(p) /\ \E n : Ending(k, n, f) /\ m = Paid(p) + n
    <3>1. PICK n : Ending(k, n, f) /\ m = Paid(p) + n
      BY <2>2
    <3>2. n \in Nat /\ n <= S /\ f \in {"alloc"}
      BY <1>9, <3>1, WorksEnding
    <3>3. m = B + n /\ B \in Nat /\ B <= Ceiling.bytes
      BY <1>15, <1>16, <1>18, <2>2, <3>1
    <3> QED
      BY <1>1, <1>2, <1>10, <3>2, <3>3
  <2> QED
    BY <1>19, <2>1, <2>2
<1>21. ASSUME Clear(q) PROVE Paid(q) <= top /\ V \in Nat /\ V <= s.linesize /\ Stands
  <2>1. Paid(q) = Paid(p) + Paid(k)
    BY <1>13, <1>14, PaidCat
  <2>2. Paid(q) = B + S /\ B \in Nat /\ B <= Ceiling.bytes
    BY <1>13, <1>15, <1>16, <1>17, <1>18, <1>21, <2>1
  <2>3. Paid(q) <= top
    BY <1>1, <1>2, <1>10, <2>2
  <2> QED
    BY <1>8, <1>15, <1>16, <1>17, <1>21, <2>3
<1>22. \A part : Yield(p, part) = Yield(c, part)
  BY <1>8, <1>13, YieldPast
<1> HIDE DEF p
<1>23. \A part : part # "side" => Yield(q, part) = Yield(c, part)
  BY <1>9, <1>13, <1>14, <1>22, YieldPast
<1>24. Yield(q, "side") = Yield(k, "side")
  <2>1. Yield(p, "side") = <<>>
    BY <1>8, <1>22
  <2> QED
    BY <1>13, <1>14, <2>1, YieldPast
<1>25. Yield(q, "plane") = v /\ (\A x : x \in Range(Yield(q, "side")) <=> Owed(x))
       /\ Yield(q, "text") = <<>>
  BY <1>8, <1>9, <1>23, <1>24
<1>26. AudioPlan(s) = q
  BY <1>3 DEF q, p, a
<1> HIDE DEF q
<1> QED
  BY <1>14, <1>20, <1>21, <1>25, <1>26 DEF Stands, v, V, N, Owed, t

\* Bytes that follow one another inside what a buffer holds.
LEMMA RunWritten ==
  ASSUME NEW s, NEW at \in Nat, NEW count \in Nat, NEW extent \in Int, count <= extent,
         s.buffers \in Backing, Backed(s, at, extent)
  PROVE  /\ IsSeq(Run(at, count)) /\ Len(Run(at, count)) = count
         /\ \A n \in 1 .. count : Run(at, count)[n] = at + n - 1
         /\ \A n \in 1 .. count : Backed(s, Run(at, count)[n], 1)
<1> DEFINE x == Run(at, count)
<1>1. x = [n \in 1 .. count |-> x[n]] /\ \A n \in 1 .. count : x[n] = at + n - 1
  BY DEF Run
<1>2. PICK w \in s.buffers : w.start <= at /\ at + extent <= w.start + w.size
  BY DEF Backed
<1>3. w.start \in Nat /\ w.size \in Nat
  BY <1>2 DEF Backing
<1> HIDE DEF x
<1>4. IsSeq(x) /\ Len(x) = count
  BY <1>1, FunctionIsSeq
<1>5. ASSUME NEW n \in 1 .. count PROVE Backed(s, x[n], 1)
  <2>1. x[n] = at + n - 1
    BY <1>1
  <2>2. w.start <= x[n] /\ x[n] + 1 <= w.start + w.size
    BY <1>2, <1>3, <2>1
  <2> QED
    BY <1>2, <2>2 DEF Backed
<1> QED
  BY <1>1, <1>4, <1>5 DEF x

LEMMA SoundWritten ==
  ASSUME NEW s \in Sound, NEW c, c.source = s, Clear(AudioPlan(s)),
         \A part : Of(c, part) = Yield(AudioPlan(s), part)
  PROVE  ExposesWritten(c)
<1> DEFINE N == Tracks(s)
           v == [i \in 1 .. N |-> Item("plane", i, Samples(s, i))]
           planes == Of(c, "plane")
           V == Valid(s)
           g == [row |-> V, rows |-> 1, flat |-> TRUE]
<1>1. planes = v
  BY AudioPlanOutcome
<1>2. V \in Nat /\ V <= s.linesize
  BY AudioPlanOutcome
<1>3. \A i \in 1 .. N : s.at[i] # Null /\ Backed(s, s.at[i], s.linesize)
  BY AudioPlanOutcome
<1>4. s.medium = "audio" /\ s.linesize \in Int /\ s.buffers \in Backing
  BY SoundFields
<1>5. \A i \in 1 .. N : s.at[i] \in Nat
  <2>1. N \in Nat /\ N <= Len(s.at) /\ Len(s.at) \in Nat
    BY SamplesPlan, SoundFields
  <2>2. \A i \in 1 .. Len(s.at) : s.at[i] \in Nat \cup {Null}
    BY SoundFields
  <2> HIDE DEF N
  <2> QED
    BY <1>3, <2>1, <2>2
<1>6. g.row = V /\ g.rows = 1 /\ g.flat = TRUE
  OBVIOUS
<1> HIDE DEF N, planes, V, g
<1>7. ASSUME NEW k \in DOMAIN planes
      PROVE  LET bytes == planes[k].bytes
             IN  /\ planes[k].at = k
                 /\ Len(bytes) = g.row * g.rows
                 /\ \A n \in DOMAIN bytes : Backed(s, bytes[n], 1)
                 /\ \A n \in DOMAIN bytes : bytes[n] = s.at[k] + n - 1
  <2> DEFINE x == Run(s.at[k], V)
  <2>1. k \in 1 .. N /\ planes[k] = Item("plane", k, x)
    BY <1>1, <1>7 DEF Samples, V
  <2>2. planes[k].at = k /\ planes[k].bytes = x
    BY <2>1 DEF Item
  <2>3. s.at[k] \in Nat /\ Backed(s, s.at[k], s.linesize)
    BY <1>3, <1>5, <2>1
  <2>4. /\ IsSeq(x) /\ Len(x) = V
        /\ \A n \in 1 .. V : x[n] = s.at[k] + n - 1
        /\ \A n \in 1 .. V : Backed(s, x[n], 1)
    BY <1>2, <1>4, <2>3, RunWritten
  <2> HIDE DEF x
  <2>5. DOMAIN x = 1 .. V /\ g.row * g.rows = V
    BY <1>2, <1>6, <2>4, SeqShape
  <2> QED
    BY <2>2, <2>4, <2>5
<1>8. s.medium # "image"
  BY <1>4
<1> QED
  BY <1>4, <1>6, <1>7, <1>8 DEF ExposesWritten, planes, g, V

\* What is held of a part is where its items come from.
LEMMA HeldAre ==
  ASSUME NEW R, NEW S, NEW v, \A x : x \in R <=> \E i \in S : x = v[i],
         \A i \in S : v[i].at = i
  PROVE  {x.at : x \in R} = S
<1>1. ASSUME NEW j PROVE (\E x \in R : j = x.at) <=> j \in S
  <2>1. ASSUME NEW x \in R, j = x.at PROVE j \in S
    BY <2>1
  <2>2. ASSUME j \in S PROVE \E x \in R : j = x.at
    <3>1. v[j] \in R /\ j = v[j].at
      BY <2>2
    <3> QED
      BY <3>1
  <2> QED
    BY <2>1, <2>2
<1>2. \A j : j \in {x.at : x \in R} <=> \E x \in R : j = x.at
  OBVIOUS
<1> QED
  BY <1>1, <1>2

LEMMA SoundCarries ==
  ASSUME NEW s \in Sound, NEW c, c.source = s,
         \A part : Of(c, part) = Yield(AudioPlan(s), part)
  PROVE  CarriesAll(c)
<1> DEFINE t == Admitted(s.side)
           N == Tracks(s)
           v == [i \in 1 .. N |-> Item("plane", i, Samples(s, i))]
           w == [i \in 1 .. Len(t) |-> Item("side", i, <<>>)]
           Owed(x) == \E i \in 1 .. Len(t) : t[i] # Null /\ x = Item("side", i, <<>>)
           owed == {i \in DOMAIN t : t[i] # Null}
           held(part) == {i.at : i \in Range(Of(c, part))}
<1>1. Of(c, "plane") = v
  BY AudioPlanOutcome
<1>2. \A x : x \in Range(Of(c, "side")) <=> Owed(x)
  BY AudioPlanOutcome
<1>3. s.medium = "audio" /\ IsSide(s.side)
  BY SoundFields
<1>4. IsSide(t) /\ t = SubSeq(s.side, 1, Len(t)) /\ SideBytes(t) <= Ceiling.side
  BY <1>3, AdmittedWithin
<1>5. DOMAIN t = 1 .. Len(t)
  BY <1>4, SeqShape DEF IsSide
<1>6. \A i \in 1 .. Len(t) : w[i] = Item("side", i, <<>>) /\ w[i].at = i
  BY SideItem
<1>7. \A i \in 1 .. N : v[i].at = i
  BY DEF Item
<1>8. DOMAIN v = 1 .. N
  OBVIOUS
<1>9. 1 .. N = 1 .. (IF s.samples = 0 THEN 0 ELSE AudioPlanes(s))
  BY SamplesPlan
<1> HIDE DEF t, v, w, N
<1>10. held("side") = owed
  <2> DEFINE R == Range(Of(c, "side"))
  <2>1. \A i \in owed : i \in 1 .. Len(t) /\ t[i] # Null
    BY <1>5
  <2>2. \A x : x \in R <=> \E i \in owed : x = w[i]
    <3>1. ASSUME NEW x PROVE Owed(x) <=> \E i \in owed : x = w[i]
      BY <1>5, <1>6
    <3> QED
      BY <1>2, <3>1
  <2>3. \A i \in owed : w[i].at = i
    BY <1>6, <2>1
  <2> HIDE DEF owed, R
  <2>4. {x.at : x \in R} = owed
    BY <2>2, <2>3, HeldAre
  <2> QED
    BY <2>4 DEF R
<1>11. held("plane") = 1 .. N
  <2> DEFINE R == Range(Of(c, "plane"))
             S == 1 .. N
  <2>1. R = {v[i] : i \in S}
    BY <1>1, <1>8 DEF Range
  <2>2. \A x : x \in R <=> \E i \in S : x = v[i]
    BY <2>1
  <2>3. \A i \in S : v[i].at = i
    BY <1>7
  <2> HIDE DEF R, S
  <2>4. {x.at : x \in R} = S
    BY <2>2, <2>3, HeldAre
  <2> QED
    BY <2>4 DEF R, S
<1>12. SideBytes(SubSeq(s.side, 1, Len(t))) <= Ceiling.side
  BY <1>4
<1>13. held("plane") = 1 .. (IF s.samples = 0 THEN 0 ELSE AudioPlanes(s))
  BY <1>9, <1>11
<1>14. s.medium # "image"
  BY <1>3
<1> HIDE DEF held
<1>15. /\ held("side") = {i \in DOMAIN Admitted(s.side) : Admitted(s.side)[i] # Null}
       /\ SideBytes(SubSeq(s.side, 1, Len(Admitted(s.side)))) <= Ceiling.side
       /\ held("plane") = 1 .. (IF s.samples = 0 THEN 0 ELSE AudioPlanes(s))
  BY <1>10, <1>12, <1>13 DEF t
<1> QED
  BY <1>3, <1>14, <1>15 DEF CarriesAll, held

\* Every conversion of an audio frame is honest.
LEMMA SoundHonest ==
  ASSUME NEW s \in Sound, NEW c \in Conversions(s)
  PROVE  Honest(c)
<1>1. s.medium = "audio"
  BY SoundFields
<1>2. Plan(s) = AudioPlan(s)
  BY <1>1 DEF Plan
<1>3. IsPlan(AudioPlan(s)) /\ Yield(AudioPlan(s), "text") = <<>>
  BY AudioPlanOutcome
<1>4. Ceiling.bytes \in Nat /\ Ceiling.side \in Nat
  BY CeilingNat DEF CeilingNames
<1> DEFINE top == Ceiling.bytes + Ceiling.side
<1>5. ASSUME c.source = s, c.paid <= top,
             c.verdict \notin {"produced", "alloc", "pointer", "unbacked"} => c.paid = 0
      PROVE  PaysWithin(c)
  BY <1>1, <1>5 DEF PaysWithin
<1>6. \/ /\ Produced(c) /\ Clear(AudioPlan(s)) /\ c.paid = Paid(AudioPlan(s))
         /\ \A part : Of(c, part) = Yield(AudioPlan(s), part)
      \/ /\ ~Produced(c) /\ Ending(AudioPlan(s), c.paid, c.verdict)
         /\ \A part : Of(c, part) = <<>>
  BY <1>1, <1>2, <1>3, ConversionOutcome
<1>7. c.source = s
  BY <1>1, <1>2, <1>3, ConversionOutcome
<1>8. CASE /\ Produced(c) /\ Clear(AudioPlan(s)) /\ c.paid = Paid(AudioPlan(s))
           /\ \A part : Of(c, part) = Yield(AudioPlan(s), part)
  <2>1. Paid(AudioPlan(s)) <= top
    BY <1>8, AudioPlanOutcome
  <2>2. PaysWithin(c)
    BY <1>5, <1>7, <1>8, <2>1 DEF Produced
  <2>3. ExposesWritten(c) /\ CarriesAll(c)
    BY <1>7, <1>8, SoundWritten, SoundCarries
  <2>4. DOMAIN <<>> = {} /\ Of(c, "text") = <<>>
    BY <1>3, <1>8
  <2>5. TextWithin(c)
    BY <2>4 DEF TextWithin
  <2>6. RectInside(c)
    BY <1>1, <1>7 DEF RectInside
  <2> QED
    BY <2>2, <2>3, <2>5, <2>6 DEF Honest
<1>9. CASE /\ ~Produced(c) /\ Ending(AudioPlan(s), c.paid, c.verdict)
           /\ \A part : Of(c, part) = <<>>
  <2>1. c.paid <= top /\ (c.verdict \notin {"alloc", "pointer", "unbacked"} => c.paid = 0)
    BY <1>9, AudioPlanOutcome
  <2>2. PaysWithin(c)
    BY <1>5, <1>7, <2>1
  <2> QED
    BY <1>9, <2>2, NothingOf DEF Honest
<1> QED
  BY <1>6, <1>8, <1>9

-----------------------------------------------------------------------------
(* Subtitles                                                                *)

IsRect(r) == r \in Line \cup Bitmap \cup [kind : {"none"}]
IsTable(q) == IsSeq(q) /\ \A i \in 1 .. Len(q) : IsRect(q[i])

Lined(r) == r.kind = "text" /\ r.size # Null
Room(r) == IF Drawn(r) THEN Area(r) ELSE 0
Rooms(q) == [i \in DOMAIN q |-> Room(q[i])]

LEMMA RectFields ==
  ASSUME NEW r, IsRect(r)
  PROVE  /\ r.kind \in {"text", "bitmap", "none"}
         /\ r.kind = "text" => r.size \in Nat \cup {Null, Unterminated}
         /\ Drawn(r) => r.kind = "bitmap" /\ Area(r) \in Nat
         /\ Room(r) \in Nat
<1>1. CASE r \in Line
  <2>1. r.kind = "text" /\ r.size \in Nat \cup {Null, Unterminated}
    BY <1>1 DEF Line
  <2> QED
    BY <2>1 DEF Drawn, Room
<1>2. CASE r \in Bitmap
  <2>1. r.kind = "bitmap" /\ r.stride \in Int /\ r.rows \in Int
    BY <1>2 DEF Bitmap
  <2>2. ASSUME Drawn(r) PROVE Area(r) \in Nat
    <3>1. r.stride \in Nat /\ r.rows \in Nat
      BY <2>1, <2>2 DEF Drawn
    <3> QED
      BY <3>1, ProductNat DEF Area
  <2> QED
    BY <2>1, <2>2 DEF Room
<1>3. CASE r \in [kind : {"none"}]
  <2>1. r.kind = "none"
    BY <1>3
  <2> QED
    BY <2>1 DEF Drawn, Room
<1> QED
  BY <1>1, <1>2, <1>3 DEF IsRect

\* The recursion TextBytes is defined by.
Adding(q, n, f) == IF n = 0 THEN 0 ELSE Joined(f[n - 1], q[n])
TextTo(q) == CHOOSE f : f = [n \in 0 .. Len(q) |-> Adding(q, n, f)]

LEMMA TextsExist ==
  ASSUME NEW q, Len(q) \in Nat
  PROVE  \E f : f = [n \in 0 .. Len(q) |-> Adding(q, n, f)]
<1> DEFINE N == Len(q)
           UpTo(m, f) == f = [n \in 0 .. m |-> Adding(q, n, f)]
           good == {m \in 0 .. N : \E f : UpTo(m, f)}
<1>1. N \in Nat
  OBVIOUS
<1> HIDE DEF N
<1>2. 0 \in good
  <2> DEFINE g == [n \in 0 .. 0 |-> 0]
  <2>1. UpTo(0, g)
    BY DEF Adding
  <2> QED
    BY <1>1, <2>1
<1>3. ASSUME NEW m \in 1 .. N, m - 1 \in good PROVE m \in good
  <2>1. m \in Nat /\ m # 0 /\ m \in 0 .. N
    BY <1>1, <1>3
  <2>2. PICK f : UpTo(m - 1, f)
    BY <1>3
  <2> DEFINE g == [n \in 0 .. m |-> IF n = m THEN Joined(f[m - 1], q[m]) ELSE f[n]]
  <2>3. \A n \in 0 .. m - 1 : f[n] = Adding(q, n, f)
    <3> HIDE DEF Adding
    <3> QED
      BY <2>2
  <2>4. \A n \in 0 .. m : g[n] = Adding(q, n, g)
    <3> TAKE n \in 0 .. m
    <3>1. CASE n = m
      <4>1. g[m] = Joined(f[m - 1], q[m]) /\ g[m - 1] = f[m - 1]
        <5> HIDE DEF Joined
        <5> QED
          BY <2>1
      <4> HIDE DEF g
      <4> QED
        BY <4>1, <3>1, <2>1 DEF Adding
    <3>2. CASE n # m
      <4>1. n \in 0 .. m - 1 /\ g[n] = f[n]
        BY <3>2, <2>1
      <4>2. n # 0 => n - 1 \in 0 .. m /\ n - 1 # m
        BY <4>1, <2>1
      <4>3. n # 0 => g[n - 1] = f[n - 1]
        BY <4>2
      <4> HIDE DEF g
      <4> QED
        BY <4>1, <4>3, <2>3 DEF Adding
    <3> QED
      BY <3>1, <3>2
  <2>5. UpTo(m, g)
    <3> HIDE DEF Adding
    <3>1. g = [n \in 0 .. m |-> g[n]]
      OBVIOUS
    <3> HIDE DEF g
    <3> QED
      BY <2>4, <3>1
  <2> QED
    BY <2>1, <2>5
<1> HIDE DEF good
<1>4. N \in 0 .. N
  BY <1>1
<1>5. N \in good
  BY <1>1, <1>2, <1>3, <1>4, Counting
<1> QED
  BY <1>5 DEF good, N

\* The text of a table is the last of its running texts.
LEMMA RunningText ==
  ASSUME NEW q, Len(q) \in Nat
  PROVE  /\ TextBytes(q) = TextTo(q)[Len(q)]
         /\ TextTo(q)[0] = 0
         /\ \A n \in 1 .. Len(q) : TextTo(q)[n] = Joined(TextTo(q)[n - 1], q[n])
<1> DEFINE f == TextTo(q)
<1>1. TextBytes(q) = f[Len(q)]
  BY DEF TextBytes, TextTo, Adding
<1>2. f = [n \in 0 .. Len(q) |-> Adding(q, n, f)]
  BY TextsExist, Zenon DEF TextTo
<1> HIDE DEF f
<1>3. \A n \in 0 .. Len(q) : f[n] = Adding(q, n, f)
  <2> HIDE DEF Adding
  <2> QED
    BY <1>2
<1>4. f[0] = 0
  BY <1>3 DEF Adding
<1>5. \A n \in 1 .. Len(q) : f[n] = Joined(f[n - 1], q[n])
  BY <1>3 DEF Adding
<1> QED
  BY <1>1, <1>4, <1>5 DEF f

LEMMA TextsAlike ==
  ASSUME NEW q, NEW t, Len(q) \in Nat, Len(t) \in Nat, NEW m \in Nat,
         m <= Len(q), m <= Len(t), \A n \in 1 .. m : q[n] = t[n]
  PROVE  TextTo(q)[m] = TextTo(t)[m]
<1> DEFINE f == TextTo(q)
           g == TextTo(t)
           good == {n \in 0 .. m : f[n] = g[n]}
<1>1. /\ f[0] = 0 /\ g[0] = 0
      /\ \A n \in 1 .. Len(q) : f[n] = Joined(f[n - 1], q[n])
      /\ \A n \in 1 .. Len(t) : g[n] = Joined(g[n - 1], t[n])
  BY RunningText
<1> HIDE DEF f, g
<1>2. 0 \in good
  BY <1>1
<1>3. ASSUME NEW n \in 1 .. m, n - 1 \in good PROVE n \in good
  <2>1. n \in 0 .. m /\ n \in 1 .. Len(q) /\ n \in 1 .. Len(t) /\ f[n - 1] = g[n - 1]
    BY <1>3
  <2>2. f[n] = Joined(f[n - 1], q[n]) /\ g[n] = Joined(g[n - 1], t[n]) /\ q[n] = t[n]
    BY <1>1, <2>1
  <2> QED
    BY <2>1, <2>2
<1> HIDE DEF good
<1>4. m \in 0 .. m
  OBVIOUS
<1>5. m \in good
  BY <1>2, <1>3, <1>4, Counting
<1> QED
  BY <1>5 DEF good, f, g

\* The text and the room of a table so far.
LEMMA TablePrefix ==
  ASSUME NEW q, IsTable(q), NEW k \in 0 .. Len(q)
  PROVE  /\ TextBytes(SubSeq(q, 1, k)) = TextTo(q)[k]
         /\ BitmapBytes(SubSeq(q, 1, k)) = SumTo(Rooms(q))[k]
<1> DEFINE t == SubSeq(q, 1, k)
           s == Rooms(q)
           u == Rooms(t)
<1>1. IsSeq(q) /\ Len(q) \in Nat /\ DOMAIN q = 1 .. Len(q) /\ k \in Nat /\ k <= Len(q)
  BY SeqShape DEF IsTable
<1>2. IsSeq(t) /\ Len(t) = k /\ \A i \in 1 .. k : t[i] = q[i]
  BY <1>1, Prefix
<1>3. DOMAIN t = 1 .. Len(t)
  BY <1>2, SeqShape
<1> HIDE DEF t
<1>4. \A i \in 1 .. k : i \in 1 .. Len(q)
  BY <1>1
<1>5. TextBytes(t) = TextTo(q)[k]
  <2>1. TextTo(t)[k] = TextTo(q)[k]
    <3>1. /\ Len(t) \in Nat /\ Len(q) \in Nat /\ k \in Nat /\ k <= Len(t) /\ k <= Len(q)
          /\ \A n \in 1 .. k : t[n] = q[n]
      BY <1>1, <1>2
    <3> QED
      BY <3>1, TextsAlike
  <2>2. TextBytes(t) = TextTo(t)[Len(t)]
    BY <1>1, <1>2, RunningText
  <2> QED
    BY <1>2, <2>1, <2>2
<1>6. s = [i \in 1 .. Len(q) |-> s[i]] /\ \A i \in 1 .. Len(q) : s[i] = Room(q[i])
  BY <1>1 DEF Rooms
<1>7. u = [i \in 1 .. k |-> u[i]] /\ \A i \in 1 .. k : u[i] = Room(t[i])
  BY <1>2, <1>3 DEF Rooms
<1>8. BitmapBytes(t) = Total(u)
  BY DEF BitmapBytes, Rooms, Room
<1> HIDE DEF s, u
<1>9. Len(s) = Len(q) /\ Len(u) = k
  BY <1>1, <1>6, <1>7, FunctionIsSeq
<1>10. \A n \in 1 .. k : s[n] = u[n]
  BY <1>2, <1>4, <1>6, <1>7
<1>11. SumTo(s)[k] = SumTo(u)[k]
  BY <1>1, <1>9, <1>10, SumsAlike
<1>12. Total(u) = SumTo(u)[k]
  BY <1>1, <1>9, RunningSum
<1> QED
  BY <1>5, <1>8, <1>11, <1>12 DEF t, s

\* From one rectangle to the next they grow by what the rectangle holds.
LEMMA TableGrows ==
  ASSUME NEW q, IsTable(q)
  PROVE  /\ TextTo(q)[0] = 0 /\ SumTo(Rooms(q))[0] = 0
         /\ \A n \in 0 .. Len(q) : TextTo(q)[n] \in Nat /\ SumTo(Rooms(q))[n] \in Nat
         /\ \A n \in 1 .. Len(q) :
              /\ TextTo(q)[n] = Joined(TextTo(q)[n - 1], q[n])
              /\ SumTo(Rooms(q))[n] = SumTo(Rooms(q))[n - 1] + Room(q[n])
<1> DEFINE N == Len(q)
           f == TextTo(q)
           s == Rooms(q)
           good == {n \in 0 .. N : f[n] \in Nat}
<1>1. N \in Nat /\ DOMAIN q = 1 .. N
  BY SeqShape DEF IsTable
<1>2. f[0] = 0 /\ \A n \in 1 .. N : f[n] = Joined(f[n - 1], q[n])
  BY <1>1, RunningText
<1>3. s = [i \in 1 .. N |-> s[i]] /\ \A i \in 1 .. N : s[i] = Room(q[i])
  BY <1>1 DEF Rooms
<1>4. \A i \in 1 .. N : IsRect(q[i])
  BY DEF IsTable
<1> HIDE DEF N, f, s
<1>5. Len(s) = N
  BY <1>1, <1>3, FunctionIsSeq
<1>6. \A i \in 1 .. Len(s) : s[i] \in Nat
  BY <1>3, <1>4, <1>5, RectFields
<1>7. SumTo(s)[0] = 0 /\ \A n \in 1 .. N : SumTo(s)[n] = SumTo(s)[n - 1] + s[n]
  BY <1>1, <1>5, RunningSum
<1>8. \A n \in 0 .. N : SumTo(s)[n] \in Nat
  BY <1>1, <1>5, <1>6, SumsGrow
<1>9. 0 \in good
  BY <1>1, <1>2
<1>10. ASSUME NEW n \in 1 .. N, n - 1 \in good PROVE n \in good
  <2>1. n \in 0 .. N /\ f[n - 1] \in Nat
    BY <1>1, <1>10
  <2>2. f[n] = Joined(f[n - 1], q[n])
    BY <1>2
  <2>3. q[n].kind = "text" => q[n].size \in Nat \cup {Null, Unterminated}
    BY <1>4, RectFields
  <2>4. Joined(f[n - 1], q[n]) \in Nat
    BY <2>1, <2>3 DEF Joined, Null, Unterminated
  <2> QED
    BY <2>1, <2>2, <2>4
<1> HIDE DEF good
<1>11. \A n \in 0 .. N : n \in good
  BY <1>1, <1>9, <1>10, Counting
<1>12. \A n \in 0 .. N : f[n] \in Nat
  BY <1>11 DEF good
<1> QED
  BY <1>2, <1>3, <1>7, <1>8, <1>12 DEF N, f, s

\* A stretch judged before any of it is paid for ends for nothing, or as it was paid.
Settled(p) ==
  /\ IsPlan(p) /\ Frugal(p)
  /\ \A l, f : Ending(p, l, f) => l \in Nat /\ (l = 0 \/ (Clear(p) /\ l <= Paid(p)))

LEMMA SettledNone == Settled(<<>>)
BY NoPlan DEF Settled

LEMMA JudgedFirst ==
  ASSUME NEW j, NEW p, NEW F, Idle(j, F), IsPlan(p), Frugal(p), Clear(p)
  PROVE  /\ Settled(j \o p) /\ Paid(j \o p) = Paid(p) /\ (Clear(j \o p) <=> Clear(j))
         /\ \A part : Yield(j \o p, part) = Yield(p, part)
<1> DEFINE u == j \o p
<1>1. IsPlan(j) /\ Frugal(j) /\ Paid(j) = 0 /\ Works(j, 0, F) /\ \A part : Yield(j, part) = <<>>
  BY DEF Idle, Works
<1>2. IsPlan(u) /\ (Clear(u) <=> Clear(j) /\ Clear(p))
  BY <1>1, PlanCat
<1>3. Frugal(u)
  BY <1>1, FrugalCat
<1>4. Paid(u) = Paid(p)
  <2>1. Paid(u) = Paid(j) + Paid(p) /\ Paid(p) \in Int
    BY <1>1, PaidCat
  <2> QED
    BY <1>1, <2>1
<1>5. ASSUME NEW l, NEW f, Ending(u, l, f)
      PROVE  l \in Nat /\ (l = 0 \/ (Clear(u) /\ l <= Paid(u)))
  <2>1. Ending(j, l, f) \/ (Clear(j) /\ \E n : Ending(p, n, f) /\ l = Paid(j) + n)
    BY <1>1, <1>5, EndingCat
  <2>2. CASE Ending(j, l, f)
    <3>1. l \in Nat /\ l <= 0
      BY <1>1, <2>2, WorksEnding
    <3> QED
      BY <3>1
  <2>3. CASE Clear(j) /\ \E n : Ending(p, n, f) /\ l = Paid(j) + n
    <3>1. PICK n : Ending(p, n, f) /\ l = Paid(j) + n
      BY <2>3
    <3>2. n \in Nat /\ n <= Paid(p)
      BY <3>1, EndingPaid
    <3>3. l = n
      BY <1>1, <3>1, <3>2
    <3> QED
      BY <1>2, <1>4, <2>3, <3>2, <3>3
  <2> QED
    BY <2>1, <2>2, <2>3
<1>6. ASSUME NEW part PROVE Yield(u, part) = Yield(p, part)
  BY <1>1, YieldPast
<1> QED
  BY <1>2, <1>3, <1>4, <1>5, <1>6 DEF Settled

\* Purchases one after another: each of them may be there or not.
Bought(p, cost) == IsPlan(p) /\ Frugal(p) /\ Clear(p) /\ Paid(p) = cost

LEMMA BoughtCat ==
  ASSUME NEW p, NEW q, NEW m, NEW n, Bought(p, m), Bought(q, n)
  PROVE  Bought(p \o q, m + n)
<1>1. IsPlan(p) /\ Frugal(p) /\ Clear(p) /\ Paid(p) = m
      /\ IsPlan(q) /\ Frugal(q) /\ Clear(q) /\ Paid(q) = n
  BY DEF Bought
<1>2. IsPlan(p \o q) /\ Clear(p \o q)
  BY <1>1, PlanCat
<1>3. Frugal(p \o q)
  BY <1>1, FrugalCat
<1>4. Paid(p \o q) = m + n
  BY <1>1, PaidCat
<1> QED
  BY <1>2, <1>3, <1>4 DEF Bought

LEMMA BoughtOne ==
  ASSUME NEW cost \in Nat, NEW item
  PROVE  Bought(Buy(cost, item), cost) /\ Bought(Give(item), 0) /\ Bought(<<>>, 0)
BY BuyPlan, GivePlan, NoPlan DEF Bought

RectAt(q, i) ==
  CASE q[i].kind = "text" -> TextRect(q, i)
    [] q[i].kind = "bitmap" -> BitmapRect(q, i)
    [] OTHER -> <<>>

\* What is so of the stretch of a plan that reads rectangle i of a table.
Framed(q, i, p) ==
  /\ Settled(p)
  /\ Clear(p) =>
       /\ Paid(p) <= (TextTo(q)[i] - TextTo(q)[i - 1]) + Room(q[i]) + Ceiling.palette
       /\ Lined(q[i]) => q[i].size \in Nat /\ TextTo(q)[i] <= Ceiling.allText
       /\ Drawn(q[i]) => SumTo(Rooms(q))[i] <= Ceiling.allBitmaps
  /\ Yield(p, "text") = IF Lined(q[i]) THEN <<Item("text", i, <<>>)>> ELSE <<>>
  /\ Yield(p, "bitmap") =
       IF Drawn(q[i]) THEN <<Item("bitmap", i, Run(q[i].at, Area(q[i])))>> ELSE <<>>

RectFaults == {"text", "texts", "bitmap", "bitmaps"}

LEMMA TextFramed ==
  ASSUME NEW q, IsTable(q), NEW i \in 1 .. Len(q), Lined(q[i])
  PROVE  Framed(q, i, TextRect(q, i))
<1> DEFINE r == q[i]
           size == r.size
           was == TextTo(q)[i - 1]
           now == TextTo(q)[i]
           item == Item("text", i, <<>>)
           h == size = Unterminated \/ size > Ceiling.text
           k == now > Ceiling.allText
           j == Judge("text", h) \o Judge("texts", k)
           a == IF was > 0 THEN Buy(1, Scratch) ELSE <<>>
           b == IF size > 0 THEN Buy(size, item) ELSE Give(item)
           F == RectFaults
           p == TextRect(q, i)
<1>1. IsRect(r) /\ r.kind = "text" /\ size # Null
  BY DEF IsTable, Lined
<1>2. size \in Nat \cup {Unterminated}
  BY <1>1, RectFields
<1>3. Len(q) \in Nat /\ i \in 0 .. Len(q) /\ i - 1 \in 0 .. Len(q)
  BY SeqShape DEF IsTable
<1>4. TextBytes(SubSeq(q, 1, i)) = now /\ TextBytes(SubSeq(q, 1, i - 1)) = was
  BY <1>3, TablePrefix
<1>5. was \in Nat /\ now \in Nat /\ now = Joined(was, r)
  BY <1>3, TableGrows
<1>6. p = (j \o a) \o b
  BY <1>1, <1>4 DEF TextRect
<1>7. ~Drawn(r) /\ Room(r) = 0
  BY <1>1 DEF Drawn, Room
<1>8. item # Scratch /\ item.part = "text"
  BY DEF Item, Scratch
<1>9. h \in BOOLEAN /\ k \in BOOLEAN /\ "text" \in F /\ "texts" \in F
      /\ "text" \notin {"produced", "alloc"} /\ "texts" \notin {"produced", "alloc"}
  BY DEF RectFaults
<1>10. Ceiling.text \in Nat /\ Ceiling.allText \in Nat /\ Ceiling.palette \in Nat
  BY CeilingNat DEF CeilingNames
<1>11. ~h /\ ~k => size \in Nat /\ now <= Ceiling.allText
  BY <1>2, <1>5, <1>10
<1>12. size \in Nat => now = was + size + (IF was > 0 THEN 1 ELSE 0)
  BY <1>1, <1>5 DEF Joined
<1>13. Bought(a, IF was > 0 THEN 1 ELSE 0) /\ \A part : Yield(a, part) = <<>>
  BY BoughtOne, YieldScratch, YieldNothing
<1>14. Bought(b, IF size > 0 THEN size ELSE 0) /\ \A part : Yield(b, part) = Fits(item, part)
  <2>1. CASE size > 0
    <3>1. size \in Nat /\ b = Buy(size, item)
      BY <1>2, <2>1 DEF Unterminated
    <3> HIDE DEF b, item
    <3>2. Bought(Buy(size, item), size)
      BY <3>1, BoughtOne
    <3>3. \A part : Yield(Buy(size, item), part) = Fits(item, part)
      BY <1>8, <3>1, YieldBuy
    <3> QED
      BY <2>1, <3>1, <3>2, <3>3
  <2>2. CASE ~(size > 0)
    <3>1. b = Give(item)
      BY <2>2
    <3> HIDE DEF b, item
    <3>2. Bought(Give(item), 0)
      BY BoughtOne
    <3>3. \A part : Yield(Give(item), part) = Fits(item, part)
      BY <1>8, YieldGive
    <3> QED
      BY <2>2, <3>1, <3>2, <3>3
  <2> QED
    BY <2>1, <2>2
<1> HIDE DEF h, k, a, b, was, now, size, item, F
<1>15. Idle(j, F) /\ (Clear(j) <=> ~h /\ ~k)
  <2>1. Idle(Judge("text", h), F) /\ (Clear(Judge("text", h)) <=> ~h)
    BY <1>9, IdleJudge
  <2>2. Idle(Judge("texts", k), F) /\ (Clear(Judge("texts", k)) <=> ~k)
    BY <1>9, IdleJudge
  <2> QED
    BY <2>1, <2>2, IdleCat
<1> HIDE DEF j
<1> DEFINE c == a \o b
           cost == (IF was > 0 THEN 1 ELSE 0) + (IF size > 0 THEN size ELSE 0)
<1>16. Bought(c, cost)
  BY <1>13, <1>14, BoughtCat
<1>17. IsPlan(a) /\ IsPlan(b) /\ IsPlan(j)
  BY <1>13, <1>14, <1>15 DEF Bought, Idle, Works
<1>18. p = j \o c
  BY <1>6, <1>17, CatThree DEF IsPlan
<1>19. \A part : Yield(c, part) = Fits(item, part)
  BY <1>13, <1>14, <1>17, YieldPast
<1>20. IsPlan(c) /\ Frugal(c) /\ Clear(c) /\ Paid(c) = cost
  BY <1>16 DEF Bought
<1> HIDE DEF c, p, cost
<1>21. Settled(p) /\ Paid(p) = cost /\ (Clear(p) <=> Clear(j))
  BY <1>15, <1>18, <1>20, JudgedFirst
<1>22. \A part : Yield(p, part) = Fits(item, part)
  BY <1>15, <1>18, <1>19, <1>20, JudgedFirst
<1>23. Yield(p, "text") = <<item>> /\ Yield(p, "bitmap") = <<>>
  BY <1>8, <1>22 DEF Fits
<1>24. Clear(p) => /\ Paid(p) <= (now - was) + Room(r) + Ceiling.palette
                   /\ size \in Nat /\ now <= Ceiling.allText
  <2>1. SUFFICES ASSUME Clear(p)
                 PROVE  /\ Paid(p) <= (now - was) + Room(r) + Ceiling.palette
                        /\ size \in Nat /\ now <= Ceiling.allText
    OBVIOUS
  <2>2. size \in Nat /\ now <= Ceiling.allText
    BY <1>11, <1>15, <1>21, <2>1
  <2>3. Paid(p) = (IF was > 0 THEN 1 ELSE 0) + size
    BY <1>21, <2>2 DEF cost
  <2> QED
    BY <1>5, <1>7, <1>10, <1>12, <2>2, <2>3
<1> QED
  BY <1>7, <1>21, <1>23, <1>24 DEF Framed, now, was, size, item, p

LEMMA BitmapFramed ==
  ASSUME NEW q, IsTable(q), NEW i \in 1 .. Len(q), Drawn(q[i])
  PROVE  Framed(q, i, BitmapRect(q, i))
<1> DEFINE r == q[i]
           area == Area(r)
           was == TextTo(q)[i - 1]
           now == TextTo(q)[i]
           room == SumTo(Rooms(q))[i]
           item == Item("bitmap", i, Run(r.at, Area(r)))
           colours == Item("palette", i, Run(r.palette, Ceiling.palette))
           h == area > Ceiling.bitmap
           k == room > Ceiling.allBitmaps
           j == Judge("bitmap", h) \o Judge("bitmaps", k)
           a == Buy(area, item)
           b == IF r.palette = Null THEN <<>> ELSE Buy(Ceiling.palette, colours)
           paid == IF r.palette = Null THEN 0 ELSE Ceiling.palette
           F == RectFaults
           p == BitmapRect(q, i)
<1>1. IsRect(r) /\ r.kind = "bitmap" /\ area \in Nat
  BY RectFields DEF IsTable
<1>2. Len(q) \in Nat /\ i \in 0 .. Len(q) /\ i - 1 \in 0 .. Len(q)
  BY SeqShape DEF IsTable
<1>3. BitmapBytes(SubSeq(q, 1, i)) = room
  BY <1>2, TablePrefix
<1>4. was \in Nat /\ now \in Nat /\ room \in Nat /\ now = Joined(was, r)
  BY <1>2, TableGrows
<1>5. p = (j \o a) \o b
  BY <1>3 DEF BitmapRect
<1>6. ~Lined(r) /\ Room(r) = area /\ now = was
  BY <1>1, <1>4 DEF Lined, Room, Joined
<1>7. item # Scratch /\ item.part = "bitmap" /\ colours # Scratch /\ colours.part = "palette"
  BY DEF Item, Scratch
<1>8. h \in BOOLEAN /\ k \in BOOLEAN /\ "bitmap" \in F /\ "bitmaps" \in F
      /\ "bitmap" \notin {"produced", "alloc"} /\ "bitmaps" \notin {"produced", "alloc"}
  BY DEF RectFaults
<1>9. Ceiling.allBitmaps \in Nat /\ Ceiling.palette \in Nat
  BY CeilingNat DEF CeilingNames
<1>10. ~k => room <= Ceiling.allBitmaps
  BY <1>4, <1>9
<1>11. paid \in Nat /\ paid <= Ceiling.palette
  BY <1>9
<1> HIDE DEF h, k, area, was, now, room, item, colours, F
<1>12. Bought(a, area) /\ \A part : Yield(a, part) = Fits(item, part)
  BY <1>1, <1>7, BoughtOne, YieldBuy
<1>13. Bought(b, paid) /\ \A part : part # "palette" => Yield(b, part) = <<>>
  <2>1. CASE r.palette = Null
    BY <2>1, BoughtOne, YieldNothing
  <2>2. CASE r.palette # Null
    <3>1. b = Buy(Ceiling.palette, colours) /\ paid = Ceiling.palette
      BY <2>2
    <3>2. Bought(Buy(Ceiling.palette, colours), Ceiling.palette)
      BY <1>9, BoughtOne
    <3>3. \A part : Yield(Buy(Ceiling.palette, colours), part) = Fits(colours, part)
      BY <1>7, <1>9, YieldBuy
    <3>4. \A part : part # "palette" => Fits(colours, part) = <<>>
      BY <1>7 DEF Fits
    <3> QED
      BY <3>1, <3>2, <3>3, <3>4
  <2> QED
    BY <2>1, <2>2
<1> HIDE DEF a, b, paid
<1>14. Idle(j, F) /\ (Clear(j) <=> ~h /\ ~k)
  <2>1. Idle(Judge("bitmap", h), F) /\ (Clear(Judge("bitmap", h)) <=> ~h)
    BY <1>8, IdleJudge
  <2>2. Idle(Judge("bitmaps", k), F) /\ (Clear(Judge("bitmaps", k)) <=> ~k)
    BY <1>8, IdleJudge
  <2> QED
    BY <2>1, <2>2, IdleCat
<1> HIDE DEF j
<1> DEFINE c == a \o b
<1>15. Bought(c, area + paid)
  BY <1>12, <1>13, BoughtCat
<1>16. IsPlan(a) /\ IsPlan(b) /\ IsPlan(j)
  BY <1>12, <1>13, <1>14 DEF Bought, Idle, Works
<1>17. p = j \o c
  BY <1>5, <1>16, CatThree DEF IsPlan
<1>18. \A part : part # "palette" => Yield(c, part) = Fits(item, part)
  BY <1>12, <1>13, <1>16, YieldPast
<1>19. IsPlan(c) /\ Frugal(c) /\ Clear(c) /\ Paid(c) = area + paid
  BY <1>15 DEF Bought
<1> HIDE DEF c, p
<1>20. Settled(p) /\ Paid(p) = area + paid /\ (Clear(p) <=> Clear(j))
  BY <1>14, <1>17, <1>19, JudgedFirst
<1>21. \A part : part # "palette" => Yield(p, part) = Fits(item, part)
  BY <1>14, <1>17, <1>18, <1>19, JudgedFirst
<1>22. Yield(p, "bitmap") = <<item>> /\ Yield(p, "text") = <<>>
  BY <1>7, <1>21 DEF Fits
<1>23. Clear(p) => /\ Paid(p) <= (now - was) + Room(r) + Ceiling.palette
                   /\ room <= Ceiling.allBitmaps
  BY <1>1, <1>4, <1>6, <1>9, <1>10, <1>11, <1>14, <1>20
<1> QED
  BY <1>6, <1>20, <1>22, <1>23 DEF Framed, now, was, room, item, p

\* Every rectangle is judged first, and costs what it adds.
LEMMA RectFramed ==
  ASSUME NEW q, IsTable(q), NEW i \in 1 .. Len(q)
  PROVE  Framed(q, i, RectAt(q, i))
<1>1. CASE Lined(q[i])
  <2>1. RectAt(q, i) = TextRect(q, i)
    BY <1>1 DEF RectAt, Lined
  <2> QED
    BY <1>1, <2>1, TextFramed
<1>2. CASE Drawn(q[i])
  <2>1. RectAt(q, i) = BitmapRect(q, i)
    BY <1>2 DEF RectAt, Drawn
  <2> QED
    BY <1>2, <2>1, BitmapFramed
<1>3. CASE ~Lined(q[i]) /\ ~Drawn(q[i])
  <2> DEFINE was == TextTo(q)[i - 1]
             now == TextTo(q)[i]
  <2>1. IsRect(q[i])
    BY DEF IsTable
  <2>2. RectAt(q, i) = <<>>
    <3>1. q[i].kind \in {"text", "bitmap", "none"}
      BY <2>1, RectFields
    <3>2. CASE q[i].kind = "text"
      BY <1>3, <3>2 DEF RectAt, TextRect, Lined
    <3>3. CASE q[i].kind = "bitmap"
      BY <1>3, <3>3 DEF RectAt, BitmapRect
    <3>4. CASE q[i].kind = "none"
      BY <3>4 DEF RectAt
    <3> QED
      BY <3>1, <3>2, <3>3, <3>4
  <2>3. Len(q) \in Nat /\ i \in 0 .. Len(q) /\ i - 1 \in 0 .. Len(q)
    BY SeqShape DEF IsTable
  <2>4. was \in Nat /\ now = Joined(was, q[i])
    BY <2>3, TableGrows
  <2>5. now = was /\ Room(q[i]) = 0
    <3>1. q[i].kind = "text" => q[i].size = Null
      BY <1>3 DEF Lined
    <3> QED
      BY <1>3, <2>4, <3>1 DEF Joined, Room, Null
  <2>6. Ceiling.palette \in Nat
    BY CeilingNat DEF CeilingNames
  <2> HIDE DEF was, now
  <2>7. 0 <= (now - was) + Room(q[i]) + Ceiling.palette
    BY <2>4, <2>5, <2>6
  <2>8. Settled(<<>>) /\ Paid(<<>>) = 0 /\ Yield(<<>>, "text") = <<>> /\ Yield(<<>>, "bitmap") = <<>>
    BY SettledNone, NoPlan, YieldNothing
  <2> QED
    BY <1>3, <2>2, <2>7, <2>8 DEF Framed, was, now
<1> QED
  BY <1>1, <1>2, <1>3

TableBlocks(q) == [i \in DOMAIN q |-> RectAt(q, i)]
Reading(q) == FlattenSeq(TableBlocks(q))

LEMMA TablePlan ==
  ASSUME NEW q, IsTable(q)
  PROVE  /\ Plans(TableBlocks(q)) /\ Len(TableBlocks(q)) = Len(q) /\ Len(q) \in Nat
         /\ \A i \in 1 .. Len(q) : Framed(q, i, TableBlocks(q)[i])
<1> DEFINE b == TableBlocks(q)
<1>1. Len(q) \in Nat /\ DOMAIN q = 1 .. Len(q)
  BY SeqShape DEF IsTable
<1>2. \A i \in 1 .. Len(q) : b[i] = RectAt(q, i)
  BY <1>1 DEF TableBlocks
<1>3. b = [i \in 1 .. Len(q) |-> b[i]]
  BY <1>1 DEF TableBlocks
<1> HIDE DEF b
<1>4. IsSeq(b) /\ Len(b) = Len(q)
  BY <1>1, <1>3, FunctionIsSeq
<1>5. \A i \in 1 .. Len(q) : Framed(q, i, b[i])
  BY <1>2, RectFramed
<1>6. \A i \in 1 .. Len(q) : IsPlan(b[i])
  BY <1>5 DEF Framed, Settled
<1> QED
  BY <1>1, <1>4, <1>5, <1>6 DEF Plans, b

\* As far as a table has been read: what it says and shows is within the caps,
\* and so is what that has cost.
LEMMA TableWithin ==
  ASSUME NEW q, IsTable(q), NEW n \in 0 .. Len(q), Clear(FlatTo(TableBlocks(q), n))
  PROVE  /\ TextTo(q)[n] <= Ceiling.allText
         /\ SumTo(Rooms(q))[n] <= Ceiling.allBitmaps
         /\ Paid(FlatTo(TableBlocks(q), n)) <=
              TextTo(q)[n] + SumTo(Rooms(q))[n] + n * Ceiling.palette
<1> DEFINE N == Len(q)
           b == TableBlocks(q)
           f == TextTo(q)
           g == SumTo(Rooms(q))
           T == Ceiling.allText
           B == Ceiling.allBitmaps
           P == Ceiling.palette
           Fine(k) == f[k] <= T /\ g[k] <= B /\ Paid(FlatTo(b, k)) <= f[k] + g[k] + k * P
           good == {k \in 0 .. N : Clear(FlatTo(b, k)) => Fine(k)}
<1>1. Plans(b) /\ Len(b) = N /\ N \in Nat /\ \A i \in 1 .. N : Framed(q, i, b[i])
  BY TablePlan
<1>2. /\ f[0] = 0 /\ g[0] = 0 /\ \A k \in 0 .. N : f[k] \in Nat /\ g[k] \in Nat
      /\ \A k \in 1 .. N : f[k] = Joined(f[k - 1], q[k]) /\ g[k] = g[k - 1] + Room(q[k])
  BY TableGrows
<1>3. T \in Nat /\ B \in Nat /\ P \in Nat
  BY CeilingNat DEF CeilingNames
<1>4. \A k \in 1 .. N : IsRect(q[k])
  BY DEF IsTable
<1>5. \A k \in 1 .. N : Clear(b[k]) =>
        /\ Paid(b[k]) <= (f[k] - f[k - 1]) + Room(q[k]) + P
        /\ Lined(q[k]) => f[k] <= T
        /\ Drawn(q[k]) => g[k] <= B
  BY <1>1 DEF Framed
<1> HIDE DEF b
<1>6. /\ Paid(FlatTo(b, 0)) = 0
      /\ \A k \in 1 .. N : Paid(FlatTo(b, k)) = Paid(FlatTo(b, k - 1)) + Paid(b[k])
      /\ \A k \in 0 .. N : Paid(FlatTo(b, k)) \in Int
      /\ \A k \in 1 .. N : Paid(b[k]) \in Int
  BY <1>1, PaidFlat
<1>7. \A k \in 0 .. N : Clear(FlatTo(b, k)) <=> \A i \in 1 .. k : Clear(b[i])
  BY <1>1, PlansJoin
<1> HIDE DEF N, f, g, T, B, P
<1>8. 0 \in good
  <2>1. Fine(0)
    BY <1>2, <1>3, <1>6
  <2> QED
    BY <1>1, <2>1
<1>9. ASSUME NEW k \in 1 .. N, k - 1 \in good PROVE k \in good
  <2>1. k \in 0 .. N /\ k - 1 \in 0 .. N
    BY <1>1, <1>9
  <2>2. SUFFICES ASSUME Clear(FlatTo(b, k)) PROVE Fine(k)
    BY <2>1
  <2>3. (\A i \in 1 .. k : Clear(b[i])) /\ \A i \in 1 .. k - 1 : i \in 1 .. k
    BY <1>1, <1>7, <2>1, <2>2
  <2>4. Clear(b[k]) /\ Clear(FlatTo(b, k - 1))
    BY <1>1, <1>7, <2>1, <2>3
  <2>5. Fine(k - 1)
    BY <1>9, <2>4
  <2>6. /\ f[k - 1] \in Nat /\ g[k - 1] \in Nat /\ f[k] \in Nat /\ g[k] \in Nat
        /\ f[k] = Joined(f[k - 1], q[k]) /\ g[k] = g[k - 1] + Room(q[k])
    BY <1>2, <2>1
  <2>7. IsRect(q[k]) /\ Room(q[k]) \in Nat
    BY <1>4, RectFields
  <2>8. f[k] <= T
    <3>1. CASE Lined(q[k])
      BY <1>5, <2>4, <3>1
    <3>2. CASE ~Lined(q[k])
      <4>1. q[k].kind = "text" => q[k].size = Null
        BY <3>2 DEF Lined
      <4>2. f[k] = f[k - 1]
        BY <2>6, <4>1 DEF Joined, Null
      <4> QED
        BY <2>5, <4>2
    <3> QED
      BY <3>1, <3>2
  <2>9. g[k] <= B
    <3>1. CASE Drawn(q[k])
      BY <1>5, <2>4, <3>1
    <3>2. CASE ~Drawn(q[k])
      <4>1. g[k] = g[k - 1]
        BY <2>6, <3>2 DEF Room
      <4> QED
        BY <2>5, <4>1
    <3> QED
      BY <3>1, <3>2
  <2>10. Paid(FlatTo(b, k)) <= f[k] + g[k] + k * P
    <3> DEFINE x == Paid(FlatTo(b, k - 1))
               y == Paid(b[k])
               z == (k - 1) * P
               u == k * P
               v == Paid(FlatTo(b, k))
    <3>1. Paid(FlatTo(b, k)) = x + y /\ x \in Int /\ y \in Int
      BY <1>6, <2>1
    <3>2. x <= f[k - 1] + g[k - 1] + z
      BY <2>5
    <3>3. y <= (f[k] - f[k - 1]) + Room(q[k]) + P
      BY <1>5, <2>4
    <3>4. k * P = z + P /\ z \in Int
      BY <1>1, <1>3
    <3> HIDE DEF x, y, z, u, v
    <3>5. v = x + y /\ u = z + P /\ x \in Int /\ y \in Int /\ z \in Int
      BY <3>1, <3>4 DEF v, u
    <3>6. v <= f[k] + g[k] + u
      <4> DEFINE f0 == f[k - 1]
                 f1 == f[k]
                 g0 == g[k - 1]
                 g1 == g[k]
                 r == Room(q[k])
      <4>1. f0 \in Nat /\ f1 \in Nat /\ g0 \in Nat /\ g1 \in Nat /\ r \in Nat /\ g1 = g0 + r
        BY <2>6, <2>7
      <4>2. x <= f0 + g0 + z /\ y <= (f1 - f0) + r + P
        BY <3>2, <3>3
      <4> HIDE DEF f0, f1, g0, g1, r
      <4>3. v <= f1 + g1 + u
        BY <1>3, <3>5, <4>1, <4>2
      <4> QED
        BY <4>3 DEF f1, g1
    <3> QED
      BY <3>6 DEF v, u
  <2> QED
    BY <2>8, <2>9, <2>10
<1> HIDE DEF good
<1>10. \A k \in 0 .. N : k \in good
  BY <1>1, <1>8, <1>9, Counting
<1>11. n \in 0 .. N /\ Clear(FlatTo(b, n))
  BY DEF N, b
<1>12. Fine(n)
  BY <1>10, <1>11 DEF good
<1> QED
  BY <1>12 DEF f, g, T, B, P, b

\* Reading a table costs no more, wherever it ends.
LEMMA TableCost ==
  ASSUME NEW q, IsTable(q)
  PROVE  /\ IsPlan(Reading(q)) /\ Frugal(Reading(q))
         /\ \A m, f : Ending(Reading(q), m, f) =>
              m \in Nat /\ m <= Ceiling.allText + Ceiling.allBitmaps + Len(q) * Ceiling.palette
         /\ Clear(Reading(q)) =>
              /\ Paid(Reading(q)) <= Ceiling.allText + Ceiling.allBitmaps + Len(q) * Ceiling.palette
              /\ TextBytes(q) <= Ceiling.allText
              /\ \A i \in 1 .. Len(q) : Lined(q[i]) => q[i].size \in Nat
<1> DEFINE N == Len(q)
           b == TableBlocks(q)
           P == Ceiling.palette
           top == Ceiling.allText + Ceiling.allBitmaps + N * P
<1>1. Plans(b) /\ Len(b) = N /\ N \in Nat /\ \A i \in 1 .. N : Framed(q, i, b[i])
  BY TablePlan
<1>2. Ceiling.allText \in Nat /\ Ceiling.allBitmaps \in Nat /\ P \in Nat
  BY CeilingNat DEF CeilingNames
<1>3. ASSUME NEW n \in 0 .. N, Clear(FlatTo(b, n))
      PROVE  Paid(FlatTo(b, n)) <= top /\ TextTo(q)[n] <= Ceiling.allText
  <2> DEFINE x == Paid(FlatTo(b, n))
             y == TextTo(q)[n]
             z == SumTo(Rooms(q))[n]
  <2>1. y <= Ceiling.allText /\ z <= Ceiling.allBitmaps /\ x <= y + z + n * P
    BY <1>3, TableWithin
  <2>2. y \in Nat /\ z \in Nat
    BY TableGrows
  <2>3. n * P <= N * P /\ n * P \in Nat /\ N * P \in Nat
    BY <1>1, <1>2, ProductGrows, ProductNat
  <2>4. x \in Int
    BY <1>1, PaidFlat
  <2> HIDE DEF x, y, z
  <2> DEFINE u == n * P
             w == N * P
  <2> HIDE DEF u, w
  <2>5. x <= y + z + u /\ u <= w /\ u \in Nat /\ w \in Nat
    BY <2>1, <2>3 DEF u, w
  <2>6. x <= Ceiling.allText + Ceiling.allBitmaps + w
    BY <1>2, <2>1, <2>2, <2>4, <2>5
  <2> QED
    BY <2>1, <2>6 DEF x, y, w
<1>4. \A i \in 1 .. N : Settled(b[i])
  BY <1>1 DEF Framed
<1>5. \A i \in 1 .. N : Clear(b[i]) => (Lined(q[i]) => q[i].size \in Nat)
  BY <1>1 DEF Framed
<1>6. TextBytes(q) = TextTo(q)[N]
  BY <1>1, RunningText
<1> HIDE DEF b, N, top
<1>7. FlattenSeq(b) = FlatTo(b, N) /\ IsPlan(FlatTo(b, N)) /\ N \in 0 .. N
      /\ \A k \in 0 .. N : Clear(FlatTo(b, k)) <=> \A i \in 1 .. k : Clear(b[i])
  <2>1. N \in 0 .. N
    BY <1>1
  <2> QED
    BY <1>1, <2>1, PlansJoin
<1>8. Frugal(FlattenSeq(b)) /\ \A k \in 0 .. N : Frugal(FlatTo(b, k))
  BY <1>1, <1>4, FrugalFlat DEF Settled
<1>9. ASSUME NEW m, NEW f, Ending(FlattenSeq(b), m, f) PROVE m \in Nat /\ m <= top
  <2>1. PICK n \in 1 .. N : \E l :
          /\ Clear(FlatTo(b, n - 1)) /\ Ending(b[n], l, f)
          /\ m = Paid(FlatTo(b, n - 1)) + l
    BY <1>1, <1>9, EndingFlat
  <2>2. PICK l : Clear(FlatTo(b, n - 1)) /\ Ending(b[n], l, f)
                 /\ m = Paid(FlatTo(b, n - 1)) + l
    BY <2>1
  <2>3. n \in 0 .. N /\ n - 1 \in 0 .. N /\ n \in Nat
    BY <1>1
  <2>4. m \in Nat /\ m <= Paid(FlattenSeq(b))
    <3>1. IsPlan(FlattenSeq(b))
      BY <1>7
    <3> QED
      BY <1>8, <1>9, <3>1, EndingPaid
  <2>5. l \in Nat /\ (l = 0 \/ (Clear(b[n]) /\ l <= Paid(b[n])))
    BY <1>4, <2>2 DEF Settled
  <2>6. Paid(FlatTo(b, n)) = Paid(FlatTo(b, n - 1)) + Paid(b[n])
        /\ Paid(FlatTo(b, n - 1)) \in Int /\ Paid(b[n]) \in Int
    BY <1>1, <2>3, PaidFlat
  <2>7. CASE l = 0
    <3>1. Paid(FlatTo(b, n - 1)) <= top
      BY <1>3, <2>2, <2>3
    <3> QED
      BY <2>2, <2>4, <2>6, <2>7, <3>1
  <2>8. CASE Clear(b[n]) /\ l <= Paid(b[n])
    <3>1. \A i \in 1 .. n - 1 : Clear(b[i])
      BY <1>7, <2>2, <2>3
    <3>2. \A i \in 1 .. n : i \in 1 .. n - 1 \/ i = n
      BY <2>3
    <3>3. Clear(FlatTo(b, n))
      BY <1>7, <2>3, <2>8, <3>1, <3>2
    <3>4. Paid(FlatTo(b, n)) <= top
      BY <1>3, <2>3, <3>3
    <3>5. top \in Int
      BY <1>1, <1>2 DEF top
    <3> QED
      BY <2>2, <2>4, <2>5, <2>6, <2>8, <3>4, <3>5
  <2> QED
    BY <2>5, <2>7, <2>8
<1>10. ASSUME Clear(FlattenSeq(b))
       PROVE  /\ Paid(FlattenSeq(b)) <= top /\ TextBytes(q) <= Ceiling.allText
              /\ \A i \in 1 .. N : Lined(q[i]) => q[i].size \in Nat
  <2>1. Clear(FlatTo(b, N)) /\ \A i \in 1 .. N : Clear(b[i])
    BY <1>7, <1>10
  <2> QED
    BY <1>3, <1>5, <1>6, <1>7, <2>1
<1> QED
  BY <1>7, <1>8, <1>9, <1>10 DEF Reading, b, N, top

LEMMA SideMore ==
  ASSUME NEW side, IsSide(side), NEW z \in Nat
  PROVE  /\ IsSide(side \o <<z>>) /\ Len(side \o <<z>>) = Len(side) + 1 /\ Len(side) \in Nat
         /\ \A k \in 1 .. Len(side) : (side \o <<z>>)[k] = side[k]
         /\ (side \o <<z>>)[Len(side) + 1] = z
         /\ SideBytes(side \o <<z>>) = SideBytes(side) + z
<1> DEFINE one == <<z>>
           t == side \o one
           N == Len(side)
<1>1. IsSeq(one) /\ Len(one) = 1 /\ one[1] = z
  BY OneSeq
<1>2. IsSeq(side) /\ N \in Nat /\ \A k \in 1 .. N : side[k] \in Nat \cup {Null}
  BY SeqShape DEF IsSide
<1> HIDE DEF one
<1>3. IsSeq(t) /\ Len(t) = N + 1 /\ (\A k \in 1 .. N : t[k] = side[k])
      /\ \A k \in 1 .. Len(one) : t[N + k] = one[k]
  <2>1. IsSeq(side) /\ IsSeq(one)
    BY <1>1, <1>2
  <2>2. IsSeq(t) /\ Len(t) = N + Len(one)
    BY <2>1, Cat
  <2>3. \A k \in 1 .. N : t[k] = side[k]
    BY <2>1, Cat
  <2>4. \A k \in 1 .. Len(one) : t[N + k] = one[k]
    BY <2>1, Cat
  <2> QED
    BY <1>1, <2>2, <2>3, <2>4
<1>4. t[N + 1] = z
  BY <1>1, <1>3
<1>5. \A k \in 1 .. 1 : k = 1 /\ one[k] = z
  BY <1>1
<1> HIDE DEF t
<1>6. IsSide(t)
  <2>1. \A k \in 1 .. N + 1 : k \in 1 .. N \/ k = N + 1
    BY <1>2
  <2> QED
    BY <1>2, <1>3, <1>4, <2>1 DEF IsSide
<1>7. IsSide(one)
  BY <1>1, <1>5 DEF IsSide
<1> DEFINE s == Positives(side)
           u == Positives(t)
           v == Positives(one)
<1>8. /\ Len(s) = N /\ Len(u) = N + 1 /\ Len(v) = 1
      /\ \A k \in 1 .. N : s[k] = Positive(side[k]) /\ s[k] \in Nat
      /\ \A k \in 1 .. N + 1 : u[k] = Positive(t[k]) /\ u[k] \in Nat
      /\ \A k \in 1 .. 1 : v[k] = Positive(one[k])
      /\ SideBytes(side) = Total(s) /\ SideBytes(t) = Total(u)
  BY <1>1, <1>3, <1>6, <1>7, PositivesShape
<1> HIDE DEF s, u, v
<1>9. Positive(z) = z
  BY DEF Positive
<1>10. \A k \in 1 .. 1 : v[k] = z
  BY <1>5, <1>8, <1>9
<1>11. \A k \in 1 .. Len(s) : s[k] \in Int /\ u[k] = s[k]
  <2>1. \A k \in 1 .. N : k \in 1 .. N + 1
    BY <1>2
  <2> QED
    BY <1>3, <1>8, <2>1
<1>12. \A k \in 1 .. Len(v) : v[k] \in Int /\ u[Len(s) + k] = v[k]
  <2>1. N + 1 \in 1 .. N + 1
    BY <1>2
  <2>2. u[N + 1] = z
    BY <1>4, <1>8, <1>9, <2>1
  <2> QED
    BY <1>5, <1>8, <1>10, <2>2
<1>13. Len(s) \in Nat /\ Len(v) \in Nat /\ Len(u) = Len(s) + Len(v)
  BY <1>2, <1>8
<1>14. Total(u) = Total(s) + Total(v)
  BY <1>11, <1>12, <1>13, TotalCat
<1>15. v[1] = z
  BY <1>10
<1>16. Total(v) = z
  BY <1>8, <1>15, TotalOne
<1> QED
  BY <1>2, <1>3, <1>4, <1>6, <1>8, <1>14, <1>16 DEF t, one

\* Lines, and what their text comes to: nothing, or all of their bytes and a
\* separator for each line after the first that has any.
Told(total, lines) ==
  /\ IsSide(lines) /\ \A k \in 1 .. Len(lines) : lines[k] \in Nat
  /\ \/ total = 0 /\ \A k \in 1 .. Len(lines) : lines[k] = 0
     \/ \E m \in 1 .. Len(lines) :
          /\ lines[m] > 0 /\ \A k \in 1 .. m - 1 : lines[k] = 0
          /\ total = SideBytes(lines) + Len(lines) - m

LEMMA ToldNone == Told(0, <<>>)
<1>1. IsSeq(<<>>) /\ Len(<<>>) = 0 /\ 1 .. 0 = {}
  BY NoSeq
<1> QED
  BY <1>1 DEF Told, IsSide

LEMMA SilentBytes ==
  ASSUME NEW lines, IsSide(lines), \A k \in 1 .. Len(lines) : lines[k] = 0
  PROVE  SideBytes(lines) = 0
<1> DEFINE s == Positives(lines)
<1>1. Len(s) = Len(lines) /\ Len(s) \in Nat /\ SideBytes(lines) = Total(s)
      /\ \A k \in 1 .. Len(lines) : s[k] = Positive(lines[k])
  BY PositivesShape
<1>2. Positive(0) = 0
  BY DEF Positive
<1> HIDE DEF s
<1>3. \A k \in 1 .. Len(s) : s[k] = 0
  BY <1>1, <1>2
<1> QED
  BY <1>1, <1>3, TotalNone

LEMMA ToldMore ==
  ASSUME NEW total \in Nat, NEW lines, Told(total, lines), NEW z \in Nat
  PROVE  Told(total + z + (IF total > 0 THEN 1 ELSE 0), lines \o <<z>>)
<1> DEFINE t == lines \o <<z>>
           N == Len(lines)
           S == SideBytes(lines)
           next == total + z + (IF total > 0 THEN 1 ELSE 0)
<1>1. IsSide(lines) /\ \A k \in 1 .. N : lines[k] \in Nat
  BY DEF Told
<1>2. /\ IsSide(t) /\ Len(t) = N + 1 /\ N \in Nat
      /\ \A k \in 1 .. N : t[k] = lines[k]
      /\ t[N + 1] = z /\ SideBytes(t) = S + z
  BY <1>1, SideMore
<1>3. S \in Nat
  BY <1>1, PositivesShape
<1>4. \/ total = 0 /\ \A k \in 1 .. N : lines[k] = 0
      \/ \E m \in 1 .. N : /\ lines[m] > 0 /\ \A k \in 1 .. m - 1 : lines[k] = 0
                           /\ total = S + N - m
  BY DEF Told
<1> HIDE DEF t, N, S
<1>5. \A k \in 1 .. N + 1 : k \in 1 .. N \/ k = N + 1
  BY <1>2
<1>6. \A k \in 1 .. Len(t) : t[k] \in Nat
  BY <1>1, <1>2, <1>5
<1>7. CASE total = 0 /\ \A k \in 1 .. N : lines[k] = 0
  <2>1. S = 0
    BY <1>1, <1>7, SilentBytes DEF S, N
  <2>2. next = z /\ SideBytes(t) = z
    BY <1>2, <1>7, <2>1
  <2>3. CASE z = 0
    <3>1. \A k \in 1 .. Len(t) : t[k] = 0
      BY <1>2, <1>5, <1>7, <2>3
    <3> QED
      BY <1>2, <1>6, <2>2, <2>3, <3>1 DEF Told, t
  <2>4. CASE z # 0
    <3>1. N + 1 \in 1 .. Len(t) /\ t[N + 1] > 0 /\ next = SideBytes(t) + Len(t) - (N + 1)
      BY <1>2, <2>2, <2>4
    <3>2. \A k \in 1 .. (N + 1) - 1 : t[k] = 0
      BY <1>2, <1>7
    <3> HIDE DEF next
    <3>3. Told(next, t)
      BY <1>2, <1>6, <3>1, <3>2 DEF Told
    <3> QED
      BY <3>3 DEF t, next
  <2> QED
    BY <2>3, <2>4
<1>8. ASSUME NEW m \in 1 .. N, lines[m] > 0, \A k \in 1 .. m - 1 : lines[k] = 0,
             total = S + N - m
      PROVE  Told(total + z + (IF total > 0 THEN 1 ELSE 0), lines \o <<z>>)
  <2>1. S > 0
    <3> DEFINE s == Positives(lines)
    <3>1. Len(s) = N /\ S = Total(s) /\ (\A k \in 1 .. N : s[k] = Positive(lines[k]) /\ s[k] \in Nat)
      BY <1>1, PositivesShape DEF S, N
    <3> HIDE DEF s
    <3>2. s[m] = SumTo(s)[m] - SumTo(s)[m - 1] /\ SumTo(s)[m] <= S
          /\ SumTo(s)[m] \in Nat /\ SumTo(s)[m - 1] \in Nat
      <4>1. Len(s) \in Nat /\ m \in 1 .. Len(s) /\ m \in 0 .. Len(s) /\ m - 1 \in 0 .. Len(s)
        BY <1>2, <3>1
      <4>2. \A n \in 1 .. Len(s) : s[n] \in Nat
        BY <3>1
      <4>3. SumTo(s)[m] = SumTo(s)[m - 1] + s[m]
        BY <4>1, RunningSum
      <4>4. SumTo(s)[m] <= Total(s) /\ SumTo(s)[m] \in Nat /\ SumTo(s)[m - 1] \in Nat
        BY <4>1, <4>2, SumsGrow
      <4> QED
        BY <3>1, <4>1, <4>2, <4>3, <4>4
    <3>3. s[m] > 0
      BY <1>8, <3>1 DEF Positive
    <3> QED
      BY <1>3, <3>2, <3>3
  <2>2. m \in Nat /\ m \in 1 .. N + 1 /\ total > 0
    BY <1>2, <1>3, <1>8, <2>1
  <2>3. next = total + z + 1
    BY <2>2
  <2>4. next = SideBytes(t) + Len(t) - m
    BY <1>2, <1>3, <1>8, <2>2, <2>3
  <2>5. t[m] > 0 /\ m \in 1 .. Len(t)
    BY <1>2, <1>8, <2>2
  <2>6. \A k \in 1 .. m - 1 : t[k] = 0
    <3>1. \A k \in 1 .. m - 1 : k \in 1 .. N
      BY <1>2, <1>8
    <3> QED
      BY <1>2, <1>8, <3>1
  <2> HIDE DEF next
  <2>7. Told(next, t)
    BY <1>2, <1>6, <2>4, <2>5, <2>6 DEF Told
  <2> QED
    BY <2>7 DEF t, next
<1> QED
  BY <1>4, <1>7, <1>8

\* What is told is what a reader adds up from the first line that has text.
LEMMA ToldWithin ==
  ASSUME NEW total, NEW lines, Told(total, lines), NEW n \in Nat, total <= n,
         {i \in DOMAIN lines : lines[i] > 0} # {}
  PROVE  SideBytes(lines) + Len(lines) - Min({i \in DOMAIN lines : lines[i] > 0}) <= n
<1> DEFINE spoken == {i \in DOMAIN lines : lines[i] > 0}
           N == Len(lines)
<1>1. N \in Nat /\ DOMAIN lines = 1 .. N /\ \A k \in 1 .. N : lines[k] \in Nat
  BY SeqShape DEF Told, IsSide
<1>2. \A i : i \in spoken <=> i \in 1 .. N /\ lines[i] > 0
  BY <1>1
<1>3. spoken # {}
  OBVIOUS
<1> HIDE DEF spoken
<1>4. ~(\A k \in 1 .. N : lines[k] = 0)
  BY <1>2, <1>3
<1>5. PICK m \in 1 .. N : /\ lines[m] > 0 /\ \A k \in 1 .. m - 1 : lines[k] = 0
                          /\ total = SideBytes(lines) + N - m
  BY <1>4 DEF Told
<1>6. spoken \in SUBSET Nat
  BY <1>1, <1>2
<1>7. Min(spoken) \in spoken /\ \A k \in spoken : Min(spoken) <= k
  <2>1. \E x \in spoken : \A k \in spoken : x <= k
    BY <1>3, <1>6, LeastNat
  <2> QED
    BY <2>1 DEF Min
<1> DEFINE least == Min(spoken)
<1>8. least \in spoken /\ \A k \in spoken : least <= k
  BY <1>7
<1> HIDE DEF least
<1>9. least \in 1 .. N /\ lines[least] > 0 /\ m \in spoken
  BY <1>2, <1>5, <1>8
<1>10. least = m
  <2>1. least <= m
    BY <1>8, <1>9
  <2>2. ~(least \in 1 .. m - 1)
    BY <1>5, <1>9
  <2> QED
    BY <1>1, <1>5, <1>9, <2>1, <2>2
<1>11. SideBytes(lines) + N - least <= n
  BY <1>5, <1>10
<1> QED
  BY <1>11 DEF least, spoken

LEMMA CatOne ==
  ASSUME NEW s, IsSeq(s), NEW x
  PROVE  /\ IsSeq(s \o <<x>>) /\ Len(s \o <<x>>) = Len(s) + 1
         /\ \A k \in 1 .. Len(s) : (s \o <<x>>)[k] = s[k]
         /\ (s \o <<x>>)[Len(s) + 1] = x
<1> DEFINE one == <<x>>
           t == s \o one
<1>1. IsSeq(one) /\ Len(one) = 1 /\ one[1] = x
  BY OneSeq
<1> HIDE DEF one
<1>2. IsSeq(t) /\ Len(t) = Len(s) + Len(one)
  BY <1>1, Cat
<1>3. \A k \in 1 .. Len(s) : t[k] = s[k]
  BY <1>1, Cat
<1>4. \A k \in 1 .. Len(one) : t[Len(s) + k] = one[k]
  BY <1>1, Cat
<1> HIDE DEF t
<1>5. t[Len(s) + 1] = x
  BY <1>1, <1>4
<1> QED
  BY <1>1, <1>2, <1>3, <1>5 DEF t, one

\* The sizes of the lines some items come from.
Lines(q, v) == [k \in DOMAIN v |-> q[v[k].at].size]

LEMMA LinesMore ==
  ASSUME NEW q, NEW v, IsSeq(v), NEW x
  PROVE  Lines(q, v \o <<x>>) = Lines(q, v) \o <<q[x.at].size>> /\ Lines(q, <<>>) = <<>>
<1> DEFINE z == q[x.at].size
           w == v \o <<x>>
           N == Len(v)
           a == Lines(q, v)
           b == Lines(q, w)
           c == a \o <<z>>
<1>1. N \in Nat /\ DOMAIN v = 1 .. N
  BY SeqShape
<1>2. IsSeq(w) /\ Len(w) = N + 1 /\ (\A k \in 1 .. N : w[k] = v[k]) /\ w[N + 1] = x
  BY CatOne
<1>3. DOMAIN w = 1 .. N + 1
  BY <1>2, SeqShape
<1> HIDE DEF w
<1>4. a = [k \in 1 .. N |-> a[k]] /\ \A k \in 1 .. N : a[k] = q[v[k].at].size
  BY <1>1 DEF Lines
<1>5. b = [k \in 1 .. N + 1 |-> b[k]] /\ \A k \in 1 .. N + 1 : b[k] = q[w[k].at].size
  BY <1>3 DEF Lines
<1> HIDE DEF a, b, N
<1>6. IsSeq(a) /\ Len(a) = N
  BY <1>1, <1>4, FunctionIsSeq
<1>7. IsSeq(b) /\ Len(b) = N + 1
  <2>1. N + 1 \in Nat
    BY <1>1
  <2> QED
    BY <1>5, <2>1, FunctionIsSeq
<1> HIDE DEF z
<1>8. IsSeq(c) /\ Len(c) = N + 1 /\ (\A k \in 1 .. N : c[k] = a[k]) /\ c[N + 1] = z
  BY <1>6, CatOne
<1> HIDE DEF c
<1>9. \A k \in 1 .. N + 1 : k \in 1 .. N \/ k = N + 1
  BY <1>1
<1>10. \A k \in 1 .. Len(b) : b[k] = c[k]
  <2>1. b[N + 1] = z
    BY <1>1, <1>2, <1>5 DEF z
  <2> QED
    BY <1>2, <1>4, <1>5, <1>7, <1>8, <1>9, <2>1
<1>11. b = c
  BY <1>7, <1>8, <1>10, SameSeq
<1>12. Lines(q, <<>>) = <<>>
  BY DEF Lines
<1> QED
  BY <1>11, <1>12 DEF a, b, c, w, z

\* A table got past: its lines are those of its text.
LEMMA TableTold ==
  ASSUME NEW q, IsTable(q), Clear(Reading(q))
  PROVE  Told(TextBytes(q), Lines(q, Yield(Reading(q), "text")))
<1> DEFINE N == Len(q)
           b == TableBlocks(q)
           f == TextTo(q)
           Y(n) == Yield(FlatTo(b, n), "text")
           good == {n \in 0 .. N : Told(f[n], Lines(q, Y(n)))}
<1>1. Plans(b) /\ Len(b) = N /\ N \in Nat /\ \A i \in 1 .. N : Framed(q, i, b[i])
  BY TablePlan
<1>2. /\ f[0] = 0 /\ \A k \in 0 .. N : f[k] \in Nat
      /\ \A k \in 1 .. N : f[k] = Joined(f[k - 1], q[k])
  BY TableGrows
<1>3. TextBytes(q) = f[N]
  BY <1>1, RunningText
<1>4. Blocks(b) /\ FlattenSeq(b) = FlatTo(b, N)
  BY <1>1, PlansJoin
<1>5. Reading(q) = FlatTo(b, N)
  BY <1>4 DEF Reading
<1>6. \A i \in 1 .. N : Lined(q[i]) => q[i].size \in Nat
  BY TableCost
<1>7. \A i \in 1 .. N : Yield(b[i], "text") = IF Lined(q[i]) THEN <<Item("text", i, <<>>)>> ELSE <<>>
  BY <1>1 DEF Framed
<1>8. \A i \in 1 .. N : IsRect(q[i])
  BY DEF IsTable
<1> HIDE DEF b
<1>9. /\ Y(0) = <<>>
      /\ \A n \in 1 .. N : Y(n) = Y(n - 1) \o Yield(b[n], "text")
      /\ \A n \in 0 .. N : IsSeq(Y(n))
  BY <1>1, <1>4, YieldFlat
<1> HIDE DEF N, f, Y
<1>10. 0 \in good
  <2>1. Lines(q, <<>>) = <<>>
    BY NoSeq, LinesMore
  <2>2. Told(f[0], Lines(q, Y(0)))
    BY <1>2, <1>9, <2>1, ToldNone
  <2> QED
    BY <1>1, <2>2
<1>11. ASSUME NEW n \in 1 .. N, n - 1 \in good PROVE n \in good
  <2>1. n \in 0 .. N /\ n - 1 \in 0 .. N /\ Told(f[n - 1], Lines(q, Y(n - 1)))
    BY <1>1, <1>11
  <2>2. f[n] = Joined(f[n - 1], q[n]) /\ f[n - 1] \in Nat
    BY <1>2, <2>1
  <2>3. Y(n) = Y(n - 1) \o Yield(b[n], "text") /\ IsSeq(Y(n - 1))
    BY <1>9, <2>1
  <2>4. CASE Lined(q[n])
    <3> DEFINE x == Item("text", n, <<>>)
               z == q[n].size
               v == Y(n - 1)
    <3>1. Y(n) = v \o <<x>> /\ x.at = n
      BY <1>7, <2>3, <2>4 DEF Item
    <3>2. z \in Nat
      BY <1>6, <2>4
    <3> HIDE DEF x, v
    <3>3. Lines(q, v \o <<x>>) = Lines(q, v) \o <<q[x.at].size>>
      BY <2>3, LinesMore DEF v
    <3>4. Lines(q, Y(n)) = Lines(q, v) \o <<z>>
      BY <3>1, <3>3
    <3>5. f[n] = f[n - 1] + z + (IF f[n - 1] > 0 THEN 1 ELSE 0)
      BY <2>2, <2>4, <3>2 DEF Joined, Lined
    <3> HIDE DEF z
    <3>6. Told(f[n - 1] + z + (IF f[n - 1] > 0 THEN 1 ELSE 0), Lines(q, v) \o <<z>>)
      BY <2>1, <2>2, <3>2, ToldMore DEF v
    <3> QED
      BY <2>1, <3>4, <3>5, <3>6
  <2>5. CASE ~Lined(q[n])
    <3>1. Y(n) = Y(n - 1)
      BY <1>7, <2>3, <2>5, CatNone
    <3>2. q[n].kind = "text" => q[n].size = Null
      BY <2>5 DEF Lined
    <3>3. f[n] = f[n - 1]
      BY <2>2, <3>2 DEF Joined, Null
    <3> QED
      BY <2>1, <3>1, <3>3
  <2> QED
    BY <2>4, <2>5
<1> HIDE DEF good
<1>12. N \in 0 .. N
  BY <1>1
<1>13. N \in good
  BY <1>1, <1>10, <1>11, <1>12, Counting
<1>14. Told(f[N], Lines(q, Y(N)))
  BY <1>13 DEF good
<1> QED
  BY <1>3, <1>5, <1>14 DEF Y

\* What of a table is read out: its lines, and the pictures that are drawn.
LEMMA TableShows ==
  ASSUME NEW q, IsTable(q)
  PROVE  /\ \A x : x \in Range(Yield(Reading(q), "text")) <=>
              \E i \in 1 .. Len(q) : Lined(q[i]) /\ x = Item("text", i, <<>>)
         /\ \A x : x \in Range(Yield(Reading(q), "bitmap")) <=>
              \E i \in 1 .. Len(q) :
                Drawn(q[i]) /\ x = Item("bitmap", i, Run(q[i].at, Area(q[i])))
<1> DEFINE N == Len(q)
           b == TableBlocks(q)
<1>1. Plans(b) /\ Len(b) = N /\ N \in Nat /\ \A i \in 1 .. N : Framed(q, i, b[i])
  BY TablePlan
<1>2. Blocks(b)
  BY <1>1, PlansJoin
<1>3. \A i \in 1 .. N :
        /\ Yield(b[i], "text") = IF Lined(q[i]) THEN <<Item("text", i, <<>>)>> ELSE <<>>
        /\ Yield(b[i], "bitmap") =
             IF Drawn(q[i]) THEN <<Item("bitmap", i, Run(q[i].at, Area(q[i])))>> ELSE <<>>
  BY <1>1 DEF Framed
<1> HIDE DEF b, N
<1>4. Range(<<>>) = {} /\ \A y : Range(<<y>>) = {y}
  BY NoSeq, OneSeq
<1>5. ASSUME NEW x
      PROVE  x \in Range(Yield(FlattenSeq(b), "text")) <=>
               \E i \in 1 .. N : Lined(q[i]) /\ x = Item("text", i, <<>>)
  <2>1. x \in Range(Yield(FlattenSeq(b), "text")) <=>
          \E n \in 1 .. Len(b) : x \in Range(Yield(b[n], "text"))
    BY <1>2, YieldInFlat
  <2>2. ASSUME NEW i \in 1 .. N
        PROVE  x \in Range(Yield(b[i], "text")) <=> Lined(q[i]) /\ x = Item("text", i, <<>>)
    <3> DEFINE item == Item("text", i, <<>>)
    <3>1. Yield(b[i], "text") = IF Lined(q[i]) THEN <<item>> ELSE <<>>
      BY <1>3
    <3> HIDE DEF item
    <3>2. x \in Range(Yield(b[i], "text")) <=> Lined(q[i]) /\ x = item
      BY <1>4, <3>1
    <3> QED
      BY <3>2 DEF item
  <2> QED
    BY <1>1, <2>1, <2>2
<1>6. ASSUME NEW x
      PROVE  x \in Range(Yield(FlattenSeq(b), "bitmap")) <=>
               \E i \in 1 .. N : Drawn(q[i]) /\ x = Item("bitmap", i, Run(q[i].at, Area(q[i])))
  <2>1. x \in Range(Yield(FlattenSeq(b), "bitmap")) <=>
          \E n \in 1 .. Len(b) : x \in Range(Yield(b[n], "bitmap"))
    BY <1>2, YieldInFlat
  <2>2. ASSUME NEW i \in 1 .. N
        PROVE  x \in Range(Yield(b[i], "bitmap")) <=>
                 Drawn(q[i]) /\ x = Item("bitmap", i, Run(q[i].at, Area(q[i])))
    <3> DEFINE item == Item("bitmap", i, Run(q[i].at, Area(q[i])))
    <3>1. Yield(b[i], "bitmap") = IF Drawn(q[i]) THEN <<item>> ELSE <<>>
      BY <1>3
    <3> HIDE DEF item
    <3>2. x \in Range(Yield(b[i], "bitmap")) <=> Drawn(q[i]) /\ x = item
      BY <1>4, <3>1
    <3> QED
      BY <3>2 DEF item
  <2> QED
    BY <1>1, <2>1, <2>2
<1> QED
  BY <1>5, <1>6 DEF Reading, b, N

\* What a cue keeps of what was read: its lines, or everything but lines.
PaidOut(s, x) == [i \in DOMAIN x |-> IF (x[i].part = "text") = Spoken(s) THEN <<x[i]>> ELSE <<>>]

LEMMA PaidOutBlocks ==
  ASSUME NEW s, NEW x, IsSeq(x)
  PROVE  /\ Blocks(PaidOut(s, x)) /\ Len(PaidOut(s, x)) = Len(x) /\ DOMAIN x = 1 .. Len(x)
         /\ \A i \in 1 .. Len(x) :
              PaidOut(s, x)[i] = IF (x[i].part = "text") = Spoken(s) THEN <<x[i]>> ELSE <<>>
         /\ Payload(s, x) = FlattenSeq(PaidOut(s, x))
<1> DEFINE b == PaidOut(s, x)
           N == Len(x)
<1>1. N \in Nat /\ DOMAIN x = 1 .. N
  BY SeqShape
<1>2. b = [i \in 1 .. N |-> b[i]]
      /\ \A i \in 1 .. N : b[i] = IF (x[i].part = "text") = Spoken(s) THEN <<x[i]>> ELSE <<>>
  BY <1>1 DEF PaidOut
<1>3. Payload(s, x) = FlattenSeq(b)
  BY DEF Payload, PaidOut
<1> HIDE DEF b, N
<1>4. IsSeq(b) /\ Len(b) = N
  BY <1>1, <1>2, FunctionIsSeq
<1>5. ASSUME NEW i \in 1 .. N PROVE IsSeq(b[i])
  <2>1. IsSeq(<<>>) /\ IsSeq(<<x[i]>>)
    BY NoSeq, OneSeq
  <2>2. b[i] = <<>> \/ b[i] = <<x[i]>>
    BY <1>2
  <2> QED
    BY <2>1, <2>2
<1> QED
  BY <1>1, <1>2, <1>3, <1>4, <1>5 DEF Blocks, b, N

LEMMA PayloadRange ==
  ASSUME NEW s, NEW x, IsSeq(x)
  PROVE  /\ IsSeq(Payload(s, x))
         /\ \A y : y \in Range(Payload(s, x)) <=>
              y \in Range(x) /\ ((y.part = "text") = Spoken(s))
<1> DEFINE b == PaidOut(s, x)
           N == Len(x)
           Keeps(y) == (y.part = "text") = Spoken(s)
<1>1. /\ Blocks(b) /\ Len(b) = N /\ DOMAIN x = 1 .. N /\ Payload(s, x) = FlattenSeq(b)
      /\ \A i \in 1 .. N : b[i] = IF Keeps(x[i]) THEN <<x[i]>> ELSE <<>>
  BY PaidOutBlocks
<1> HIDE DEF b, N, Keeps
<1>2. IsSeq(FlattenSeq(b))
  BY <1>1, FlatRange
<1>3. Range(x) = {x[i] : i \in 1 .. N}
  BY <1>1 DEF Range
<1>4. Range(<<>>) = {} /\ \A z : Range(<<z>>) = {z}
  BY NoSeq, OneSeq
<1>5. ASSUME NEW y PROVE y \in Range(FlattenSeq(b)) <=> y \in Range(x) /\ Keeps(y)
  <2>1. y \in Range(FlattenSeq(b)) <=> \E i \in 1 .. Len(b) : y \in Range(b[i])
    BY <1>1, InFlat
  <2>2. \A i \in 1 .. N : y \in Range(b[i]) <=> Keeps(x[i]) /\ y = x[i]
    BY <1>1, <1>4
  <2> QED
    BY <1>1, <1>3, <2>1, <2>2
<1> QED
  BY <1>1, <1>2, <1>5 DEF Keeps

\* The lines of lines are the lines.
LEMMA PartTwice ==
  ASSUME NEW x, IsSeq(x), NEW part
  PROVE  Part(Part(x, part), part) = Part(x, part)
<1> DEFINE v == Part(x, part)
           b == FitsOf(v, part)
<1>1. IsSeq(v) /\ \A y : y \in Range(v) <=> y \in Range(x) /\ y.part = part
  BY PartRange
<1> HIDE DEF v
<1>2. Blocks(b) /\ Len(b) = Len(v) /\ \A i \in 1 .. Len(v) : b[i] = Fits(v[i], part)
  BY <1>1, FitsBlocks
<1>3. Part(v, part) = FlattenSeq(b)
  BY DEF Part
<1>4. DOMAIN v = 1 .. Len(v)
  BY <1>1, SeqShape
<1>5. \A i \in 1 .. Len(v) : v[i] \in Range(v)
  BY <1>4 DEF Range
<1> HIDE DEF b
<1>6. \A i \in 1 .. Len(b) : b[i] = <<v[i]>>
  BY <1>1, <1>2, <1>5 DEF Fits
<1>7. FlattenSeq(b) = v
  BY <1>1, <1>2, <1>6, FlatSingles
<1> QED
  BY <1>3, <1>7 DEF v

\* A cue with a line in it carries its lines; one without carries no line, and
\* every picture.
LEMMA PayloadParts ==
  ASSUME NEW s, NEW x, IsSeq(x)
  PROVE  /\ Spoken(s) => Part(Payload(s, x), "text") = Part(x, "text")
         /\ ~Spoken(s) =>
              /\ Part(Payload(s, x), "text") = <<>>
              /\ \A y : y \in Range(Part(Payload(s, x), "bitmap")) <=> y \in Range(Part(x, "bitmap"))
<1> DEFINE p == Payload(s, x)
<1>1. IsSeq(p) /\ \A y : y \in Range(p) <=> y \in Range(x) /\ ((y.part = "text") = Spoken(s))
  BY PayloadRange
<1>2. Spoken(s) \in BOOLEAN
  BY DEF Spoken
<1>3. ASSUME Spoken(s) PROVE Part(p, "text") = Part(x, "text")
  <2>1. PaidOut(s, x) = FitsOf(x, "text")
    <3>1. \A i : ((x[i].part = "text") = Spoken(s)) <=> x[i].part = "text"
      BY <1>2, <1>3
    <3> QED
      BY <3>1 DEF PaidOut, FitsOf, Fits
  <2>2. p = Part(x, "text")
    BY <2>1, PaidOutBlocks DEF Part
  <2> QED
    BY <2>2, PartTwice
<1> HIDE DEF p
<1>4. ASSUME ~Spoken(s)
      PROVE  /\ Part(p, "text") = <<>>
             /\ \A y : y \in Range(Part(p, "bitmap")) <=> y \in Range(Part(x, "bitmap"))
  <2>1. \A y : y \in Range(p) <=> y \in Range(x) /\ y.part # "text"
    BY <1>1, <1>2, <1>4
  <2>2. IsSeq(Part(p, "text")) /\ \A y : y \in Range(Part(p, "text")) <=> y \in Range(p) /\ y.part = "text"
    BY <1>1, PartRange
  <2>3. \A y : y \notin Range(Part(p, "text"))
    BY <2>1, <2>2
  <2>4. Part(p, "text") = <<>>
    BY <2>2, <2>3, NothingIn
  <2>5. \A y : y \in Range(Part(p, "bitmap")) <=> y \in Range(p) /\ y.part = "bitmap"
    BY <1>1, PartRange
  <2>6. \A y : y \in Range(Part(x, "bitmap")) <=> y \in Range(x) /\ y.part = "bitmap"
    BY PartRange
  <2> QED
    BY <2>1, <2>4, <2>5, <2>6
<1> QED
  BY <1>3, <1>4 DEF p

LEMMA CueOutcome ==
  ASSUME NEW s, s.medium = "subtitle", IsPlan(Plan(s)), NEW c \in Conversions(s)
  PROVE  /\ c.source = s
         /\ \/ /\ Produced(c) /\ Clear(Plan(s)) /\ c.paid = Paid(Plan(s))
               /\ Spoken(s) => Of(c, "text") = Yield(Plan(s), "text")
               /\ ~Spoken(s) =>
                    /\ Of(c, "text") = <<>>
                    /\ \A y : y \in Range(Of(c, "bitmap")) <=> y \in Range(Yield(Plan(s), "bitmap"))
            \/ /\ ~Produced(c) /\ Ending(Plan(s), c.paid, c.verdict)
               /\ \A part : Of(c, part) = <<>>
<1> DEFINE p == Plan(s)
<1>1. PICK refused \in {0} \cup Buys(p) :
        c = [source |-> s, verdict |-> Follows(p, refused).verdict,
             paid |-> Follows(p, refused).paid,
             carried |-> IF s.medium = "subtitle" THEN Payload(s, Follows(p, refused).carried)
                         ELSE Follows(p, refused).carried]
  BY DEF Conversions
<1> HIDE DEF p
<1> DEFINE d == Follows(p, refused)
<1>2. \/ /\ d.verdict = "produced" /\ Clear(p) /\ d.carried = Carried(p) /\ d.paid = Paid(p)
      \/ /\ d.verdict # "produced" /\ d.carried = <<>> /\ Ending(p, d.paid, d.verdict)
  BY FollowsOutcome DEF p
<1>3. c = [source |-> s, verdict |-> d.verdict, paid |-> d.paid,
           carried |-> Payload(s, d.carried)]
  BY <1>1
<1> HIDE DEF d
<1>4. c.source = s /\ c.verdict = d.verdict /\ c.paid = d.paid /\ c.carried = Payload(s, d.carried)
  BY <1>3
<1>5. \A part : Of(c, part) = Part(c.carried, part)
  BY DEF Of, Part, FitsOf, Fits
<1>6. CASE d.verdict = "produced"
  <2> DEFINE x == Carried(p)
  <2>1. c.carried = Payload(s, x) /\ Clear(p) /\ c.paid = Paid(p) /\ Produced(c)
    BY <1>2, <1>4, <1>6 DEF Produced
  <2>2. IsSeq(x) /\ \A part : Yield(p, part) = Part(x, part)
    BY CarriedRange DEF Yield, IsPlan, p
  <2> HIDE DEF x
  <2>3. Spoken(s) => Of(c, "text") = Yield(p, "text")
    BY <1>5, <2>1, <2>2, PayloadParts
  <2>4. ~Spoken(s) =>
          /\ Of(c, "text") = <<>>
          /\ \A y : y \in Range(Of(c, "bitmap")) <=> y \in Range(Yield(p, "bitmap"))
    BY <1>5, <2>1, <2>2, PayloadParts
  <2> QED
    BY <1>4, <2>1, <2>3, <2>4 DEF p
<1>7. CASE d.verdict # "produced"
  <2>1. c.carried = Payload(s, <<>>) /\ Ending(p, c.paid, c.verdict) /\ ~Produced(c)
    BY <1>2, <1>4, <1>7 DEF Produced
  <2>2. Payload(s, <<>>) = <<>>
    <3>1. IsSeq(<<>>) /\ Range(<<>>) = {}
      BY NoSeq
    <3>2. IsSeq(Payload(s, <<>>)) /\ \A y : y \notin Range(Payload(s, <<>>))
      BY <3>1, PayloadRange
    <3> QED
      BY <3>2, NothingIn
  <2>3. \A part : Of(c, part) = <<>>
    BY <1>5, <2>1, <2>2, PartNone
  <2> QED
    BY <1>4, <2>1, <2>3 DEF p
<1> QED
  BY <1>6, <1>7

LEMMA CueFields ==
  ASSUME NEW s \in Cue
  PROVE  /\ s.medium = "subtitle" /\ IsTable(Shown(s)) /\ Len(Shown(s)) \in Nat
         /\ Len(Shown(s)) <= Ceiling.rects /\ DOMAIN Shown(s) = 1 .. Len(Shown(s))
<1> DEFINE All == Line \cup Bitmap \cup [kind : {"none"}]
           t == s.rects
           N == Least(Len(t), Ceiling.rects)
           q == SubSeq(t, 1, N)
<1>1. s.medium = "subtitle" /\ t \in Seq(All)
  BY DEF Cue
<1>2. Ceiling.rects \in Nat
  BY CeilingNat DEF CeilingNames
<1> HIDE DEF t
<1>3. IsSeq(t) /\ Len(t) \in Nat /\ \A i \in 1 .. Len(t) : t[i] \in All
  <2> HIDE DEF All
  <2>1. IsSeq(t)
    BY <1>1, SeqIs
  <2> QED
    BY <1>1, <2>1
<1>4. \A i \in 1 .. Len(t) : IsRect(t[i])
  BY <1>3 DEF IsRect
<1>5. N \in 0 .. Len(t) /\ N <= Ceiling.rects
  BY <1>2, <1>3 DEF Least
<1>6. q = Shown(s)
  BY DEF Shown, t
<1> HIDE DEF N, All
<1>7. IsSeq(q) /\ Len(q) = N /\ \A i \in 1 .. N : q[i] = t[i]
  BY <1>3, <1>5, Prefix
<1> HIDE DEF q
<1>8. \A i \in 1 .. N : i \in 1 .. Len(t)
  BY <1>3, <1>5
<1>9. IsTable(q) /\ DOMAIN q = 1 .. Len(q)
  BY <1>4, <1>7, <1>8, SeqShape DEF IsTable
<1> QED
  BY <1>1, <1>3, <1>5, <1>6, <1>7, <1>9

\* A subtitle: what it may cost, where it may end, and what is read of it.
LEMMA CuePlanOutcome ==
  ASSUME NEW s \in Cue
  PROVE  /\ IsPlan(SubtitlePlan(s))
         /\ \A m, f : Ending(SubtitlePlan(s), m, f) =>
              m <= 2 * Ceiling.allText + Ceiling.allBitmaps + Ceiling.rects * Ceiling.palette
         /\ Clear(SubtitlePlan(s)) =>
              /\ Paid(SubtitlePlan(s)) <=
                   2 * Ceiling.allText + Ceiling.allBitmaps + Ceiling.rects * Ceiling.palette
              /\ Clear(Reading(Shown(s)))
         /\ Yield(SubtitlePlan(s), "text") = Yield(Reading(Shown(s)), "text")
         /\ Yield(SubtitlePlan(s), "bitmap") = Yield(Reading(Shown(s)), "bitmap")
<1> DEFINE q == Shown(s)
           r == Reading(q)
           h == s.rects # <<>> /\ s.table = Null
           j == Judge("pointer", h)
           a == IF s.rects = <<>> THEN <<>> ELSE Buy(0, Scratch)
           T == TextBytes(q)
           cost == IF Spoken(s) THEN T ELSE 0
           e == IF Spoken(s) THEN Buy(T, Scratch) ELSE <<>>
           X == Ceiling.allText
           B == Ceiling.allBitmaps
           P == Ceiling.rects * Ceiling.palette
           low == X + B + Len(q) * Ceiling.palette
           top == 2 * X + B + P
           F == {"pointer", "alloc"}
<1>1. IsTable(q) /\ Len(q) \in Nat /\ Len(q) <= Ceiling.rects
  BY CueFields
<1>2. X \in Nat /\ B \in Nat /\ Ceiling.rects \in Nat /\ Ceiling.palette \in Nat
  BY CeilingNat DEF CeilingNames
<1>3. SubtitlePlan(s) = ((j \o a) \o r) \o e
  BY DEF SubtitlePlan, Reading, TableBlocks, RectAt
<1>4. /\ IsPlan(r) /\ Frugal(r)
      /\ \A m, f : Ending(r, m, f) => m \in Nat /\ m <= low
      /\ Clear(r) => Paid(r) <= low /\ T <= X
  BY <1>1, TableCost
<1>5. T \in Nat
  <2>1. T = TextTo(q)[Len(q)] /\ Len(q) \in 0 .. Len(q)
    BY <1>1, RunningText
  <2> QED
    BY <1>1, <2>1, TableGrows
<1>6. low <= X + B + P /\ P \in Nat
  <2> DEFINE u == Len(q) * Ceiling.palette
  <2>1. u <= P /\ u \in Nat /\ P \in Nat
    BY <1>1, <1>2, ProductGrows, ProductNat
  <2>2. low = X + B + u
    OBVIOUS
  <2> HIDE DEF u, P, low
  <2> QED
    BY <1>2, <2>1, <2>2
<1>7. h \in BOOLEAN /\ "pointer" \in F /\ "alloc" \in F
      /\ "pointer" \notin {"produced", "alloc"}
  OBVIOUS
<1>8. a = <<>> \/ a = Buy(0, Scratch)
  OBVIOUS
<1>9. e = (IF Spoken(s) THEN Buy(T, Scratch) ELSE <<>>) /\ cost = IF Spoken(s) THEN T ELSE 0
  OBVIOUS
<1> HIDE DEF q, r, h, T, X, B, P, low, a, cost, e, F
<1>10. Idle(j, F) /\ Idle(a, F)
  <2>1. Idle(j, F)
    BY <1>7, IdleJudge
  <2>2. Idle(Buy(0, Scratch), F) /\ Idle(<<>>, F)
    BY <1>7, IdleScratch
  <2> QED
    BY <1>8, <2>1, <2>2
<1> HIDE DEF j
<1> DEFINE b == j \o a
           c == b \o r
           p == c \o e
<1>11. Idle(b, F)
  BY <1>10, IdleCat
<1> HIDE DEF b
<1>12. IsPlan(b) /\ Works(b, 0, F) /\ Paid(b) = 0 /\ \A part : Yield(b, part) = <<>>
  BY <1>11 DEF Idle, Works
<1>13. IsPlan(e) /\ Paid(e) = cost /\ cost \in Nat /\ cost <= T
       /\ (\A m, f : Ending(e, m, f) => m = 0) /\ \A part : Yield(e, part) = <<>>
  <2>1. CASE Spoken(s)
    <3>1. e = Buy(T, Scratch) /\ cost = T
      BY <1>9, <2>1
    <3>2. IsPlan(Buy(T, Scratch)) /\ Paid(Buy(T, Scratch)) = T
          /\ \A m, f : Ending(Buy(T, Scratch), m, f) => m = 0
      BY <1>5, BuyPlan
    <3>3. \A part : Yield(Buy(T, Scratch), part) = <<>>
      BY <1>5, YieldScratch
    <3> QED
      BY <1>5, <3>1, <3>2, <3>3
  <2>2. CASE ~Spoken(s)
    <3>1. e = <<>> /\ cost = 0
      BY <1>9, <2>2
    <3> QED
      BY <1>5, <3>1, NoPlan, YieldNothing
  <2> QED
    BY <2>1, <2>2
<1>14. IsPlan(c) /\ (Clear(c) => Clear(r))
  BY <1>4, <1>12, PlanCat
<1>15. Paid(c) = Paid(r) /\ Paid(r) \in Int
  <2>1. Paid(c) = Paid(b) + Paid(r) /\ Paid(r) \in Int
    BY <1>4, <1>12, PaidCat
  <2> QED
    BY <1>12, <2>1
<1>16. \A part : Yield(c, part) = Yield(r, part)
  BY <1>4, <1>12, YieldPast
<1>17. ASSUME NEW m, NEW f, Ending(c, m, f) PROVE m \in Nat /\ m <= X + B + P
  <2>1. Ending(b, m, f) \/ \E n : Ending(r, n, f) /\ m = Paid(b) + n
    BY <1>4, <1>12, <1>17, EndingCat
  <2>2. CASE Ending(b, m, f)
    <3>1. m \in Nat /\ m <= 0
      BY <1>12, <2>2, WorksEnding
    <3> QED
      BY <1>2, <1>6, <3>1
  <2>3. CASE \E n : Ending(r, n, f) /\ m = Paid(b) + n
    <3>1. PICK n : Ending(r, n, f) /\ m = Paid(b) + n
      BY <2>3
    <3>2. n \in Nat /\ n <= low /\ m = n
      BY <1>4, <1>12, <3>1
    <3>3. low \in Int
      <4>1. Len(q) * Ceiling.palette \in Nat
        BY <1>1, <1>2, ProductNat
      <4> QED
        BY <1>2, <4>1 DEF low
    <3> QED
      BY <1>2, <1>6, <3>2, <3>3
  <2> QED
    BY <2>1, <2>2, <2>3
<1>18. Clear(c) => Paid(c) <= X + B + P /\ T <= X
  <2>1. low \in Int
    <3>1. Len(q) * Ceiling.palette \in Nat
      BY <1>1, <1>2, ProductNat
    <3> QED
      BY <1>2, <3>1 DEF low
  <2> QED
    BY <1>2, <1>4, <1>6, <1>14, <1>15, <2>1
<1> HIDE DEF c
<1>19. IsPlan(p) /\ (Clear(p) => Clear(c))
  BY <1>13, <1>14, PlanCat
<1>20. ASSUME NEW m, NEW f, Ending(p, m, f) PROVE m <= top
  <2>1. Ending(c, m, f) \/ (Clear(c) /\ \E n : Ending(e, n, f) /\ m = Paid(c) + n)
    BY <1>13, <1>14, <1>20, EndingCat
  <2>2. CASE Ending(c, m, f)
    BY <1>2, <1>6, <1>17, <2>2
  <2>3. CASE Clear(c) /\ \E n : Ending(e, n, f) /\ m = Paid(c) + n
    <3>1. m = Paid(c) /\ Paid(c) \in Int
      BY <1>13, <1>15, <2>3
    <3> QED
      BY <1>2, <1>6, <1>18, <2>3, <3>1
  <2> QED
    BY <2>1, <2>2, <2>3
<1>21. ASSUME Clear(p) PROVE Paid(p) <= top /\ Clear(r)
  <2>1. Paid(p) = Paid(c) + Paid(e)
    BY <1>13, <1>14, PaidCat
  <2>2. Clear(c) /\ Paid(c) <= X + B + P /\ T <= X /\ Paid(c) \in Int
    BY <1>15, <1>18, <1>19, <1>21
  <2>3. Paid(p) <= top
    BY <1>2, <1>5, <1>6, <1>13, <2>1, <2>2
  <2> QED
    BY <1>14, <2>2, <2>3
<1>22. \A part : Yield(p, part) = Yield(r, part)
  BY <1>13, <1>14, <1>16, YieldPast
<1>23. SubtitlePlan(s) = p
  BY <1>3 DEF p, c, b
<1> HIDE DEF p
<1> QED
  BY <1>19, <1>20, <1>21, <1>22, <1>23 DEF X, B, P, r, q

\* Every conversion of a subtitle is honest.
LEMMA CueHonest ==
  ASSUME NEW s \in Cue, NEW c \in Conversions(s)
  PROVE  Honest(c)
<1> DEFINE q == Shown(s)
           r == Reading(q)
           p == SubtitlePlan(s)
           top == 2 * Ceiling.allText + Ceiling.allBitmaps + Ceiling.rects * Ceiling.palette
<1>1. s.medium = "subtitle" /\ IsTable(q) /\ DOMAIN q = 1 .. Len(q)
  BY CueFields
<1>2. Plan(s) = p
  BY <1>1 DEF Plan
<1>3. /\ IsPlan(p)
      /\ \A m, f : Ending(p, m, f) => m <= top
      /\ Clear(p) => Paid(p) <= top /\ Clear(r)
      /\ Yield(p, "text") = Yield(r, "text") /\ Yield(p, "bitmap") = Yield(r, "bitmap")
  BY CuePlanOutcome
<1>4. ASSUME c.source = s, c.paid <= top PROVE PaysWithin(c)
  BY <1>1, <1>4 DEF PaysWithin
<1>5. Spoken(s) <=> TextBytes(q) > 0
  BY DEF Spoken
<1>6. ASSUME c.source = s PROVE ExposesWritten(c) /\ RectInside(c)
  BY <1>1, <1>6 DEF ExposesWritten, RectInside
<1> HIDE DEF p, top
<1>7. c.source = s
  BY <1>1, <1>2, <1>3, CueOutcome
<1>8. \/ /\ Produced(c) /\ Clear(p) /\ c.paid = Paid(p)
         /\ Spoken(s) => Of(c, "text") = Yield(p, "text")
         /\ ~Spoken(s) =>
              /\ Of(c, "text") = <<>>
              /\ \A y : y \in Range(Of(c, "bitmap")) <=> y \in Range(Yield(p, "bitmap"))
      \/ /\ ~Produced(c) /\ Ending(p, c.paid, c.verdict)
         /\ \A part : Of(c, part) = <<>>
  BY <1>1, <1>2, <1>3, CueOutcome
<1>9. ASSUME ~Produced(c), Ending(p, c.paid, c.verdict), \A part : Of(c, part) = <<>>
      PROVE  Honest(c)
  <2>1. PaysWithin(c)
    BY <1>3, <1>4, <1>7, <1>9
  <2> QED
    BY <1>9, <2>1, NothingOf DEF Honest
<1>10. ASSUME Produced(c), Clear(p), c.paid = Paid(p),
              Spoken(s) => Of(c, "text") = Yield(p, "text"),
              ~Spoken(s) =>
                /\ Of(c, "text") = <<>>
                /\ \A y : y \in Range(Of(c, "bitmap")) <=> y \in Range(Yield(p, "bitmap"))
       PROVE  Honest(c)
  <2>1. PaysWithin(c)
    BY <1>3, <1>4, <1>7, <1>10
  <2>2. Clear(r)
    BY <1>3, <1>10
  <2>3. TextWithin(c)
    <3>1. CASE ~Spoken(s)
      <4>1. Of(c, "text") = <<>> /\ DOMAIN <<>> = {}
        BY <1>10, <3>1
      <4> QED
        BY <4>1 DEF TextWithin
    <3>2. CASE Spoken(s)
      <4> DEFINE v == Of(c, "text")
                 lines == Lines(q, v)
                 spoken == {i \in DOMAIN lines : lines[i] > 0}
      <4>1. v = Yield(r, "text")
        BY <1>3, <1>10, <3>2
      <4>2. Told(TextBytes(q), lines)
        BY <1>1, <2>2, <4>1, TableTold
      <4>3. TextBytes(q) <= Ceiling.allText /\ Ceiling.allText \in Nat
        <5>1. TextBytes(q) <= Ceiling.allText
          BY <1>1, <2>2, TableCost
        <5>2. Ceiling.allText \in Nat
          BY CeilingNat DEF CeilingNames
        <5> QED
          BY <5>1, <5>2
      <4>4. lines = [i \in DOMAIN v |-> q[v[i].at].size]
        BY DEF Lines
      <4> HIDE DEF lines, q, v
      <4>5. spoken # {} => SideBytes(lines) + Len(lines) - Min(spoken) <= Ceiling.allText
        BY <4>2, <4>3, ToldWithin
      <4>6. lines = [i \in DOMAIN Of(c, "text") |-> Shown(c.source)[Of(c, "text")[i].at].size]
        BY <1>7, <4>4 DEF v, q
      <4> QED
        BY <4>5, <4>6 DEF TextWithin
    <3> QED
      BY <3>1, <3>2
  <2>4. CarriesAll(c)
    <3> DEFINE held(part) == {i.at : i \in Range(Of(c, part))}
               N == Len(q)
               line == [i \in 1 .. N |-> Item("text", i, <<>>)]
               picture == [i \in 1 .. N |-> Item("bitmap", i, Run(q[i].at, Area(q[i])))]
               L == {i \in DOMAIN q : q[i].kind = "text" /\ q[i].size # Null}
               D == {i \in DOMAIN q : Drawn(q[i])}
    <3>1. \A i \in 1 .. N : line[i] = Item("text", i, <<>>) /\ line[i].at = i
      BY DEF Item
    <3>2. \A i \in 1 .. N : picture[i] = Item("bitmap", i, Run(q[i].at, Area(q[i])))
                            /\ picture[i].at = i
      BY DEF Item
    <3>3. (\A i : i \in L <=> i \in 1 .. N /\ Lined(q[i])) /\ (\A i : i \in D <=> i \in 1 .. N /\ Drawn(q[i]))
      BY <1>1 DEF Lined
    <3>4. /\ \A x : x \in Range(Yield(r, "text")) <=>
               \E i \in 1 .. N : Lined(q[i]) /\ x = Item("text", i, <<>>)
          /\ \A x : x \in Range(Yield(r, "bitmap")) <=>
               \E i \in 1 .. N : Drawn(q[i]) /\ x = Item("bitmap", i, Run(q[i].at, Area(q[i])))
      BY <1>1, TableShows
    <3> HIDE DEF line, picture, L, D, r, N
    <3>5. Spoken(s) => held("text") = L
      <4>1. SUFFICES ASSUME Spoken(s) PROVE held("text") = L
        OBVIOUS
      <4> DEFINE R == Range(Of(c, "text"))
      <4>2. \A x : x \in R <=> x \in Range(Yield(r, "text"))
        BY <1>3, <1>10, <4>1
      <4> HIDE DEF R
      <4>3. ASSUME NEW x PROVE x \in R <=> \E i \in L : x = line[i]
        BY <3>1, <3>3, <3>4, <4>2
      <4>4. \A i \in L : line[i].at = i
        BY <3>1, <3>3
      <4>5. {x.at : x \in R} = L
        BY <4>3, <4>4, HeldAre
      <4> QED
        BY <4>5 DEF R
    <3>6. ~Spoken(s) => held("bitmap") = D
      <4>1. SUFFICES ASSUME ~Spoken(s) PROVE held("bitmap") = D
        OBVIOUS
      <4> DEFINE R == Range(Of(c, "bitmap"))
      <4>2. \A x : x \in R <=> x \in Range(Yield(r, "bitmap"))
        BY <1>3, <1>10, <4>1
      <4> HIDE DEF R
      <4>3. ASSUME NEW x PROVE x \in R <=> \E i \in D : x = picture[i]
        BY <3>2, <3>3, <3>4, <4>2
      <4>4. \A i \in D : picture[i].at = i
        BY <3>2, <3>3
      <4>5. {x.at : x \in R} = D
        BY <4>3, <4>4, HeldAre
      <4> QED
        BY <4>5 DEF R
    <3>7. s.medium # "image" /\ s.medium # "audio"
      BY <1>1
    <3> HIDE DEF held
    <3>8. IF Spoken(s) THEN held("text") = {i \in DOMAIN Shown(s) :
                                              Shown(s)[i].kind = "text" /\ Shown(s)[i].size # Null}
          ELSE held("bitmap") = {i \in DOMAIN Shown(s) : Drawn(Shown(s)[i])}
      BY <3>5, <3>6 DEF L, D, q
    <3> QED
      BY <1>1, <1>7, <3>7, <3>8 DEF CarriesAll, held
  <2> QED
    BY <1>6, <1>7, <2>1, <2>3, <2>4 DEF Honest
<1> QED
  BY <1>8, <1>9, <1>10

-----------------------------------------------------------------------------
(***************************************************************************)
(* What the sessions carry.                                                *)
(***************************************************************************)

\* Whatever libavcodec may write, on any road.
Known == UNION {Sources[r] : r \in DOMAIN Sources}

\* What waits in the scratch is something libavcodec wrote.
CarriedInv == (parked # <<>> => source \in Known) /\ CarriedHonest

LEMMA KnownHonest ==
  ASSUME NEW s \in Known, NEW c \in Outcomes[s]
  PROVE  Honest(c) /\ c.source = s
<1>1. Outcomes[s] = Conversions(s)
  BY DEF Outcomes, Known
<1>2. s \in Still \/ s \in Sound \/ s \in Cue
  <2>1. PICK r \in {"audio", "subtitle", "image"} : s \in Sources[r]
    BY SoftwareAssumption DEF Known
  <2> QED
    BY <2>1, SoftwareAssumption
<1>3. Honest(c)
  <2>1. c \in Conversions(s)
    BY <1>1
  <2> QED
    BY <1>2, <2>1, StillHonest, SoundHonest, CueHonest
<1>4. c.source = s
  BY <1>1 DEF Conversions
<1> QED
  BY <1>3, <1>4

LEMMA ConvertsHonest ==
  ASSUME NEW frame, NEW s \in Known, Converts(frame, s)
  PROVE  CarriedInv'
<1>1. PICK c \in Outcomes[s] :
        \/ c.verdict = "produced" /\ Delivers(frame, c)
        \/ c.verdict = "alloc" /\ Parks(frame, c)
        \/ c.verdict \notin {"produced", "alloc"} /\ LetsGo(frame, c)
  BY DEF Converts
<1>2. Honest(c) /\ c.source = s
  BY KnownHonest
<1>3. conversion' = c /\ (parked' = <<>> \/ source' = s)
  BY <1>1, <1>2 DEF Delivers, Parks, LetsGo, Free, Converted
<1> QED
  BY <1>2, <1>3 DEF CarriedInv, CarriedHonest

LEMMA QuietHonest ==
  ASSUME CarriedInv, conversion' = Unconverted,
         parked' = <<>> \/ UNCHANGED <<parked, source>> \/ source' \in Known
  PROVE  CarriedInv'
BY DEF CarriedInv, CarriedHonest

LEMMA SourcesKnown ==
  ASSUME NEW r \in {"audio", "subtitle", "image"}, NEW s \in Sources[r]
  PROVE  s \in Known
BY SoftwareAssumption DEF Known

LEMMA CarriedStep ==
  ASSUME CarriedInv, [Next]_vars
  PROVE  CarriedInv'
<1>1. ASSUME NEW a, Leaves(a) PROVE CarriedInv'
  BY <1>1, QuietHonest DEF Leaves, Answers, seat
<1>2. CASE AudioUnbuilt \/ SubtitleRefuses \/ SubtitleFails
  BY <1>1, <1>2 DEF AudioUnbuilt, SubtitleRefuses, SubtitleGates, SubtitleFails
<1>3. CASE AudioTakesPacket \/ AudioTakesEnd \/ SubtitleEnds
  BY <1>3, QuietHonest
     DEF AudioTakesPacket, AudioTakesEnd, SubtitleEnds, Accepts, Answers, seat
<1>4. CASE AudioRefusesPacket
  BY <1>1, <1>4 DEF AudioRefusesPacket
<1>5. CASE AudioRefusesEnd
  BY <1>5, QuietHonest DEF AudioRefusesEnd, Answers
<1>6. CASE AudioConvertsParked
  BY <1>6, ConvertsHonest DEF AudioConvertsParked, CarriedInv
<1>7. CASE AudioReceives
  <2>1. CASE \E e \in ReceiveErrors(dec) : dec' = Collected(e) /\ Leaves(ReceiveStatus(Verdict(e)))
    BY <1>1, <2>1
  <2>2. CASE \E s \in Sources["audio"] : Converts(NextPicture(dec), s)
    BY <2>2, ConvertsHonest, SourcesKnown
  <2> QED
    BY <1>7, <2>1, <2>2 DEF AudioReceives
<1>8. CASE SubtitleDecodes
  <2>1. source' \in Known \/ UNCHANGED <<parked, source>>
    BY <1>8, SourcesKnown DEF SubtitleDecodes
  <2>2. conversion' = Unconverted
    BY <1>8 DEF SubtitleDecodes, Accepts, Answers
  <2> QED
    BY <2>1, <2>2, QuietHonest
<1>9. CASE SubtitleReceives
  <2>1. CASE parked = <<>>
    BY <1>1, <1>9, <2>1 DEF SubtitleReceives
  <2>2. CASE parked # <<>>
    BY <1>9, <2>2, ConvertsHonest DEF SubtitleReceives, CarriedInv
  <2> QED
    BY <2>1, <2>2
<1>10. CASE Flush
  BY <1>10, QuietHonest DEF Flush, Free, Answers
<1>11. ASSUME NEW a, Undecoded(a) PROVE CarriedInv'
  BY <1>11, QuietHonest DEF Undecoded, Decodes, Answers, seat
<1>12. CASE ImageRefused \/ ImageUnsent \/ ImageUnread
  BY <1>11, <1>12 DEF ImageRefused, ImageUnsent, ImageUnread
<1>13. CASE ImageRead
  <2>1. ASSUME NEW s \in Sources["image"], NEW c \in Outcomes[s], NEW a, NEW pictures,
               Decodes(pictures), Converted(c, a)
        PROVE  CarriedInv'
    <3>1. Honest(c)
      BY <2>1, KnownHonest, SourcesKnown
    <3>2. conversion' = c /\ UNCHANGED <<parked, source>>
      BY <2>1 DEF Decodes, Converted, seat
    <3> QED
      BY <3>1, <3>2 DEF CarriedInv, CarriedHonest
  <2> QED
    BY <1>11, <1>13, <2>1 DEF ImageRead
<1>14. CASE UNCHANGED vars
  BY <1>14 DEF CarriedInv, CarriedHonest, vars, seat
<1> QED
  BY <1>2, <1>3, <1>4, <1>5, <1>6, <1>7, <1>8, <1>9, <1>10, <1>12, <1>13, <1>14
     DEF Next, AudioStep, SubtitleStep, ImageStep

\* Whatever libavcodec writes within its types, however short memory is and
\* however often a frame is tried again: what is carried is what was written,
\* all of it, within the ceilings, and a refusal cost nothing.
THEOREM EverythingCarriedHonest == Spec => []CarriedHonest
<1>1. Init => CarriedInv
  BY DEF Init, CarriedInv, CarriedHonest
<1>2. CarriedInv /\ [Next]_vars => CarriedInv'
  BY CarriedStep
<1>3. CarriedInv => CarriedHonest
  BY DEF CarriedInv
<1> QED
  BY <1>1, <1>2, <1>3, PTL DEF Spec
=============================================================================
