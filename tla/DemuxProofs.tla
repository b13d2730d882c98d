---------------------------- MODULE DemuxProofs ----------------------------
(***************************************************************************)
(* Proofs about the demuxer, its opening and its session.                  *)
(*                                                                         *)
(* An opened demuxer: for any table of tracks, any file, any number of     *)
(* seeks and refused allocations, and wherever libavformat lands after a   *)
(* seek.                                                                   *)
(*                                                                         *)
(* Opening one: for any container, any ceilings and any reader, however    *)
(* the probe reads, whichever allocation is refused.  The admission        *)
(* charges a container and the building pays for it, two passes over the   *)
(* same rows.  What links them is the running total of each budget over    *)
(* the rows of the container: at a row and a stage, both passes have come  *)
(* to the same total, so what the first judged the second finds judged.    *)
(*                                                                         *)
(* The two components share no name and no state.                          *)
(***************************************************************************)
EXTENDS DemuxSession, DemuxOpen, NaturalsInduction, WellFoundedInduction,
        SequenceTheorems, TLAPS

-----------------------------------------------------------------------------
(* Files *)

LEMMA FileType ==
  ASSUME TypeOK
  PROVE  /\ file \in Seq(Items) /\ Len(file) \in Nat
         /\ DOMAIN file = 1 .. Len(file)
         /\ \A i \in 1 .. Len(file) : file[i].what = "packet" =>
              /\ file[i] \in Packets
              /\ file[i].pts \in Int /\ file[i].dur \in Int /\ file[i].stream \in Int
<1>1. file \in Seq(Items) BY SessionAssumption DEF TypeOK
<1>2. ASSUME NEW i \in 1 .. Len(file), file[i].what = "packet"
      PROVE  file[i] \in Packets
  <2>1. file[i] \in Items BY <1>1
  <2>2. file[i] \notin [what : {"damaged", "fatal"}] BY <1>2
  <2> QED BY <2>1, <2>2 DEF Items
<1> QED BY <1>1, <1>2 DEF Packets

\* The packet of a turn is one of the file's, and the reader is past it.
LEMMA TakesWhat ==
  ASSUME TypeOK, unconverted # 0 => file[unconverted].what = "packet",
         NEW i \in 1 .. Len(file), Takes(i)
  PROVE  file[i].what = "packet" /\ pos' \in 1 .. Len(file) + 1
<1>1. CASE unconverted # 0 BY <1>1 DEF Takes, TypeOK
<1>2. CASE unconverted = 0
  <2>1. pos <= Len(file) /\ file[pos].what = "packet" /\ i = pos /\ pos' = pos + 1
    BY <1>2 DEF Takes, AtItem
  <2> QED BY <2>1, FileType DEF TypeOK
<1> QED BY <1>1, <1>2

-----------------------------------------------------------------------------
(* Types *)

Parked == unconverted # 0 => file[unconverted].what = "packet"

MeasuredType ==
  /\ figure \in [Track -> Int] /\ exact \in [Track -> BOOLEAN]
  /\ unbroken \in BOOLEAN /\ complete \in BOOLEAN

LEMMA BreakType ==
  ASSUME MeasuredType, BreakWalk
  PROVE  MeasuredType'
BY DEF MeasuredType, BreakWalk

LEMMA EndType ==
  ASSUME MeasuredType, EndOfFile
  PROVE  MeasuredType'
BY DEF MeasuredType, EndOfFile

LEMMA FigureType ==
  ASSUME MeasuredType, NEW t \in Track, NEW p, p.pts \in Int, p.dur \in Int
  PROVE  NewFigure(t, p) \in Int
<1>1. figure[t] \in Int BY DEF MeasuredType
<1>2. PacketEnd(p) \in Int BY DEF PacketEnd
<1>3. Unrepresentable \in Int BY DEF Unrepresentable
<1> QED BY <1>1, <1>2, <1>3 DEF NewFigure

LEMMA ObserveType ==
  ASSUME MeasuredType, NEW t \in Track, NEW p, p.pts \in Int, p.dur \in Int,
         NEW breaks \in BOOLEAN, Observe(t, p, breaks)
  PROVE  MeasuredType'
<1>1. CASE complete BY <1>1 DEF Observe, measured, MeasuredType
<1>2. CASE ~complete
  <2>1. figure' \in [Track -> Int]
    BY <1>2, FigureType DEF Observe, MeasuredType
  <2>2. exact' \in [Track -> BOOLEAN]
    <3>1. exact' = [exact EXCEPT ![t] = exact[t] /\ p.pts # NoPts /\ p.dur > 0]
      BY <1>2 DEF Observe
    <3> DEFINE mark == exact[t] /\ p.pts # NoPts /\ p.dur > 0
    <3>2. mark \in BOOLEAN OBVIOUS
    <3> HIDE DEF mark
    <3>3. exact' = [exact EXCEPT ![t] = mark] BY <3>1 DEF mark
    <3> QED BY <3>2, <3>3 DEF MeasuredType
  <2>3. unbroken' \in BOOLEAN /\ complete' \in BOOLEAN
    BY <1>2 DEF Observe, MeasuredType
  <2> QED BY <2>1, <2>2, <2>3 DEF MeasuredType
<1> QED BY <1>1, <1>2

\* The rest of the state: everything but the figures of the walk.
SessionType ==
  /\ file \in Files /\ pos \in 1 .. Len(file) + 1
  /\ latch \in {"none", "eof", "error"}
  /\ panicked \in BOOLEAN /\ eof \in BOOLEAN
  /\ pending \in Seq(Track) /\ handed \in Seq(Track)
  /\ unconverted \in 0 .. Len(file)
  /\ call \in {"idle", "walking"} /\ result \in Results
  /\ start \in 1 .. Len(file) + 1 /\ carried \in 0 .. Len(file)
  /\ delivered \in Seq(1 .. Len(file))
  /\ seeks \in 0 .. MaxSeeks /\ allocs \in 0 .. MaxAllocs

LEMMA TypeParts == TypeOK <=> SessionType /\ MeasuredType
BY DEF TypeOK, SessionType, MeasuredType

LEMMA InitType ==
  ASSUME Init
  PROVE  TypeOK /\ Parked
<1>1. file \in Files /\ file \in Seq(Items) /\ Len(file) \in Nat
  BY SessionAssumption DEF Init
<1>2. MaxSeeks \in Nat /\ MaxAllocs \in Nat /\ Attachments \in Seq(Track)
  BY SessionAssumption
<1>3. MeasuredType
  <2>1. Unseen \in Int BY DEF Unseen
  <2>2. figure \in [Track -> Int] BY <2>1 DEF Init
  <2>3. exact \in [Track -> BOOLEAN] BY DEF Init
  <2> QED BY <2>2, <2>3 DEF Init, MeasuredType
<1>4. SessionType
  <2>1. pos \in 1 .. Len(file) + 1 /\ start \in 1 .. Len(file) + 1
    BY <1>1 DEF Init
  <2>2. unconverted \in 0 .. Len(file) /\ carried \in 0 .. Len(file)
    BY <1>1 DEF Init
  <2>3. seeks \in 0 .. MaxSeeks /\ allocs \in 0 .. MaxAllocs
    BY <1>2 DEF Init
  <2>4. handed \in Seq(Track) /\ delivered \in Seq(1 .. Len(file)) /\ pending \in Seq(Track)
    BY <1>2 DEF Init
  <2> QED BY <2>1, <2>2, <2>3, <2>4 DEF Init, SessionType, Results
<1> QED BY <1>3, <1>4, TypeParts DEF Init, Parked

LEMMA PullType ==
  ASSUME TypeOK, Parked, Pull
  PROVE  TypeOK' /\ Parked'
<1>1. CASE PullPanicked
  BY <1>1 DEF PullPanicked, Answer, Results, input, measured, history, bounds, TypeOK, Parked
<1>2. CASE PullAttachment
  <2>1. Head(pending) \in Track /\ Tail(pending) \in Seq(Track)
    BY <1>2 DEF PullAttachment, TypeOK
  <2>2. handed' \in Seq(Track) /\ pending' \in Seq(Track)
    BY <1>2, <2>1 DEF PullAttachment, TypeOK
  <2> QED
    BY <1>2, <2>2 DEF PullAttachment, Answer, Results, input, measured, bounds, TypeOK, Parked
<1>3. CASE PullEnter
  BY <1>3 DEF PullEnter, input, measured, history, bounds, TypeOK, Parked
<1> QED BY <1>1, <1>2, <1>3 DEF Pull

LEMMA ReadType ==
  ASSUME TypeOK, Parked, ReadEof \/ ReadDamaged \/ ReadFatal \/ ReadPanics
  PROVE  TypeOK' /\ Parked'
<1>1. CASE ReadEof
  <2>1. MeasuredType' BY <1>1, TypeParts, EndType DEF ReadEof
  <2>2. SessionType' /\ Parked'
    BY <1>1, TypeParts DEF ReadEof, Answer, Results, history, bounds, SessionType, Parked
  <2> QED BY <2>1, <2>2 DEF TypeOK, SessionType, MeasuredType
<1>2. CASE ReadDamaged
  <2>1. MeasuredType' BY <1>2, TypeParts, BreakType DEF ReadDamaged
  <2>2. SessionType' /\ Parked'
    BY <1>2, TypeParts, FileType
       DEF ReadDamaged, AtItem, history, bounds, SessionType, Parked
  <2> QED BY <2>1, <2>2 DEF TypeOK, SessionType, MeasuredType
<1>3. CASE ReadFatal
  BY <1>3 DEF ReadFatal, Answer, Results, measured, history, bounds, TypeOK, Parked
<1>4. CASE ReadPanics
  BY <1>4 DEF ReadPanics, Answer, Results, measured, history, bounds, TypeOK, Parked
<1> QED BY <1>1, <1>2, <1>3, <1>4

LEMMA PacketType ==
  ASSUME TypeOK, Parked, NEW i \in 1 .. Len(file),
         \/ PassUnplaceable(i) \/ PassAttachment(i) \/ PassEmpty(i)
         \/ Deliver(i) \/ Park(i) \/ Refuse(i)
  PROVE  TypeOK' /\ Parked'
<1> USE DEF Parked
<1>0. Len(file) \in Nat /\ MeasuredType /\ SessionType BY FileType, TypeParts
<1>t. ASSUME Takes(i)
      PROVE  file[i].what = "packet" /\ pos' \in 1 .. Len(file) + 1
  BY <1>t, TakesWhat
<1>o. ASSUME TakesTimed(i), NEW breaks \in BOOLEAN, Observe(file[i].stream, file[i], breaks)
      PROVE  MeasuredType'
  <2>1. file[i].stream \in Track /\ file[i].what = "packet" BY <1>o, <1>t DEF TakesTimed
  <2>2. file[i].pts \in Int /\ file[i].dur \in Int BY <2>1, FileType
  <2> QED BY <1>0, <1>o, <2>1, <2>2, ObserveType
<1>1. CASE PassUnplaceable(i)
  <2>1. MeasuredType' BY <1>0, <1>1, BreakType DEF PassUnplaceable
  <2>2. SessionType' /\ Parked'
    BY <1>0, <1>1, <1>t DEF PassUnplaceable, history, bounds, SessionType
  <2> QED BY <2>1, <2>2 DEF TypeOK, SessionType, MeasuredType
<1>2. CASE PassAttachment(i)
  BY <1>2, <1>t, <1>0 DEF PassAttachment, measured, history, bounds, TypeOK
<1>3. CASE PassEmpty(i)
  <2>1. MeasuredType' BY <1>3, <1>o DEF PassEmpty
  <2>2. SessionType' /\ Parked'
    BY <1>0, <1>3, <1>t DEF PassEmpty, TakesTimed, history, bounds, SessionType
  <2> QED BY <2>1, <2>2 DEF TypeOK, SessionType, MeasuredType
<1>4. CASE Deliver(i)
  <2>1. MeasuredType' BY <1>4, <1>o DEF Deliver
  <2>2. SessionType' /\ Parked'
    BY <1>0, <1>4, <1>t DEF Deliver, TakesTimed, Answer, Results, bounds, SessionType
  <2> QED BY <2>1, <2>2 DEF TypeOK, SessionType, MeasuredType
<1>5. CASE Park(i)
  <2>1. MeasuredType' BY <1>5, <1>o DEF Park
  <2>2. SessionType' /\ Parked'
    BY <1>0, <1>5, <1>t, SessionAssumption
       DEF Park, TakesTimed, Answer, Results, history, SessionType
  <2> QED BY <2>1, <2>2 DEF TypeOK, SessionType, MeasuredType
<1>6. CASE Refuse(i)
  <2>1. MeasuredType' BY <1>6, <1>o DEF Refuse
  <2>2. SessionType' /\ Parked'
    BY <1>0, <1>6, <1>t DEF Refuse, TakesTimed, Answer, Results, history, bounds, SessionType
  <2> QED BY <2>1, <2>2 DEF TypeOK, SessionType, MeasuredType
<1> QED BY <1>1, <1>2, <1>3, <1>4, <1>5, <1>6

LEMMA SeekType ==
  ASSUME TypeOK, Parked, Seek
  PROVE  TypeOK' /\ Parked'
<1>0. Len(file) \in Nat /\ MeasuredType /\ SessionType BY FileType, TypeParts
<1>1. SeekBegins BY DEF Seek, SeekOk, SeekFails, SeekPanics
<1>2. MeasuredType' BY <1>0, <1>1, BreakType DEF SeekBegins
<1>3. /\ file' \in Files /\ pending' \in Seq(Track) /\ handed' \in Seq(Track)
      /\ latch' \in {"none", "eof", "error"} /\ eof' \in BOOLEAN
      /\ seeks' \in 0 .. MaxSeeks /\ allocs' \in 0 .. MaxAllocs
      /\ file' = file
  <2>1. MaxSeeks \in Nat BY SessionAssumption
  <2>2. seeks < MaxSeeks /\ seeks' = seeks + 1 /\ seeks \in 0 .. MaxSeeks
    BY <1>0, <1>1 DEF SeekBegins, SessionType
  <2>3. seeks' \in 0 .. MaxSeeks BY <2>1, <2>2
  <2>4. /\ file' = file /\ pending' = pending /\ handed' = handed /\ allocs' = allocs
        /\ eof' = FALSE /\ latch' = IF eof THEN "none" ELSE latch
    BY <1>1 DEF SeekBegins
  <2> QED BY <1>0, <2>3, <2>4 DEF SessionType
<1>4. ASSUME NEW landing \in 1 .. Len(file) + 1, SeekOk(landing) \/ SeekFails(landing)
      PROVE  SessionType' /\ Parked'
  <2>1. CASE SeekOk(landing)
    <3>1. /\ panicked' = panicked /\ pos' = landing /\ start' = landing /\ unconverted' = 0
          /\ carried' = 0 /\ delivered' = <<>> /\ call' = "idle" /\ result' = "sought"
      BY <2>1 DEF SeekOk, Answer
    <3> QED BY <1>0, <1>3, <3>1 DEF Results, SessionType, Parked
  <2>2. CASE SeekFails(landing)
    <3>1. /\ panicked' = panicked /\ pos' = landing /\ start' = landing
          /\ unconverted' = unconverted /\ carried' = unconverted /\ delivered' = <<>>
          /\ call' = "idle" /\ result' = "seekfailed"
      BY <2>2 DEF SeekFails, Answer
    <3> QED BY <1>0, <1>3, <3>1 DEF Results, SessionType, Parked
  <2> QED BY <1>4, <2>1, <2>2
<1>5. ASSUME SeekPanics
      PROVE  SessionType' /\ Parked'
  <2>1. /\ panicked' = TRUE /\ pos' = pos /\ start' = start /\ unconverted' = unconverted
        /\ carried' = carried /\ delivered' = delivered /\ call' = "idle" /\ result' = "panic"
    BY <1>5 DEF SeekPanics, Answer
  <2> QED BY <1>0, <1>3, <2>1 DEF Results, SessionType, Parked
<1>6. SessionType' /\ Parked' BY <1>4, <1>5 DEF Seek
<1> QED BY <1>2, <1>6 DEF TypeOK, SessionType, MeasuredType

LEMMA TypeStep ==
  ASSUME TypeOK, Parked, [Next]_vars
  PROVE  TypeOK' /\ Parked'
<1>1. CASE Pull BY <1>1, PullType
<1>2. CASE Turn
  <2>1. CASE ReadEof \/ ReadDamaged \/ ReadFatal BY <2>1, ReadType
  <2>2. CASE \E i \in 1 .. Len(file) :
               \/ PassUnplaceable(i) \/ PassAttachment(i) \/ PassEmpty(i)
               \/ Deliver(i) \/ Park(i) \/ Refuse(i)
    BY <2>2, PacketType
  <2> QED BY <1>2, <2>1, <2>2 DEF Turn
<1>3. CASE ReadPanics BY <1>3, ReadType
<1>4. CASE Seek BY <1>4, SeekType
<1>5. CASE UNCHANGED vars
  BY <1>5 DEF vars, measured, history, bounds, TypeOK, Parked
<1> QED BY <1>1, <1>2, <1>3, <1>4, <1>5 DEF Next

\* Every variable of a session keeps its type, for any files and tracks.
THEOREM SessionTypeCorrect == Spec => []TypeOK
<1>1. TypeOK /\ Parked /\ [Next]_vars => TypeOK' /\ Parked' BY TypeStep
<1> QED BY InitType, <1>1, PTL DEF Spec

-----------------------------------------------------------------------------
(* Latches *)

\* What the three latches mean to each other, and to the seat of the parked packet.
Latched ==
  /\ panicked => call = "idle"
  /\ eof <=> latch = "eof"
  /\ latch # "none" => unconverted = 0
  /\ latch = "eof" => pos = Len(file) + 1
  /\ result = "none" => latch = "eof"

\* A packet is taken only when no latch answers in its place.
LEMMA TakesUnlatched ==
  ASSUME Latched, NEW i, Takes(i)
  PROVE  latch = "none" /\ call = "walking"
BY DEF Latched, Takes, Walking, AtItem

LEMMA LatchedInit ==
  ASSUME Init
  PROVE  Latched
BY DEF Init, Latched

LEMMA LatchedPacket ==
  ASSUME TypeOK, Latched, NEW i \in 1 .. Len(file),
         \/ PassUnplaceable(i) \/ PassAttachment(i) \/ PassEmpty(i)
         \/ Deliver(i) \/ Park(i) \/ Refuse(i)
  PROVE  Latched'
<1>1. Takes(i)
  BY DEF PassUnplaceable, PassAttachment, PassEmpty, Deliver, Park, Refuse, TakesTimed
<1>2. latch = "none" /\ call = "walking" BY <1>1, TakesUnlatched
<1>3. latch' = latch /\ eof' = eof /\ panicked' = panicked
  BY DEF PassUnplaceable, PassAttachment, PassEmpty, Deliver, Park, Refuse
<1>4. result' = result \/ result' \in {"packet", "alloc", "refused"}
  BY DEF PassUnplaceable, PassAttachment, PassEmpty, Deliver, Park, Refuse, Answer
<1> QED BY <1>2, <1>3, <1>4 DEF Latched

LEMMA LatchedStep ==
  ASSUME TypeOK, Latched, [Next]_vars
  PROVE  Latched'
<1>1. CASE Pull
  BY <1>1 DEF Pull, PullPanicked, PullAttachment, PullEnter, Answer, input, bounds, history,
              Latched
<1>2. CASE ReadEof
  BY <1>2 DEF ReadEof, Reads, Walking, Answer, Latched
<1>3. CASE ReadDamaged \/ ReadFatal \/ ReadPanics
  BY <1>3 DEF ReadDamaged, ReadFatal, ReadPanics, Reads, AtItem, Walking, Answer, Latched
<1>4. CASE \E i \in 1 .. Len(file) :
             \/ PassUnplaceable(i) \/ PassAttachment(i) \/ PassEmpty(i)
             \/ Deliver(i) \/ Park(i) \/ Refuse(i)
  BY <1>4, LatchedPacket
<1>5. CASE Seek
  <2>1. /\ call = "idle" /\ call' = "idle" /\ eof' = FALSE /\ file' = file
        /\ latch' = IF eof THEN "none" ELSE latch
        /\ unconverted' \in {0, unconverted}
        /\ result' # "none"
    BY <1>5 DEF Seek, SeekOk, SeekFails, SeekPanics, SeekBegins, Answer
  <2>2. latch' # "eof" /\ (latch' # "none" => latch # "none")
    BY <2>1 DEF Latched
  <2> QED BY <2>1, <2>2 DEF Latched
<1>6. CASE UNCHANGED vars
  BY <1>6 DEF vars, Latched
<1> QED BY <1>1, <1>2, <1>3, <1>4, <1>5, <1>6 DEF Next, Turn

\* The figures of a complete walk, one operation of Measured at a time.
LEMMA FrozenStep ==
  ASSUME TypeOK, complete, [Next]_vars
  PROVE  UNCHANGED measured
<1>0. MeasuredType BY TypeParts
<1>1. ASSUME BreakWalk PROVE UNCHANGED measured
  <2>1. unbroken' = unbroken BY <1>0, <1>1 DEF BreakWalk, MeasuredType
  <2> QED BY <1>1, <2>1 DEF BreakWalk, measured
<1>2. ASSUME EndOfFile PROVE UNCHANGED measured
  <2>1. complete' = complete BY <1>0, <1>2 DEF EndOfFile, MeasuredType
  <2> QED BY <1>2, <2>1 DEF EndOfFile, measured
<1>3. ASSUME NEW i, NEW breaks, Observe(file[i].stream, file[i], breaks)
      PROVE  UNCHANGED measured
  BY <1>3 DEF Observe
<1>4. CASE Pull
  BY <1>4 DEF Pull, PullPanicked, PullAttachment, PullEnter
<1>5. CASE Turn
  BY <1>1, <1>2, <1>3, <1>5
     DEF Turn, ReadEof, ReadDamaged, ReadFatal, PassUnplaceable, PassAttachment, PassEmpty,
         Deliver, Park, Refuse
<1>6. CASE ReadPanics BY <1>6 DEF ReadPanics
<1>7. CASE Seek
  BY <1>1, <1>7 DEF Seek, SeekOk, SeekFails, SeekPanics, SeekBegins
<1>8. CASE UNCHANGED vars BY <1>8 DEF vars
<1> QED BY <1>4, <1>5, <1>6, <1>7, <1>8 DEF Next

LEMMA PanicStep ==
  ASSUME Latched, panicked, [Next]_vars
  PROVE  /\ panicked' /\ UNCHANGED <<handed, delivered>>
         /\ call' = "idle" => result' \in {result, "panic"}
<1>1. call = "idle" BY DEF Latched
<1>2. ~Turn /\ ~ReadPanics
  BY <1>1 DEF Turn, ReadEof, ReadDamaged, ReadFatal, ReadPanics, Reads, Walking, PassUnplaceable,
              PassAttachment, PassEmpty, Deliver, Park, Refuse, TakesTimed, Takes
<1>3. CASE Pull
  BY <1>3 DEF Pull, PullPanicked, PullAttachment, PullEnter, Answer, input, history
<1>4. CASE Seek
  BY <1>4 DEF Seek, SeekOk, SeekFails, SeekPanics, SeekBegins, Answer
<1>5. CASE UNCHANGED vars BY <1>5 DEF vars, history
<1> QED BY <1>2, <1>3, <1>4, <1>5 DEF Next

LEMMA StickyStep ==
  ASSUME Latched, latch = "error", [Next]_vars
  PROVE  latch' = "error" /\ delivered' \in {delivered, <<>>}
<1>1. ~eof /\ unconverted = 0 BY DEF Latched
<1>2. CASE Pull
  BY <1>2 DEF Pull, PullPanicked, PullAttachment, PullEnter, input, history
<1>3. CASE Turn
  <2>1. \A i : ~Takes(i) BY TakesUnlatched
  <2>2. ReadFatal
    BY <1>3, <2>1 DEF Turn, ReadEof, ReadDamaged, AtItem, PassUnplaceable, PassAttachment,
                      PassEmpty, Deliver, Park, Refuse, TakesTimed
  <2> QED BY <2>2 DEF ReadFatal, history
<1>4. CASE ReadPanics BY <1>4 DEF ReadPanics, history
<1>5. CASE Seek
  BY <1>1, <1>5 DEF Seek, SeekOk, SeekFails, SeekPanics, SeekBegins
<1>6. CASE UNCHANGED vars BY <1>6 DEF vars, history
<1> QED BY <1>2, <1>3, <1>4, <1>5, <1>6 DEF Next

\* The latches of a session are for good: the figures of a complete walk, a panic of the
\* reader and a sticky error outlive every later read and seek.
THEOREM LatchesKept == Spec => LatchesHold
<1>1. TypeOK /\ Parked /\ Latched /\ [Next]_vars => TypeOK' /\ Parked' /\ Latched'
  BY TypeStep, LatchedStep
<1>2. TypeOK /\ Latched /\ [Next]_vars
        => [FrozenOnceComplete /\ NothingAfterPanic /\ ErrorIsSticky]_vars
  <2> SUFFICES ASSUME TypeOK, Latched, [Next]_vars
               PROVE  FrozenOnceComplete /\ NothingAfterPanic /\ ErrorIsSticky
    OBVIOUS
  <2>1. FrozenOnceComplete BY FrozenStep DEF FrozenOnceComplete
  <2>2. NothingAfterPanic BY PanicStep DEF NothingAfterPanic
  <2>3. ErrorIsSticky BY StickyStep DEF ErrorIsSticky
  <2> QED BY <2>1, <2>2, <2>3
<1> QED BY InitType, LatchedInit, <1>1, <1>2, PTL DEF Spec, LatchesHold

-----------------------------------------------------------------------------
(* Attachments *)

\* The queue is what is left of the table, and nothing is read while it holds any.
Queued ==
  /\ handed \o pending = Attachments
  /\ \/ result \in {"packet", "refused", "alloc", "none", "fatal"}
     \/ delivered # <<>> \/ call = "walking"
     => pending = <<>>

LEMMA HandsNext ==
  ASSUME NEW h \in Seq(Track), NEW q \in Seq(Track), q # <<>>
  PROVE  Append(h, Head(q)) \o Tail(q) = h \o q
<1>1. Head(q) \in Track /\ Tail(q) \in Seq(Track) /\ q = <<Head(q)>> \o Tail(q)
  BY HeadTailProperties
<1>2. Append(h, Head(q)) = h \o <<Head(q)>> BY <1>1, AppendIsConcat
<1>3. <<Head(q)>> \in Seq(Track) BY <1>1
<1> QED BY <1>1, <1>2, <1>3, ConcatAssociative

LEMMA QueuedInit ==
  ASSUME Init
  PROVE  Queued
<1>1. Attachments \in Seq(Track) BY SessionAssumption
<1>2. <<>> \o Attachments = Attachments BY <1>1, ConcatEmptySeq
<1> QED BY <1>2 DEF Init, Queued

LEMMA QueuedStep ==
  ASSUME TypeOK, Queued, [Next]_vars
  PROVE  Queued'
<1>1. CASE PullPanicked BY <1>1 DEF PullPanicked, Answer, history, Queued
<1>2. CASE PullAttachment
  <2>1. handed' \o pending' = handed \o pending BY <1>2, HandsNext DEF PullAttachment, TypeOK
  <2> QED BY <1>2, <2>1 DEF PullAttachment, Answer, Queued
<1>3. CASE PullEnter BY <1>3 DEF PullEnter, history, Queued
<1>4. CASE Turn
  <2>1. call = "walking" /\ pending' = pending /\ handed' = handed
    BY <1>4 DEF Turn, ReadEof, ReadDamaged, ReadFatal, Reads, Walking, PassUnplaceable,
                PassAttachment, PassEmpty, Deliver, Park, Refuse, TakesTimed, Takes, history
  <2> QED BY <2>1 DEF Queued
<1>5. CASE ReadPanics BY <1>5 DEF ReadPanics, Answer, history, Queued
<1>6. CASE Seek
  BY <1>6 DEF Seek, SeekOk, SeekFails, SeekPanics, SeekBegins, Answer, Queued
<1>7. CASE UNCHANGED vars BY <1>7 DEF vars, history, Queued
<1> QED BY <1>1, <1>2, <1>3, <1>4, <1>5, <1>6, <1>7 DEF Next, Pull

-----------------------------------------------------------------------------
(* Packets *)

\* Where a delivered packet stands: in the stretch read since the last seek, or it is
\* the one parked over a failed seek, which comes first.
Stands(k) ==
  \/ k = 1 /\ delivered[k] = carried
  \/ start <= delivered[k] /\ delivered[k] < pos /\ delivered[k] # unconverted

\* The seat of the parked packet: over a failed seek, before anything is delivered, or
\* the last one read.
Seated ==
  unconverted # 0 =>
    \/ unconverted = carried /\ delivered = <<>>
    \/ unconverted = pos - 1 /\ start <= unconverted

Held(i) == i = unconverted \/ \E k \in DOMAIN delivered : delivered[k] = i

Kept ==
  /\ start <= pos /\ Seated /\ FileOrder
  /\ \A k \in DOMAIN delivered : Stands(k)
  /\ \A i \in start .. pos - 1 : Deliverable(i) => Held(i)
  /\ carried # 0 /\ Deliverable(carried) => Held(carried)

LEMMA KeptInit ==
  ASSUME Init
  PROVE  Kept
<1>1. DOMAIN delivered = {} BY DEF Init
<1>2. start .. pos - 1 = {} BY DEF Init
<1> QED BY <1>1, <1>2 DEF Init, Kept, Seated, FileOrder

LEMMA KeptUnchanged ==
  ASSUME Kept, UNCHANGED <<file, pos, unconverted, start, carried, delivered>>
  PROVE  Kept'
BY DEF Kept, Seated, FileOrder, Stands, Held, Deliverable

LEMMA KeptSought ==
  ASSUME TypeOK, NEW landing \in 1 .. Len(file) + 1, SeekOk(landing) \/ SeekFails(landing)
  PROVE  Kept'
<1>1. /\ pos' = landing /\ start' = landing /\ delivered' = <<>>
      /\ (unconverted' = 0 /\ carried' = 0) \/ carried' = unconverted'
  BY DEF SeekOk, SeekFails
<1>2. landing \in Int BY FileType
<1>3. DOMAIN delivered' = {} BY <1>1
<1>4. (start .. pos - 1)' = {} BY <1>1, <1>2
<1>5. start' <= pos' BY <1>1, <1>2
<1>6. Seated' BY <1>1 DEF Seated
<1>7. FileOrder' BY <1>3 DEF FileOrder
<1>8. (carried # 0 /\ Deliverable(carried) => Held(carried))' BY <1>1 DEF Held
<1> QED BY <1>3, <1>4, <1>5, <1>6, <1>7, <1>8 DEF Kept

\* The reader moved past something that is not delivered, or the parked packet left its
\* seat for good.
LEMMA KeptPassed ==
  ASSUME TypeOK, Kept, NEW i \in 1 .. Len(file), ~Deliverable(i),
         \/ unconverted # 0 /\ i = unconverted /\ pos' = pos
         \/ unconverted = 0 /\ i = pos /\ pos' = pos + 1,
         unconverted' = 0, UNCHANGED <<file, start, carried, delivered>>
  PROVE  Kept'
<1>1. /\ pos \in Int /\ start \in Nat \ {0} /\ unconverted \in Int /\ i \in Int
      /\ \A k \in DOMAIN delivered : delivered[k] \in Nat \ {0}
  BY FileType DEF TypeOK
<1>2. start' <= pos' BY <1>1 DEF Kept
<1>3. Seated' BY DEF Seated
<1>4. FileOrder' BY DEF Kept, FileOrder
<1>5. ASSUME NEW k \in DOMAIN delivered PROVE Stands(k)'
  <2>1. Stands(k) BY DEF Kept
  <2> QED BY <1>1, <2>1 DEF Stands
<1>6. ASSUME NEW j \in start .. pos' - 1, Deliverable(j) PROVE Held(j)'
  <2>1. j # i BY <1>6
  <2>2. j \in start .. pos - 1 BY <1>1, <2>1
  <2>3. Held(j) BY <1>6, <2>2 DEF Kept
  <2>4. j # unconverted BY <1>1, <2>1, <1>6
  <2> QED BY <2>3, <2>4 DEF Held
<1>7. ASSUME carried # 0, Deliverable(carried) PROVE Held(carried)'
  <2>1. Held(carried) BY <1>7 DEF Kept
  <2>2. carried # unconverted BY <1>7
  <2> QED BY <2>1, <2>2 DEF Held
<1>8. \A j : Deliverable(j)' <=> Deliverable(j) BY DEF Deliverable
<1> QED BY <1>2, <1>3, <1>4, <1>5, <1>6, <1>7, <1>8 DEF Kept

\* The packet of the turn is delivered.
LEMMA KeptDelivered ==
  ASSUME TypeOK, Kept, NEW i \in 1 .. Len(file),
         \/ unconverted # 0 /\ i = unconverted /\ pos' = pos
         \/ unconverted = 0 /\ i = pos /\ pos' = pos + 1,
         unconverted' = 0, delivered' = Append(delivered, i),
         UNCHANGED <<file, start, carried>>
  PROVE  Kept'
<1> DEFINE n == Len(delivered)
<1>1. /\ pos \in Int /\ start \in Int /\ unconverted \in Int /\ i \in Nat \ {0} /\ n \in Nat
      /\ DOMAIN delivered = 1 .. n
      /\ \A k \in 1 .. n : delivered[k] \in Nat \ {0}
  <2>1. /\ Len(file) \in Nat /\ delivered \in Seq(1 .. Len(file))
        /\ pos \in 1 .. Len(file) + 1 /\ start \in 1 .. Len(file) + 1
        /\ unconverted \in 0 .. Len(file)
    BY FileType DEF TypeOK
  <2>2. n \in Nat /\ DOMAIN delivered = 1 .. n BY <2>1
  <2>3. \A k \in 1 .. n : delivered[k] \in 1 .. Len(file) BY <2>1, <2>2
  <2> HIDE DEF n
  <2> QED BY <2>1, <2>2, <2>3
<1>2. /\ DOMAIN delivered' = 1 .. n + 1 /\ delivered'[n + 1] = i
      /\ \A k \in 1 .. n : delivered'[k] = delivered[k]
  <2>1. delivered \in Seq(1 .. Len(file)) /\ delivered' = Append(delivered, i) BY DEF TypeOK
  <2>2. /\ Len(Append(delivered, i)) = n + 1
        /\ Append(delivered, i)[n + 1] = i
        /\ \A k \in 1 .. n : Append(delivered, i)[k] = delivered[k]
    BY <2>1, AppendProperties
  <2>3. Append(delivered, i) \in Seq(1 .. Len(file)) BY <2>1, AppendProperties
  <2>4. DOMAIN Append(delivered, i) = 1 .. n + 1 BY <2>2, <2>3
  <2> QED BY <2>1, <2>2, <2>4
<1> HIDE DEF n
<1>3. \/ unconverted # 0 /\ i = unconverted /\ i = carried /\ n = 0 /\ pos' = pos
      \/ unconverted # 0 /\ i = unconverted /\ i = pos - 1 /\ start <= i /\ pos' = pos
      \/ unconverted = 0 /\ i = pos /\ start <= i /\ pos' = pos + 1
  <2>1. delivered = <<>> => n = 0 BY DEF n
  <2> QED BY <1>1, <2>1 DEF Kept, Seated
<1>4. start' <= pos' BY <1>1 DEF Kept
<1>5. Seated' BY DEF Seated
<1>6. ASSUME NEW k \in 1 .. n
      PROVE  delivered[k] < i \/ (k = 1 /\ delivered[k] = carried)
  <2>1. Stands(k) BY <1>1 DEF Kept
  <2> QED BY <1>1, <1>3, <2>1 DEF Stands
<1>7. FileOrder'
  <2> SUFFICES ASSUME NEW j \in 1 .. n + 1, NEW k \in 1 .. n + 1, j < k
               PROVE  delivered'[j] < delivered'[k] \/ (j = 1 /\ delivered'[j] = carried')
    BY <1>2 DEF FileOrder
  <2>1. j \in 1 .. n BY <1>1
  <2>2. CASE k = n + 1 BY <1>2, <1>6, <2>1, <2>2
  <2>3. CASE k # n + 1
    <3>1. k \in 1 .. n BY <1>1, <2>3
    <3>2. delivered[j] < delivered[k] \/ (j = 1 /\ delivered[j] = carried)
      BY <1>1, <2>1, <3>1 DEF Kept, FileOrder
    <3> QED BY <1>2, <2>1, <3>1, <3>2
  <2> QED BY <2>2, <2>3
<1>8. ASSUME NEW k \in 1 .. n + 1 PROVE Stands(k)'
  <2>1. CASE k = n + 1 BY <1>1, <1>2, <1>3, <2>1 DEF Stands
  <2>2. CASE k # n + 1
    <3>1. k \in 1 .. n BY <1>1, <2>2
    <3>2. Stands(k) BY <1>1, <3>1 DEF Kept
    <3> QED BY <1>1, <1>2, <1>3, <3>1, <3>2 DEF Stands
  <2> QED BY <2>1, <2>2
<1>9. ASSUME NEW j, Held(j) \/ j = i PROVE Held(j)'
  <2>1. CASE j = i \/ j = unconverted
    <3>1. j = 0 \/ j = i BY <1>3, <2>1
    <3>2. CASE j = i BY <1>1, <1>2, <3>2 DEF Held
    <3>3. CASE j = 0 BY <3>3 DEF Held
    <3> QED BY <3>1, <3>2, <3>3
  <2>2. CASE \E k \in DOMAIN delivered : delivered[k] = j
    <3>1. PICK k \in 1 .. n : delivered[k] = j BY <1>1, <2>2
    <3>2. k \in 1 .. n + 1 BY <1>1
    <3> QED BY <1>2, <3>1, <3>2 DEF Held
  <2> QED BY <1>9, <2>1, <2>2 DEF Held
<1>10. ASSUME NEW j \in start .. pos' - 1, Deliverable(j) PROVE Held(j)'
  <2>1. j = i \/ j \in start .. pos - 1 BY <1>1, <1>3
  <2>2. j = i \/ Held(j) BY <1>10, <2>1 DEF Kept
  <2> QED BY <1>9, <2>2
<1>11. ASSUME carried # 0, Deliverable(carried) PROVE Held(carried)'
  BY <1>9, <1>11 DEF Kept
<1>12. \A j : Deliverable(j)' <=> Deliverable(j) BY DEF Deliverable
<1> QED BY <1>2, <1>4, <1>5, <1>7, <1>8, <1>10, <1>11, <1>12 DEF Kept

\* An allocation was refused: the packet of the turn takes the seat, or keeps it.
LEMMA KeptParked ==
  ASSUME TypeOK, Kept, NEW i \in 1 .. Len(file),
         \/ unconverted # 0 /\ i = unconverted /\ pos' = pos
         \/ unconverted = 0 /\ i = pos /\ pos' = pos + 1,
         unconverted' = i, UNCHANGED <<file, start, carried, delivered>>
  PROVE  Kept'
<1>1. CASE unconverted # 0 BY <1>1, KeptUnchanged
<1>2. CASE unconverted = 0
  <2>1. /\ pos \in Int /\ start \in Int /\ i = pos /\ pos' = pos + 1 /\ i # 0
        /\ \A k \in DOMAIN delivered : delivered[k] \in Nat \ {0}
    BY <1>2, FileType DEF TypeOK
  <2>0. start \in Nat \ {0} BY FileType DEF TypeOK
  <2>2. start' <= pos' BY <2>1 DEF Kept
  <2>3. Seated' BY <2>1 DEF Kept, Seated
  <2>4. FileOrder' BY DEF Kept, FileOrder
  <2>5. ASSUME NEW k \in DOMAIN delivered PROVE Stands(k)'
    <3>1. Stands(k) BY DEF Kept
    <3> QED BY <2>1, <3>1 DEF Stands
  <2>6. ASSUME NEW j \in start .. pos' - 1, Deliverable(j) PROVE Held(j)'
    <3>1. CASE j = i BY <3>1 DEF Held
    <3>2. CASE j # i
      <4>1. j \in start .. pos - 1 BY <2>1, <3>2
      <4>2. Held(j) BY <2>6, <4>1 DEF Kept
      <4>3. j # 0 BY <4>1, <2>0, <2>1
      <4> QED BY <1>2, <4>2, <4>3 DEF Held
    <3> QED BY <3>1, <3>2
  <2>7. ASSUME carried # 0, Deliverable(carried) PROVE Held(carried)'
    <3>1. Held(carried) BY <2>7 DEF Kept
    <3> QED BY <1>2, <2>7, <3>1 DEF Held
  <2>8. \A j : Deliverable(j)' <=> Deliverable(j) BY DEF Deliverable
  <2> QED BY <2>2, <2>3, <2>4, <2>5, <2>6, <2>7, <2>8 DEF Kept
<1> QED BY <1>1, <1>2

LEMMA KeptTurn ==
  ASSUME TypeOK, Parked, Kept, Turn
  PROVE  Kept'
<1>1. CASE ReadEof \/ ReadFatal
  BY <1>1, KeptUnchanged DEF ReadEof, ReadFatal, history
<1>2. CASE ReadDamaged
  <2>1. /\ pos \in 1 .. Len(file) /\ file[pos].what = "damaged" /\ unconverted = 0
        /\ pos' = pos + 1 /\ unconverted' = unconverted
        /\ UNCHANGED <<file, start, carried, delivered>>
    BY <1>2, FileType DEF ReadDamaged, Reads, AtItem, history, TypeOK
  <2>2. ~Deliverable(pos) BY <2>1 DEF Deliverable
  <2> QED BY <2>1, <2>2, KeptPassed
<1>3. ASSUME NEW i \in 1 .. Len(file),
             \/ PassUnplaceable(i) \/ PassAttachment(i) \/ PassEmpty(i)
             \/ Deliver(i) \/ Park(i) \/ Refuse(i)
      PROVE  Kept'
  <2>1. Takes(i)
    BY <1>3 DEF PassUnplaceable, PassAttachment, PassEmpty, Deliver, Park, Refuse, TakesTimed
  <2>2. \/ unconverted # 0 /\ i = unconverted /\ pos' = pos
        \/ unconverted = 0 /\ i = pos /\ pos' = pos + 1
    BY <2>1 DEF Takes
  <2>3. CASE PassUnplaceable(i) \/ PassAttachment(i) \/ PassEmpty(i) \/ Refuse(i)
    <3>1. unconverted' = 0 /\ UNCHANGED <<file, start, carried, delivered>>
      BY <2>3 DEF PassUnplaceable, PassAttachment, PassEmpty, Refuse, history
    <3>2. ~Deliverable(i)
      BY <2>3 DEF PassUnplaceable, PassAttachment, PassEmpty, Refuse, TakesTimed, Deliverable
    <3> QED BY <2>2, <3>1, <3>2, KeptPassed
  <2>4. CASE Deliver(i)
    BY <2>2, <2>4, KeptDelivered DEF Deliver
  <2>5. CASE Park(i)
    BY <2>2, <2>5, KeptParked DEF Park, history
  <2> QED BY <1>3, <2>3, <2>4, <2>5
<1> QED BY <1>1, <1>2, <1>3 DEF Turn

LEMMA KeptStep ==
  ASSUME TypeOK, Parked, Kept, [Next]_vars
  PROVE  Kept'
<1>1. CASE Pull
  BY <1>1, KeptUnchanged DEF Pull, PullPanicked, PullAttachment, PullEnter, input, history
<1>2. CASE Turn BY <1>2, KeptTurn
<1>3. CASE ReadPanics BY <1>3, KeptUnchanged DEF ReadPanics, history
<1>4. CASE Seek
  <2>1. CASE SeekPanics BY <2>1, KeptUnchanged DEF SeekPanics, SeekBegins
  <2>2. CASE \E landing \in 1 .. Len(file) + 1 : SeekOk(landing) \/ SeekFails(landing)
    BY <2>2, KeptSought
  <2> QED BY <1>4, <2>1, <2>2 DEF Seek
<1>5. CASE UNCHANGED vars BY <1>5, KeptUnchanged DEF vars, history
<1> QED BY <1>1, <1>2, <1>3, <1>4, <1>5 DEF Next

\* What the caller is given is the file: nothing lost, nothing twice or out of order, the
\* attachments first, and no end before the end, for any file and any run of seeks,
\* refused allocations and panics.
THEOREM DeliveryKept == Spec => []Delivery
<1> DEFINE Session == TypeOK /\ Parked /\ Latched /\ Queued /\ Kept
<1>1. Init => Session BY InitType, LatchedInit, QueuedInit, KeptInit
<1>2. Session /\ [Next]_vars => Session'
  BY TypeStep, LatchedStep, QueuedStep, KeptStep
<1>3. Session => Delivery
  <2> SUFFICES ASSUME Session PROVE Delivery
    OBVIOUS
  <2>1. NothingLost BY DEF Kept, Held, NothingLost
  <2>2. EndIsTheEnd BY DEF Latched, Queued, EndIsTheEnd
  <2>3. AttachmentsFirst BY DEF Queued, AttachmentsFirst
  <2> QED BY <2>1, <2>2, <2>3 DEF Kept, Delivery
<1> QED BY <1>1, <1>2, <1>3, PTL DEF Spec

-----------------------------------------------------------------------------
(* The measured walk *)

\* What the walk has been through: all of the file once it is complete.
Walked == IF complete THEN 1 .. Len(file) ELSE 1 .. pos - 1

OfTrack(t, S) == {i \in S : file[i].what = "packet" /\ file[i].stream = t}
Placed(t, S) == {i \in OfTrack(t, S) : file[i].pts # NoPts}

\* The figure f and the mark e are those of the track's packets among S.
Measures(f, e, t, S) ==
  /\ \A i \in Placed(t, S) : PacketEnd(file[i]) <= f /\ ~Overflows(file[i])
  /\ Placed(t, S) = {} => f = Unseen
  /\ Placed(t, S) # {} => \E i \in Placed(t, S) : f = PacketEnd(file[i])
  /\ e <=> \A i \in OfTrack(t, S) : file[i].pts # NoPts /\ file[i].dur > 0

\* Nothing was passed by; a packet that cannot be carried may still have the seat.
Carriable(i) ==
  /\ file[i].what = "packet" /\ file[i].stream \in Track /\ Kind[file[i].stream] # "unknown"
  /\ Kind[file[i].stream] = "timed" => file[i].body # "bad" \/ (~complete /\ i = unconverted)

Covered ==
  unbroken \/ complete =>
    /\ \A i \in Walked : Carriable(i)
    /\ \A t \in Track : Kind[t] = "timed" => Measures(figure[t], exact[t], t, Walked)

\* A walk that is not broken has seen no seek, so the parked packet is behind it.
WalkInv ==
  /\ FigureIsAnEnd
  /\ unbroken /\ ~complete => unconverted < pos
  /\ Covered

LEMMA PacketEnds ==
  ASSUME TypeOK, NEW i \in 1 .. Len(file), file[i].what = "packet"
  PROVE  /\ file[i].pts \in Int /\ file[i].dur \in Int
         /\ file[i].pts # NoPts => PacketEnd(file[i]) \in Nat
         /\ file[i].pts # NoPts /\ ~Overflows(file[i]) => PacketEnd(file[i]) <= MaxTick
<1>1. file \in Files /\ i \in DOMAIN file BY FileType DEF TypeOK
<1>2. file[i].pts = NoPts \/ file[i].pts \in 0 .. MaxTick BY <1>1, SessionAssumption
<1>3. file[i].dur \in 0 .. MaxTick /\ MaxTick \in Nat BY <1>1, SessionAssumption
<1> QED BY <1>2, <1>3 DEF NoPts, PacketEnd, Overflows

\* One packet observed, of a track whose figure covers S: it covers S and the packet.
LEMMA ObserveMeasures ==
  ASSUME TypeOK, NEW i \in 1 .. Len(file), file[i].what = "packet", file[i].stream \in Track,
         NEW S \in SUBSET (1 .. Len(file)), NEW t, t = file[i].stream,
         Measures(figure[t], exact[t], t, S), ~complete,
         Observe(t, file[i], FALSE), unbroken'
  PROVE  Measures(figure'[t], exact'[t], t, S \cup {i})
<1> DEFINE p == file[i]
           U == S \cup {i}
<1>1. /\ figure' = [figure EXCEPT ![t] = NewFigure(t, p)]
      /\ exact' = [exact EXCEPT ![t] = exact[t] /\ p.pts # NoPts /\ p.dur > 0]
      /\ ~(p.pts # NoPts /\ Overflows(p))
  BY DEF Observe
<1>2. /\ t \in Track /\ figure \in [Track -> Int] /\ exact \in [Track -> BOOLEAN]
      /\ figure'[t] = NewFigure(t, p) /\ figure[t] \in Int
      /\ exact'[t] <=> exact[t] /\ p.pts # NoPts /\ p.dur > 0
  BY <1>1 DEF TypeOK
<1>3. OfTrack(t, U) = OfTrack(t, S) \cup {i} BY DEF OfTrack
<1>4. \A j \in Placed(t, S) : PacketEnd(file[j]) \in Nat
  BY PacketEnds DEF Placed, OfTrack
<1>5. CASE p.pts = NoPts
  <2>1. Placed(t, U) = Placed(t, S) BY <1>3, <1>5 DEF Placed
  <2>2. figure'[t] = figure[t] BY <1>2, <1>5 DEF NewFigure
  <2> HIDE DEF p, U
  <2>3. /\ \A j \in Placed(t, U) : PacketEnd(file[j]) <= figure'[t] /\ ~Overflows(file[j])
        /\ Placed(t, U) = {} => figure'[t] = Unseen
        /\ Placed(t, U) # {} => \E j \in Placed(t, U) : figure'[t] = PacketEnd(file[j])
    BY <2>1, <2>2 DEF Measures
  <2>4. exact'[t] <=> \A j \in OfTrack(t, U) : file[j].pts # NoPts /\ file[j].dur > 0
    BY <1>2, <1>3, <1>5 DEF Measures, p
  <2> QED BY <2>3, <2>4 DEF Measures, U
<1>6. CASE p.pts # NoPts
  <2>1. Placed(t, U) = Placed(t, S) \cup {i} BY <1>3, <1>6 DEF Placed, OfTrack
  <2>2. PacketEnd(p) \in Nat /\ ~Overflows(p) BY <1>1, <1>6, PacketEnds
  <2>3. figure[t] = Unseen \/ \E j \in Placed(t, S) : figure[t] = PacketEnd(file[j])
    BY DEF Measures
  <2>4. figure[t] # Unrepresentable
    BY <1>4, <2>3 DEF Unseen, Unrepresentable
  <2>5. figure'[t] = IF figure[t] > PacketEnd(p) THEN figure[t] ELSE PacketEnd(p)
    BY <1>2, <1>6, <2>2, <2>4 DEF NewFigure
  <2>6. /\ \A j \in Placed(t, S) : PacketEnd(file[j]) <= figure[t] /\ ~Overflows(file[j])
        /\ exact[t] <=> \A j \in OfTrack(t, S) : file[j].pts # NoPts /\ file[j].dur > 0
        /\ Placed(t, S) = {} => figure[t] = Unseen
    BY DEF Measures
  <2> HIDE DEF U
  <2>7. \A j \in Placed(t, U) : PacketEnd(file[j]) <= figure'[t] /\ ~Overflows(file[j])
    <3> SUFFICES ASSUME NEW j \in Placed(t, U)
                 PROVE  PacketEnd(file[j]) <= figure'[t] /\ ~Overflows(file[j])
      OBVIOUS
    <3>1. CASE j = i BY <1>2, <2>2, <2>5, <3>1
    <3>2. CASE j # i
      <4>1. j \in Placed(t, S) BY <2>1, <3>2
      <4>2. PacketEnd(file[j]) \in Nat /\ PacketEnd(file[j]) <= figure[t] /\ ~Overflows(file[j])
        BY <1>4, <2>6, <4>1
      <4> QED BY <1>2, <2>2, <2>5, <4>2
    <3> QED BY <3>1, <3>2
  <2>8. \E j \in Placed(t, U) : figure'[t] = PacketEnd(file[j])
    <3>1. CASE figure[t] > PacketEnd(p)
      <4>1. figure[t] # Unseen BY <2>2, <3>1 DEF Unseen
      <4>2. PICK j \in Placed(t, S) : figure[t] = PacketEnd(file[j]) BY <2>3, <4>1
      <4> QED BY <2>1, <2>5, <3>1, <4>2
    <3>2. CASE ~(figure[t] > PacketEnd(p))
      <4>1. figure'[t] = PacketEnd(file[i]) BY <2>5, <3>2
      <4> QED BY <2>1, <4>1
    <3> QED BY <3>1, <3>2
  <2>9. exact'[t] <=> \A j \in OfTrack(t, U) : file[j].pts # NoPts /\ file[j].dur > 0
    BY <1>2, <1>3, <2>6
  <2> QED BY <2>7, <2>8, <2>9 DEF Measures, U
<1> QED BY <1>5, <1>6

\* No figure is a number the file does not hold, whatever has broken the walk.
LEMMA ObserveFigure ==
  ASSUME TypeOK, FigureIsAnEnd, NEW i \in 1 .. Len(file), file[i].what = "packet",
         file[i].stream \in Track, NEW breaks \in BOOLEAN,
         Observe(file[i].stream, file[i], breaks), file' = file
  PROVE  FigureIsAnEnd'
<1> DEFINE t == file[i].stream
           p == file[i]
<1>1. CASE complete BY <1>1 DEF Observe, measured, FigureIsAnEnd, Timed, PacketEnd
<1>2. CASE ~complete
  <2>1. /\ figure' = [figure EXCEPT ![t] = NewFigure(t, p)] /\ figure \in [Track -> Int]
        /\ DOMAIN file = 1 .. Len(file)
    BY <1>2, FileType DEF Observe, TypeOK
  <2> SUFFICES ASSUME NEW u \in Track, figure'[u] \notin {Unseen, Unrepresentable}
               PROVE  /\ figure'[u] <= MaxTick
                      /\ \E j \in Timed(u) : file[j].pts # NoPts
                                             /\ figure'[u] = PacketEnd(file[j])
    BY DEF FigureIsAnEnd, Timed, PacketEnd
  <2>2. CASE figure'[u] = figure[u] BY <2>2 DEF FigureIsAnEnd
  <2>3. CASE figure'[u] # figure[u]
    <3>1. u = t /\ figure'[u] = NewFigure(t, p) BY <2>1, <2>3
    <3>2. p.pts # NoPts /\ ~Overflows(p) /\ figure'[u] = PacketEnd(p)
      BY <2>3, <3>1 DEF NewFigure
    <3>3. figure'[u] <= MaxTick BY <3>2, PacketEnds
    <3>4. i \in Timed(u) BY <2>1, <3>1 DEF Timed
    <3> QED BY <3>2, <3>3, <3>4
  <2> QED BY <2>2, <2>3
<1> QED BY <1>1, <1>2

LEMMA WalkInit ==
  ASSUME Init
  PROVE  WalkInv
<1>1. Walked = {} BY DEF Init, Walked
<1>2. \A t \in Track : Measures(figure[t], exact[t], t, {})
  BY DEF Init, Measures, Placed, OfTrack
<1>3. FigureIsAnEnd BY DEF Init, FigureIsAnEnd
<1>4. unconverted < pos BY DEF Init
<1> QED BY <1>1, <1>2, <1>3, <1>4 DEF WalkInv, Covered

\* A step that leaves the measurement alone and stays where it was.
LEMMA WalkUnchanged ==
  ASSUME WalkInv, UNCHANGED <<file, measured>>,
         complete \/ UNCHANGED <<pos, unconverted>>
  PROVE  WalkInv'
<1> USE DEF measured
<1>1. FigureIsAnEnd'
  BY DEF WalkInv, FigureIsAnEnd, Timed, PacketEnd
<1>2. Walked' = Walked BY DEF Walked
<1>3. \A t : Measures(figure[t], exact[t], t, Walked)'
               <=> Measures(figure[t], exact[t], t, Walked)
  BY <1>2 DEF Measures, Placed, OfTrack, PacketEnd, Overflows
<1>4. \A i : Carriable(i) => Carriable(i)' BY DEF Carriable
<1>5. Covered' BY <1>2, <1>3, <1>4 DEF WalkInv, Covered
<1> QED BY <1>1, <1>5 DEF WalkInv

\* Something was passed by: the walk is broken, its figures are as they were.
LEMMA WalkBroken ==
  ASSUME TypeOK, WalkInv, ~complete, BreakWalk, file' = file
  PROVE  WalkInv'
<1>1. ~unbroken' /\ ~complete' /\ figure' = figure BY DEF BreakWalk
<1>2. FigureIsAnEnd' BY <1>1 DEF WalkInv, FigureIsAnEnd, Timed, PacketEnd
<1> QED BY <1>1, <1>2 DEF WalkInv, Covered

\* A packet of the walk, new or parked, is observed.
LEMMA WalkObserves ==
  ASSUME TypeOK, Parked, WalkInv, ~complete, NEW i \in 1 .. Len(file), TakesTimed(i),
         NEW breaks \in BOOLEAN, Observe(file[i].stream, file[i], breaks), file' = file,
         unconverted' \in {0, i}, breaks \/ file[i].body # "bad" \/ unconverted' = i
  PROVE  WalkInv'
<1>1. /\ file[i].what = "packet" /\ file[i].stream \in Track
      /\ Kind[file[i].stream] = "timed" /\ pos' \in 1 .. Len(file) + 1
  BY TakesWhat DEF TakesTimed, Parked
<1>2. FigureIsAnEnd' BY <1>1, ObserveFigure DEF WalkInv
<1>3. complete' = complete BY DEF Observe
<1>4. CASE ~unbroken' BY <1>2, <1>3, <1>4 DEF WalkInv, Covered
<1>5. CASE unbroken'
  <2>1. unbroken /\ ~breaks BY <1>5 DEF Observe, TypeOK
  <2>2. /\ Covered /\ unconverted < pos /\ Len(file) \in Nat
        /\ pos \in 1 .. Len(file) + 1 /\ unconverted \in 0 .. Len(file)
    BY <2>1, FileType DEF WalkInv, TypeOK
  <2>3. \/ unconverted # 0 /\ i = unconverted /\ pos' = pos
        \/ unconverted = 0 /\ i = pos /\ pos' = pos + 1
    BY DEF TakesTimed, Takes
  <2>4. Walked = 1 .. pos - 1 /\ Walked' = 1 .. pos' - 1 BY <1>3 DEF Walked
  <2>5. Walked' = Walked \cup {i} /\ Walked \subseteq 1 .. Len(file) /\ i < pos'
    <3>1. CASE unconverted # 0 /\ i = unconverted /\ pos' = pos
      BY <2>2, <2>4, <3>1
    <3>2. CASE unconverted = 0 /\ i = pos /\ pos' = pos + 1
      BY <2>2, <2>4, <3>2
    <3> QED BY <2>3, <3>1, <3>2
  <2>6. \A j \in Walked' : Carriable(j)'
    <3> SUFFICES ASSUME NEW j \in Walked' PROVE Carriable(j)'
      OBVIOUS
    <3>1. CASE j = i BY <1>1, <1>3, <2>1, <3>1 DEF Carriable
    <3>2. CASE j # i
      <4>1. j \in Walked BY <2>5, <3>2
      <4>2. Carriable(j) BY <2>1, <2>2, <4>1 DEF Covered
      <4>3. j # unconverted
        <5>1. j # 0 BY <2>4, <4>1
        <5> QED BY <2>3, <3>2, <5>1
      <4> QED BY <4>2, <4>3 DEF Carriable
    <3> QED BY <3>1, <3>2
  <2>7. ASSUME NEW t \in Track, Kind[t] = "timed"
        PROVE  Measures(figure'[t], exact'[t], t, Walked')
    <3>1. Measures(figure[t], exact[t], t, Walked) BY <2>1, <2>2, <2>7 DEF Covered
    <3>2. CASE t = file[i].stream
      <4>1. Observe(t, file[i], FALSE) BY <2>1, <3>2
      <4> QED BY <1>1, <1>5, <2>5, <3>1, <3>2, <4>1, ObserveMeasures
    <3>3. CASE t # file[i].stream
      <4>1. figure'[t] = figure[t] /\ (exact'[t] <=> exact[t])
        BY <3>3 DEF Observe, TypeOK
      <4>2. OfTrack(t, Walked') = OfTrack(t, Walked) BY <2>5, <3>3 DEF OfTrack
      <4> QED BY <3>1, <4>1, <4>2 DEF Measures, Placed
    <3> QED BY <3>2, <3>3
  <2>8. \A t \in Track : Kind[t] = "timed" => Measures(figure[t], exact[t], t, Walked)'
    BY <2>7 DEF Measures, Placed, OfTrack, PacketEnd, Overflows
  <2>9. unconverted' < pos' BY <2>2, <2>5, <1>1
  <2> QED BY <1>2, <1>3, <2>6, <2>8, <2>9 DEF WalkInv, Covered
<1> QED BY <1>4, <1>5

\* The container's copy of an attachment: not observed, and nothing of the walk.
LEMMA WalkPasses ==
  ASSUME TypeOK, Parked, WalkInv, ~complete, NEW i \in 1 .. Len(file), PassAttachment(i)
  PROVE  WalkInv'
<1>1. /\ file[i].what = "packet" /\ file[i].stream \in Track
      /\ Kind[file[i].stream] = "attachment" /\ pos' \in 1 .. Len(file) + 1
      /\ UNCHANGED <<file, measured>> /\ unconverted' = 0
  BY TakesWhat DEF PassAttachment, Parked
<1>2. FigureIsAnEnd' BY <1>1 DEF WalkInv, FigureIsAnEnd, Timed, PacketEnd, measured
<1>3. CASE ~unbroken BY <1>1, <1>2, <1>3 DEF WalkInv, Covered, measured
<1>4. CASE unbroken
  <2>1. /\ Covered /\ unconverted < pos /\ Len(file) \in Nat
        /\ pos \in 1 .. Len(file) + 1 /\ unconverted \in 0 .. Len(file)
    BY <1>4, FileType DEF WalkInv, TypeOK
  <2>2. \/ unconverted # 0 /\ i = unconverted /\ pos' = pos
        \/ unconverted = 0 /\ i = pos /\ pos' = pos + 1
    BY DEF PassAttachment, Takes
  <2>3. Walked = 1 .. pos - 1 /\ Walked' = 1 .. pos' - 1
    BY <1>1 DEF Walked, measured
  <2>4. Walked' = Walked \cup {i}
    <3>1. CASE unconverted # 0 /\ i = unconverted /\ pos' = pos
      BY <2>1, <2>3, <3>1
    <3>2. CASE unconverted = 0 /\ i = pos /\ pos' = pos + 1
      BY <2>1, <2>3, <3>2
    <3> QED BY <2>2, <3>1, <3>2
  <2>5. \A j \in Walked' : Carriable(j)'
    <3> SUFFICES ASSUME NEW j \in Walked' PROVE Carriable(j)'
      OBVIOUS
    <3>1. CASE j = i BY <1>1, <3>1 DEF Carriable
    <3>2. CASE j # i
      <4>1. j \in Walked BY <2>4, <3>2
      <4>2. Carriable(j) BY <1>4, <2>1, <4>1 DEF Covered
      <4>3. j # unconverted
        <5>1. j # 0 BY <2>3, <4>1
        <5> QED BY <2>2, <3>2, <5>1
      <4> QED BY <1>1, <4>2, <4>3 DEF Carriable
    <3> QED BY <3>1, <3>2
  <2>6. ASSUME NEW t \in Track, Kind[t] = "timed"
        PROVE  Measures(figure[t], exact[t], t, Walked')
    <3>1. Measures(figure[t], exact[t], t, Walked) BY <1>4, <2>1, <2>6 DEF Covered
    <3>2. OfTrack(t, Walked') = OfTrack(t, Walked) BY <1>1, <2>4, <2>6 DEF OfTrack
    <3> QED BY <3>1, <3>2 DEF Measures, Placed
  <2>7. \A t \in Track : Kind[t] = "timed" => Measures(figure[t], exact[t], t, Walked)'
    BY <1>1, <2>6 DEF Measures, Placed, OfTrack, PacketEnd, Overflows, measured
  <2>8. unconverted' < pos' BY <1>1
  <2> QED BY <1>2, <2>5, <2>7, <2>8 DEF WalkInv, Covered
<1> QED BY <1>3, <1>4

\* The end of the file, read with an empty seat: what was walked is all of it.
LEMMA WalkEndOfFile ==
  ASSUME TypeOK, Latched, WalkInv, ~complete, ReadEof
  PROVE  WalkInv'
<1>1. /\ pos = Len(file) + 1 /\ unconverted = 0 /\ Len(file) \in Nat
      /\ UNCHANGED <<file, figure, exact, unbroken, pos, unconverted>>
      /\ complete' = unbroken
  BY FileType DEF ReadEof, Reads, EndOfFile, Latched, TypeOK
<1>2. FigureIsAnEnd' BY <1>1 DEF WalkInv, FigureIsAnEnd, Timed, PacketEnd
<1>3. Walked = 1 .. Len(file) /\ Walked' = 1 .. Len(file) BY <1>1 DEF Walked
<1>4. ASSUME unbroken
      PROVE  \A i \in Walked' : Carriable(i)'
  <2>1. \A i \in 1 .. Len(file) : Carriable(i) /\ i # unconverted
    BY <1>1, <1>3, <1>4 DEF WalkInv, Covered
  <2> QED BY <1>1, <1>3, <2>1 DEF Carriable
<1>5. ASSUME unbroken
      PROVE  \A t \in Track : Kind[t] = "timed" => Measures(figure[t], exact[t], t, Walked)'
  <2>1. \A t \in Track : Kind[t] = "timed" => Measures(figure[t], exact[t], t, Walked)
    BY <1>5 DEF WalkInv, Covered
  <2> QED BY <1>1, <1>3, <2>1 DEF Measures, Placed, OfTrack, PacketEnd, Overflows
<1> QED BY <1>1, <1>2, <1>4, <1>5 DEF WalkInv, Covered

LEMMA WalkPacket ==
  ASSUME TypeOK, Parked, WalkInv, ~complete, NEW i \in 1 .. Len(file),
         \/ PassUnplaceable(i) \/ PassAttachment(i) \/ PassEmpty(i)
         \/ Deliver(i) \/ Park(i) \/ Refuse(i)
  PROVE  WalkInv'
<1>1. CASE PassUnplaceable(i) BY <1>1, WalkBroken DEF PassUnplaceable
<1>2. CASE PassAttachment(i) BY <1>2, WalkPasses
<1>3. CASE PassEmpty(i)
  <2>1. /\ TakesTimed(i) /\ Observe(file[i].stream, file[i], FALSE) /\ file' = file
        /\ unconverted' = 0 /\ file[i].body # "bad"
    BY <1>3 DEF PassEmpty
  <2> QED BY <2>1, WalkObserves
<1>4. CASE Deliver(i)
  <2>1. /\ TakesTimed(i) /\ Observe(file[i].stream, file[i], FALSE) /\ file' = file
        /\ unconverted' = 0 /\ file[i].body # "bad"
    BY <1>4 DEF Deliver
  <2> QED BY <2>1, WalkObserves
<1>5. CASE Park(i)
  <2>1. /\ TakesTimed(i) /\ Observe(file[i].stream, file[i], FALSE) /\ file' = file
        /\ unconverted' = i
    BY <1>5 DEF Park
  <2> QED BY <2>1, WalkObserves
<1>6. CASE Refuse(i)
  <2>1. /\ TakesTimed(i) /\ Observe(file[i].stream, file[i], TRUE) /\ file' = file
        /\ unconverted' = 0
    BY <1>6 DEF Refuse
  <2> QED BY <2>1, WalkObserves
<1> QED BY <1>1, <1>2, <1>3, <1>4, <1>5, <1>6

LEMMA WalkStep ==
  ASSUME TypeOK, Parked, Latched, WalkInv, [Next]_vars
  PROVE  WalkInv'
<1>1. CASE complete
  <2>1. UNCHANGED measured BY <1>1, FrozenStep
  <2>2. file' = file
    BY DEF Next, Pull, Turn, Seek, PullPanicked, PullAttachment, PullEnter, ReadEof,
       ReadDamaged, ReadFatal, ReadPanics, PassUnplaceable, PassAttachment, PassEmpty,
       Deliver, Park, Refuse, SeekOk, SeekFails, SeekPanics, SeekBegins, input, vars
  <2> QED BY <1>1, <2>1, <2>2, WalkUnchanged
<1>2. CASE ~complete
  <2>1. CASE Pull
    <3>1. UNCHANGED <<file, measured, pos, unconverted>>
      BY <2>1 DEF Pull, PullPanicked, PullAttachment, PullEnter, input
    <3> QED BY <3>1, WalkUnchanged
  <2>2. CASE ReadEof BY <1>2, <2>2, WalkEndOfFile
  <2>3. CASE ReadDamaged BY <1>2, <2>3, WalkBroken DEF ReadDamaged
  <2>4. CASE ReadFatal \/ ReadPanics
    <3>1. UNCHANGED <<file, measured, pos, unconverted>>
      BY <2>4 DEF ReadFatal, ReadPanics
    <3> QED BY <3>1, WalkUnchanged
  <2>5. CASE \E i \in 1 .. Len(file) :
               \/ PassUnplaceable(i) \/ PassAttachment(i) \/ PassEmpty(i)
               \/ Deliver(i) \/ Park(i) \/ Refuse(i)
    BY <1>2, <2>5, WalkPacket
  <2>6. CASE Seek
    <3>1. BreakWalk /\ file' = file
      BY <2>6 DEF Seek, SeekOk, SeekFails, SeekPanics, SeekBegins
    <3> QED BY <1>2, <3>1, WalkBroken
  <2>7. CASE UNCHANGED vars
    <3>1. UNCHANGED <<file, measured, pos, unconverted>> BY <2>7 DEF vars
    <3> QED BY <3>1, WalkUnchanged
  <2> QED BY <2>1, <2>2, <2>3, <2>4, <2>5, <2>6, <2>7 DEF Next, Turn
<1> QED BY <1>1, <1>2

\* When the walk says it covered the file it did: every item was a packet of a track it
\* describes, each figure is the greatest end among that track's packets, exact just
\* when every end was known; and at no time is a figure a number the file does not hold.
THEOREM WalkKept == Spec => []WalkHonest
<1> DEFINE Session == TypeOK /\ Parked /\ Latched /\ WalkInv
<1>1. Init => Session BY InitType, LatchedInit, WalkInit
<1>2. Session /\ [Next]_vars => Session' BY TypeStep, LatchedStep, WalkStep
<1>3. Session => WalkHonest
  <2> SUFFICES ASSUME Session, complete
               PROVE  /\ \A i \in DOMAIN file : Carriable(i)
                      /\ \A t \in Track : Kind[t] = "timed" =>
                           Measures(figure[t], exact[t], t, DOMAIN file)
    BY DEF WalkInv, WalkHonest, Carriable, Measures, Placed, OfTrack, Timed
  <2>1. Walked = DOMAIN file BY FileType DEF Walked
  <2> QED BY <2>1 DEF WalkInv, Covered
<1> QED BY <1>1, <1>2, <1>3, PTL DEF Spec

-----------------------------------------------------------------------------
(* Opening. *)

-----------------------------------------------------------------------------
(* Running totals *)

LEMMA LeastNat ==
  ASSUME NEW S \in SUBSET Nat, S # {}
  PROVE  \E m \in S : \A k \in S : m <= k
<1> DEFINE R == OpToRel(<, Nat)
<1>1. IsWellFoundedOn(R, Nat)
  BY NatLessThanWellFounded
<1>2. PICK m \in S : \A k \in S : ~(<<k, m>> \in R)
  BY <1>1, WFMin
<1>3. \A k \in S : ~(k < m)
  BY <1>2 DEF OpToRel
<1> QED
  BY <1>3

\* The totals of the first 0 .. n values of a table.
IsTotals(total, n, value) ==
  /\ total \in [0 .. n -> Int]
  /\ total[0] = 0
  /\ \A k \in 1 .. n : total[k] = total[k - 1] + value[k]

LEMMA TotalsExist ==
  ASSUME NEW n \in Nat, NEW value, \A k \in 1 .. n : value[k] \in Int
  PROVE  \E total : IsTotals(total, n, value)
<1> DEFINE bad == {m \in 0 .. n : ~ \E total : IsTotals(total, m, value)}
<1>1. SUFFICES ASSUME bad # {} PROVE FALSE
  OBVIOUS
<1>2. PICK m \in bad : \A k \in bad : m <= k
  <2>1. bad \in SUBSET Nat OBVIOUS
  <2> HIDE DEF bad
  <2> QED BY <1>1, <2>1, LeastNat
<1>3. m \in 0 .. n /\ ~ \E total : IsTotals(total, m, value)
  BY <1>2
<1>4. CASE m = 0
  <2> DEFINE zero == [k \in 0 .. 0 |-> 0]
  <2>1. IsTotals(zero, 0, value) BY DEF IsTotals
  <2> QED BY <2>1, <1>3, <1>4
<1>5. CASE m # 0
  <2>1. m - 1 \in 0 .. n /\ m - 1 \notin bad
    BY <1>2, <1>3, <1>5
  <2>2. PICK t : IsTotals(t, m - 1, value)
    BY <2>1
  <2> DEFINE u == [k \in 0 .. m |-> IF k = m THEN t[m - 1] + value[m] ELSE t[k]]
  <2>3. \A k \in 0 .. m - 1 : t[k] \in Int
    BY <2>2, <1>3 DEF IsTotals
  <2>4. value[m] \in Int /\ t[m - 1] \in Int
    BY <2>3, <1>3, <1>5
  <2>5. u \in [0 .. m -> Int]
    BY <2>3, <2>4, <1>3
  <2>6. u[0] = 0
    BY <2>2, <1>3, <1>5 DEF IsTotals
  <2>7. ASSUME NEW k \in 1 .. m PROVE u[k] = u[k - 1] + value[k]
    <3>1. CASE k = m BY <3>1, <1>3
    <3>2. CASE k # m
      <4>1. k \in 1 .. m - 1 /\ u[k] = t[k] /\ u[k - 1] = t[k - 1]
        BY <3>2, <1>3
      <4> HIDE DEF u
      <4> QED BY <4>1, <2>2 DEF IsTotals
    <3> QED BY <3>1, <3>2
  <2> HIDE DEF u
  <2>8. IsTotals(u, m, value) BY <2>5, <2>6, <2>7 DEF IsTotals
  <2> QED BY <2>8, <1>3
<1> QED BY <1>4, <1>5

Totals(n, value) == CHOOSE total : IsTotals(total, n, value)

LEMMA TotalsAre ==
  ASSUME NEW n \in Nat, NEW value, \A k \in 1 .. n : value[k] \in Int
  PROVE  IsTotals(Totals(n, value), n, value)
BY TotalsExist DEF Totals

-----------------------------------------------------------------------------
(* The four budgets of a container *)

Sums(t) == t[1] + t[2] + t[3]

Params(f) == Totals(Len(f.streams), [i \in 1 .. Len(f.streams) |-> Retained(f.streams[i])])
Texts(f) == Totals(Len(f.streams), [i \in 1 .. Len(f.streams) |-> Sums(f.streams[i].text)])
Payloads(f) ==
  Totals(Len(f.streams),
    [i \in 1 .. Len(f.streams) |-> IF IsAttachment(f.streams[i]) THEN Payload(f.streams[i]) ELSE 0])
Titles(f) ==
  Totals(Len(f.chapters),
    [i \in 1 .. Len(f.chapters) |-> IF f.chapters[i].null THEN 0 ELSE f.chapters[i].title])

LEMMA ContainerType ==
  ASSUME NEW f \in Containers
  PROVE  /\ f.streams \in Seq(Streams) /\ Len(f.streams) \in Nat
         /\ DOMAIN f.streams = 1 .. Len(f.streams)
         /\ f.chapters \in Seq(Chapters) /\ Len(f.chapters) \in Nat
         /\ DOMAIN f.chapters = 1 .. Len(f.chapters)
<1>1. f \in [chapters : Seq(Chapters), streams : Seq(Streams)] BY OpenAssumption
<1> QED BY <1>1

LEMMA RowType ==
  ASSUME NEW f \in Containers, NEW i \in 1 .. Len(f.streams)
  PROVE  /\ f.streams[i] \in Streams
         /\ f.streams[i].params \in BOOLEAN /\ f.streams[i].ruler \in BOOLEAN
         /\ f.streams[i].sound \in BOOLEAN
         /\ f.streams[i].extradata \in Int /\ f.streams[i].picture \in Nat
         /\ f.streams[i].side \in Nat /\ f.streams[i].map \in Nat
         /\ f.streams[i].role \in {"media", "font", "cover"}
         /\ \A k \in 1 .. 3 : f.streams[i].text[k] \in Int /\ f.streams[i].text[k] >= NotTerminated
         /\ Retained(f.streams[i]) \in Int /\ Payload(f.streams[i]) \in Int
         /\ Sums(f.streams[i].text) \in Int
<1>1. f.streams[i] \in Streams BY ContainerType
<1> DEFINE s == f.streams[i]
<1>2. \A k \in 1 .. 3 : s.text[k] \in Int /\ s.text[k] >= NotTerminated
  <2>1. s.text \in [1 .. 3 -> Int] BY <1>1 DEF Streams
  <2>2. \A k \in 1 .. 3 : s.text[k] >= NotTerminated BY ContainerType, OpenAssumption
  <2> QED BY <2>1, <2>2
<1>3. /\ s.params \in BOOLEAN /\ s.ruler \in BOOLEAN /\ s.sound \in BOOLEAN
      /\ s.extradata \in Int /\ s.picture \in Nat /\ s.side \in Nat /\ s.map \in Nat
      /\ s.role \in {"media", "font", "cover"}
  BY <1>1 DEF Streams
<1> HIDE DEF s
<1>4. Padding \in Nat BY OpenAssumption
<1>5. Retained(s) \in Int BY <1>3, <1>4 DEF Retained, ExtradataHeld
<1>6. Payload(s) \in Int BY <1>3 DEF Payload
<1>7. Sums(s.text) \in Int BY <1>2 DEF Sums
<1> QED BY <1>1, <1>2, <1>3, <1>5, <1>6, <1>7 DEF s

LEMMA ChapterType ==
  ASSUME NEW f \in Containers, NEW i \in 1 .. Len(f.chapters)
  PROVE  /\ f.chapters[i].null \in BOOLEAN /\ f.chapters[i].ruler \in BOOLEAN
         /\ f.chapters[i].title \in Int /\ f.chapters[i].title >= NotTerminated
<1>1. f.chapters[i] \in Chapters BY ContainerType
<1>2. f.chapters[i].title >= NotTerminated BY ContainerType, OpenAssumption
<1> QED BY <1>1, <1>2 DEF Chapters

\* Each running total starts at nothing and grows by the bytes of its row.
LEMMA RunningParams ==
  ASSUME NEW f \in Containers
  PROVE  /\ Params(f)[0] = 0
         /\ \A r \in 0 .. Len(f.streams) : Params(f)[r] \in Int
         /\ \A r \in 1 .. Len(f.streams) :
              Params(f)[r] = Params(f)[r - 1] + Retained(f.streams[r])
<1> DEFINE n == Len(f.streams)
           value == [i \in 1 .. n |-> Retained(f.streams[i])]
<1>1. n \in Nat /\ \A k \in 1 .. n : value[k] \in Int BY ContainerType, RowType
<1>2. \A k \in 1 .. n : value[k] = Retained(f.streams[k]) OBVIOUS
<1>3. Params(f) = Totals(n, value) BY DEF Params
<1> HIDE DEF value
<1>4. IsTotals(Params(f), n, value) BY <1>1, <1>3, TotalsAre
<1> QED BY <1>1, <1>2, <1>4 DEF IsTotals

LEMMA RunningTexts ==
  ASSUME NEW f \in Containers
  PROVE  /\ Texts(f)[0] = 0
         /\ \A r \in 0 .. Len(f.streams) : Texts(f)[r] \in Int
         /\ \A r \in 1 .. Len(f.streams) :
              Texts(f)[r] = Texts(f)[r - 1] + Sums(f.streams[r].text)
<1> DEFINE n == Len(f.streams)
           value == [i \in 1 .. n |-> Sums(f.streams[i].text)]
<1>1. n \in Nat /\ \A k \in 1 .. n : value[k] \in Int BY ContainerType, RowType
<1>2. \A k \in 1 .. n : value[k] = Sums(f.streams[k].text) OBVIOUS
<1>3. Texts(f) = Totals(n, value) BY DEF Texts
<1> HIDE DEF value
<1>4. IsTotals(Texts(f), n, value) BY <1>1, <1>3, TotalsAre
<1> QED BY <1>1, <1>2, <1>4 DEF IsTotals

LEMMA RunningPayloads ==
  ASSUME NEW f \in Containers
  PROVE  /\ Payloads(f)[0] = 0
         /\ \A r \in 0 .. Len(f.streams) : Payloads(f)[r] \in Int
         /\ \A r \in 1 .. Len(f.streams) :
              Payloads(f)[r] =
                Payloads(f)[r - 1]
                  + (IF IsAttachment(f.streams[r]) THEN Payload(f.streams[r]) ELSE 0)
<1> DEFINE n == Len(f.streams)
           value == [i \in 1 .. n |->
                       IF IsAttachment(f.streams[i]) THEN Payload(f.streams[i]) ELSE 0]
<1>1. n \in Nat /\ \A k \in 1 .. n : value[k] \in Int BY ContainerType, RowType
<1>2. \A k \in 1 .. n :
        value[k] = IF IsAttachment(f.streams[k]) THEN Payload(f.streams[k]) ELSE 0
  OBVIOUS
<1>3. Payloads(f) = Totals(n, value) BY DEF Payloads
<1> HIDE DEF value
<1>4. IsTotals(Payloads(f), n, value) BY <1>1, <1>3, TotalsAre
<1> QED BY <1>1, <1>2, <1>4 DEF IsTotals

LEMMA RunningTitles ==
  ASSUME NEW f \in Containers
  PROVE  /\ Titles(f)[0] = 0
         /\ \A r \in 0 .. Len(f.chapters) : Titles(f)[r] \in Int
         /\ \A r \in 1 .. Len(f.chapters) :
              Titles(f)[r] =
                Titles(f)[r - 1] + (IF f.chapters[r].null THEN 0 ELSE f.chapters[r].title)
<1> DEFINE n == Len(f.chapters)
           value == [i \in 1 .. n |-> IF f.chapters[i].null THEN 0 ELSE f.chapters[i].title]
<1>1. n \in Nat /\ \A k \in 1 .. n : value[k] \in Int BY ContainerType, ChapterType
<1>2. \A k \in 1 .. n : value[k] = IF f.chapters[k].null THEN 0 ELSE f.chapters[k].title
  OBVIOUS
<1>3. Titles(f) = Totals(n, value) BY DEF Titles
<1> HIDE DEF value
<1>4. IsTotals(Titles(f), n, value) BY <1>1, <1>3, TotalsAre
<1> QED BY <1>1, <1>2, <1>4 DEF IsTotals

-----------------------------------------------------------------------------
(* What the questions answer *)

\* A list that passes refuses nothing.
LEMMA PassesOrRefuses ==
  ASSUME NEW asked, Passes(asked)
  PROVE  ~RefusesFirst(asked)
BY DEF Passes, RefusesFirst, IsFirstFault

\* A refusal answers one of the questions, and the ones before it answered nothing.
LEMMA Refused ==
  ASSUME NEW asked, RefusesFirst(asked)
  PROVE  \E i \in DOMAIN asked :
           /\ asked[i] # "none" /\ outcome' = asked[i] /\ phase' = "done"
           /\ \A j \in 1 .. i - 1 : asked[j] = "none"
           /\ UNCHANGED <<container, row, stage, guard, ledger>>
BY DEF RefusesFirst, IsFirstFault, Concludes, Stays

LEMMA TicketFaultsAre ==
  ASSUME NEW s
  PROVE  /\ DOMAIN TicketFaults(s) = 1 .. 2
         /\ TicketFaults(s)[1] = Fault("layout", s.layout # "sound")
         /\ TicketFaults(s)[2] =
              Fault("size", s.extradata = Negative \/ Retained(s) > Limit.parameters)
BY DEF TicketFaults

LEMMA StreamFaultsAre ==
  ASSUME NEW s
  PROVE  /\ DOMAIN StreamFaults(s) = 1 .. 5
         /\ StreamFaults(s)[1] = Fault("missing", ~s.params)
         /\ StreamFaults(s)[2] = Fault("ruler", ~s.ruler)
         /\ StreamFaults(s)[3] = Fault("layout", s.layout # "sound")
         /\ StreamFaults(s)[4] =
              Fault("size", s.extradata = Negative \/ Retained(s) > Limit.parameters)
         /\ StreamFaults(s)[5] =
              Fault("total", charged.parameters + Retained(s) > Limit.allParameters)
BY DEF StreamFaults, TicketFaults

\* What BuildTicket asks.
RowFaults(s) ==
  <<Fault("ruler", ~s.ruler), Fault("missing", ~s.params)>> \o TicketFaults(s)

LEMMA RowFaultsAre ==
  ASSUME NEW s
  PROVE  /\ DOMAIN RowFaults(s) = 1 .. 4
         /\ RowFaults(s)[1] = Fault("ruler", ~s.ruler)
         /\ RowFaults(s)[2] = Fault("missing", ~s.params)
         /\ RowFaults(s)[3] = Fault("layout", s.layout # "sound")
         /\ RowFaults(s)[4] =
              Fault("size", s.extradata = Negative \/ Retained(s) > Limit.parameters)
BY DEF RowFaults, TicketFaults

LEMMA TextFaultsAre ==
  ASSUME NEW value, NEW spent, NEW ceiling
  PROVE  /\ DOMAIN TextFaults(value, spent, ceiling) = 1 .. 2
         /\ TextFaults(value, spent, ceiling)[1] = Fault("text", value = NotTerminated)
         /\ TextFaults(value, spent, ceiling)[2] =
              Fault("texts", value > 0 /\ spent + value > ceiling)
BY DEF TextFaults

LEMMA PayloadFaultsAre ==
  ASSUME NEW s
  PROVE  /\ DOMAIN PayloadFaults(s) = 1 .. 3
         /\ PayloadFaults(s)[1] = Fault("packet", s.role = "cover" /\ ~s.sound)
         /\ PayloadFaults(s)[2] = Fault("size", Payload(s) > Limit.attachment)
         /\ PayloadFaults(s)[3] =
              Fault("total", charged.attachments + Payload(s) > Limit.allAttachments)
BY DEF PayloadFaults, PictureFaults

LEMMA CarrierFaultsAre ==
  ASSUME NEW s
  PROVE  /\ DOMAIN CarrierFaults(s) = 1 .. 2
         /\ CarrierFaults(s)[1] = Fault("packet", s.role = "cover" /\ ~s.sound)
         /\ CarrierFaults(s)[2] = Fault("size", Payload(s) > Limit.attachment)
BY DEF CarrierFaults, PictureFaults

LEMMA ChapterFaultsAre ==
  ASSUME NEW spent
  PROVE  /\ DOMAIN ChapterFaults(spent) = 1 .. 3
         /\ ChapterFaults(spent)[1] = Fault("ruler", ~Chapter.ruler)
         /\ ChapterFaults(spent)[2] = Fault("text", Chapter.title = NotTerminated)
         /\ ChapterFaults(spent)[3] =
              Fault("texts", Chapter.title > 0 /\ spent + Chapter.title > Limit.title)
BY DEF ChapterFaults, TextFaults

LEMMA CountFaultIs ==
  /\ DOMAIN ChapterCountFault = 1 .. 1
  /\ ChapterCountFault[1] = Fault("count", Len(container.chapters) > Limit.chapters)
BY DEF ChapterCountFault

-----------------------------------------------------------------------------
(* What the admission judges, row by row and stage by stage *)

\* The text a row has come to before a stage.
TextBefore(s, k) ==
  IF k <= 1 THEN 0
  ELSE IF k = 2 THEN s.text[1]
  ELSE IF k = 3 THEN s.text[1] + s.text[2]
  ELSE Sums(s.text)

ParamsJudged(f, r) ==
  LET s == f.streams[r]
  IN  /\ s.params /\ s.ruler /\ s.layout = "sound" /\ s.extradata # Negative
      /\ Retained(s) <= Limit.parameters
      /\ Params(f)[r] <= Limit.allParameters

TextJudged(f, r, k) ==
  LET s == f.streams[r]
  IN  /\ s.text[k] # NotTerminated
      /\ s.text[k] > 0 => Texts(f)[r - 1] + TextBefore(s, k) + s.text[k] <= Limit.text

PayloadJudged(f, r) ==
  LET s == f.streams[r]
  IN  /\ s.role = "cover" => s.sound
      /\ Payload(s) <= Limit.attachment
      /\ Payloads(f)[r] <= Limit.allAttachments

ChapterJudged(f, r) ==
  LET c == f.chapters[r]
  IN  ~c.null =>
        /\ c.ruler /\ c.title # NotTerminated
        /\ c.title > 0 => Titles(f)[r] <= Limit.title

\* A pass over the streams has come to stage k of row r with these totals.
Reached(f, t, r, k) ==
  /\ t.parameters = IF k = 0 THEN Params(f)[r - 1] ELSE Params(f)[r]
  /\ t.text = Texts(f)[r - 1] + (IF k = 0 THEN 0 ELSE TextBefore(f.streams[r], k))
  /\ t.attachments = Payloads(f)[r - 1]

Ledger == [title : Int, text : Int, parameters : Int, attachments : Int]

\* The admission asks its questions of the running totals, and lets through
\* what they judge.
LEMMA ParamsPass ==
  ASSUME container \in Containers, row \in 1 .. Len(container.streams), charged \in Ledger,
         Reached(container, charged, row, 0), Passes(StreamFaults(Stream))
  PROVE  ParamsJudged(container, row)
<1> DEFINE s == Stream
<1>1. \A i \in 1 .. 5 : StreamFaults(s)[i] = "none"
  BY StreamFaultsAre DEF Passes
<1>2. /\ s.params /\ s.ruler /\ s.layout = "sound"
      /\ ~(s.extradata = Negative \/ Retained(s) > Limit.parameters)
      /\ ~(charged.parameters + Retained(s) > Limit.allParameters)
  <2> HIDE DEF s
  <2> QED BY <1>1, StreamFaultsAre DEF Fault
<1>3. Retained(s) \in Int /\ Limit.parameters \in Nat /\ Limit.allParameters \in Nat
  BY RowType, OpenAssumption DEF Stream
<1>4. charged.parameters = Params(container)[row - 1] /\ Params(container)[row - 1] \in Int
      /\ Params(container)[row] = Params(container)[row - 1] + Retained(s)
  BY RunningParams, ContainerType DEF Reached, Stream
<1> QED BY <1>2, <1>3, <1>4 DEF ParamsJudged, Stream

LEMMA TextPass ==
  ASSUME NEW t, container \in Containers, row \in 1 .. Len(container.streams), stage \in 1 .. 3,
         Reached(container, t, row, stage)
  PROVE  Passes(TextFaults(Stream.text[stage], t.text, Limit.text)) <=> TextJudged(container, row, stage)
<1> DEFINE value == Stream.text[stage]
           asked == TextFaults(value, t.text, Limit.text)
<1>1. Passes(asked) <=> asked[1] = "none" /\ asked[2] = "none"
  <2>1. DOMAIN asked = 1 .. 2 BY TextFaultsAre
  <2> HIDE DEF asked
  <2> QED BY <2>1 DEF Passes
<1>2. Passes(asked) <=> value # NotTerminated /\ ~(value > 0 /\ t.text + value > Limit.text)
  <2> HIDE DEF value
  <2> QED BY <1>1, TextFaultsAre DEF Fault
<1>3. value \in Int /\ Limit.text \in Nat
  BY RowType, OpenAssumption DEF Stream
<1>4. t.text = Texts(container)[row - 1] + TextBefore(Stream, stage)
  BY DEF Reached, Stream
<1>5. Texts(container)[row - 1] \in Int /\ TextBefore(Stream, stage) \in Int
  <2>1. row - 1 \in 0 .. Len(container.streams) BY ContainerType
  <2>2. Stream.text[1] \in Int /\ Stream.text[2] \in Int BY RowType DEF Stream
  <2> QED BY <2>1, <2>2, RunningTexts DEF TextBefore
<1> DEFINE here == Texts(container)[row - 1] + TextBefore(Stream, stage)
<1>6. here \in Int BY <1>5
<1>7. TextJudged(container, row, stage) <=>
        value # NotTerminated /\ (value > 0 => here + value <= Limit.text)
  BY DEF TextJudged, Stream
<1> HIDE DEF value, here
<1>8. ~(value > 0 /\ here + value > Limit.text) <=> (value > 0 => here + value <= Limit.text)
  BY <1>3, <1>6
<1> QED BY <1>2, <1>4, <1>7, <1>8 DEF here, value

LEMMA PayloadPass ==
  ASSUME container \in Containers, row \in 1 .. Len(container.streams), charged \in Ledger, IsAttachment(Stream),
         Reached(container, charged, row, 4), Passes(PayloadFaults(Stream))
  PROVE  PayloadJudged(container, row)
<1> DEFINE s == Stream
<1>1. \A i \in 1 .. 3 : PayloadFaults(s)[i] = "none"
  BY PayloadFaultsAre DEF Passes
<1>2. /\ ~(s.role = "cover" /\ ~s.sound)
      /\ ~(Payload(s) > Limit.attachment)
      /\ ~(charged.attachments + Payload(s) > Limit.allAttachments)
  <2> HIDE DEF s
  <2> QED BY <1>1, PayloadFaultsAre DEF Fault
<1>3. Payload(s) \in Int /\ Limit.attachment \in Nat /\ Limit.allAttachments \in Nat
  BY RowType, OpenAssumption DEF Stream
<1>4. charged.attachments = Payloads(container)[row - 1] /\ Payloads(container)[row - 1] \in Int
      /\ Payloads(container)[row] = Payloads(container)[row - 1] + Payload(s)
  BY RunningPayloads, ContainerType DEF Reached, Stream
<1> QED BY <1>2, <1>3, <1>4 DEF PayloadJudged, Stream

LEMMA ChapterPass ==
  ASSUME NEW spent, container \in Containers, row \in 1 .. Len(container.chapters), ~Chapter.null,
         spent = Titles(container)[row - 1]
  PROVE  Passes(ChapterFaults(spent)) <=> ChapterJudged(container, row)
<1> DEFINE asked == ChapterFaults(spent)
<1>1. Passes(asked) <=> asked[1] = "none" /\ asked[2] = "none" /\ asked[3] = "none"
  <2>1. DOMAIN asked = 1 .. 3 BY ChapterFaultsAre
  <2> HIDE DEF asked
  <2> QED BY <2>1 DEF Passes
<1>2. Passes(asked) <=>
        /\ Chapter.ruler /\ Chapter.title # NotTerminated
        /\ ~(Chapter.title > 0 /\ spent + Chapter.title > Limit.title)
  BY <1>1, ChapterFaultsAre DEF Fault
<1>3. Chapter.title \in Int /\ Limit.title \in Nat
  BY ChapterType, OpenAssumption DEF Chapter
<1>4. spent \in Int /\ Titles(container)[row] = spent + Chapter.title
  BY RunningTitles, ContainerType DEF Chapter
<1>5. ~(Chapter.title > 0 /\ spent + Chapter.title > Limit.title) <=>
        (Chapter.title > 0 => spent + Chapter.title <= Limit.title)
  BY <1>3, <1>4
<1>6. ChapterJudged(container, row) <=>
        /\ Chapter.ruler /\ Chapter.title # NotTerminated
        /\ Chapter.title > 0 => Titles(container)[row] <= Limit.title
  BY DEF ChapterJudged, Chapter
<1> QED BY <1>2, <1>4, <1>5, <1>6

LEMMA CountPass ==
  ASSUME container \in Containers
  PROVE  Passes(ChapterCountFault) <=> Len(container.chapters) <= Limit.chapters
<1>1. Passes(ChapterCountFault) <=> ChapterCountFault[1] = "none"
  BY CountFaultIs DEF Passes
<1>2. Len(container.chapters) \in Nat /\ Limit.chapters \in Nat
  BY ContainerType, OpenAssumption
<1>3. Len(container.chapters) > Limit.chapters <=> ~(Len(container.chapters) <= Limit.chapters)
  BY <1>2
<1> QED BY <1>1, <1>3, CountFaultIs DEF Fault

\* The building asks less of a row than the admission did.
LEMMA RowsPass ==
  ASSUME container \in Containers, row \in 1 .. Len(container.streams), ParamsJudged(container, row)
  PROVE  Passes(RowFaults(Stream))
<1> DEFINE s == Stream
<1>1. Retained(s) \in Int /\ Limit.parameters \in Nat
  BY RowType, OpenAssumption DEF Stream
<1>2. /\ s.params /\ s.ruler /\ s.layout = "sound" /\ s.extradata # Negative
      /\ ~(Retained(s) > Limit.parameters)
  BY <1>1 DEF ParamsJudged, Stream
<1> HIDE DEF s
<1>3. \A i \in 1 .. 4 : RowFaults(s)[i] = "none"
  BY <1>2, RowFaultsAre DEF Fault
<1> QED BY <1>3, RowFaultsAre DEF Passes, s

LEMMA CarriersPass ==
  ASSUME container \in Containers, row \in 1 .. Len(container.streams), PayloadJudged(container, row)
  PROVE  Passes(CarrierFaults(Stream))
<1> DEFINE s == Stream
<1>1. Payload(s) \in Int /\ Limit.attachment \in Nat
  BY RowType, OpenAssumption DEF Stream
<1>2. ~(s.role = "cover" /\ ~s.sound) /\ ~(Payload(s) > Limit.attachment)
  BY <1>1 DEF PayloadJudged, Stream
<1> HIDE DEF s
<1>3. \A i \in 1 .. 2 : CarrierFaults(s)[i] = "none"
  BY <1>2, CarrierFaultsAre DEF Fault
<1> QED BY <1>3, CarrierFaultsAre DEF Passes, s

-----------------------------------------------------------------------------
(* Advancing a stage *)

\* The stages a row goes through, judged so far: those of the rows before r, and
\* the first k of row r.
Judged(f, r, k) ==
  \A i \in 1 .. Len(f.streams) :
    /\ (i < r \/ (i = r /\ k > 0)) => ParamsJudged(f, i)
    /\ \A j \in 1 .. 3 : (i < r \/ (i = r /\ k > j)) => TextJudged(f, i, j)
    /\ (IsAttachment(f.streams[i]) /\ i < r) => PayloadJudged(f, i)

\* A row of the container and one of its stages, or the end of the table.
Position(f, r, k) ==
  \/ r \in 1 .. Len(f.streams) /\ k \in 0 .. LastStage(f.streams[r])
  \/ r = Len(f.streams) + 1 /\ k = 0

\* Where a pass is after stage k of row r.
NextRow(f, r, k) == IF k = LastStage(f.streams[r]) THEN r + 1 ELSE r
After(f, r, k) == IF k = LastStage(f.streams[r]) THEN 0 ELSE k + 1

LEMMA Moves ==
  ASSUME container \in Containers, row \in 1 .. Len(container.streams), stage \in 0 .. LastStage(Stream),
         NextStage(LastStage(Stream))
  PROVE  /\ row' = NextRow(container, row, stage) /\ stage' = After(container, row, stage)
         /\ Position(container, row', stage')
<1>1. LastStage(Stream) \in {3, 4} BY DEF LastStage
<1>2. Len(container.streams) \in Nat BY ContainerType
<1> DEFINE last == LastStage(container.streams[row])
<1>3. last = LastStage(Stream) BY DEF Stream
<1>4. row' = NextRow(container, row, stage) /\ stage' = After(container, row, stage)
  BY <1>3 DEF NextStage, NextRow, After
<1>5. CASE stage = last
  <2>1. row' = row + 1 /\ stage' = 0 BY <1>4, <1>5 DEF NextRow, After
  <2>2. \A s : 0 \in 0 .. LastStage(s) BY DEF LastStage
  <2>3. row + 1 \in 1 .. Len(container.streams) \/ row + 1 = Len(container.streams) + 1 BY <1>2
  <2>4. Position(container, row + 1, 0) BY <2>2, <2>3 DEF Position
  <2> QED BY <2>1, <2>4, <1>4
<1>6. CASE stage # last
  <2>1. stage + 1 \in 0 .. last BY <1>1, <1>3, <1>6
  <2> QED BY <2>1, <1>4, <1>6 DEF NextRow, After, Position
<1> QED BY <1>4, <1>5, <1>6

LEMMA JudgedParams ==
  ASSUME NEW f \in Containers, NEW r \in 1 .. Len(f.streams), Judged(f, r, 0), ParamsJudged(f, r)
  PROVE  Judged(f, NextRow(f, r, 0), After(f, r, 0))
<1>1. LastStage(f.streams[r]) # 0 BY DEF LastStage
<1> QED BY <1>1 DEF NextRow, After, Judged

LEMMA JudgedText ==
  ASSUME NEW f \in Containers, NEW r \in 1 .. Len(f.streams), NEW k \in 1 .. 3,
         Judged(f, r, k), TextJudged(f, r, k)
  PROVE  Judged(f, NextRow(f, r, k), After(f, r, k))
<1>1. Len(f.streams) \in Nat BY ContainerType
<1>2. CASE k = 3 /\ ~IsAttachment(f.streams[r])
  <2>1. NextRow(f, r, k) = r + 1 /\ After(f, r, k) = 0
    BY <1>2 DEF NextRow, After, LastStage
  <2>2. Judged(f, r + 1, 0)
    <3> SUFFICES ASSUME NEW i \in 1 .. Len(f.streams)
               PROVE  /\ (i < r + 1 \/ (i = r + 1 /\ 0 > 0)) => ParamsJudged(f, i)
                      /\ \A j \in 1 .. 3 : (i < r + 1 \/ (i = r + 1 /\ 0 > j)) => TextJudged(f, i, j)
                      /\ (IsAttachment(f.streams[i]) /\ i < r + 1) => PayloadJudged(f, i)
    BY DEF Judged
    <3>1. i < r + 1 => i < r \/ i = r BY <1>1
    <3>2. i < r + 1 => ParamsJudged(f, i) BY <3>1 DEF Judged
    <3>3. \A j \in 1 .. 3 : i < r + 1 => TextJudged(f, i, j)
      BY <3>1, <1>2 DEF Judged
    <3>4. (IsAttachment(f.streams[i]) /\ i < r + 1) => PayloadJudged(f, i)
      BY <3>1, <1>2 DEF Judged
    <3> QED BY <3>2, <3>3, <3>4, <1>1
  <2> QED BY <2>1, <2>2
<1>3. CASE ~(k = 3 /\ ~IsAttachment(f.streams[r]))
  <2>1. NextRow(f, r, k) = r /\ After(f, r, k) = k + 1
    BY <1>3 DEF NextRow, After, LastStage
  <2>2. Judged(f, r, k + 1)
    <3> SUFFICES ASSUME NEW i \in 1 .. Len(f.streams)
               PROVE  /\ (i < r \/ (i = r /\ k + 1 > 0)) => ParamsJudged(f, i)
                      /\ \A j \in 1 .. 3 : (i < r \/ (i = r /\ k + 1 > j)) => TextJudged(f, i, j)
                      /\ (IsAttachment(f.streams[i]) /\ i < r) => PayloadJudged(f, i)
    BY DEF Judged
    <3>1. (i < r \/ (i = r /\ k + 1 > 0)) => ParamsJudged(f, i) BY DEF Judged
    <3>2. \A j \in 1 .. 3 : (i < r \/ (i = r /\ k + 1 > j)) => TextJudged(f, i, j)
      BY DEF Judged
    <3>3. (IsAttachment(f.streams[i]) /\ i < r) => PayloadJudged(f, i) BY DEF Judged
    <3> QED BY <3>1, <3>2, <3>3
  <2> QED BY <2>1, <2>2
<1> QED BY <1>2, <1>3

LEMMA JudgedPayload ==
  ASSUME NEW f \in Containers, NEW r \in 1 .. Len(f.streams), IsAttachment(f.streams[r]),
         Judged(f, r, 4), PayloadJudged(f, r)
  PROVE  Judged(f, NextRow(f, r, 4), After(f, r, 4))
<1>1. NextRow(f, r, 4) = r + 1 /\ After(f, r, 4) = 0
  BY DEF NextRow, After, LastStage
<1>2. Judged(f, r + 1, 0)
  <2> SUFFICES ASSUME NEW i \in 1 .. Len(f.streams)
               PROVE  /\ (i < r + 1 \/ (i = r + 1 /\ 0 > 0)) => ParamsJudged(f, i)
                      /\ \A j \in 1 .. 3 : (i < r + 1 \/ (i = r + 1 /\ 0 > j)) => TextJudged(f, i, j)
                      /\ (IsAttachment(f.streams[i]) /\ i < r + 1) => PayloadJudged(f, i)
    BY DEF Judged
  <2>1. i < r + 1 => i < r \/ i = r BY ContainerType
  <2>2. i < r + 1 => ParamsJudged(f, i) BY <2>1 DEF Judged
  <2>3. \A j \in 1 .. 3 : i < r + 1 => TextJudged(f, i, j) BY <2>1 DEF Judged
  <2>4. (IsAttachment(f.streams[i]) /\ i < r + 1) => PayloadJudged(f, i)
    BY <2>1 DEF Judged
  <2> QED BY <2>2, <2>3, <2>4
<1> QED BY <1>1, <1>2

Plus(t, budget, bytes) == [t EXCEPT ![budget] = @ + bytes]

LEMMA Adds ==
  ASSUME NEW t \in Ledger, NEW b \in Int
  PROVE  /\ LET u == Plus(t, "parameters", b)
            IN  /\ u \in Ledger /\ u.parameters = t.parameters + b
                /\ u.title = t.title /\ u.text = t.text /\ u.attachments = t.attachments
         /\ LET u == Plus(t, "text", b)
            IN  /\ u \in Ledger /\ u.text = t.text + b
                /\ u.title = t.title /\ u.parameters = t.parameters
                /\ u.attachments = t.attachments
         /\ LET u == Plus(t, "attachments", b)
            IN  /\ u \in Ledger /\ u.attachments = t.attachments + b
                /\ u.title = t.title /\ u.text = t.text /\ u.parameters = t.parameters
         /\ LET u == Plus(t, "title", b)
            IN  /\ u \in Ledger /\ u.title = t.title + b
                /\ u.text = t.text /\ u.parameters = t.parameters
                /\ u.attachments = t.attachments
BY DEF Ledger, Plus

LEMMA ReachedParams ==
  ASSUME NEW f \in Containers, NEW r \in 1 .. Len(f.streams), NEW t \in Ledger, Reached(f, t, r, 0),
         NEW u, u = Plus(t, "parameters", Retained(f.streams[r]))
  PROVE  /\ u \in Ledger /\ u.title = t.title
         /\ Reached(f, u, NextRow(f, r, 0), After(f, r, 0))
<1>1. NextRow(f, r, 0) = r /\ After(f, r, 0) = 1 BY DEF NextRow, After, LastStage
<1>2. Retained(f.streams[r]) \in Int BY RowType
<1>3. /\ u \in Ledger /\ u.title = t.title /\ u.text = t.text /\ u.attachments = t.attachments
      /\ u.parameters = t.parameters + Retained(f.streams[r])
  BY <1>2, Adds
<1>4. Params(f)[r] = Params(f)[r - 1] + Retained(f.streams[r]) BY RunningParams
<1>5. Texts(f)[r - 1] \in Int BY RunningTexts, ContainerType
<1> QED BY <1>1, <1>3, <1>4, <1>5 DEF Reached, TextBefore

LEMMA ReachedText ==
  ASSUME NEW f \in Containers, NEW r \in 1 .. Len(f.streams), NEW k \in 1 .. 3,
         NEW t \in Ledger, Reached(f, t, r, k),
         NEW u, u = Plus(t, "text", f.streams[r].text[k])
  PROVE  /\ u \in Ledger /\ u.title = t.title
         /\ Reached(f, u, NextRow(f, r, k), After(f, r, k))
<1> DEFINE s == f.streams[r]
<1>1. s.text[1] \in Int /\ s.text[2] \in Int /\ s.text[3] \in Int /\ s.text[k] \in Int
  BY RowType
<1>2. /\ u \in Ledger /\ u.title = t.title /\ u.parameters = t.parameters
      /\ u.attachments = t.attachments /\ u.text = t.text + s.text[k]
  BY <1>1, Adds
<1>3. Texts(f)[r - 1] \in Int /\ Texts(f)[r] = Texts(f)[r - 1] + Sums(s.text)
  BY RunningTexts, ContainerType
<1>4. ~IsAttachment(s) => Payloads(f)[r] = Payloads(f)[r - 1]
  <2>1. Payloads(f)[r - 1] \in Int BY RunningPayloads, ContainerType
  <2>2. Payloads(f)[r] = Payloads(f)[r - 1] + (IF IsAttachment(s) THEN Payload(s) ELSE 0)
    BY RunningPayloads
  <2> HIDE DEF s
  <2> QED BY <2>1, <2>2
<1>5. /\ t.parameters = Params(f)[r] /\ t.attachments = Payloads(f)[r - 1]
      /\ t.text = Texts(f)[r - 1] + TextBefore(s, k)
  BY DEF Reached
<1>6. CASE k = 3 /\ ~IsAttachment(s)
  <2>1. NextRow(f, r, k) = r + 1 /\ After(f, r, k) = 0
    BY <1>6 DEF NextRow, After, LastStage
  <2>2. u.text = Texts(f)[r]
    <3> HIDE DEF s
    <3> QED BY <1>1, <1>2, <1>3, <1>5, <1>6 DEF TextBefore, Sums
  <2>3. r + 1 - 1 = r BY ContainerType
  <2>4. Reached(f, u, r + 1, 0)
    <3>1. u.parameters = Params(f)[r] /\ u.attachments = Payloads(f)[r] /\ Texts(f)[r] + 0 = Texts(f)[r]
      <4>1. Sums(s.text) \in Int BY RowType
      <4> QED BY <4>1, <1>2, <1>3, <1>4, <1>5, <1>6
    <3> QED BY <3>1, <2>2, <2>3 DEF Reached
  <2> QED BY <2>1, <2>4, <1>2
<1>7. CASE ~(k = 3 /\ ~IsAttachment(s))
  <2>1. NextRow(f, r, k) = r /\ After(f, r, k) = k + 1 /\ k + 1 # 0
    BY <1>7 DEF NextRow, After, LastStage
  <2>2. u.text = Texts(f)[r - 1] + TextBefore(s, k + 1)
    <3> HIDE DEF s
    <3> QED BY <1>1, <1>2, <1>3, <1>5 DEF TextBefore, Sums
  <2> QED BY <2>1, <2>2, <1>2, <1>5 DEF Reached
<1> QED BY <1>6, <1>7

LEMMA ReachedPayload ==
  ASSUME NEW f \in Containers, NEW r \in 1 .. Len(f.streams), NEW t \in Ledger,
         IsAttachment(f.streams[r]), Reached(f, t, r, 4),
         NEW u, u = Plus(t, "attachments", Payload(f.streams[r]))
  PROVE  /\ u \in Ledger /\ u.title = t.title
         /\ Reached(f, u, NextRow(f, r, 4), After(f, r, 4))
<1> DEFINE s == f.streams[r]
<1>1. NextRow(f, r, 4) = r + 1 /\ After(f, r, 4) = 0 /\ r + 1 - 1 = r
  BY ContainerType DEF NextRow, After, LastStage
<1>2. Payload(s) \in Int BY RowType
<1>3. /\ u \in Ledger /\ u.title = t.title /\ u.text = t.text /\ u.parameters = t.parameters
      /\ u.attachments = t.attachments + Payload(s)
  BY <1>2, Adds
<1>4. Payloads(f)[r] = Payloads(f)[r - 1] + Payload(s) BY RunningPayloads
<1>5. t.text = Texts(f)[r]
  <2>1. Texts(f)[r] = Texts(f)[r - 1] + Sums(s.text) BY RunningTexts
  <2> QED BY <2>1 DEF Reached, TextBefore
<1>6. Reached(f, u, r + 1, 0)
  <2>1. t.parameters = Params(f)[r] /\ t.attachments = Payloads(f)[r - 1] BY DEF Reached
  <2>2. Texts(f)[r] \in Int BY RunningTexts, ContainerType
  <2> QED BY <2>1, <2>2, <1>1, <1>3, <1>4, <1>5 DEF Reached
<1> QED BY <1>1, <1>3, <1>6

-----------------------------------------------------------------------------
(* The probe and the verdict *)

ProbeType ==
  /\ read \in 0 .. Limit.probe /\ consumed = read
  /\ tripped \in BOOLEAN /\ latched \in BOOLEAN
  /\ tripped => read = Limit.probe

\* The meter and the latch are clear from the end of the probe on, and the
\* verdict libavformat gives on its own is the only one they could be behind.
VerdictInv ==
  /\ ProbeType
  /\ phase # "done" => outcome = "none"
  /\ (phase \notin {"probe", "done"} \/ outcome \in {"ffmpeg", "open"} \cup Refusals)
       => ~tripped /\ ~latched

LEMMA VerdictHeld ==
  ASSUME VerdictInv, guard' = guard, phase \notin {"probe", "done"},
         phase' = "done" \/ outcome' = outcome
  PROVE  VerdictInv'
BY DEF VerdictInv, ProbeType, guard

LEMMA VerdictStep ==
  ASSUME VerdictInv, [OpenNext]_openVars
  PROVE  VerdictInv'
<1> USE DEF Concludes, Stays
<1>0. Limit.probe \in Nat /\ read \in Nat
  BY OpenAssumption DEF VerdictInv, ProbeType
<1>1. CASE Probing
  <2>1. /\ phase' = phase /\ outcome' = outcome
    BY <1>1 DEF Probing
  <2>2. ProbeType'
    <3>1. CASE \E want \in 0 .. MaxAsk : ProbeReads(want)
      <4>1. PICK want \in 0 .. MaxAsk : ProbeReads(want) BY <3>1
      <4>2. PICK got \in 0 .. Capped(want) : read' = read + got /\ consumed' = consumed + got
        BY <4>1 DEF ProbeReads
      <4>3. want \in Nat BY OpenAssumption
      <4>4. got \in Nat /\ got <= Limit.probe - read
        BY <4>2, <4>3, <1>0 DEF Capped, Remaining, VerdictInv, ProbeType
      <4>5. UNCHANGED <<tripped, latched>> BY <4>1 DEF ProbeReads
      <4> QED BY <4>2, <4>4, <4>5, <1>0 DEF VerdictInv, ProbeType
    <3>2. CASE \E want \in 0 .. MaxAsk : ReadRefused(want)
      BY <3>2, <1>0 DEF ReadRefused, Remaining, VerdictInv, ProbeType
    <3>3. CASE \E want \in 0 .. MaxAsk : ProbeReadPanics(want)
      BY <3>3 DEF ProbeReadPanics, VerdictInv, ProbeType
    <3>4. CASE ProbeSeekPanics
      BY <3>4 DEF ProbeSeekPanics, VerdictInv, ProbeType
    <3> QED BY <1>1, <3>1, <3>2, <3>3, <3>4 DEF Probing
  <2>3. phase = "probe" BY <1>1 DEF Probing
  <2> QED BY <2>1, <2>2, <2>3 DEF VerdictInv, Refusals
<1>2. CASE ProbeFails
  BY <1>2 DEF ProbeFails, VerdictInv, ProbeType, guard, Refusals
<1>3. CASE ProbeAllocFails
  BY <1>3 DEF ProbeAllocFails, AllocFails, VerdictInv, ProbeType, guard, Refusals
<1>4. CASE ProbeEnds
  BY <1>4 DEF ProbeEnds, VerdictInv, ProbeType, guard, Refusals
<1>5. CASE AdmitChapters
  BY <1>5, VerdictHeld DEF AdmitChapters, RefusesFirst, ChaptersDone
<1>6. CASE AdmitParameters
  BY <1>6, VerdictHeld DEF AdmitParameters, Admitting, Charge, RefusesFirst
<1>7. CASE AdmitText
  BY <1>7, VerdictHeld DEF AdmitText, Admitting, Charge, RefusesFirst
<1>8. CASE AdmitPayload
  BY <1>8, VerdictHeld DEF AdmitPayload, Admitting, Charge, RefusesFirst
<1>9. CASE Admitted
  BY <1>9, VerdictHeld DEF Admitted
<1>10. CASE BuildBegins
  BY <1>10, VerdictHeld DEF BuildBegins, Reserve, AllocFails
<1>11. CASE BuildTicket
  BY <1>11, VerdictHeld DEF BuildTicket, Building, Pay, RefusesFirst, AllocFails
<1>12. CASE BuildText
  BY <1>12, VerdictHeld DEF BuildText, Building, Pay, RefusesFirst, AllocFails
<1>13. CASE BuildCarrier
  BY <1>13, VerdictHeld DEF BuildCarrier, Building, Pay, RefusesFirst, AllocFails
<1>14. CASE Built
  BY <1>14, VerdictHeld DEF Built
<1>15. CASE Handles
  BY <1>15, VerdictHeld DEF Handles, Reserve, AllocFails
<1>16. CASE BuildChapters
  BY <1>16, VerdictHeld DEF BuildChapters, Reserve, RefusesFirst, AllocFails
<1>17. CASE BuildTitle
  BY <1>17, VerdictHeld DEF BuildTitle, ChaptersDone, Pay, RefusesFirst, AllocFails
<1>18. CASE Opens
  BY <1>18, VerdictHeld DEF Opens, AllocFails
<1>19. CASE Done \/ UNCHANGED openVars
  BY <1>19 DEF Done, openVars, VerdictInv, ProbeType, guard
<1> QED
  BY <1>1, <1>2, <1>3, <1>4, <1>5, <1>6, <1>7, <1>8, <1>9, <1>10, <1>11, <1>12, <1>13,
     <1>14, <1>15, <1>16, <1>17, <1>18, <1>19 DEF OpenNext

\* Before anything is judged the budget and the reader have been found good: the
\* verdict of libavformat, and every verdict on the container, is answered with
\* neither a tripped meter nor a latched panic behind it, and the probe gives
\* away no byte past its budget (GuardedReader::read, open_reader_with_impl).
THEOREM VerdictKept == OpenSpec => []VerdictHonest
<1>1. OpenInit => VerdictInv
  <2> SUFFICES ASSUME OpenInit PROVE VerdictInv OBVIOUS
  <2>1. Limit.probe \in Nat BY OpenAssumption
  <2>2. read = 0 /\ consumed = 0 /\ tripped = FALSE /\ latched = FALSE BY DEF OpenInit
  <2>3. read \in 0 .. Limit.probe BY <2>1, <2>2
  <2>4. ~tripped /\ tripped \in BOOLEAN /\ latched \in BOOLEAN /\ consumed = read BY <2>2
  <2>5. ProbeType BY <2>3, <2>4, Zenon DEF ProbeType
  <2> QED BY <2>4, <2>5 DEF OpenInit, VerdictInv, Refusals
<1>2. VerdictInv /\ [OpenNext]_openVars => VerdictInv'
  BY VerdictStep
<1>3. VerdictInv => VerdictHonest
  BY OpenAssumption DEF VerdictInv, ProbeType, VerdictHonest, ProbeHonest, Refusals
<1> QED BY <1>1, <1>2, <1>3, PTL DEF OpenSpec

-----------------------------------------------------------------------------
(* The invariant, phase by phase *)

Untouched == paid = Nothing /\ reserved = FALSE /\ queued = <<>>

CeilingsMet ==
  /\ paid.parameters <= Limit.allParameters /\ paid.text <= Limit.text
  /\ paid.attachments <= Limit.allAttachments /\ paid.title <= Limit.title

ChaptersUpTo(f, r) == \A i \in 1 .. Len(f.chapters) : i < r => ChapterJudged(f, i)

ChaptersAdmitted(f) ==
  Len(f.chapters) <= Limit.chapters /\ ChaptersUpTo(f, Len(f.chapters) + 1)

\* The rows queued are the attachments before r, in table order.
QueuedRows(f, queue, r) ==
  /\ queue \in Seq(Nat)
  /\ \A i \in 1 .. Len(f.streams) :
       (IsAttachment(f.streams[i]) /\ i < r) <=> \E k \in 1 .. Len(queue) : queue[k] = i
  /\ \A k \in 1 .. Len(queue) : queue[k] \in 1 .. Len(f.streams) /\ queue[k] < r
  /\ \A j, k \in 1 .. Len(queue) : j < k => queue[j] < queue[k]

\* The admission has been over the whole container.
Admission ==
  /\ ChaptersAdmitted(container) /\ Judged(container, Len(container.streams) + 1, 0)
  /\ charged \in Ledger
  /\ charged.title = Titles(container)[Len(container.chapters)]
  /\ Reached(container, charged, Len(container.streams) + 1, 0)

StreamsPaid ==
  /\ Reached(container, paid, Len(container.streams) + 1, 0)
  /\ QueuedRows(container, queued, Len(container.streams) + 1)

AtProbe == phase = "probe" /\ Untouched /\ row = 1 /\ stage = 0 /\ charged = Nothing

AtChapters ==
  /\ phase = "admit chapters" /\ Untouched
  /\ row \in 1 .. Len(container.chapters) + 1 /\ stage = 0
  /\ charged \in Ledger /\ charged.title = Titles(container)[row - 1]
  /\ charged.text = 0 /\ charged.parameters = 0 /\ charged.attachments = 0
  /\ ChaptersUpTo(container, row)

AtAdmit ==
  /\ phase = "admit" /\ Untouched
  /\ Position(container, row, stage)
  /\ charged \in Ledger /\ charged.title = Titles(container)[Len(container.chapters)]
  /\ Reached(container, charged, row, stage)
  /\ Judged(container, row, stage) /\ ChaptersAdmitted(container)

AtReserve == phase = "reserve" /\ Untouched /\ row = 1 /\ stage = 0 /\ Admission

Paying == Admission /\ paid \in Ledger /\ CeilingsMet

AtBuild ==
  /\ phase = "build" /\ Paying
  /\ Position(container, row, stage)
  /\ paid.title = 0 /\ Reached(container, paid, row, stage)
  /\ QueuedRows(container, queued, row)

AtHandles ==
  /\ phase \in {"handles", "build chapters"} /\ Paying /\ StreamsPaid
  /\ row = 1 /\ stage = 0 /\ paid.title = 0

AtTitles ==
  /\ phase = "titles" /\ Paying /\ StreamsPaid
  /\ row \in 1 .. Len(container.chapters) + 1 /\ stage = 0
  /\ paid.title = Titles(container)[row - 1]

AtMeasured ==
  /\ phase = "measured" /\ Paying /\ StreamsPaid
  /\ paid.title = Titles(container)[Len(container.chapters)]

AtWork ==
  \/ AtProbe \/ AtChapters \/ AtAdmit \/ AtReserve
  \/ AtBuild \/ AtHandles \/ AtTitles \/ AtMeasured

Finished == phase = "done" /\ PaidAsJudged

PaidInv == container \in Containers /\ ((AtWork /\ outcome = "none") \/ Finished)

\* Every list the admission asks answers refusals only.
OnlyRefuses(asked) == \A i \in DOMAIN asked : asked[i] \in Refusals \cup {"none"}

LEMMA QuestionsOnlyRefuse ==
  /\ \A s : OnlyRefuses(StreamFaults(s)) /\ OnlyRefuses(PayloadFaults(s))
  /\ \A value, spent, ceiling : OnlyRefuses(TextFaults(value, spent, ceiling))
  /\ \A spent : OnlyRefuses(ChapterFaults(spent))
  /\ OnlyRefuses(ChapterCountFault)
<1>1. ASSUME NEW s PROVE OnlyRefuses(StreamFaults(s))
  BY StreamFaultsAre DEF OnlyRefuses, Fault, Refusals
<1>2. ASSUME NEW s PROVE OnlyRefuses(PayloadFaults(s))
  BY PayloadFaultsAre DEF OnlyRefuses, Fault, Refusals
<1>3. ASSUME NEW value, NEW spent, NEW ceiling PROVE OnlyRefuses(TextFaults(value, spent, ceiling))
  BY TextFaultsAre DEF OnlyRefuses, Fault, Refusals
<1>4. ASSUME NEW spent PROVE OnlyRefuses(ChapterFaults(spent))
  BY ChapterFaultsAre DEF OnlyRefuses, Fault, Refusals
<1>5. OnlyRefuses(ChapterCountFault)
  BY CountFaultIs DEF OnlyRefuses, Fault, Refusals
<1> QED BY <1>1, <1>2, <1>3, <1>4, <1>5

\* Before the building nothing is paid, and nothing is over a ceiling.
LEMMA UntouchedIsMet ==
  ASSUME Untouched
  PROVE  CeilingsMet /\ paid \in Ledger
<1>1. /\ Limit.allParameters \in Nat /\ Limit.text \in Nat
      /\ Limit.allAttachments \in Nat /\ Limit.title \in Nat
  BY OpenAssumption
<1>2. paid = [title |-> 0, text |-> 0, parameters |-> 0, attachments |-> 0]
  BY DEF Untouched, Nothing
<1> QED BY <1>1, <1>2 DEF CeilingsMet, Ledger

LEMMA WithinCeilings ==
  ASSUME PaidInv
  PROVE  CeilingsMet
<1>1. CASE Finished BY <1>1 DEF Finished, PaidAsJudged, ChargedIsPaid, CeilingsMet
<1>2. CASE AtWork
  BY <1>2, UntouchedIsMet
     DEF AtWork, AtProbe, AtChapters, AtAdmit, AtReserve, AtBuild, AtHandles, AtTitles,
         AtMeasured, Paying
<1> QED BY <1>1, <1>2 DEF PaidInv

LEMMA WorkHolds ==
  ASSUME AtWork, outcome = "none", CeilingsMet
  PROVE  PaidAsJudged
BY DEF PaidAsJudged, JudgedBeforePaid, SpecificFaultFirst, TextsTerminated, ChargedIsPaid,
       QueueMatchesTable, CeilingsMet, Refusals

\* A verdict that is about neither the container nor an open session ends the
\* open whatever it has come to.
LEMMA Gives ==
  ASSUME CeilingsMet, phase' = "done", outcome' \notin Refusals \cup {"open"},
         UNCHANGED paid
  PROVE  Finished'
BY DEF Finished, PaidAsJudged, JudgedBeforePaid, SpecificFaultFirst, TextsTerminated,
       ChargedIsPaid, QueueMatchesTable, CeilingsMet, Refusals

LEMMA AllocGives ==
  ASSUME CeilingsMet, AllocFails
  PROVE  Finished' /\ container' = container
<1>1. phase' = "done" /\ outcome' = "alloc" /\ container' = container /\ UNCHANGED paid
  BY DEF AllocFails, Concludes, Stays, ledger
<1>2. outcome' \notin Refusals \cup {"open"} BY <1>1 DEF Refusals
<1> QED BY <1>1, <1>2, Gives

\* A refusal of the admission finds nothing paid; when it names a total the row
\* is not at fault by itself.
LEMMA RefusalGives ==
  ASSUME Untouched, NEW asked, OnlyRefuses(asked), RefusesFirst(asked),
         (outcome' = "total" /\ row \in DOMAIN container.streams) =>
            /\ Stream.ruler /\ Stream.layout = "sound"
            /\ stage = 0 => Retained(Stream) <= Limit.parameters
            /\ stage = 4 => /\ Payload(Stream) <= Limit.attachment
                            /\ Stream.role = "cover" => Stream.sound
  PROVE  Finished' /\ container' = container
<1>1. PICK i \in DOMAIN asked : asked[i] # "none" /\ outcome' = asked[i] /\ phase' = "done"
                                /\ UNCHANGED <<container, row, stage, guard, ledger>>
  BY Refused
<1>2. outcome' \in Refusals BY <1>1 DEF OnlyRefuses
<1>3. outcome' # "open" BY <1>2 DEF Refusals
<1>4. container' = container /\ row' = row /\ stage' = stage /\ paid' = Nothing /\ reserved' = FALSE
  BY <1>1 DEF Untouched, ledger
<1>5. CeilingsMet' BY UntouchedIsMet, <1>4 DEF CeilingsMet, Untouched
<1>6. JudgedBeforePaid'
  BY <1>3, <1>4 DEF JudgedBeforePaid, SpecificFaultFirst, TextsTerminated, Stream
<1>7. ChargedIsPaid' BY <1>3, <1>5 DEF ChargedIsPaid, QueueMatchesTable, CeilingsMet
<1> QED BY <1>1, <1>4, <1>6, <1>7 DEF Finished, PaidAsJudged

-----------------------------------------------------------------------------
(* Admission *)

LEMMA ChaptersStep ==
  ASSUME PaidInv, AdmitChapters
  PROVE  PaidInv'
<1>1. AtChapters /\ container \in Containers /\ outcome = "none" /\ phase = "admit chapters"
  BY DEF PaidInv, AtWork, AtProbe, AtChapters, AtAdmit, AtReserve, AtBuild, AtHandles, AtTitles,
         AtMeasured, Finished, AdmitChapters
<1> DEFINE n == Len(container.chapters)
<1>2. n \in Nat /\ row \in 1 .. n + 1 /\ stage = 0
  BY <1>1, ContainerType DEF AtChapters
<1>3. CASE RefusesFirst(ChapterCountFault)
  <2>1. outcome' # "total"
    <3>1. PICK i \in DOMAIN ChapterCountFault :
            ChapterCountFault[i] # "none" /\ outcome' = ChapterCountFault[i]
      BY <1>3, Refused
    <3> QED BY <3>1, CountFaultIs DEF Fault
  <2>2. Finished' /\ container' = container
    BY <2>1, <1>1, <1>3, RefusalGives, QuestionsOnlyRefuse DEF AtChapters
  <2> QED BY <2>2, <1>1 DEF PaidInv
<1>4. CASE Passes(ChapterCountFault) /\ ChaptersDone("admit")
  <2>1. n <= Limit.chapters BY <1>1, <1>4, CountPass
  <2>2. row = n + 1 BY <1>2, <1>4 DEF ChaptersDone
  <2>3. /\ phase' = "admit" /\ row' = 1 /\ stage' = 0 /\ container' = container /\ outcome' = "none"
        /\ UNCHANGED <<charged, paid, reserved, queued>>
    BY <1>1, <1>2, <1>4 DEF ChaptersDone, ledger
  <2>4. Position(container, 1, 0)
    <3>1. Len(container.streams) \in Nat BY <1>1, ContainerType
    <3>2. \A s : 0 \in 0 .. LastStage(s) BY DEF LastStage
    <3>3. 1 \in 1 .. Len(container.streams) \/ 1 = Len(container.streams) + 1 BY <3>1
    <3> QED BY <3>2, <3>3 DEF Position
  <2>5. Reached(container, charged, 1, 0)
    <3>1. charged.text = 0 /\ charged.parameters = 0 /\ charged.attachments = 0
      BY <1>1 DEF AtChapters
    <3>2. Params(container)[0] = 0 /\ Texts(container)[0] = 0 /\ Payloads(container)[0] = 0
      BY <1>1, RunningParams, RunningTexts, RunningPayloads
    <3> QED BY <3>1, <3>2 DEF Reached
  <2>6. Judged(container, 1, 0)
    <3>1. \A i \in 1 .. Len(container.streams) : ~(i < 1) /\ ~(i = 1 /\ 0 > 0) OBVIOUS
    <3>2. \A j \in 1 .. 3 : ~(0 > j) OBVIOUS
    <3> QED BY <3>1, <3>2, Zenon DEF Judged
  <2>7. ChaptersAdmitted(container) /\ charged \in Ledger /\ charged.title = Titles(container)[n]
    <3>1. row - 1 = n BY <2>2, <1>2
    <3> QED BY <3>1, <2>1, <2>2, <1>1 DEF ChaptersAdmitted, AtChapters
  <2>8. AtAdmit'
    BY <2>3, <2>4, <2>5, <2>6, <2>7, <1>1 DEF AtAdmit, AtChapters, Untouched
  <2> QED BY <2>3, <2>8, <1>1 DEF PaidInv, AtWork
<1>5. CASE row <= n /\ ~Chapter.null /\ RefusesFirst(ChapterFaults(charged.title))
  <2>1. outcome' # "total"
    <3>1. PICK i \in 1 .. 3 :
            /\ ChapterFaults(charged.title)[i] # "none"
            /\ outcome' = ChapterFaults(charged.title)[i]
      BY <1>5, Refused, ChapterFaultsAre
    <3> QED BY <3>1, ChapterFaultsAre DEF Fault
  <2>2. Finished' /\ container' = container
    BY <2>1, <1>1, <1>5, RefusalGives, QuestionsOnlyRefuse DEF AtChapters
  <2> QED BY <2>2, <1>1 DEF PaidInv
<1>6. CASE /\ row <= n /\ (Chapter.null \/ Passes(ChapterFaults(charged.title)))
           /\ row' = row + 1
           /\ charged' = [charged EXCEPT !.title = IF Chapter.null THEN @ ELSE @ + Chapter.title]
           /\ UNCHANGED <<container, phase, stage, guard, paid, reserved, queued, outcome>>
  <2>1. row \in 1 .. n BY <1>2, <1>6
  <2>2. charged \in Ledger /\ charged.title = Titles(container)[row - 1] /\ Chapter.title \in Int
    BY <1>1, <2>1, ChapterType DEF AtChapters, Chapter
  <2>3. Titles(container)[row]
          = Titles(container)[row - 1] + (IF Chapter.null THEN 0 ELSE Chapter.title)
    BY <1>1, <2>1, RunningTitles DEF Chapter
  <2>4. /\ charged' \in Ledger /\ charged'.title = Titles(container)[row]
        /\ charged'.text = charged.text /\ charged'.parameters = charged.parameters
        /\ charged'.attachments = charged.attachments
    BY <2>2, <2>3, <1>6 DEF Ledger
  <2>5. ChapterJudged(container, row)
    <3>1. CASE Chapter.null BY <3>1 DEF ChapterJudged, Chapter
    <3>2. CASE ~Chapter.null /\ Passes(ChapterFaults(charged.title))
      BY <3>2, <1>1, <2>1, <2>2, ChapterPass
    <3> QED BY <3>1, <3>2, <1>6
  <2>6. ChaptersUpTo(container, row + 1)
    <3>1. ASSUME NEW i \in 1 .. n, i < row + 1 PROVE ChapterJudged(container, i)
      <4>1. i < row \/ i = row BY <3>1, <2>1
      <4> QED BY <4>1, <2>5, <1>1 DEF AtChapters, ChaptersUpTo
    <3> QED BY <3>1 DEF ChaptersUpTo
  <2>7. row + 1 \in 1 .. n + 1 /\ row + 1 - 1 = row BY <2>1, <1>2
  <2>8. /\ row' = row + 1 /\ stage' = 0 /\ phase' = "admit chapters" /\ container' = container
        /\ outcome' = "none" /\ UNCHANGED <<paid, reserved, queued>>
    BY <1>1, <1>2, <1>6
  <2>9. Untouched' BY <2>8, <1>1 DEF AtChapters, Untouched
  <2>10. charged'.title = Titles(container')[row' - 1]
    <3>1. row' - 1 = row
      <4>1. row \in Int BY <1>2
      <4>2. row' = row + 1 BY <2>8
      <4> QED BY <4>1, <4>2
    <3>2. Titles(container') = Titles(container) BY <2>8
    <3> HIDE DEF n
    <3> QED BY <3>1, <3>2, <2>4
  <2>11. ChaptersUpTo(container', row') BY <2>6, <2>8
  <2>12. charged'.text = 0 /\ charged'.parameters = 0 /\ charged'.attachments = 0
    BY <2>4, <1>1 DEF AtChapters
  <2>13. row' \in 1 .. Len(container'.chapters) + 1 BY <2>7, <2>8
  <2>14. AtChapters'
    BY <2>4, <2>8, <2>9, <2>10, <2>11, <2>12, <2>13 DEF AtChapters
  <2> QED BY <2>8, <2>14, <1>1 DEF PaidInv, AtWork
<1> QED BY <1>3, <1>4, <1>5, <1>6 DEF AdmitChapters

LEMMA ParametersStep ==
  ASSUME PaidInv, AdmitParameters
  PROVE  PaidInv'
<1>1. AtAdmit /\ container \in Containers /\ outcome = "none" /\ row <= Len(container.streams) /\ stage = 0
  BY DEF PaidInv, AtWork, AtProbe, AtChapters, AtAdmit, AtReserve, AtBuild, AtHandles, AtTitles,
         AtMeasured, Finished, AdmitParameters, Admitting
<1>2. row \in 1 .. Len(container.streams) /\ stage \in 0 .. LastStage(Stream)
  BY <1>1, ContainerType DEF AtAdmit, Position, Stream
<1>3. /\ Untouched /\ charged \in Ledger /\ Reached(container, charged, row, 0) /\ Judged(container, row, 0)
      /\ charged.title = Titles(container)[Len(container.chapters)] /\ ChaptersAdmitted(container)
  BY <1>1 DEF AtAdmit
<1>4. CASE RefusesFirst(StreamFaults(Stream))
  <2>1. outcome' = "total" =>
          Stream.ruler /\ Stream.layout = "sound" /\ Retained(Stream) <= Limit.parameters
    <3> DEFINE s == Stream
    <3>1. Retained(s) \in Int /\ Limit.parameters \in Nat
      BY <1>1, <1>2, RowType, OpenAssumption DEF Stream
    <3> HIDE DEF s
    <3>2. PICK i \in 1 .. 5 :
            /\ StreamFaults(s)[i] # "none" /\ outcome' = StreamFaults(s)[i]
            /\ \A j \in 1 .. i - 1 : StreamFaults(s)[j] = "none"
      BY <1>4, Refused, StreamFaultsAre DEF s
    <3>3. CASE i = 5
      BY <3>1, <3>2, <3>3, StreamFaultsAre DEF Fault, s
    <3>4. CASE i # 5
      <4>1. i \in {1, 2, 3, 4} BY <3>4
      <4>2. outcome' # "total" BY <4>1, <3>2, StreamFaultsAre DEF Fault
      <4> QED BY <4>2
    <3> QED BY <3>3, <3>4
  <2>2. Finished' /\ container' = container
    BY <2>1, <1>1, <1>3, <1>4, RefusalGives, QuestionsOnlyRefuse
  <2> QED BY <2>2, <1>1 DEF PaidInv
<1>5. CASE /\ Passes(StreamFaults(Stream)) /\ Charge("parameters", Retained(Stream))
           /\ NextStage(LastStage(Stream))
  <2>1. ParamsJudged(container, row) BY <1>1, <1>2, <1>3, <1>5, ParamsPass
  <2>2. charged' = Plus(charged, "parameters", Retained(container.streams[row]))
    BY <1>5 DEF Charge, Plus, Stream
  <2>3. /\ charged' \in Ledger /\ charged'.title = charged.title
        /\ Reached(container, charged', NextRow(container, row, 0), After(container, row, 0))
    BY <2>2, <1>1, <1>2, <1>3, ReachedParams
  <2>4. /\ row' = NextRow(container, row, 0) /\ stage' = After(container, row, 0)
        /\ Position(container, row', stage')
    BY <1>1, <1>2, <1>5, Moves
  <2>5. Judged(container, row', stage') BY <2>1, <2>4, <1>1, <1>2, <1>3, JudgedParams
  <2>6. container' = container /\ phase' = phase /\ outcome' = outcome /\ UNCHANGED <<paid, reserved, queued>>
    BY <1>5 DEF Charge
  <2>7. AtAdmit'
    BY <2>3, <2>4, <2>5, <2>6, <1>1, <1>3 DEF AtAdmit, Untouched
  <2> QED BY <2>6, <2>7, <1>1 DEF PaidInv, AtWork
<1> QED BY <1>4, <1>5 DEF AdmitParameters

LEMMA TextStep ==
  ASSUME PaidInv, AdmitText
  PROVE  PaidInv'
<1>1. AtAdmit /\ container \in Containers /\ outcome = "none" /\ row <= Len(container.streams) /\ stage \in 1 .. 3
  BY DEF PaidInv, AtWork, AtProbe, AtChapters, AtAdmit, AtReserve, AtBuild, AtHandles, AtTitles,
         AtMeasured, Finished, AdmitText, Admitting
<1>2. row \in 1 .. Len(container.streams) /\ stage \in 0 .. LastStage(Stream)
  BY <1>1, ContainerType DEF AtAdmit, Position, Stream
<1>3. /\ Untouched /\ charged \in Ledger /\ Reached(container, charged, row, stage)
      /\ Judged(container, row, stage)
      /\ charged.title = Titles(container)[Len(container.chapters)] /\ ChaptersAdmitted(container)
  BY <1>1 DEF AtAdmit
<1> DEFINE asked == TextFaults(Stream.text[stage], charged.text, Limit.text)
<1>4. CASE RefusesFirst(asked)
  <2>1. outcome' # "total"
    <3>1. PICK i \in 1 .. 2 : asked[i] # "none" /\ outcome' = asked[i]
      <4>1. DOMAIN asked = 1 .. 2 BY TextFaultsAre
      <4> HIDE DEF asked
      <4> QED BY <4>1, <1>4, Refused
    <3>2. asked[i] \in {"none", "text", "texts"}
      BY <3>1, TextFaultsAre DEF Fault
    <3> HIDE DEF asked
    <3> QED BY <3>1, <3>2
  <2>2. OnlyRefuses(asked) BY QuestionsOnlyRefuse
  <2> HIDE DEF asked
  <2>3. Finished' /\ container' = container
    BY <2>1, <2>2, <1>3, <1>4, RefusalGives
  <2> QED BY <2>3, <1>1 DEF PaidInv
<1>5. CASE /\ Passes(asked) /\ Charge("text", Stream.text[stage]) /\ NextStage(LastStage(Stream))
  <2>1. TextJudged(container, row, stage)
    BY <1>1, <1>2, <1>3, <1>5, TextPass
  <2>2. charged' = Plus(charged, "text", container.streams[row].text[stage])
    BY <1>5 DEF Charge, Plus, Stream
  <2>3. /\ charged' \in Ledger /\ charged'.title = charged.title
        /\ Reached(container, charged', NextRow(container, row, stage), After(container, row, stage))
    BY <2>2, <1>1, <1>2, <1>3, ReachedText
  <2>4. /\ row' = NextRow(container, row, stage) /\ stage' = After(container, row, stage)
        /\ Position(container, row', stage')
    BY <1>1, <1>2, <1>5, Moves
  <2>5. Judged(container, row', stage') BY <2>1, <2>4, <1>1, <1>2, <1>3, JudgedText
  <2>6. container' = container /\ phase' = phase /\ outcome' = outcome /\ UNCHANGED <<paid, reserved, queued>>
    BY <1>5 DEF Charge
  <2>7. AtAdmit'
    BY <2>3, <2>4, <2>5, <2>6, <1>1, <1>3 DEF AtAdmit, Untouched
  <2> QED BY <2>6, <2>7, <1>1 DEF PaidInv, AtWork
<1> QED BY <1>4, <1>5 DEF AdmitText

LEMMA PayloadStep ==
  ASSUME PaidInv, AdmitPayload
  PROVE  PaidInv'
<1>1. AtAdmit /\ container \in Containers /\ outcome = "none" /\ row <= Len(container.streams) /\ stage = 4
  BY DEF PaidInv, AtWork, AtProbe, AtChapters, AtAdmit, AtReserve, AtBuild, AtHandles, AtTitles,
         AtMeasured, Finished, AdmitPayload, Admitting
<1>2. row \in 1 .. Len(container.streams) /\ stage \in 0 .. LastStage(Stream) /\ IsAttachment(Stream)
  BY <1>1, ContainerType DEF AtAdmit, Position, Stream, LastStage
<1>3. /\ Untouched /\ charged \in Ledger /\ Reached(container, charged, row, 4) /\ Judged(container, row, 4)
      /\ charged.title = Titles(container)[Len(container.chapters)] /\ ChaptersAdmitted(container)
  BY <1>1 DEF AtAdmit
<1>4. CASE RefusesFirst(PayloadFaults(Stream))
  <2>1. outcome' = "total" =>
          Payload(Stream) <= Limit.attachment /\ (Stream.role = "cover" => Stream.sound)
    <3> DEFINE s == Stream
    <3>1. Payload(s) \in Int /\ Limit.attachment \in Nat
      BY <1>1, <1>2, RowType, OpenAssumption DEF Stream
    <3> HIDE DEF s
    <3>2. PICK i \in 1 .. 3 :
            /\ PayloadFaults(s)[i] # "none" /\ outcome' = PayloadFaults(s)[i]
            /\ \A j \in 1 .. i - 1 : PayloadFaults(s)[j] = "none"
      BY <1>4, Refused, PayloadFaultsAre DEF s
    <3>3. CASE i = 3
      BY <3>1, <3>2, <3>3, PayloadFaultsAre DEF Fault, s
    <3>4. CASE i # 3
      <4>1. i \in {1, 2} BY <3>4
      <4>2. outcome' # "total" BY <4>1, <3>2, PayloadFaultsAre DEF Fault
      <4> QED BY <4>2
    <3> QED BY <3>3, <3>4
  <2>2. Stream.ruler /\ Stream.layout = "sound"
    BY <1>2, <1>3 DEF Judged, ParamsJudged, Stream
  <2>3. Finished' /\ container' = container
    BY <2>1, <2>2, <1>1, <1>3, <1>4, RefusalGives, QuestionsOnlyRefuse
  <2> QED BY <2>3, <1>1 DEF PaidInv
<1>5. CASE /\ Passes(PayloadFaults(Stream)) /\ Charge("attachments", Payload(Stream))
           /\ NextStage(LastStage(Stream))
  <2>1. PayloadJudged(container, row) BY <1>1, <1>2, <1>3, <1>5, PayloadPass
  <2>2. charged' = Plus(charged, "attachments", Payload(container.streams[row]))
    BY <1>5 DEF Charge, Plus, Stream
  <2>3. /\ charged' \in Ledger /\ charged'.title = charged.title
        /\ Reached(container, charged', NextRow(container, row, 4), After(container, row, 4))
    BY <2>2, <1>1, <1>2, <1>3, ReachedPayload DEF Stream
  <2>4. /\ row' = NextRow(container, row, 4) /\ stage' = After(container, row, 4)
        /\ Position(container, row', stage')
    BY <1>1, <1>2, <1>5, Moves
  <2>5. Judged(container, row', stage') BY <2>1, <2>4, <1>1, <1>2, <1>3, JudgedPayload DEF Stream
  <2>6. container' = container /\ phase' = phase /\ outcome' = outcome /\ UNCHANGED <<paid, reserved, queued>>
    BY <1>5 DEF Charge
  <2>7. AtAdmit'
    BY <2>3, <2>4, <2>5, <2>6, <1>1, <1>3 DEF AtAdmit, Untouched
  <2> QED BY <2>6, <2>7, <1>1 DEF PaidInv, AtWork
<1> QED BY <1>4, <1>5 DEF AdmitPayload

LEMMA AdmittedStep ==
  ASSUME PaidInv, Admitted
  PROVE  PaidInv'
<1>1. AtAdmit /\ container \in Containers /\ outcome = "none" /\ row > Len(container.streams)
  BY DEF PaidInv, AtWork, AtProbe, AtChapters, AtAdmit, AtReserve, AtBuild, AtHandles, AtTitles,
         AtMeasured, Finished, Admitted
<1>2. row = Len(container.streams) + 1 /\ stage = 0
  BY <1>1, ContainerType DEF AtAdmit, Position
<1>3. Admission BY <1>1, <1>2 DEF AtAdmit, Admission
<1>4. /\ phase' = "reserve" /\ row' = 1 /\ stage' = 0 /\ container' = container /\ outcome' = "none"
      /\ UNCHANGED <<charged, paid, reserved, queued>>
  BY <1>1, <1>2 DEF Admitted, ledger
<1>5. AtReserve' BY <1>1, <1>3, <1>4 DEF AtReserve, AtAdmit, Untouched, Admission
<1> QED BY <1>1, <1>4, <1>5 DEF PaidInv, AtWork

-----------------------------------------------------------------------------
(* Building *)

LEMMA ReserveStep ==
  ASSUME PaidInv, BuildBegins
  PROVE  PaidInv'
<1>1. AtReserve /\ container \in Containers /\ outcome = "none"
  BY DEF PaidInv, AtWork, AtProbe, AtChapters, AtAdmit, AtReserve, AtBuild, AtHandles, AtTitles,
         AtMeasured, Finished, BuildBegins, Reserve
<1>2. CASE AllocFails
  <2>1. CeilingsMet BY WithinCeilings
  <2> QED BY <2>1, <1>1, <1>2, AllocGives DEF PaidInv
<1>3. CASE /\ phase' = "build" /\ row' = 1
           /\ UNCHANGED <<container, stage, guard, charged, paid, queued, outcome>>
  <2>1. /\ paid = Nothing /\ queued = <<>> /\ stage = 0 /\ Admission
    BY <1>1 DEF AtReserve, Untouched
  <2>2. paid.title = 0 /\ Reached(container, paid, 1, 0)
    <3>1. Params(container)[0] = 0 /\ Texts(container)[0] = 0 /\ Payloads(container)[0] = 0
      BY <1>1, RunningParams, RunningTexts, RunningPayloads
    <3> QED BY <2>1, <3>1 DEF Reached, Nothing
  <2>3. QueuedRows(container, queued, 1)
    <3>1. queued \in Seq(Nat) /\ Len(queued) = 0 BY <2>1
    <3>2. \A i \in 1 .. Len(container.streams) : ~(i < 1) OBVIOUS
    <3>3. ~ \E k \in 1 .. 0 : TRUE OBVIOUS
    <3> QED BY <3>1, <3>2, <3>3 DEF QueuedRows
  <2>4. Position(container, 1, 0)
    <3>1. Len(container.streams) \in Nat BY <1>1, ContainerType
    <3>2. \A s : 0 \in 0 .. LastStage(s) BY DEF LastStage
    <3>3. 1 \in 1 .. Len(container.streams) \/ 1 = Len(container.streams) + 1 BY <3>1
    <3> QED BY <3>2, <3>3 DEF Position
  <2>5. CeilingsMet /\ paid \in Ledger BY <1>1, UntouchedIsMet DEF AtReserve
  <2>6. AtBuild'
    BY <2>1, <2>2, <2>3, <2>4, <2>5, <1>3 DEF AtBuild, Paying, Admission, CeilingsMet
  <2> QED BY <2>6, <1>1, <1>3 DEF PaidInv, AtWork
<1> QED BY <1>2, <1>3 DEF BuildBegins, Reserve

\* The ceilings a stage of the building comes to are those it was admitted under.
LEMMA RowJudged ==
  ASSUME NEW f \in Containers, NEW r \in 1 .. Len(f.streams), Judged(f, Len(f.streams) + 1, 0)
  PROVE  /\ ParamsJudged(f, r)
         /\ \A k \in 1 .. 3 : TextJudged(f, r, k)
         /\ IsAttachment(f.streams[r]) => PayloadJudged(f, r)
<1>1. r < Len(f.streams) + 1 BY ContainerType
<1> QED BY <1>1 DEF Judged

LEMMA QueuedOn ==
  ASSUME NEW f \in Containers, NEW r \in 1 .. Len(f.streams), NEW queue, QueuedRows(f, queue, r),
         ~IsAttachment(f.streams[r])
  PROVE  QueuedRows(f, queue, r + 1)
<1>1. \A i \in 1 .. Len(f.streams) :
        (IsAttachment(f.streams[i]) /\ i < r + 1) <=> (IsAttachment(f.streams[i]) /\ i < r)
  <2>1. ASSUME NEW i \in 1 .. Len(f.streams)
        PROVE  i < r + 1 <=> i < r \/ i = r
    BY ContainerType
  <2> QED BY <2>1
<1>2. \A k \in 1 .. Len(queue) : queue[k] < r + 1
  BY DEF QueuedRows
<1> QED BY <1>1, <1>2 DEF QueuedRows

LEMMA QueuedMore ==
  ASSUME NEW f \in Containers, NEW r \in 1 .. Len(f.streams), NEW queue, QueuedRows(f, queue, r),
         IsAttachment(f.streams[r])
  PROVE  QueuedRows(f, Append(queue, r), r + 1)
<1> DEFINE longer == Append(queue, r)
           n == Len(queue)
<1>1. queue \in Seq(Nat) /\ r \in Nat /\ n \in Nat BY DEF QueuedRows
<1>2. /\ longer \in Seq(Nat) /\ Len(longer) = n + 1
      /\ \A k \in 1 .. n : longer[k] = queue[k]
      /\ longer[n + 1] = r
  BY <1>1
<1> HIDE DEF longer
<1>3. ASSUME NEW i \in 1 .. Len(f.streams)
      PROVE  (IsAttachment(f.streams[i]) /\ i < r + 1) <=> \E k \in 1 .. n + 1 : longer[k] = i
  <2>1. i < r + 1 <=> i < r \/ i = r BY <1>1
  <2>2. (\E k \in 1 .. n + 1 : longer[k] = i) <=> (\E k \in 1 .. n : queue[k] = i) \/ i = r
    <3>1. ASSUME NEW k \in 1 .. n + 1, longer[k] = i
          PROVE  (\E j \in 1 .. n : queue[j] = i) \/ i = r
      <4>1. k \in 1 .. n \/ k = n + 1 BY <1>1
      <4> QED BY <4>1, <3>1, <1>2
    <3>2. ASSUME NEW k \in 1 .. n, queue[k] = i
          PROVE  \E j \in 1 .. n + 1 : longer[j] = i
      BY <3>2, <1>1, <1>2
    <3>3. n + 1 \in 1 .. n + 1 BY <1>1
    <3> QED BY <3>1, <3>2, <3>3, <1>2
  <2>3. (IsAttachment(f.streams[i]) /\ i < r) <=> \E k \in 1 .. n : queue[k] = i
    BY DEF QueuedRows
  <2> QED BY <2>1, <2>2, <2>3
<1>4. \A k \in 1 .. n + 1 : longer[k] \in 1 .. Len(f.streams) /\ longer[k] < r + 1
  <2> TAKE k \in 1 .. n + 1
  <2>1. CASE k = n + 1 BY <2>1, <1>1, <1>2
  <2>2. CASE k # n + 1
    <3>1. k \in 1 .. n BY <2>2, <1>1
    <3>2. queue[k] \in 1 .. Len(f.streams) /\ queue[k] < r BY <3>1 DEF QueuedRows
    <3> QED BY <3>1, <3>2, <1>1, <1>2
  <2> QED BY <2>1, <2>2
<1>5. ASSUME NEW j \in 1 .. n + 1, NEW k \in 1 .. n + 1, j < k
      PROVE  longer[j] < longer[k]
  <2>1. j \in 1 .. n BY <1>5, <1>1
  <2>2. CASE k = n + 1
    BY <2>1, <2>2, <1>2 DEF QueuedRows
  <2>3. CASE k # n + 1
    <3>1. k \in 1 .. n BY <2>3, <1>1
    <3> QED BY <2>1, <3>1, <1>5, <1>2 DEF QueuedRows
  <2> QED BY <2>2, <2>3
<1> QED BY <1>2, <1>3, <1>4, <1>5 DEF QueuedRows, longer

LEMMA TicketStep ==
  ASSUME PaidInv, BuildTicket
  PROVE  PaidInv'
<1>1. AtBuild /\ container \in Containers /\ outcome = "none" /\ row <= Len(container.streams) /\ stage = 0
  BY DEF PaidInv, AtWork, AtProbe, AtChapters, AtAdmit, AtReserve, AtBuild, AtHandles, AtTitles,
         AtMeasured, Finished, BuildTicket, Building
<1>2. row \in 1 .. Len(container.streams) /\ stage \in 0 .. LastStage(Stream)
  BY <1>1, ContainerType DEF AtBuild, Position, Stream
<1>3. /\ Paying /\ Reached(container, paid, row, 0) /\ QueuedRows(container, queued, row) /\ paid.title = 0
  BY <1>1 DEF AtBuild
<1>4. ParamsJudged(container, row) BY <1>1, <1>2, <1>3, RowJudged DEF Paying, Admission
<1>5. ~RefusesFirst(RowFaults(Stream)) BY <1>1, <1>2, <1>4, RowsPass, PassesOrRefuses
<1>6. CASE AllocFails
  <2>1. CeilingsMet BY WithinCeilings
  <2> QED BY <2>1, <1>1, <1>6, AllocGives DEF PaidInv
<1>7. CASE Pay("parameters", Retained(Stream)) /\ NextStage(LastStage(Stream)) /\ UNCHANGED queued
  <2>1. paid' = Plus(paid, "parameters", Retained(container.streams[row]))
    BY <1>7 DEF Pay, Plus, Stream
  <2>2. /\ paid' \in Ledger /\ paid'.title = paid.title
        /\ Reached(container, paid', NextRow(container, row, 0), After(container, row, 0))
    BY <2>1, <1>1, <1>2, <1>3, ReachedParams DEF Paying
  <2>3. /\ row' = NextRow(container, row, 0) /\ stage' = After(container, row, 0)
        /\ Position(container, row', stage')
    BY <1>1, <1>2, <1>7, Moves
  <2>4. row' = row /\ stage' = 1 BY <2>3 DEF NextRow, After, LastStage
  <2>5. CeilingsMet'
    <3>1. paid'.parameters = Params(container)[row] BY <2>2, <2>3, <2>4 DEF Reached
    <3>2. paid'.text = paid.text /\ paid'.attachments = paid.attachments
      BY <2>1, <1>1, <1>2, <1>3, Adds, RowType DEF Paying
    <3> QED BY <3>1, <3>2, <2>2, <1>3, <1>4 DEF ParamsJudged, CeilingsMet, Paying
  <2>6. /\ container' = container /\ phase' = phase /\ outcome' = outcome /\ charged' = charged
        /\ queued' = queued
    BY <1>7 DEF Pay
  <2>7. AtBuild'
    BY <2>2, <2>3, <2>4, <2>5, <2>6, <1>1, <1>3 DEF AtBuild, Paying, Admission
  <2> QED BY <2>6, <2>7, <1>1 DEF PaidInv, AtWork
<1> QED BY <1>5, <1>6, <1>7 DEF BuildTicket, RowFaults

LEMMA BuildTextStep ==
  ASSUME PaidInv, BuildText
  PROVE  PaidInv'
<1>1. AtBuild /\ container \in Containers /\ outcome = "none" /\ row <= Len(container.streams) /\ stage \in 1 .. 3
  BY DEF PaidInv, AtWork, AtProbe, AtChapters, AtAdmit, AtReserve, AtBuild, AtHandles, AtTitles,
         AtMeasured, Finished, BuildText, Building
<1>2. row \in 1 .. Len(container.streams) /\ stage \in 0 .. LastStage(Stream)
  BY <1>1, ContainerType DEF AtBuild, Position, Stream
<1>3. /\ Paying /\ Reached(container, paid, row, stage) /\ QueuedRows(container, queued, row) /\ paid.title = 0
  BY <1>1 DEF AtBuild
<1> DEFINE value == Stream.text[stage]
           asked == TextFaults(value, paid.text, Limit.text)
<1>4. TextJudged(container, row, stage)
  BY <1>1, <1>2, <1>3, RowJudged DEF Paying, Admission
<1>5. ~RefusesFirst(asked) BY <1>1, <1>2, <1>3, <1>4, TextPass, PassesOrRefuses
<1>6. CASE AllocFails
  <2>1. CeilingsMet BY WithinCeilings
  <2> QED BY <2>1, <1>1, <1>6, AllocGives DEF PaidInv
<1>7. CASE Pay("text", value) /\ NextStage(LastStage(Stream)) /\ UNCHANGED queued
  <2>1. paid' = Plus(paid, "text", container.streams[row].text[stage])
    BY <1>7 DEF Pay, Plus, Stream
  <2>2. /\ paid' \in Ledger /\ paid'.title = paid.title
        /\ Reached(container, paid', NextRow(container, row, stage), After(container, row, stage))
    BY <2>1, <1>1, <1>2, <1>3, ReachedText DEF Paying
  <2>3. /\ row' = NextRow(container, row, stage) /\ stage' = After(container, row, stage)
        /\ Position(container, row', stage')
    BY <1>1, <1>2, <1>7, Moves
  <2>4. CeilingsMet'
    <3>1. value \in Int /\ value >= NotTerminated /\ value # NotTerminated
      BY <1>1, <1>2, <1>4, RowType DEF TextJudged, Stream
    <3>2. /\ paid'.text = paid.text + value /\ paid'.parameters = paid.parameters
          /\ paid'.attachments = paid.attachments
      BY <2>1, <3>1, <1>3, Adds DEF Paying, Stream
    <3>3. value > 0 => paid.text + value <= Limit.text
      <4>1. paid.text = Texts(container)[row - 1] + TextBefore(Stream, stage)
        BY <1>1, <1>3 DEF Reached, Stream
      <4> QED BY <4>1, <1>4 DEF TextJudged, Stream
    <3>4. paid.text <= Limit.text /\ paid.text \in Int BY <1>3 DEF Paying, CeilingsMet, Ledger
    <3> HIDE DEF value
    <3>5. value = 0 => paid.text + value = paid.text BY <3>4
    <3>6. value > 0 \/ value = 0 BY <3>1 DEF NotTerminated
    <3>7. paid'.text <= Limit.text BY <3>2, <3>3, <3>4, <3>5, <3>6
    <3> QED BY <3>2, <3>7, <2>2, <1>3 DEF CeilingsMet, Paying
  <2>5. /\ container' = container /\ phase' = phase /\ outcome' = outcome /\ charged' = charged
        /\ queued' = queued
    BY <1>7 DEF Pay
  <2>6. QueuedRows(container, queued, row')
    <3>1. CASE stage = LastStage(container.streams[row])
      <4>1. ~IsAttachment(container.streams[row]) BY <3>1, <1>1 DEF LastStage
      <4> QED BY <3>1, <4>1, <2>3, <1>1, <1>2, <1>3, QueuedOn DEF NextRow
    <3>2. CASE stage # LastStage(container.streams[row])
      BY <3>2, <2>3, <1>3 DEF NextRow
    <3> QED BY <3>1, <3>2
  <2>7. AtBuild'
    BY <2>2, <2>3, <2>4, <2>5, <2>6, <1>1, <1>3 DEF AtBuild, Paying, Admission
  <2> QED BY <2>5, <2>7, <1>1 DEF PaidInv, AtWork
<1> QED BY <1>5, <1>6, <1>7 DEF BuildText

LEMMA CarrierStep ==
  ASSUME PaidInv, BuildCarrier
  PROVE  PaidInv'
<1>1. AtBuild /\ container \in Containers /\ outcome = "none" /\ row <= Len(container.streams) /\ stage = 4
  BY DEF PaidInv, AtWork, AtProbe, AtChapters, AtAdmit, AtReserve, AtBuild, AtHandles, AtTitles,
         AtMeasured, Finished, BuildCarrier, Building
<1>2. row \in 1 .. Len(container.streams) /\ stage \in 0 .. LastStage(Stream) /\ IsAttachment(Stream)
  BY <1>1, ContainerType DEF AtBuild, Position, Stream, LastStage
<1>3. /\ Paying /\ Reached(container, paid, row, 4) /\ QueuedRows(container, queued, row) /\ paid.title = 0
  BY <1>1 DEF AtBuild
<1>4. PayloadJudged(container, row)
  BY <1>1, <1>2, <1>3, RowJudged DEF Paying, Admission, Stream
<1>5. ~RefusesFirst(CarrierFaults(Stream)) BY <1>1, <1>2, <1>4, CarriersPass, PassesOrRefuses
<1>6. CASE AllocFails
  <2>1. CeilingsMet BY WithinCeilings
  <2> QED BY <2>1, <1>1, <1>6, AllocGives DEF PaidInv
<1>7. CASE /\ Pay("attachments", Payload(Stream)) /\ queued' = Append(queued, row)
           /\ NextStage(LastStage(Stream))
  <2>1. paid' = Plus(paid, "attachments", Payload(container.streams[row]))
    BY <1>7 DEF Pay, Plus, Stream
  <2>2. /\ paid' \in Ledger /\ paid'.title = paid.title
        /\ Reached(container, paid', NextRow(container, row, 4), After(container, row, 4))
    BY <2>1, <1>1, <1>2, <1>3, ReachedPayload DEF Paying, Stream
  <2>3. /\ row' = NextRow(container, row, 4) /\ stage' = After(container, row, 4)
        /\ Position(container, row', stage')
    BY <1>1, <1>2, <1>7, Moves
  <2>4. row' = row + 1 /\ stage' = 0
    BY <2>3, <1>2 DEF NextRow, After, LastStage, Stream
  <2>5. CeilingsMet'
    <3>1. paid'.attachments = Payloads(container)[row]
      <4>1. row' - 1 = row BY <1>2, <2>4
      <4>2. paid'.attachments = Payloads(container)[row' - 1] BY <2>2, <2>3 DEF Reached
      <4> QED BY <4>1, <4>2
    <3>2. paid'.text = paid.text /\ paid'.parameters = paid.parameters
      BY <2>1, <1>1, <1>2, <1>3, Adds, RowType DEF Paying
    <3> QED BY <3>1, <3>2, <2>2, <1>3, <1>4 DEF PayloadJudged, CeilingsMet, Paying
  <2>6. /\ container' = container /\ phase' = phase /\ outcome' = outcome /\ charged' = charged
    BY <1>7 DEF Pay
  <2>7. QueuedRows(container, queued', row')
    BY <2>4, <1>1, <1>2, <1>3, <1>7, QueuedMore DEF Stream
  <2>8. AtBuild'
    BY <2>2, <2>3, <2>5, <2>6, <2>7, <1>1, <1>3 DEF AtBuild, Paying, Admission
  <2> QED BY <2>6, <2>8, <1>1 DEF PaidInv, AtWork
<1> QED BY <1>5, <1>6, <1>7 DEF BuildCarrier

LEMMA BuiltStep ==
  ASSUME PaidInv, Built
  PROVE  PaidInv'
<1>1. AtBuild /\ container \in Containers /\ outcome = "none" /\ row > Len(container.streams)
  BY DEF PaidInv, AtWork, AtProbe, AtChapters, AtAdmit, AtReserve, AtBuild, AtHandles, AtTitles,
         AtMeasured, Finished, Built
<1>2. row = Len(container.streams) + 1 /\ stage = 0
  BY <1>1, ContainerType DEF AtBuild, Position
<1>3. Paying /\ StreamsPaid /\ paid.title = 0 BY <1>1, <1>2 DEF AtBuild, StreamsPaid
<1>4. /\ phase' = "handles" /\ row' = 1 /\ stage' = 0 /\ container' = container /\ outcome' = "none"
      /\ UNCHANGED <<charged, paid, queued>>
  BY <1>1, <1>2 DEF Built, ledger
<1>5. AtHandles'
  BY <1>3, <1>4 DEF AtHandles, Paying, Admission, CeilingsMet, StreamsPaid
<1> QED BY <1>1, <1>4, <1>5 DEF PaidInv, AtWork

LEMMA HandlesStep ==
  ASSUME PaidInv, Handles
  PROVE  PaidInv'
<1>1. AtHandles /\ container \in Containers /\ outcome = "none"
  BY DEF PaidInv, AtWork, AtProbe, AtChapters, AtAdmit, AtReserve, AtBuild, AtHandles, AtTitles,
         AtMeasured, Finished, Handles, Reserve
<1>2. CASE AllocFails
  <2>1. CeilingsMet BY WithinCeilings
  <2> QED BY <2>1, <1>1, <1>2, AllocGives DEF PaidInv
<1>3. CASE /\ phase' = "build chapters" /\ row' = 1
           /\ UNCHANGED <<container, stage, guard, charged, paid, queued, outcome>>
  <2>1. AtHandles'
    BY <1>1, <1>3 DEF AtHandles, Paying, Admission, CeilingsMet, StreamsPaid
  <2> QED BY <2>1, <1>1, <1>3 DEF PaidInv, AtWork
<1> QED BY <1>2, <1>3 DEF Handles, Reserve

LEMMA BuildChaptersStep ==
  ASSUME PaidInv, BuildChapters
  PROVE  PaidInv'
<1>1. AtHandles /\ container \in Containers /\ outcome = "none"
  BY DEF PaidInv, AtWork, AtProbe, AtChapters, AtAdmit, AtReserve, AtBuild, AtHandles, AtTitles,
         AtMeasured, Finished, BuildChapters, Reserve
<1>2. ~RefusesFirst(ChapterCountFault)
  BY <1>1, CountPass, PassesOrRefuses
     DEF AtHandles, Paying, Admission, ChaptersAdmitted
<1>3. CASE AllocFails
  <2>1. CeilingsMet BY WithinCeilings
  <2> QED BY <2>1, <1>1, <1>3, AllocGives DEF PaidInv
<1>4. CASE /\ phase' = "titles" /\ row' = 1
           /\ UNCHANGED <<container, stage, guard, charged, paid, queued, outcome>>
  <2>1. row' \in 1 .. Len(container.chapters) + 1 BY <1>1, <1>4, ContainerType
  <2>2. Titles(container)[row' - 1] = 0 BY <1>1, <1>4, RunningTitles
  <2>3. AtTitles'
    BY <2>1, <2>2, <1>1, <1>4 DEF AtTitles, AtHandles, Paying, Admission, CeilingsMet, StreamsPaid
  <2> QED BY <2>3, <1>1, <1>4 DEF PaidInv, AtWork
<1> QED BY <1>2, <1>3, <1>4 DEF BuildChapters, Reserve

LEMMA TitleStep ==
  ASSUME PaidInv, BuildTitle
  PROVE  PaidInv'
<1>1. AtTitles /\ container \in Containers /\ outcome = "none"
  BY DEF PaidInv, AtWork, AtProbe, AtChapters, AtAdmit, AtReserve, AtBuild, AtHandles, AtTitles,
         AtMeasured, Finished, BuildTitle
<1> DEFINE n == Len(container.chapters)
<1>2. n \in Nat /\ row \in 1 .. n + 1 /\ stage = 0
  BY <1>1, ContainerType DEF AtTitles
<1>3. Paying /\ StreamsPaid /\ paid.title = Titles(container)[row - 1]
  BY <1>1 DEF AtTitles
<1>4. CASE ChaptersDone("measured")
  <2>1. row - 1 = n BY <1>2, <1>4 DEF ChaptersDone
  <2>2. paid.title = Titles(container)[n] BY <2>1, <1>3
  <2>3. /\ phase' = "measured" /\ container' = container /\ outcome' = outcome
        /\ UNCHANGED <<charged, paid, queued>>
    BY <1>4 DEF ChaptersDone, ledger
  <2>4. AtMeasured'
    BY <2>2, <2>3, <1>3 DEF AtMeasured, Paying, Admission, CeilingsMet, StreamsPaid
  <2> QED BY <2>3, <2>4, <1>1 DEF PaidInv, AtWork
<1>5. CASE row <= n /\ ~ChaptersDone("measured")
  <2>1. row \in 1 .. n BY <1>2, <1>5
  <2>2. ChapterJudged(container, row)
    BY <2>1, <1>2, <1>3 DEF Paying, Admission, ChaptersAdmitted, ChaptersUpTo
  <2>3. ~Chapter.null => ~RefusesFirst(ChapterFaults(paid.title))
    BY <2>1, <2>2, <1>1, <1>3, ChapterPass, PassesOrRefuses
  <2>4. CASE AllocFails
    <3>1. CeilingsMet BY WithinCeilings
    <3> QED BY <3>1, <1>1, <2>4, AllocGives DEF PaidInv
  <2>5. CASE /\ row' = row + 1
             /\ Pay("title", IF Chapter.null THEN 0 ELSE Chapter.title)
             /\ UNCHANGED <<stage, queued>>
    <3> DEFINE value == IF Chapter.null THEN 0 ELSE Chapter.title
    <3>1. value \in Int BY <1>1, <2>1, ChapterType DEF Chapter
    <3>2. paid' = Plus(paid, "title", value) BY <2>5 DEF Pay, Plus
    <3>3. /\ paid' \in Ledger /\ paid'.title = paid.title + value /\ paid'.text = paid.text
          /\ paid'.parameters = paid.parameters /\ paid'.attachments = paid.attachments
      BY <3>1, <3>2, <1>3, Adds DEF Paying
    <3>4. Titles(container)[row] = Titles(container)[row - 1] + value
      BY <1>1, <2>1, RunningTitles DEF Chapter
    <3>5. paid'.title = Titles(container)[row] BY <3>3, <3>4, <1>3
    <3>6. paid'.title <= Limit.title
      <4>1. paid.title \in Int /\ paid.title <= Limit.title
        BY <1>3 DEF Paying, CeilingsMet, Ledger
      <4>2. value = 0 => paid'.title = paid.title BY <3>3, <4>1
      <4>3. value > 0 => Titles(container)[row] <= Limit.title
        BY <2>2 DEF ChapterJudged, Chapter
      <4>4. value = 0 \/ value > 0
        <5>1. ~Chapter.null => Chapter.title # NotTerminated BY <2>2 DEF ChapterJudged, Chapter
        <5>2. Chapter.title >= NotTerminated /\ Chapter.title \in Int
          BY <1>1, <2>1, ChapterType DEF Chapter
        <5> QED BY <5>1, <5>2 DEF NotTerminated
      <4> HIDE DEF value
      <4> QED BY <4>1, <4>2, <4>3, <4>4, <3>5
    <3> HIDE DEF value
    <3>7. /\ container' = container /\ phase' = phase /\ outcome' = outcome /\ charged' = charged
          /\ queued' = queued /\ stage' = stage
      BY <2>5 DEF Pay
    <3>8. row' - 1 = row /\ row' \in 1 .. n + 1 BY <2>1, <2>5, <1>2
    <3>9. Paying'
      BY <3>3, <3>6, <3>7, <1>3 DEF Paying, Admission, CeilingsMet
    <3>10. StreamsPaid'
      BY <3>3, <3>7, <1>3 DEF StreamsPaid, Reached
    <3>11. Titles(container') = Titles(container) BY <3>7
    <3>12. paid'.title = Titles(container')[row' - 1] BY <3>5, <3>8, <3>11
    <3>13. AtTitles' BY <3>7, <3>8, <3>9, <3>10, <3>12, <1>1, <1>2 DEF AtTitles
    <3> QED BY <3>7, <3>13, <1>1 DEF PaidInv, AtWork
  <2> QED BY <2>3, <2>4, <2>5, <1>5 DEF BuildTitle
<1> QED BY <1>4, <1>5 DEF BuildTitle

LEMMA OpensStep ==
  ASSUME PaidInv, Opens
  PROVE  PaidInv'
<1>1. AtMeasured /\ container \in Containers /\ outcome = "none"
  BY DEF PaidInv, AtWork, AtProbe, AtChapters, AtAdmit, AtReserve, AtBuild, AtHandles, AtTitles,
         AtMeasured, Finished, Opens
<1>2. CASE AllocFails
  <2>1. CeilingsMet BY WithinCeilings
  <2> QED BY <2>1, <1>1, <1>2, AllocGives DEF PaidInv
<1>3. CASE Concludes("open") /\ Stays /\ UNCHANGED <<guard, ledger>>
  <2>1. /\ phase' = "done" /\ outcome' = "open" /\ container' = container
        /\ UNCHANGED <<charged, paid, queued>>
    BY <1>3 DEF Concludes, Stays, ledger
  <2>2. paid = charged
    <3>1. /\ paid \in Ledger /\ charged \in Ledger
          /\ Reached(container, paid, Len(container.streams) + 1, 0)
          /\ Reached(container, charged, Len(container.streams) + 1, 0)
          /\ paid.title = charged.title
      BY <1>1 DEF AtMeasured, Paying, Admission, StreamsPaid
    <3>2. /\ paid.parameters = charged.parameters /\ paid.text = charged.text
          /\ paid.attachments = charged.attachments
      BY <3>1 DEF Reached
    <3> QED BY <3>1, <3>2 DEF Ledger
  <2>3. QueueMatchesTable'
    <3>1. QueuedRows(container, queued, Len(container.streams) + 1) BY <1>1 DEF AtMeasured, StreamsPaid
    <3>2. DOMAIN container.streams = 1 .. Len(container.streams) /\ DOMAIN queued = 1 .. Len(queued)
      BY <1>1, <3>1, ContainerType DEF QueuedRows
    <3>3. \A i \in 1 .. Len(container.streams) : i < Len(container.streams) + 1 BY <1>1, ContainerType
    <3>4. /\ \A i \in DOMAIN container.streams :
               container.streams[i].role # "media" <=> \E k \in DOMAIN queued : queued[k] = i
          /\ \A k \in DOMAIN queued : queued[k] \in DOMAIN container.streams
          /\ \A j, k \in DOMAIN queued : j < k => queued[j] < queued[k]
      BY <3>1, <3>2, <3>3 DEF QueuedRows, IsAttachment
    <3> QED BY <3>4, <2>1 DEF QueueMatchesTable
  <2>4. TextsTerminated'
    <3>1. \A i \in DOMAIN container.streams : \A k \in 1 .. 3 : container.streams[i].text[k] # NotTerminated
      <4>1. Judged(container, Len(container.streams) + 1, 0) BY <1>1 DEF AtMeasured, Paying, Admission
      <4>2. \A i \in 1 .. Len(container.streams) : \A k \in 1 .. 3 : TextJudged(container, i, k)
        BY <4>1, <1>1, RowJudged
      <4> QED BY <4>2, <1>1, ContainerType DEF TextJudged
    <3>2. \A i \in DOMAIN container.chapters :
            container.chapters[i].null \/ container.chapters[i].title # NotTerminated
      <4>1. \A i \in 1 .. Len(container.chapters) : i < Len(container.chapters) + 1 BY <1>1, ContainerType
      <4>2. \A i \in 1 .. Len(container.chapters) : ChapterJudged(container, i)
        BY <4>1, <1>1 DEF AtMeasured, Paying, Admission, ChaptersAdmitted, ChaptersUpTo
      <4> QED BY <4>2, <1>1, ContainerType DEF ChapterJudged
    <3> QED BY <3>1, <3>2, <2>1 DEF TextsTerminated
  <2>5. CeilingsMet' BY <1>1, <2>1 DEF AtMeasured, Paying, CeilingsMet
  <2>6. PaidAsJudged'
    BY <2>1, <2>2, <2>3, <2>4, <2>5
       DEF PaidAsJudged, JudgedBeforePaid, SpecificFaultFirst, ChargedIsPaid, CeilingsMet, Refusals
  <2> QED BY <2>1, <2>6, <1>1 DEF PaidInv, Finished
<1> QED BY <1>2, <1>3 DEF Opens

-----------------------------------------------------------------------------
(* The probe leaves the ledger alone *)

LEMMA ProbeStep ==
  ASSUME PaidInv, Probing \/ ProbeFails \/ ProbeAllocFails \/ ProbeEnds
  PROVE  PaidInv'
<1>1. AtProbe /\ container \in Containers /\ outcome = "none"
  BY DEF PaidInv, AtWork, AtProbe, AtChapters, AtAdmit, AtReserve, AtBuild, AtHandles, AtTitles,
         AtMeasured, Finished, Probing, ProbeFails, ProbeAllocFails, ProbeEnds
<1>2. CeilingsMet BY WithinCeilings
<1>3. CASE Probing
  <2>1. UNCHANGED <<container, row, stage, phase, charged, paid, reserved, queued, outcome>>
    BY <1>3 DEF Probing, Stays, ledger
  <2>2. AtProbe' BY <2>1, <1>1 DEF AtProbe, Untouched
  <2> QED BY <2>1, <2>2, <1>1 DEF PaidInv, AtWork
<1>4. CASE ProbeFails
  <2>1. /\ phase' = "done" /\ outcome' \in {"panic", "probe", "ffmpeg"}
        /\ container' = container /\ UNCHANGED paid
    BY <1>4 DEF ProbeFails, Concludes, Stays, ledger
  <2>2. outcome' \notin Refusals \cup {"open"} BY <2>1 DEF Refusals
  <2> QED BY <2>1, <2>2, <1>1, <1>2, Gives DEF PaidInv
<1>5. CASE ProbeAllocFails
  BY <1>5, <1>1, <1>2, AllocGives DEF ProbeAllocFails, PaidInv
<1>6. CASE ProbeEnds
  <2>1. CASE \E verdict \in {"probe", "panic"} : Concludes(verdict)
    <3>1. /\ phase' = "done" /\ outcome' \in {"panic", "probe"} /\ container' = container /\ UNCHANGED paid
      BY <2>1, <1>6 DEF ProbeEnds, Concludes, Stays, ledger
    <3>2. outcome' \notin Refusals \cup {"open"} BY <3>1 DEF Refusals
    <3> QED BY <3>1, <3>2, <1>1, <1>2, Gives DEF PaidInv
  <2>2. CASE phase' = "admit chapters" /\ UNCHANGED outcome
    <3>1. UNCHANGED <<container, row, stage, charged, paid, reserved, queued>>
      BY <1>6 DEF ProbeEnds, Stays, ledger
    <3>2. row' \in 1 .. Len(container.chapters) + 1 /\ row' = 1 /\ stage' = 0
      BY <1>1, <3>1, ContainerType DEF AtProbe
    <3>3. charged' = [title |-> 0, text |-> 0, parameters |-> 0, attachments |-> 0]
      BY <1>1, <3>1 DEF AtProbe, Nothing
    <3>4. Titles(container)[row' - 1] = 0 BY <1>1, <3>2, RunningTitles
    <3>5. ChaptersUpTo(container, row')
      <4>1. \A i \in 1 .. Len(container.chapters) : ~(i < 1) OBVIOUS
      <4> QED BY <4>1, <3>2 DEF ChaptersUpTo
    <3>6. Untouched' BY <3>1, <1>1 DEF AtProbe, Untouched
    <3>7. charged' \in Ledger BY <3>3 DEF Ledger
    <3>8. /\ charged'.text = 0 /\ charged'.parameters = 0 /\ charged'.attachments = 0
          /\ charged'.title = 0
      BY <3>3
    <3>9. charged'.title = Titles(container')[row' - 1] BY <3>1, <3>4, <3>8
    <3>10. ChaptersUpTo(container', row') /\ row' \in 1 .. Len(container'.chapters) + 1
      BY <3>1, <3>2, <3>5
    <3>11. AtChapters'
      BY <2>2, <3>2, <3>6, <3>7, <3>8, <3>9, <3>10 DEF AtChapters
    <3> QED BY <2>2, <3>1, <3>11, <1>1 DEF PaidInv, AtWork
  <2> QED BY <2>1, <2>2, <1>6 DEF ProbeEnds
<1> QED BY <1>3, <1>4, <1>5, <1>6

LEMMA PaidStep ==
  ASSUME PaidInv, [OpenNext]_openVars
  PROVE  PaidInv'
<1>1. CASE Done \/ UNCHANGED openVars
  <2>1. UNCHANGED <<container, phase, row, stage, charged, paid, reserved, queued, outcome>>
    BY <1>1 DEF Done, openVars, ledger
  <2> QED
    BY <2>1
       DEF PaidInv, AtWork, AtProbe, AtChapters, AtAdmit, AtReserve, AtBuild, AtHandles, AtTitles,
           AtMeasured, Finished, Untouched, Paying, Admission, StreamsPaid, CeilingsMet,
           PaidAsJudged, JudgedBeforePaid, SpecificFaultFirst, TextsTerminated, ChargedIsPaid,
           QueueMatchesTable, Stream
<1>2. CASE OpenNext
  BY <1>1, <1>2, ProbeStep, ChaptersStep, ParametersStep, TextStep, PayloadStep, AdmittedStep,
     ReserveStep, TicketStep, BuildTextStep, CarrierStep, BuiltStep, HandlesStep,
     BuildChaptersStep, TitleStep, OpensStep
     DEF OpenNext
<1> QED BY <1>1, <1>2

\* Everything a container declares is judged before anything is paid for, and the
\* building, which asks the same questions again, never disagrees: a refusal finds
\* nothing allocated and names the fault closest to the row, every total retained
\* stays within its ceiling, and an open session holds what was charged and queues
\* the attachments of its table (from_input, admit_streams, build_tracks).
THEOREM PaidKept == OpenSpec => []PaidAsJudged
<1>1. OpenInit => PaidInv
  <2> SUFFICES ASSUME OpenInit PROVE PaidInv OBVIOUS
  <2>1. AtProbe BY DEF OpenInit, AtProbe, Untouched
  <2> QED BY <2>1 DEF OpenInit, PaidInv, AtWork
<1>2. PaidInv /\ [OpenNext]_openVars => PaidInv'
  BY PaidStep
<1>3. PaidInv => PaidAsJudged
  BY WorkHolds, WithinCeilings DEF PaidInv, Finished
<1> QED BY <1>1, <1>2, <1>3, PTL DEF OpenSpec

=============================================================================
