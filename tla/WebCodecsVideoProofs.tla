------------------------ MODULE WebCodecsVideoProofs ------------------------
(***************************************************************************)
(* What is proved of the video decoder for every value of its constants:   *)
(* types, order and completeness of the stream, the reorder buffer, the    *)
(* accounts and caps, closing and reopening, and that every step is one of *)
(* the abstract push session.                                              *)
(***************************************************************************)
EXTENDS WebCodecsVideo, FiniteSetTheorems, SequenceTheorems, WellFoundedInduction, TLAPS

-----------------------------------------------------------------------------
(* What the drain loop of deliver_pending_push stops at and hands over, and   *)
(* the byte total of a run of frames.                                        *)

(***************************************************************************)
(* A nonempty set of naturals has a least element.  The induction every    *)
(* other lemma here needs is an appeal to this one.                        *)
(***************************************************************************)
LEMMA LeastNat ==
  ASSUME NEW S \in SUBSET Nat, S # {}
  PROVE  \E m \in S : \A k \in S : m <= k
<1> DEFINE R == OpToRel(<, Nat)
<1>1. IsWellFoundedOn(R, Nat)
  BY NatLessThanWellFounded
<1>2. PICK m \in S : \A k \in S : ~(<<k, m>> \in R)
  BY <1>1, WFMin
<1>3. \A k \in S : ~(k < m)
  BY <1>2 DEF OpToRel
<1> QED
  BY <1>3

(***************************************************************************)
(* Among the first Cardinality(pushes) + 1 sequences from nextPushSeq on,  *)
(* one is not parked: each parked one needs a push of its own.             *)
(***************************************************************************)
LEMMA SomeSeqIsMissing ==
  ASSUME NEW pushes, IsFiniteSet(pushes), nextPushSeq \in Nat
  PROVE  \E m \in nextPushSeq .. nextPushSeq + Cardinality(pushes) : ~HasSeq(pushes, m)
<1> DEFINE I == nextPushSeq .. nextPushSeq + Cardinality(pushes)
           f == [m \in I |-> CHOOSE p \in pushes : p.seq = m]
<1>1. SUFFICES ASSUME \A m \in I : HasSeq(pushes, m)
               PROVE  FALSE
  OBVIOUS
<1>2. Cardinality(pushes) \in Nat
  BY FS_CardinalityType
<1>3. \A m \in I : f[m] \in pushes /\ f[m].seq = m
  BY <1>1 DEF HasSeq
<1>4. f \in Injection(I, pushes)
  BY <1>3 DEF Injection, IsInjective
<1>5. Cardinality(I) <= Cardinality(pushes)
  BY <1>4, FS_Injection
<1>6. Cardinality(I) = Cardinality(pushes) + 1
  BY <1>2, FS_Interval
<1> QED
  BY <1>2, <1>5, <1>6

(***************************************************************************)
(* The drain loop stops, at the first sequence that is not parked.         *)
(***************************************************************************)
LEMMA DrainEndFact ==
  ASSUME NEW pushes, IsFiniteSet(pushes), nextPushSeq \in Nat
  PROVE  /\ DrainEnd(pushes) \in Nat
         /\ DrainEnd(pushes) >= nextPushSeq
         /\ ~HasSeq(pushes, DrainEnd(pushes))
         /\ \A s \in nextPushSeq .. DrainEnd(pushes) - 1 : HasSeq(pushes, s)
<1> DEFINE I == nextPushSeq .. nextPushSeq + Cardinality(pushes)
           missing == {m \in I : ~HasSeq(pushes, m)}
<1>1. Cardinality(pushes) \in Nat
  BY FS_CardinalityType
<1>2. missing \in SUBSET Nat /\ missing # {}
  BY <1>1, SomeSeqIsMissing
<1> HIDE DEF missing
<1>3. PICK m \in missing : \A k \in missing : m <= k
  BY <1>2, LeastNat
<1>4. m \in I /\ m \in Nat /\ ~HasSeq(pushes, m)
  BY <1>3, <1>1 DEF missing
<1>5. \A s \in nextPushSeq .. m - 1 : HasSeq(pushes, s)
  <2> TAKE s \in nextPushSeq .. m - 1
  <2>1. s \in I /\ ~(m <= s)
    BY <1>4, <1>1
  <2> QED
    BY <2>1, <1>3 DEF missing
<1>6. \E e \in I : ~HasSeq(pushes, e) /\ \A s \in nextPushSeq .. e - 1 : HasSeq(pushes, s)
  BY <1>4, <1>5
<1>7. /\ DrainEnd(pushes) \in I
      /\ ~HasSeq(pushes, DrainEnd(pushes))
      /\ \A s \in nextPushSeq .. DrainEnd(pushes) - 1 : HasSeq(pushes, s)
  BY <1>6 DEF DrainEnd
<1> QED
  BY <1>7, <1>1

\* The drain loop hands over a sequence of frames, one per sequence it passed.
LEMMA DrainedType ==
  ASSUME NEW pushes \in SUBSET Push, IsFiniteSet(pushes), nextPushSeq \in Nat
  PROVE  /\ Drained(pushes) \in Seq(Frame)
         /\ Len(Drained(pushes)) = DrainEnd(pushes) - nextPushSeq
<1> DEFINE n == DrainEnd(pushes) - nextPushSeq
           at(k) == PushAt(pushes, nextPushSeq + k - 1)
<1>1. n \in Nat
  BY DrainEndFact
<1>2. \A k \in 1 .. n : at(k) \in pushes
  <2> TAKE k \in 1 .. n
  <2>1. HasSeq(pushes, nextPushSeq + k - 1)
    BY DrainEndFact
  <2> QED
    BY <2>1 DEF HasSeq, PushAt
<1>3. \A k \in 1 .. n : [id |-> at(k).id, bytes |-> at(k).bytes] \in Frame
  BY <1>2 DEF Push, Frame
<1>4. Drained(pushes) = [k \in 1 .. n |-> [id |-> at(k).id, bytes |-> at(k).bytes]]
  BY DEF Drained
<1> HIDE DEF n, at
<1>5. Drained(pushes) \in [1 .. n -> Frame]
  BY <1>3, <1>4
<1>6. Drained(pushes) \in Seq(Frame) /\ Len(Drained(pushes)) = n
  BY <1>1, <1>5
<1> QED
  BY <1>6 DEF n

(***************************************************************************)
(* The running total BytesOf is defined by: a function on 0 .. Len(frames) *)
(* that satisfies the recursion exists, so the recursive definition is it. *)
(***************************************************************************)
Step(frames, n, upTo) == IF n = 0 THEN 0 ELSE upTo[n - 1] + frames[n].bytes

LEMMA TotalsExist ==
  ASSUME NEW frames \in Seq(Frame)
  PROVE  \E f : f = [n \in 0 .. Len(frames) |-> Step(frames, n, f)]
<1> DEFINE UpTo(m, f) == f = [n \in 0 .. m |-> Step(frames, n, f)]
           bad == {m \in 0 .. Len(frames) : ~ \E f : UpTo(m, f)}
<1>1. Len(frames) \in Nat
  OBVIOUS
<1>2. SUFFICES ASSUME bad # {}
               PROVE  FALSE
  BY <1>1
<1>3. bad \in SUBSET Nat
  BY <1>1
<1>4. PICK m \in bad : \A k \in bad : m <= k
  BY <1>2, <1>3, LeastNat
<1>5. m \in Nat /\ m \in 0 .. Len(frames) /\ ~ \E f : UpTo(m, f)
  BY <1>3, <1>4
<1>6. CASE m = 0
  <2> DEFINE g == [n \in 0 .. 0 |-> 0]
  <2>1. UpTo(0, g)
    BY DEF Step
  <2> QED
    BY <2>1, <1>5, <1>6
<1>7. CASE m # 0
  <2>1. m - 1 \in 0 .. Len(frames) /\ m - 1 \notin bad
    BY <1>4, <1>5, <1>7, <1>1
  <2>2. PICK f : UpTo(m - 1, f)
    BY <2>1
  <2> DEFINE g == [n \in 0 .. m |->
                     IF n = m THEN f[m - 1] + frames[m].bytes ELSE f[n]]
  <2>3. \A n \in 0 .. m - 1 : f[n] = Step(frames, n, f)
    <3> HIDE DEF Step
    <3> QED
      BY <2>2
  <2>4. \A n \in 0 .. m : g[n] = Step(frames, n, g)
    <3> TAKE n \in 0 .. m
    <3>1. CASE n = m
      BY <3>1, <1>5, <1>7 DEF Step
    <3>2. CASE n # m
      <4>1. n \in 0 .. m - 1 /\ g[n] = f[n]
        BY <3>2, <1>5
      <4>2. n # 0 => n - 1 \in 0 .. m /\ g[n - 1] = f[n - 1]
        BY <4>1, <1>5
      <4> QED
        BY <4>1, <4>2, <2>3 DEF Step
    <3> QED
      BY <3>1, <3>2
  <2>5. UpTo(m, g)
    <3> HIDE DEF Step
    <3> QED
      BY <2>4, Zenon
  <2> QED
    BY <2>5, <1>5
<1> QED
  BY <1>6, <1>7

TotalsOf(frames) == CHOOSE f : f = [n \in 0 .. Len(frames) |-> Step(frames, n, f)]

LEMMA TotalsStep ==
  ASSUME NEW frames \in Seq(Frame), NEW n \in 0 .. Len(frames)
  PROVE  TotalsOf(frames)[n]
           = IF n = 0 THEN 0 ELSE TotalsOf(frames)[n - 1] + frames[n].bytes
<1> DEFINE f == TotalsOf(frames)
<1>1. f = [m \in 0 .. Len(frames) |-> Step(frames, m, f)]
  BY TotalsExist, Zenon DEF TotalsOf
<1> HIDE DEF f
<1>2. f[n] = Step(frames, n, f)
  <2> HIDE DEF Step
  <2> QED
    BY <1>1
<1> QED
  BY <1>2 DEF f, Step

\* The total of a run of frames is the last of its running totals.
LEMMA BytesIsLast ==
  ASSUME NEW frames
  PROVE  BytesOf(frames) = TotalsOf(frames)[Len(frames)]
BY DEF BytesOf, TotalsOf, Step

\* Running totals are naturals.
LEMMA TotalsType ==
  ASSUME NEW frames \in Seq(Frame), NEW n \in 0 .. Len(frames)
  PROVE  TotalsOf(frames)[n] \in Nat
<1> DEFINE N == Len(frames)
           upTo == TotalsOf(frames)
           bad == {m \in 0 .. N : upTo[m] \notin Nat}
<1>1. N \in Nat /\ \A k \in 1 .. N : frames[k].bytes \in Nat
  <2>1. N \in Nat /\ \A k \in 1 .. N : frames[k] \in Frame
    OBVIOUS
  <2> QED
    BY <2>1 DEF Frame
<1>2. \A m \in 0 .. N : upTo[m] = IF m = 0 THEN 0 ELSE upTo[m - 1] + frames[m].bytes
  BY TotalsStep
<1> HIDE DEF upTo
<1>3. bad = {}
  <2>1. SUFFICES ASSUME bad # {} PROVE FALSE
    OBVIOUS
  <2> bad \in SUBSET Nat
    BY <1>1
  <2>2. PICK m \in bad : \A k \in bad : m <= k
    BY <2>1, LeastNat
  <2>3. m # 0 /\ m - 1 \in 0 .. N /\ m - 1 \notin bad
    BY <2>2, <1>1, <1>2
  <2>4. upTo[m - 1] \in Nat /\ frames[m].bytes \in Nat
    BY <2>3, <2>2, <1>1
  <2> QED
    BY <2>2, <2>3, <2>4, <1>2
<1> QED
  BY <1>3 DEF upTo

\* The bytes of a run of frames are a natural.
LEMMA BytesOfType ==
  ASSUME NEW frames \in Seq(Frame)
  PROVE  BytesOf(frames) \in Nat
<1>1. Len(frames) \in Nat /\ Len(frames) \in 0 .. Len(frames)
  OBVIOUS
<1> QED
  BY <1>1, BytesIsLast, TotalsType

-----------------------------------------------------------------------------
(* Type correctness *)

\* The empty sequence is a sequence over any set.
LEMMA NoneYet ==
  ASSUME NEW S
  PROVE  <<>> \in Seq(S)
OBVIOUS

\* The buffers a close or a new generation leaves behind are well typed.
LEMMA ClearGenerationType ==
  ASSUME ClearGeneration
  PROVE  /\ queue' \in Seq(Frame) /\ queueBytes' \in Nat
         /\ pendingOutputs' \in SUBSET Record /\ IsFiniteSet(pendingOutputs')
         /\ pendingInputBytes' \in Nat
         /\ pendingPushes' \in SUBSET Push /\ IsFiniteSet(pendingPushes')
         /\ pendingPushBytes' \in Nat
         /\ nextOutputSeq' \in Nat /\ nextPushSeq' \in Nat
  BY FS_EmptySet DEF ClearGeneration

\* A new generation's epoch and id floor are naturals.
LEMMA BumpEpochType ==
  ASSUME TypeOK, BumpEpoch
  PROVE  epoch' \in Nat /\ epochIdFloor' \in Nat /\ ClearGeneration
  BY DEF BumpEpoch, TypeOK, StateTypeOK

\* A close records one of the error kinds, whichever came first.
LEMMA RecordCloseType ==
  ASSUME TypeOK, NEW kind \in ErrorKinds, RecordClose(kind)
  PROVE  lastError' \in ErrorKinds \cup {NoError} /\ ClearGeneration
  BY DEF RecordClose, TypeOK, StateTypeOK

\* reset() leaves a well-typed browser decoder, also when it throws.
LEMMA JsResetType ==
  ASSUME TypeOK, JsReset
  PROVE  /\ dec' \in DecStates /\ inputQ' \in Seq(Nat) /\ held' \in SUBSET Nat
         /\ dequeueEvt' \in BOOLEAN
<1>1. CASE dec = "closed"
  BY <1>1 DEF JsReset, codecVars, TypeOK, JsTypeOK
<1>2. CASE dec # "closed"
  BY <1>2 DEF JsReset, JsAbandon, DecStates
<1> QED
  BY <1>1, <1>2

\* So does a fatal close of the adapter, hook included.
LEMMA FatalCloseType ==
  ASSUME TypeOK, NEW kind \in ErrorKinds, FatalClose(kind)
  PROVE  /\ lastError' \in ErrorKinds \cup {NoError} /\ ClearGeneration
         /\ dec' \in DecStates /\ inputQ' \in Seq(Nat) /\ held' \in SUBSET Nat
         /\ dequeueEvt' \in BOOLEAN
         /\ flushP' \in PromiseStates
         /\ admitted' \in Seq(Nat) /\ delivered' \in Seq(Nat)
<1>1. flushP' \in PromiseStates
  BY DEF FatalClose, JsRejectFlush, PromiseStates, TypeOK, JsTypeOK
<1>2. admitted' \in Seq(Nat) /\ delivered' \in Seq(Nat)
  BY DEF FatalClose, ForgetHistory
<1> QED
  BY <1>1, <1>2, RecordCloseType, JsResetType DEF FatalClose

\* send_packet and its cancellation preserve the types.
LEMMA TypeSend == TypeOK /\ (SendPacket \/ SendCancelled) => TypeOK'
<1> SUFFICES ASSUME TypeOK PROVE SendPacket \/ SendCancelled => TypeOK'
  OBVIOUS
<1> USE VideoAssumption DEF TypeOK, StateTypeOK, JsTypeOK, queueVars, recordVars,
      idVars, copyCounters, pushVars, wakers, codecVars, jsVars, history, clientVars,
      SendReturns, DropProducerGuard
<1>1. SendRefused => TypeOK'
  BY DEF SendRefused, ClientStates, Answers
<1>2. SendMustDrain => TypeOK'
  BY DEF SendMustDrain, ClientStates, Answers
<1>3. SendParks => TypeOK'
  BY DEF SendParks, ParkProducer, ClientStates
<1>4. SendCancelled => TypeOK'
  BY DEF SendCancelled, ClientStates, Answers
<1>5. ASSUME NEW bytes \in PacketBytes[nextSubmissionId], NEW allocated \in BOOLEAN,
             SendClosesOnInput(bytes, allocated)
      PROVE  TypeOK'
  <2>1. PICK kind \in ErrorKinds : FatalClose(kind)
    BY <1>5 DEF SendClosesOnInput, ErrorKinds
  <2>2. StateTypeOK'
    BY <2>1, <1>5, FatalCloseType, ClearGenerationType DEF SendClosesOnInput
  <2>3. JsTypeOK'
    BY <2>1, <1>5, FatalCloseType DEF SendClosesOnInput
  <2> QED
    BY <2>1, <2>2, <2>3, <1>5, FatalCloseType
    DEF SendClosesOnInput, ClientStates, Answers
<1>6. ASSUME NEW bytes \in PacketBytes[nextSubmissionId], SpendId(bytes)
      PROVE  nextSubmissionId' \in Nat
  BY <1>6 DEF SpendId
<1>7. ASSUME NEW bytes \in PacketBytes[nextSubmissionId], NEW chunkBuilt \in BOOLEAN,
             SendThrows(bytes, chunkBuilt)
      PROVE  TypeOK'
  <2>1. StateTypeOK' /\ JsTypeOK'
    BY <1>7, <1>6 DEF SendThrows
  <2> QED
    BY <2>1, <1>7 DEF SendThrows, ClientStates, Answers
<1>8. ASSUME NEW bytes \in PacketBytes[nextSubmissionId], SendClosesOnRecords(bytes)
      PROVE  TypeOK'
  <2>1. PICK kind \in ErrorKinds : FatalClose(kind)
    BY <1>8 DEF SendClosesOnRecords, ErrorKinds
  <2>2. StateTypeOK'
    BY <2>1, <1>8, <1>6, FatalCloseType, ClearGenerationType DEF SendClosesOnRecords
  <2>3. JsTypeOK'
    BY <2>1, <1>8, FatalCloseType DEF SendClosesOnRecords
  <2> QED
    BY <2>1, <2>2, <2>3, <1>8, FatalCloseType
    DEF SendClosesOnRecords, ClientStates, Answers
<1>9. ASSUME NEW bytes \in PacketBytes[nextSubmissionId], SendAccepted(bytes)
      PROVE  TypeOK'
  <2>0. bytes \in Nat
    <3>1. nextSubmissionId \in 0 .. MaxPackets
      BY <1>9 DEF SendAccepted, SpendId, HasRoom
    <3> QED BY <3>1, VideoAssumption
  <2>1. nextSubmissionId' \in Nat
    BY <1>9, <1>6 DEF SendAccepted
  <2>2. pendingOutputs' \in SUBSET Record /\ IsFiniteSet(pendingOutputs')
    <3> DEFINE r == [id |-> nextSubmissionId, epoch |-> epoch, bytes |-> bytes]
    <3>1. r \in Record
      BY <2>0 DEF Record
    <3> HIDE DEF r
    <3>2. pendingOutputs' = pendingOutputs \cup {r}
      BY <1>9 DEF SendAccepted, InsertPendingOutput, r
    <3> QED
      BY <3>1, <3>2, FS_AddElement
  <2>3. pendingInputBytes' \in Nat
    BY <2>0, <1>9 DEF SendAccepted, InsertPendingOutput
  <2>4. inputQ' \in Seq(Nat)
    BY <1>9 DEF SendAccepted, JsDecode
  <2>5. StateTypeOK'
    BY <2>1, <2>2, <2>3, <1>9 DEF SendAccepted
  <2>6. JsTypeOK'
    BY <2>4, <1>9 DEF SendAccepted, JsDecode
  <2> QED
    BY <2>5, <2>6, <1>9 DEF SendAccepted, ClientStates, Answers
<1> QED
  BY <1>1, <1>2, <1>3, <1>4, <1>5, <1>7, <1>8, <1>9 DEF SendPacket

\* receive_frame and its cancellation preserve the types.
LEMMA TypeReceive == TypeOK /\ (ReceiveFrame \/ ReceiveCancelled) => TypeOK'
<1> SUFFICES ASSUME TypeOK PROVE ReceiveFrame \/ ReceiveCancelled => TypeOK'
  OBVIOUS
<1> USE VideoAssumption DEF TypeOK, StateTypeOK, JsTypeOK, queueVars, recordVars,
      idVars, copyCounters, pushVars, wakers, codecVars, jsVars, history, clientVars, ReceiveReturns
<1>1. ReceiveClosed => TypeOK'
  BY DEF ReceiveClosed, ClientStates, Answers
<1>2. ReceiveDry => TypeOK'
  BY DEF ReceiveDry, ClientStates, Answers
<1>3. ReceiveParks => TypeOK'
  BY DEF ReceiveParks, ParkReceiver, ClientStates
<1>4. ReceiveCancelled => TypeOK'
  BY DEF ReceiveCancelled, ClientStates, Answers
<1>5. ASSUME ReceiveProduced
      PROVE  TypeOK'
  <2>1. Head(queue) \in Frame /\ Tail(queue) \in Seq(Frame)
    BY <1>5 DEF ReceiveProduced
  <2>2. Head(queue).id \in Nat /\ Head(queue).bytes \in Nat
    BY <2>1 DEF Frame
  <2>3. queue' \in Seq(Frame) /\ queueBytes' \in Nat
    BY <1>5, <2>1, <2>2 DEF ReceiveProduced, PopQueue, SatSub
  <2>4. delivered' \in Seq(Nat)
    BY <1>5, <2>2 DEF ReceiveProduced
  <2>5. StateTypeOK' /\ JsTypeOK'
    BY <1>5, <2>3 DEF ReceiveProduced
  <2> QED
    BY <1>5, <2>4, <2>5 DEF ReceiveProduced, ClientStates, Answers
<1> QED
  BY <1>1, <1>2, <1>3, <1>4, <1>5 DEF ReceiveFrame

\* send_eof, completed, rejected or cancelled, preserves the types.
LEMMA TypeEof == TypeOK /\ (SendEof \/ EofCancelled) => TypeOK'
<1> SUFFICES ASSUME TypeOK PROVE SendEof \/ EofCancelled => TypeOK'
  OBVIOUS
<1> USE VideoAssumption DEF TypeOK, StateTypeOK, JsTypeOK, queueVars, recordVars,
      idVars, copyCounters, pushVars, wakers, codecVars, jsVars, history, clientVars
<1>1. EofClosed => TypeOK'
  BY DEF EofClosed, Answers
<1>2. ASSUME EofAwaits
      PROVE  TypeOK'
  <2>1. flushP' \in PromiseStates
    BY <1>2 DEF EofAwaits, JsFlush, PromiseStates
  <2> QED
    BY <1>2, <2>1 DEF EofAwaits, JsFlush, ClientStates
<1>3. ASSUME EofCompletes
      PROVE  TypeOK'
  <2>1. pendingOutputs' \in SUBSET Record /\ IsFiniteSet(pendingOutputs')
    BY <1>3, FS_EmptySet DEF EofCompletes, ClearPendingOutputs
  <2>2. woken' \in BOOLEAN
    BY <1>3 DEF EofCompletes, WakeAll
  <2>3. StateTypeOK'
    BY <1>3, <2>1, <2>2 DEF EofCompletes, ClearPendingOutputs, WakeAll
  <2> QED
    BY <1>3, <2>3 DEF EofCompletes, PromiseStates, ClientStates, Answers
<1>4. ASSUME EofGuardFires, answer' \in Answers
      PROVE  TypeOK'
  <2>1. epoch' \in Nat /\ epochIdFloor' \in Nat /\ ClearGeneration
    BY <1>4, BumpEpochType DEF EofGuardFires
  <2>2. lastError' \in ErrorKinds \cup {NoError}
    BY <1>4, RecordCloseType DEF EofGuardFires, ErrorKinds
  <2>3. StateTypeOK'
    BY <1>4, <2>1, <2>2, ClearGenerationType DEF EofGuardFires, WakeAll
  <2>4. JsTypeOK'
    BY <1>4, JsResetType DEF EofGuardFires, PromiseStates
  <2> QED
    BY <1>4, <2>3, <2>4 DEF EofGuardFires, ClientStates, ForgetHistory
<1> QED
  BY <1>1, <1>2, <1>3, <1>4 DEF SendEof, EofRejected, EofCancelled, Answers

\* Forgetting a generation's history leaves empty sequences.
LEMMA ForgetHistoryType ==
  ForgetHistory => admitted' \in Seq(Nat) /\ delivered' \in Seq(Nat)
BY DEF ForgetHistory

\* flush() and Drop preserve the types.
LEMMA TypeFlush == TypeOK /\ (Flush \/ Drop) => TypeOK'
<1> SUFFICES ASSUME TypeOK PROVE Flush \/ Drop => TypeOK'
  OBVIOUS
<1> USE VideoAssumption DEF TypeOK, StateTypeOK, JsTypeOK, queueVars, recordVars,
      idVars, copyCounters, pushVars, wakers, codecVars, jsVars, history, clientVars
<1>1. ASSUME BumpEpoch
      PROVE  /\ epoch' \in Nat /\ epochIdFloor' \in Nat
             /\ queue' \in Seq(Frame) /\ queueBytes' \in Nat
             /\ pendingOutputs' \in SUBSET Record /\ IsFiniteSet(pendingOutputs')
             /\ pendingInputBytes' \in Nat
             /\ pendingPushes' \in SUBSET Push /\ IsFiniteSet(pendingPushes')
             /\ pendingPushBytes' \in Nat
             /\ nextOutputSeq' \in Nat /\ nextPushSeq' \in Nat
  BY <1>1, BumpEpochType, ClearGenerationType
<1>2. ASSUME FlushReopens
      PROVE  TypeOK'
  <2>1. StateTypeOK'
    BY <1>1, <1>2 DEF FlushReopens, WakeDequeue
  <2>2. JsTypeOK'
    BY <1>2 DEF FlushReopens, JsAbandon, DecStates
  <2> QED
    BY <1>2, <2>1, <2>2, ForgetHistoryType DEF FlushReopens, Answers
<1>3. ASSUME FlushFails
      PROVE  TypeOK'
  <2>1. lastError' \in ErrorKinds \cup {NoError}
    BY <1>3, RecordCloseType DEF FlushFails, ErrorKinds
  <2>2. StateTypeOK'
    BY <1>1, <1>3, <2>1 DEF FlushFails, WakeAll
  <2>3. JsTypeOK'
    BY <1>3, JsResetType DEF FlushFails
  <2> QED
    BY <1>3, <2>2, <2>3, ForgetHistoryType DEF FlushFails, Answers
<1>4. ASSUME Drop
      PROVE  TypeOK'
  <2>1. StateTypeOK'
    BY <1>1, <1>4 DEF Drop
  <2>2. JsTypeOK'
    <3>1. dec' \in DecStates
      BY <1>4 DEF Drop, DecStates
    <3>2. inputQ' \in Seq(Nat) /\ held' \in SUBSET Nat /\ dequeueEvt' \in BOOLEAN
      BY <1>4, NoneYet, Zenon DEF Drop
    <3> QED
      BY <1>4, <3>1, <3>2 DEF Drop
  <2> QED
    BY <1>4, <2>1, <2>2, ForgetHistoryType DEF Drop, ClientStates
<1> QED
  BY <1>2, <1>3, <1>4 DEF Flush

\* The output, error and dequeue callbacks preserve the types.
LEMMA TypeCallbacks ==
  TypeOK /\ (OutputCallback \/ ErrorCallback \/ DequeueCallback) => TypeOK'
<1> SUFFICES ASSUME TypeOK
             PROVE  OutputCallback \/ ErrorCallback \/ DequeueCallback => TypeOK'
  OBVIOUS
<1> USE VideoAssumption DEF TypeOK, StateTypeOK, JsTypeOK, queueVars, recordVars,
      idVars, copyCounters, pushVars, wakers, codecVars, jsVars, history, clientVars
<1>1. ASSUME NEW id \in 0 .. MaxPackets, OutputOf(id)
      PROVE  outputs' \in Seq(Nat)
  BY <1>1 DEF OutputOf
<1>2. ASSUME NEW id \in 0 .. MaxPackets, OutputIgnored(id)
      PROVE  TypeOK'
  <2>1. receiverWaker' \in BOOLEAN /\ dequeueWaker' \in BOOLEAN /\ woken' \in BOOLEAN
    BY <1>2 DEF OutputIgnored, WakeAll
  <2>2. ASSUME NEW r \in pendingOutputs, RemovePendingOutput(r)
        PROVE  /\ pendingOutputs' \in SUBSET Record /\ IsFiniteSet(pendingOutputs')
               /\ pendingInputBytes' \in Nat
    <3>1. r.bytes \in Nat
      BY DEF Record
    <3> QED
      BY <2>2, <3>1, FS_RemoveElement DEF RemovePendingOutput, SatSub
  <2>3. /\ pendingOutputs' \in SUBSET Record /\ IsFiniteSet(pendingOutputs')
        /\ pendingInputBytes' \in Nat
    BY <1>2, <2>2 DEF OutputIgnored, RecordOf
  <2> QED
    BY <1>1, <1>2, <2>1, <2>3 DEF OutputIgnored
<1>3. ASSUME NEW id \in 0 .. MaxPackets, NEW kind \in ErrorKinds, OutputCloses(id, kind)
      PROVE  TypeOK'
  <2>1. StateTypeOK'
    BY <1>3, FatalCloseType, ClearGenerationType DEF OutputCloses, WakeAll
  <2>2. JsTypeOK'
    BY <1>1, <1>3, FatalCloseType DEF OutputCloses
  <2> QED
    BY <1>3, <2>1, <2>2, FatalCloseType DEF OutputCloses
<1>4. ASSUME NEW id \in 0 .. MaxPackets, NEW bytes \in FrameBytes, OutputAdmitted(id, bytes)
      PROVE  TypeOK'
  <2>1. PICK r \in pendingOutputs : RemovePendingOutput(r)
    BY <1>4 DEF OutputAdmitted, RecordOf
  <2>2. r.bytes \in Nat
    BY <2>1 DEF Record
  <2>3. /\ pendingOutputs' \in SUBSET Record /\ IsFiniteSet(pendingOutputs')
        /\ pendingInputBytes' \in Nat
    BY <2>1, <2>2, FS_RemoveElement DEF RemovePendingOutput, SatSub
  <2>4. pendingCopies' \in Nat /\ pendingCopyBytes' \in Nat /\ lastMeasured' \in Nat
    BY <1>4 DEF OutputAdmitted, AddPendingCopy, Estimate
  <2>5. nextOutputSeq' \in Nat
    BY <1>4 DEF OutputAdmitted
  <2>6. StateTypeOK'
    BY <1>4, <2>3, <2>4, <2>5 DEF OutputAdmitted
  <2>7. JsTypeOK'
    BY <1>1, <1>4 DEF OutputAdmitted
  <2>8. copies' \in SUBSET Copy /\ IsFiniteSet(copies')
    <3> DEFINE c == [id |-> id, epoch |-> epoch, seq |-> nextOutputSeq, bytes |-> bytes,
                     stage |-> "spawned"]
    <3>1. c \in Copy
      BY DEF Copy
    <3> HIDE DEF c
    <3>2. copies' = copies \cup {c}
      BY <1>4 DEF OutputAdmitted, c
    <3> QED
      BY <3>1, <3>2, FS_AddElement
  <2>9. admitted' \in Seq(Nat) /\ delivered' \in Seq(Nat)
    BY <1>4 DEF OutputAdmitted
  <2> QED
    BY <1>4, <2>6, <2>7, <2>8, <2>9 DEF OutputAdmitted
<1>5. ASSUME ErrorCallback
      PROVE  TypeOK'
  <2>1. lastError' \in ErrorKinds \cup {NoError} /\ ClearGeneration
    BY <1>5, RecordCloseType DEF ErrorCallback, ErrorKinds
  <2>2. StateTypeOK'
    BY <1>5, <2>1, ClearGenerationType DEF ErrorCallback, WakeAll
  <2>3. JsTypeOK'
    BY <1>5 DEF ErrorCallback, JsAbandon, JsRejectFlush, DecStates, PromiseStates
  <2> QED
    BY <1>5, <2>2, <2>3 DEF ErrorCallback, ForgetHistory
<1>6. DequeueCallback => TypeOK'
  BY DEF DequeueCallback, WakeAll
<1>7. \A id, bytes : OutputUnmatched(id) \/ OutputUnmeasured(id) \/ OutputRefused(id, bytes)
        => \E kind \in ErrorKinds : OutputCloses(id, kind)
  BY DEF OutputUnmatched, OutputUnmeasured, OutputRefused, ErrorKinds
<1>8. OutputCallback => TypeOK'
  BY <1>2, <1>3, <1>4, <1>7 DEF OutputCallback
<1> QED
  BY <1>5, <1>6, <1>8

\* deliver_pending_push: what it appends is a sequence of frames, and the
\* pushes it keeps are a finite part of those it had.
LEMMA DeliverType ==
  ASSUME TypeOK, NEW p \in Push, DeliverPendingPush(p)
  PROVE  /\ queue' \in Seq(Frame) /\ queueBytes' \in Nat
         /\ pendingPushes' \in SUBSET Push /\ IsFiniteSet(pendingPushes')
         /\ pendingPushBytes' \in Nat
         /\ nextPushSeq' \in Nat /\ nextOutputSeq' \in Nat
<1> DEFINE pushes == pendingPushes \cup {p}
           frames == Drained(pushes)
<1>1. /\ pendingPushes \in SUBSET Push /\ IsFiniteSet(pendingPushes)
      /\ nextPushSeq \in Nat /\ nextOutputSeq \in Nat
      /\ queue \in Seq(Frame) /\ queueBytes \in Nat /\ pendingPushBytes \in Nat
  BY DEF TypeOK, StateTypeOK
<1>2. pushes \in SUBSET Push /\ IsFiniteSet(pushes)
  BY <1>1, FS_AddElement
<1>3. p.bytes \in Nat
  BY DEF Push
<1> HIDE DEF pushes
<1>4. frames \in Seq(Frame)
  BY <1>1, <1>2, DrainedType
<1>5. BytesOf(frames) \in Nat
  BY <1>4, BytesOfType
<1>6. DrainEnd(pushes) \in Nat
  BY <1>1, <1>2, DrainEndFact
<1>7. /\ queue' = queue \o frames
      /\ queueBytes' = queueBytes + BytesOf(frames)
      /\ pendingPushes' = {q \in pushes : q.seq >= DrainEnd(pushes)}
      /\ pendingPushBytes' = SatSub(pendingPushBytes + p.bytes, BytesOf(frames))
      /\ nextPushSeq' = DrainEnd(pushes)
      /\ nextOutputSeq' = nextOutputSeq
  BY DEF DeliverPendingPush, pushes
<1> HIDE DEF frames
<1>8. pendingPushes' \in SUBSET Push /\ IsFiniteSet(pendingPushes')
  BY <1>2, <1>7, FS_Subset
<1>9. queue' \in Seq(Frame)
  BY <1>1, <1>4, <1>7
<1>10. queueBytes' \in Nat /\ pendingPushBytes' \in Nat
  BY <1>1, <1>3, <1>5, <1>7 DEF SatSub
<1> QED
  BY <1>1, <1>6, <1>7, <1>8, <1>9, <1>10

\* A copy task that ends leaves finitely many, and natural counters.
LEMMA CopyEndsType ==
  ASSUME TypeOK, NEW c \in copies, CopyEnds(c)
  PROVE  /\ copies' \in SUBSET Copy /\ IsFiniteSet(copies')
         /\ pendingCopies' \in Nat /\ pendingCopyBytes' \in Nat /\ lastMeasured' \in Nat
<1>1. copies' \in SUBSET Copy /\ IsFiniteSet(copies')
  BY FS_RemoveElement DEF CopyEnds, TypeOK
<1>2. c.bytes \in Nat
  BY DEF TypeOK, Copy
<1> QED
  BY <1>1, <1>2 DEF CopyEnds, SubPendingCopy, SatSub, Estimate, TypeOK, StateTypeOK

\* handle_video_frame preserves the types.
LEMMA TypeCopy == ASSUME TypeOK, NEW c \in copies PROVE CopyTask(c) => TypeOK'
<1> USE VideoAssumption DEF TypeOK, StateTypeOK, JsTypeOK, queueVars, recordVars,
      idVars, copyCounters, pushVars, wakers, codecVars, jsVars, history, clientVars
<1>1. ASSUME CopyStarts(c)
      PROVE  TypeOK'
  <2> DEFINE d == [c EXCEPT !.stage = "copying"]
  <2>1. d \in Copy
    BY DEF Copy
  <2> HIDE DEF d
  <2>2. copies' = (copies \ {c}) \cup {d}
    BY <1>1 DEF CopyStarts, d
  <2>3. copies' \in SUBSET Copy /\ IsFiniteSet(copies')
    BY <2>1, <2>2, FS_RemoveElement, FS_AddElement
  <2> QED
    BY <1>1, <2>3 DEF CopyStarts
<1>2. ASSUME CopyDiscarded(c)
      PROVE  TypeOK'
  <2>1. CopyEnds(c)
    BY <1>2 DEF CopyDiscarded
  <2>2. StateTypeOK'
    BY <1>2, <2>1, CopyEndsType DEF CopyDiscarded, CopyEnds, WakeAll
  <2> QED
    BY <1>2, <2>1, <2>2, CopyEndsType DEF CopyDiscarded, CopyEnds
<1>3. ASSUME CopyEnds(c), NEW kind \in ErrorKinds, FatalClose(kind), WakeAll
      PROVE  TypeOK'
  <2>1. StateTypeOK'
    BY <1>3, CopyEndsType, FatalCloseType, ClearGenerationType DEF CopyEnds, WakeAll
  <2>2. JsTypeOK'
    BY <1>3, FatalCloseType DEF CopyEnds
  <2> QED
    BY <1>3, <2>1, <2>2, CopyEndsType, FatalCloseType DEF CopyEnds
<1>4. (\E copied \in BOOLEAN : CopyFails(c, copied)) => TypeOK'
  BY <1>3 DEF CopyFails, ErrorKinds
<1>5. CopyOverflows(c) => TypeOK'
  BY <1>3 DEF CopyOverflows, ErrorKinds
<1>6. ASSUME CopyDelivered(c)
      PROVE  TypeOK'
  <2>1. PushOf(c) \in Push
    <3>1. c.seq \in Nat /\ c.id \in Nat /\ c.bytes \in Nat
      BY DEF Copy
    <3> QED
      BY <3>1 DEF PushOf, Push
  <2>2. CopyEnds(c) /\ DeliverPendingPush(PushOf(c))
    BY <1>6 DEF CopyDelivered
  <2>3. receiverWaker' \in BOOLEAN /\ dequeueWaker' \in BOOLEAN /\ woken' \in BOOLEAN
    BY <1>6 DEF CopyDelivered, WakeAfterPush
  <2>4. StateTypeOK'
    BY <1>6, <2>1, <2>2, <2>3, DeliverType, CopyEndsType DEF CopyDelivered, CopyEnds
  <2> QED
    BY <1>6, <2>2, <2>4, CopyEndsType DEF CopyDelivered, CopyEnds
<1> QED
  BY <1>1, <1>2, <1>4, <1>5, <1>6 DEF CopyTask

\* The browser's own steps preserve the types.
LEMMA TypeBrowser == TypeOK /\ (CodecTakes \/ CodecEmits \/ FlushSettles) => TypeOK'
<1> SUFFICES ASSUME TypeOK PROVE CodecTakes \/ CodecEmits \/ FlushSettles => TypeOK'
  OBVIOUS
<1> USE DEF TypeOK, StateTypeOK, JsTypeOK, queueVars, recordVars, idVars, copyCounters,
      pushVars, wakers, history, clientVars, adapterVars
<1>1. ASSUME CodecTakes
      PROVE  TypeOK'
  <2>1. Head(inputQ) \in Nat /\ Tail(inputQ) \in Seq(Nat)
    BY <1>1 DEF CodecTakes, JsDequeue
  <2>2. JsTypeOK'
    BY <1>1, <2>1 DEF CodecTakes, JsDequeue
  <2> QED
    BY <1>1, <2>2 DEF CodecTakes
<1>2. ASSUME NEW id \in held, NEW frames \in 0 .. 2, JsEmit(id, frames),
             UNCHANGED adapterVars
      PROVE  TypeOK'
  <2>1. id \in Nat /\ frames \in Nat
    OBVIOUS
  <2>2. [k \in 1 .. frames |-> id] \in Seq(Nat)
    BY <2>1
  <2>3. outputs' \in Seq(Nat)
    BY <1>2, <2>2 DEF JsEmit
  <2>4. JsTypeOK'
    BY <1>2, <2>3 DEF JsEmit
  <2> QED
    BY <1>2, <2>4
<1>3. ASSUME FlushSettles
      PROVE  TypeOK'
  <2>1. JsTypeOK'
    BY <1>3 DEF FlushSettles, JsFlushDone, PromiseStates
  <2> QED
    BY <1>3, <2>1 DEF FlushSettles
<1> QED
  BY <1>1, <1>2, <1>3 DEF CodecEmits

\* A stuttering step preserves the types.
LEMMA TypeStutter == TypeOK /\ UNCHANGED vars => TypeOK'
BY DEF vars, TypeOK, StateTypeOK, JsTypeOK, queueVars, recordVars, idVars, copyCounters,
       pushVars, wakers, jsVars, history, clientVars

\* An opened decoder is well typed.
LEMMA TypeInit == Init => TypeOK
<1> SUFFICES ASSUME Init PROVE TypeOK
  OBVIOUS
<1>1. StateTypeOK
  <2>1. StateInit
    BY DEF Init
  <2>2. queue \in Seq(Frame) /\ IsFiniteSet(pendingOutputs) /\ IsFiniteSet(pendingPushes)
    BY <2>1, NoneYet, FS_EmptySet, Zenon DEF StateInit
  <2> QED
    BY <2>1, <2>2 DEF StateInit, StateTypeOK
<1>2. JsTypeOK
  <2>1. JsInit
    BY DEF Init
  <2>2. inputQ \in Seq(Nat) /\ outputs \in Seq(Nat)
    BY <2>1, NoneYet, Zenon DEF JsInit
  <2> QED
    BY <2>1, <2>2 DEF JsInit, JsTypeOK, DecStates, PromiseStates
<1>3. /\ copies \in SUBSET Copy /\ IsFiniteSet(copies)
      /\ admitted \in Seq(Nat) /\ delivered \in Seq(Nat)
  BY NoneYet, FS_EmptySet, Zenon DEF Init
<1>4. eof \in BOOLEAN /\ client \in ClientStates /\ answer \in Answers
  BY DEF Init, ClientStates, Answers
<1> QED
  BY <1>1, <1>2, <1>3, <1>4 DEF TypeOK

\* Every step preserves the types.
LEMMA TypeStep == TypeOK /\ [Next]_vars => TypeOK'
BY TypeSend, TypeReceive, TypeEof, TypeFlush, TypeCallbacks, TypeCopy, TypeBrowser,
   TypeStutter
DEF Next

(***************************************************************************)
(* Every state of the decoder is of the declared types: in particular the  *)
(* queue and both histories stay sequences of frames through the drain     *)
(* loop, the sets of records, parked pushes and copies stay finite, and no *)
(* counter becomes negative.                                               *)
(***************************************************************************)
THEOREM TypeCorrect == Spec => []TypeOK
BY TypeInit, TypeStep, PTL DEF Spec

-----------------------------------------------------------------------------
(* A closed adapter has stopped its browser decoder *)

(***************************************************************************)
(* ClosedMeansStopped is not inductive: reset() does nothing on a decoder  *)
(* the browser has closed, so that one must already be empty, and output   *)
(* callbacks of a dropped adapter still run.                               *)
(***************************************************************************)
StoppedInv ==
  /\ IsClosed \/ client = "dropped" => dec # "configured"
  /\ dec # "configured" => inputQ = <<>> /\ held = {}

\* What every fatal close leaves behind.
Stopped == dec # "configured" /\ inputQ = <<>> /\ held = {}

\* reset() stops the browser decoder, or it was stopped already.
LEMMA JsResetStops ==
  ASSUME StoppedInv, JsReset
  PROVE  Stopped'
<1>1. CASE dec = "closed"
  BY <1>1 DEF JsReset, codecVars, StoppedInv, Stopped
<1>2. CASE dec # "closed"
  BY <1>2 DEF JsReset, JsAbandon, Stopped
<1> QED
  BY <1>1, <1>2

\* A stopped browser decoder satisfies the invariant whatever the adapter says.
LEMMA StoppedHolds ==
  ASSUME Stopped'
  PROVE  StoppedInv'
BY DEF Stopped, StoppedInv

\* The steps that leave the adapter's side of it alone.
LEMMA StoppedKept ==
  ASSUME StoppedInv, UNCHANGED <<lastError, codecVars>>,
         client' = "dropped" => client = "dropped"
  PROVE  StoppedInv'
BY DEF StoppedInv, IsClosed, codecVars

\* Every step preserves StoppedInv.
LEMMA StoppedStep == StoppedInv /\ [Next]_vars => StoppedInv'
<1> SUFFICES ASSUME StoppedInv, [Next]_vars PROVE StoppedInv'
  OBVIOUS
<1>1. CASE SendPacket \/ SendCancelled
  <2>1. CASE SendRefused \/ SendMustDrain \/ SendCancelled
    BY <2>1, StoppedKept
    DEF SendRefused, SendMustDrain, SendCancelled, SendReturns
  <2>2. CASE SendParks
    BY <2>2, StoppedKept DEF SendParks, jsVars, codecVars
  <2>3. CASE \E bytes \in PacketBytes[nextSubmissionId], built \in BOOLEAN : SendThrows(bytes, built)
    BY <2>3, StoppedKept DEF SendThrows, SendReturns
  <2>4. CASE \E bytes \in PacketBytes[nextSubmissionId] :
               SendClosesOnRecords(bytes) \/ \E a \in BOOLEAN : SendClosesOnInput(bytes, a)
    BY <2>4, JsResetStops, StoppedHolds
    DEF SendClosesOnRecords, SendClosesOnInput, FatalClose
  <2>5. CASE \E bytes \in PacketBytes[nextSubmissionId] : SendAccepted(bytes)
    BY <2>5 DEF SendAccepted, SpendId, HasRoom, SendReturns, JsDecode, StoppedInv, IsClosed
  <2> QED
    BY <1>1, <2>1, <2>2, <2>3, <2>4, <2>5 DEF SendPacket
<1>2. CASE ReceiveFrame \/ ReceiveCancelled
  BY <1>2, StoppedKept
  DEF ReceiveFrame, ReceiveCancelled, ReceiveClosed, ReceiveProduced, ReceiveDry,
      ReceiveParks, ReceiveReturns, jsVars, codecVars
<1>3. CASE SendEof \/ EofCancelled
  <2>1. CASE EofClosed \/ EofAwaits \/ EofCompletes
    BY <2>1, StoppedKept DEF EofClosed, EofAwaits, EofCompletes, JsFlush, jsVars, codecVars
  <2>2. CASE EofRejected \/ EofCancelled
    BY <2>2, JsResetStops, StoppedHolds DEF EofRejected, EofCancelled, EofGuardFires
  <2> QED
    BY <1>3, <2>1, <2>2 DEF SendEof
<1>4. CASE Flush \/ Drop
  <2>1. CASE FlushReopens
    BY <2>1 DEF FlushReopens, StoppedInv, IsClosed
  <2>2. CASE FlushFails
    BY <2>2, JsResetStops, StoppedHolds DEF FlushFails
  <2>3. CASE Drop
    BY <2>3, StoppedHolds DEF Drop, Stopped
  <2> QED
    BY <1>4, <2>1, <2>2, <2>3 DEF Flush
<1>5. CASE OutputCallback \/ ErrorCallback \/ DequeueCallback
  <2>1. CASE \E id \in 0 .. MaxPackets : OutputIgnored(id)
    BY <2>1, StoppedKept DEF OutputIgnored, clientVars
  <2>2. CASE \E id \in 0 .. MaxPackets : \E kind : OutputCloses(id, kind)
    BY <2>2, JsResetStops, StoppedHolds DEF OutputCloses, FatalClose
  <2>3. CASE \E id \in 0 .. MaxPackets, bytes \in FrameBytes : OutputAdmitted(id, bytes)
    BY <2>3, StoppedKept DEF OutputAdmitted, clientVars
  <2>4. CASE ErrorCallback
    BY <2>4, StoppedHolds DEF ErrorCallback, JsAbandon, Stopped
  <2>5. CASE DequeueCallback
    BY <2>5 DEF DequeueCallback, StoppedInv, IsClosed, clientVars
  <2> QED
    BY <1>5, <2>1, <2>2, <2>3, <2>4, <2>5
    DEF OutputCallback, OutputUnmatched, OutputUnmeasured, OutputRefused
<1>6. CASE \E c \in copies : CopyTask(c)
  <2>1. PICK c \in copies : CopyTask(c)
    BY <1>6
  <2>2. CASE CopyStarts(c) \/ CopyDiscarded(c) \/ CopyDelivered(c)
    BY <2>2, StoppedKept
    DEF CopyStarts, CopyDiscarded, CopyDelivered, CopyEnds, clientVars, jsVars, codecVars
  <2>3. CASE CopyOverflows(c) \/ \E copied \in BOOLEAN : CopyFails(c, copied)
    BY <2>3, JsResetStops, StoppedHolds DEF CopyOverflows, CopyFails, FatalClose
  <2> QED
    BY <2>1, <2>2, <2>3 DEF CopyTask
<1>7. CASE CodecTakes
  BY <1>7 DEF CodecTakes, JsDequeue, adapterVars, clientVars, StoppedInv, IsClosed
<1>8. CASE CodecEmits
  BY <1>8 DEF CodecEmits, JsEmit, adapterVars, clientVars, StoppedInv, IsClosed
<1>9. CASE FlushSettles
  BY <1>9, StoppedKept DEF FlushSettles, JsFlushDone, adapterVars, clientVars, codecVars
<1>10. CASE UNCHANGED vars
  BY <1>10, StoppedKept DEF vars, clientVars, jsVars, codecVars
<1> QED
  BY <1>1, <1>2, <1>3, <1>4, <1>5, <1>6, <1>7, <1>8, <1>9, <1>10 DEF Next

(***************************************************************************)
(* Whatever closes the adapter - an error of the browser, a cap, a failed  *)
(* copy, a cancelled send_eof, a failed flush - the browser decoder has    *)
(* been reset or closed with it and holds no chunk any more, and it stays  *)
(* so until flush() reopens both.                                          *)
(***************************************************************************)
THEOREM ClosedStops == Spec => []ClosedMeansStopped
<1>1. Init => StoppedInv
  BY DEF Init, JsInit, StateInit, StoppedInv, IsClosed, NoError
<1>2. StoppedInv => ClosedMeansStopped
  BY DEF StoppedInv, ClosedMeansStopped
<1> QED
  BY <1>1, <1>2, StoppedStep, PTL DEF Spec

-----------------------------------------------------------------------------
(* The reorder buffer *)

(***************************************************************************)
(* ReorderNeverStuck speaks of sets of sequences; a step moves single      *)
(* copies and pushes, so the inductive form also says that no two of them  *)
(* hold one sequence, and that no copy is from a generation yet to come    *)
(* (or bumping the epoch would revive it).                                 *)
(***************************************************************************)
Awaited == nextPushSeq .. nextOutputSeq - 1

ReorderInv ==
  /\ nextPushSeq <= nextOutputSeq
  /\ \A c \in copies : c.epoch <= epoch
  /\ \A c, d \in LiveCopies : c.seq = d.seq => c = d
  /\ \A p, q \in pendingPushes : p.seq = q.seq => p = q
  /\ \A c \in LiveCopies : c.seq \in Awaited /\ ~HasSeq(pendingPushes, c.seq)
  /\ \A p \in pendingPushes : p.seq \in Awaited
  /\ \A s \in Awaited : HasSeq(LiveCopies, s) \/ HasSeq(pendingPushes, s)
  /\ ~HasSeq(pendingPushes, nextPushSeq)

\* The inductive form implies the property the runs check.
LEMMA ReorderInvSuffices == ReorderInv => ReorderNeverStuck
BY DEF ReorderInv, ReorderNeverStuck, HasSeq, Awaited

\* A close, or a new generation: nothing is awaited and no copy is live.
LEMMA ReorderFresh ==
  ASSUME TypeOK, ReorderInv, ClearGeneration, copies' \subseteq copies,
         \/ epoch' = epoch /\ IsClosed'
         \/ epoch' = epoch + 1
  PROVE  ReorderInv'
<1>1. epoch \in Nat /\ \A c \in copies : c.epoch \in Nat /\ c.epoch <= epoch
  BY DEF TypeOK, StateTypeOK, ReorderInv, Copy
<1>2. \A c \in copies' : c.epoch <= epoch'
  BY <1>1
<1>3. LiveCopies' = {}
  BY <1>1 DEF LiveCopies, Stale
<1>4. pendingPushes' = {} /\ nextPushSeq' = 0 /\ nextOutputSeq' = 0
  BY DEF ClearGeneration
<1> QED
  BY <1>2, <1>3, <1>4 DEF ReorderInv, HasSeq, Awaited

\* A recorded close closes, and drops the generation's buffers.
LEMMA FatalCloseFresh ==
  ASSUME NEW kind \in ErrorKinds, RecordClose(kind)
  PROVE  IsClosed' /\ ClearGeneration
BY DEF RecordClose, IsClosed, ErrorKinds, NoError

\* The steps that move no copy and no push.
LEMMA ReorderKept ==
  ASSUME ReorderInv, UNCHANGED <<lastError, epoch, pushVars, copies>>
  PROVE  ReorderInv'
BY DEF ReorderInv, pushVars, LiveCopies, IsClosed, Stale, HasSeq, Awaited

\* A new copy takes the next sequence, which nothing holds.
LEMMA ReorderAdmits ==
  ASSUME TypeOK, ReorderInv, NEW id \in 0 .. MaxPackets, NEW bytes \in FrameBytes,
         OutputAdmitted(id, bytes)
  PROVE  ReorderInv'
<1> DEFINE c == [id |-> id, epoch |-> epoch, seq |-> nextOutputSeq, bytes |-> bytes,
                 stage |-> "spawned"]
<1>1. ~IsClosed /\ ~IsClosed' /\ UNCHANGED <<epoch, nextPushSeq, pendingPushes>>
  BY DEF OutputAdmitted, Unwanted, IsClosed
<1>2. copies' = copies \cup {c} /\ nextOutputSeq' = nextOutputSeq + 1
  BY DEF OutputAdmitted
<1>3. c.seq = nextOutputSeq /\ c.epoch = epoch
  OBVIOUS
<1> HIDE DEF c
<1>4. nextPushSeq \in Nat /\ nextOutputSeq \in Nat /\ epoch \in Nat
  BY DEF TypeOK, StateTypeOK
<1>5. LiveCopies' = LiveCopies \cup {c}
  BY <1>1, <1>2, <1>3 DEF LiveCopies, Stale
<1>6. nextPushSeq <= nextOutputSeq
  BY DEF ReorderInv
<1>7. nextOutputSeq \notin Awaited /\ Awaited' = Awaited \cup {nextOutputSeq}
  BY <1>1, <1>2, <1>4, <1>6 DEF Awaited
<1>8. ~HasSeq(pendingPushes, nextOutputSeq) /\ ~HasSeq(LiveCopies, nextOutputSeq)
  BY <1>7 DEF ReorderInv, HasSeq
<1>9. \A x \in copies' : x.epoch <= epoch'
  BY <1>1, <1>2, <1>3, <1>4 DEF ReorderInv
<1>10. \A x, y \in LiveCopies' : x.seq = y.seq => x = y
  BY <1>3, <1>5, <1>8 DEF ReorderInv, HasSeq
<1>11. \A x \in LiveCopies' : x.seq \in Awaited' /\ ~HasSeq(pendingPushes', x.seq)
  BY <1>1, <1>3, <1>5, <1>7, <1>8 DEF ReorderInv
<1>12. \A s \in Awaited' : HasSeq(LiveCopies', s) \/ HasSeq(pendingPushes', s)
  BY <1>1, <1>3, <1>5, <1>7 DEF ReorderInv, HasSeq
<1>13. nextPushSeq' <= nextOutputSeq'
  BY <1>1, <1>2, <1>4, <1>6
<1> QED
  BY <1>1, <1>7, <1>9, <1>10, <1>11, <1>12, <1>13 DEF ReorderInv, HasSeq

\* A task that starts copying keeps its sequence and its generation.
LEMMA ReorderStarts ==
  ASSUME TypeOK, ReorderInv, NEW c \in copies, CopyStarts(c)
  PROVE  ReorderInv'
<1> DEFINE d == [c EXCEPT !.stage = "copying"]
<1>1. c \in Copy
  BY DEF TypeOK
<1>2. d.seq = c.seq /\ d.epoch = c.epoch
  BY <1>1 DEF Copy
<1>3. copies' = (copies \ {c}) \cup {d}
  BY DEF CopyStarts
<1> HIDE DEF d
<1>4. UNCHANGED <<lastError, epoch, nextPushSeq, nextOutputSeq, pendingPushes>>
  BY DEF CopyStarts, pushVars
<1>5. LiveCopies' = IF c \in LiveCopies THEN (LiveCopies \ {c}) \cup {d} ELSE LiveCopies
  BY <1>2, <1>3, <1>4 DEF LiveCopies, Stale, IsClosed, CopyStarts
<1>6. \A s : HasSeq(LiveCopies', s) <=> HasSeq(LiveCopies, s)
  BY <1>2, <1>5 DEF HasSeq
<1>7. \A x, y \in LiveCopies' : x.seq = y.seq => x = y
  BY <1>2, <1>5 DEF ReorderInv
<1>8. \A x \in LiveCopies' : x.seq \in Awaited /\ ~HasSeq(pendingPushes, x.seq)
  BY <1>2, <1>5 DEF ReorderInv
<1>9. \A x \in copies' : x.epoch <= epoch
  BY <1>2, <1>3 DEF ReorderInv
<1> QED
  BY <1>4, <1>6, <1>7, <1>8, <1>9 DEF ReorderInv, HasSeq, Awaited

\* A task whose frame could not reach the queue ends.
LEMMA ReorderDiscards ==
  ASSUME ReorderInv, NEW c \in copies, CopyDiscarded(c)
  PROVE  ReorderInv'
<1>1. /\ copies' = copies \ {c}
      /\ UNCHANGED <<lastError, epoch, nextPushSeq, nextOutputSeq, pendingPushes>>
  BY DEF CopyDiscarded, CopyEnds, pushVars
<1>2. LiveCopies' = LiveCopies
  BY <1>1 DEF CopyDiscarded, LiveCopies, Stale, IsClosed
<1> QED
  BY <1>1, <1>2 DEF ReorderInv, HasSeq, Awaited

\* A completed copy is parked, and everything up to the first sequence still
\* being copied moves on to the queue.
LEMMA ReorderDelivers ==
  ASSUME TypeOK, ReorderInv, NEW c \in copies, CopyDelivered(c)
  PROVE  ReorderInv'
<1> DEFINE p == PushOf(c)
           pushes == pendingPushes \cup {p}
           end == DrainEnd(pushes)
<1>1. /\ copies' = copies \ {c}
      /\ UNCHANGED <<lastError, epoch, nextOutputSeq>>
      /\ nextPushSeq' = end
      /\ pendingPushes' = {q \in pushes : q.seq >= end}
      /\ ~IsClosed /\ c \in LiveCopies
  BY DEF CopyDelivered, CopyEnds, DeliverPendingPush, Completes, LiveCopies
<1>2. p.seq = c.seq
  BY DEF PushOf
<1> HIDE DEF p
<1>3. /\ nextPushSeq \in Nat /\ nextOutputSeq \in Nat
      /\ IsFiniteSet(pushes)
      /\ \A q \in pendingPushes : q.seq \in Nat
      /\ c.seq \in Nat
  BY FS_AddElement DEF TypeOK, StateTypeOK, Push, Copy
<1>4. \A q \in pushes : q.seq \in Nat
  BY <1>2, <1>3
<1> HIDE DEF pushes
<1>5. /\ end \in Nat /\ end >= nextPushSeq
      /\ ~HasSeq(pushes, end)
      /\ \A s \in nextPushSeq .. end - 1 : HasSeq(pushes, s)
  BY <1>3, DrainEndFact
<1> HIDE DEF end
<1>6. \A s : HasSeq(pushes, s) <=> HasSeq(pendingPushes, s) \/ s = c.seq
  BY <1>2 DEF HasSeq, pushes
<1>7. c.seq \in Awaited /\ ~HasSeq(pendingPushes, c.seq)
  BY <1>1 DEF ReorderInv
<1>8. \A s : HasSeq(pushes, s) => s \in Awaited
  BY <1>6, <1>7 DEF ReorderInv, HasSeq
<1>9. end <= nextOutputSeq
  <2>1. CASE end = nextPushSeq
    BY <2>1 DEF ReorderInv
  <2>2. CASE end # nextPushSeq
    <3>1. end - 1 \in nextPushSeq .. end - 1
      BY <2>2, <1>3, <1>5
    <3>2. end - 1 \in Awaited
      BY <3>1, <1>5, <1>8
    <3> QED
      BY <3>2, <1>3, <1>5 DEF Awaited
  <2> QED
    BY <2>1, <2>2
<1>10. Awaited' = {s \in Awaited : s >= end}
  BY <1>1, <1>3, <1>5 DEF Awaited
<1>11. LiveCopies' = LiveCopies \ {c}
  BY <1>1 DEF LiveCopies, Stale, IsClosed
<1>12. \A s \in Awaited : s >= end => (HasSeq(pendingPushes', s) <=> HasSeq(pushes, s))
  BY <1>1 DEF HasSeq
<1>13. \A x \in LiveCopies' : x.seq \in Awaited /\ ~HasSeq(pushes, x.seq)
  <2> TAKE x \in LiveCopies'
  <2>1. x \in LiveCopies /\ x # c
    BY <1>11
  <2>2. x.seq \in Awaited /\ ~HasSeq(pendingPushes, x.seq) /\ x.seq # c.seq
    BY <2>1, <1>1 DEF ReorderInv
  <2> QED
    BY <2>2, <1>6
<1>14. \A x \in LiveCopies' : x.seq \in Awaited' /\ ~HasSeq(pendingPushes', x.seq)
  <2> TAKE x \in LiveCopies'
  <2>1. x.seq \in Awaited /\ ~HasSeq(pushes, x.seq)
    BY <1>13
  <2>2. x.seq >= end
    BY <2>1, <1>3, <1>5 DEF Awaited
  <2> QED
    BY <2>1, <2>2, <1>10, <1>12
<1>15. \A q \in pendingPushes' : q.seq \in Awaited'
  <2> TAKE q \in pendingPushes'
  <2>1. q \in pushes /\ q.seq >= end
    BY <1>1
  <2>2. HasSeq(pushes, q.seq)
    BY <2>1 DEF HasSeq
  <2> QED
    BY <2>1, <2>2, <1>8, <1>10
<1>16. \A s \in Awaited' : HasSeq(LiveCopies', s) \/ HasSeq(pendingPushes', s)
  <2> TAKE s \in Awaited'
  <2>1. s \in Awaited /\ s >= end
    BY <1>10
  <2>2. HasSeq(LiveCopies, s) \/ HasSeq(pendingPushes, s)
    BY <2>1 DEF ReorderInv
  <2>3. HasSeq(LiveCopies', s) \/ HasSeq(pushes, s)
    BY <2>2, <1>6, <1>11 DEF HasSeq
  <2> QED
    BY <2>1, <2>3, <1>12
<1>17. ~HasSeq(pendingPushes', nextPushSeq')
  BY <1>1, <1>5 DEF HasSeq
<1>18. \A q, r \in pendingPushes' : q.seq = r.seq => q = r
  <2> TAKE q, r \in pendingPushes'
  <2>1. q \in pushes /\ r \in pushes
    BY <1>1
  <2> QED
    BY <2>1, <1>2, <1>7 DEF pushes, ReorderInv, HasSeq
<1>19. \A x \in copies' : x.epoch <= epoch'
  BY <1>1 DEF ReorderInv
<1>20. \A x, y \in LiveCopies' : x.seq = y.seq => x = y
  BY <1>11 DEF ReorderInv
<1>21. nextPushSeq' <= nextOutputSeq'
  BY <1>1, <1>9
<1> QED
  BY <1>14, <1>15, <1>16, <1>17, <1>18, <1>19, <1>20, <1>21 DEF ReorderInv

\* A copy that fails, or overflows a buffer, closes the adapter.
LEMMA ReorderCloses ==
  ASSUME TypeOK, ReorderInv, NEW c \in copies, NEW kind \in ErrorKinds,
         CopyEnds(c), FatalClose(kind)
  PROVE  ReorderInv'
BY FatalCloseFresh, ReorderFresh DEF CopyEnds, FatalClose

\* Every step preserves ReorderInv.
LEMMA ReorderStep == TypeOK /\ ReorderInv /\ [Next]_vars => ReorderInv'
<1> SUFFICES ASSUME TypeOK, ReorderInv, [Next]_vars PROVE ReorderInv'
  OBVIOUS
<1>1. CASE SendPacket \/ SendCancelled
  <2>1. CASE SendRefused \/ SendMustDrain \/ SendCancelled
    BY <2>1, ReorderKept DEF SendRefused, SendMustDrain, SendCancelled, SendReturns
  <2>2. CASE SendParks
    BY <2>2, ReorderKept DEF SendParks
  <2>3. CASE \E bytes \in PacketBytes[nextSubmissionId], built \in BOOLEAN : SendThrows(bytes, built)
    BY <2>3, ReorderKept DEF SendThrows, SendReturns
  <2>4. CASE \E bytes \in PacketBytes[nextSubmissionId] :
               SendClosesOnRecords(bytes) \/ \E a \in BOOLEAN : SendClosesOnInput(bytes, a)
    <3>1. \E kind \in ErrorKinds : FatalClose(kind)
      BY <2>4 DEF SendClosesOnRecords, SendClosesOnInput, ErrorKinds
    <3> QED
      BY <2>4, <3>1, FatalCloseFresh, ReorderFresh
      DEF SendClosesOnRecords, SendClosesOnInput, SendReturns, FatalClose
  <2>5. CASE \E bytes \in PacketBytes[nextSubmissionId] : SendAccepted(bytes)
    BY <2>5, ReorderKept DEF SendAccepted, SendReturns
  <2> QED
    BY <1>1, <2>1, <2>2, <2>3, <2>4, <2>5 DEF SendPacket
<1>2. CASE ReceiveFrame \/ ReceiveCancelled
  BY <1>2, ReorderKept
  DEF ReceiveFrame, ReceiveCancelled, ReceiveClosed, ReceiveProduced, ReceiveDry,
      ReceiveParks, ReceiveReturns
<1>3. CASE SendEof \/ EofCancelled
  <2>1. CASE EofClosed \/ EofAwaits \/ EofCompletes
    BY <2>1, ReorderKept DEF EofClosed, EofAwaits, EofCompletes
  <2>2. CASE EofRejected \/ EofCancelled
    BY <2>2, ReorderFresh DEF EofRejected, EofCancelled, EofGuardFires, BumpEpoch
  <2> QED
    BY <1>3, <2>1, <2>2 DEF SendEof
<1>4. CASE Flush \/ Drop
  BY <1>4, ReorderFresh DEF Flush, FlushReopens, FlushFails, Drop, BumpEpoch
<1>5. CASE OutputCallback \/ ErrorCallback \/ DequeueCallback
  <2>1. CASE \E id \in 0 .. MaxPackets : OutputIgnored(id)
    BY <2>1, ReorderKept DEF OutputIgnored
  <2>2. CASE \E id \in 0 .. MaxPackets, kind \in ErrorKinds : OutputCloses(id, kind)
    BY <2>2, FatalCloseFresh, ReorderFresh DEF OutputCloses, FatalClose
  <2>3. CASE \E id \in 0 .. MaxPackets, bytes \in FrameBytes : OutputAdmitted(id, bytes)
    BY <2>3, ReorderAdmits
  <2>4. CASE ErrorCallback
    BY <2>4, FatalCloseFresh, ReorderFresh DEF ErrorCallback, ErrorKinds
  <2>5. CASE DequeueCallback
    BY <2>5, ReorderKept DEF DequeueCallback
  <2> QED
    BY <1>5, <2>1, <2>2, <2>3, <2>4, <2>5
    DEF OutputCallback, OutputUnmatched, OutputUnmeasured, OutputRefused, ErrorKinds
<1>6. CASE \E c \in copies : CopyTask(c)
  <2>1. PICK c \in copies : CopyTask(c)
    BY <1>6
  <2>2. CASE CopyOverflows(c) \/ \E copied \in BOOLEAN : CopyFails(c, copied)
    BY <2>2, ReorderCloses DEF CopyOverflows, CopyFails, ErrorKinds
  <2> QED
    BY <2>1, <2>2, ReorderStarts, ReorderDiscards, ReorderDelivers DEF CopyTask
<1>7. CASE CodecTakes \/ CodecEmits \/ FlushSettles
  BY <1>7, ReorderKept DEF CodecTakes, CodecEmits, FlushSettles, adapterVars
<1>8. CASE UNCHANGED vars
  BY <1>8, ReorderKept DEF vars
<1> QED
  BY <1>1, <1>2, <1>3, <1>4, <1>5, <1>6, <1>7, <1>8 DEF Next

\* Nothing is awaited in an opened decoder.
LEMMA ReorderInit == Init => ReorderInv
BY DEF Init, StateInit, ReorderInv, LiveCopies, HasSeq, Awaited

(***************************************************************************)
(* deliver_pending_push can always make progress: every sequence handed to *)
(* an output and not yet to the queue is either parked or has exactly one  *)
(* live copy task, and the one the queue waits for has a task - after any  *)
(* number of closes, generations and copies finishing out of order, for    *)
(* any caps.                                                               *)
(***************************************************************************)
THEOREM ReorderProgress == Spec => []ReorderNeverStuck
<1>1. Spec => []ReorderInv
  BY ReorderInit, ReorderStep, TypeCorrect, PTL DEF Spec
<1> QED
  BY <1>1, ReorderInvSuffices, PTL

-----------------------------------------------------------------------------
(* The shapes of a step.  Seven kinds of step are told apart by what they do  *)
(* to the generation the decoder works for; every invariant below is          *)
(* preserved kind by kind.                                                    *)

\* At most one id is spent, and none beyond the bound.
IdsSpent ==
  \/ UNCHANGED nextSubmissionId
  \/ nextSubmissionId < MaxPackets /\ nextSubmissionId' = nextSubmissionId + 1

\* A close, or a new generation: whatever the old one buffered is gone.  A copy
\* task that closes the adapter ends with it.
StartsOver ==
  /\ ClearGeneration /\ ForgetHistory
  /\ \/ IsClosed' /\ UNCHANGED <<epoch, epochIdFloor>>
     \/ /\ epoch' = epoch + 1 /\ epochIdFloor' = nextSubmissionId
        /\ UNCHANGED nextSubmissionId
  /\ \/ UNCHANGED <<copies, copyCounters>>
     \/ \E c \in copies : CopyEnds(c)
  /\ IdsSpent

\* Nothing moves between buffers; at most records are settled.
BuffersStand ==
  /\ UNCHANGED <<queueVars, lastError, epochIdFloor, epoch, pushVars, copies,
                 copyCounters, history>>
  /\ \/ UNCHANGED recordVars
     \/ ClearPendingOutputs
     \/ \E r \in pendingOutputs : RemovePendingOutput(r)
  /\ IdsSpent

\* A step that closes the adapter, before and after what else it does.
LEMMA ClosingStartsOver ==
  ASSUME NEW kind \in ErrorKinds, FatalClose(kind), UNCHANGED <<epoch, epochIdFloor>>,
         UNCHANGED <<copies, copyCounters>> \/ \E c \in copies : CopyEnds(c),
         IdsSpent
  PROVE  StartsOver
BY FatalCloseFresh DEF FatalClose, StartsOver

\* Every step is of one of the kinds.
LEMMA StepKinds ==
  ASSUME [Next]_vars
  PROVE  \/ StartsOver
         \/ BuffersStand
         \/ \E bytes \in PacketBytes[nextSubmissionId] : SendAccepted(bytes)
         \/ ReceiveProduced
         \/ \E id \in 0 .. MaxPackets, bytes \in FrameBytes : OutputAdmitted(id, bytes)
         \/ \E c \in copies : CopyStarts(c) \/ CopyDiscarded(c) \/ CopyDelivered(c)
<1> USE DEF idVars
<1>1. CASE SendPacket \/ SendCancelled
  <2>1. CASE SendRefused \/ SendMustDrain \/ SendCancelled
    BY <2>1 DEF SendRefused, SendMustDrain, SendCancelled, SendReturns, BuffersStand, IdsSpent
  <2>2. CASE SendParks
    BY <2>2 DEF SendParks, BuffersStand, IdsSpent
  <2>3. CASE \E bytes \in PacketBytes[nextSubmissionId], built \in BOOLEAN : SendThrows(bytes, built)
    BY <2>3 DEF SendThrows, SpendId, HasRoom, SendReturns, BuffersStand, IdsSpent
  <2>4. CASE \E bytes \in PacketBytes[nextSubmissionId] :
               SendClosesOnRecords(bytes) \/ \E a \in BOOLEAN : SendClosesOnInput(bytes, a)
    <3>1. PICK kind \in ErrorKinds : FatalClose(kind)
      BY <2>4 DEF SendClosesOnRecords, SendClosesOnInput, ErrorKinds
    <3>2. UNCHANGED <<epoch, epochIdFloor, copies, copyCounters>> /\ IdsSpent
      BY <2>4 DEF SendClosesOnRecords, SendClosesOnInput, SendReturns, SpendId, HasRoom, IdsSpent
    <3> QED
      BY <3>1, <3>2, ClosingStartsOver
  <2> QED
    BY <1>1, <2>1, <2>2, <2>3, <2>4 DEF SendPacket
<1>2. CASE ReceiveFrame \/ ReceiveCancelled
  BY <1>2
  DEF ReceiveFrame, ReceiveCancelled, ReceiveClosed, ReceiveDry, ReceiveParks,
      ReceiveReturns, BuffersStand, IdsSpent, history
<1>3. CASE SendEof \/ EofCancelled
  <2>1. CASE EofClosed \/ EofAwaits \/ EofCompletes
    BY <2>1 DEF EofClosed, EofAwaits, EofCompletes, BuffersStand, IdsSpent
  <2>2. CASE EofRejected \/ EofCancelled
    BY <2>2 DEF EofRejected, EofCancelled, EofGuardFires, BumpEpoch, StartsOver, IdsSpent
  <2> QED
    BY <1>3, <2>1, <2>2 DEF SendEof
<1>4. CASE Flush \/ Drop
  BY <1>4 DEF Flush, FlushReopens, FlushFails, Drop, BumpEpoch, StartsOver, IdsSpent
<1>5. CASE OutputCallback \/ ErrorCallback \/ DequeueCallback
  <2>1. CASE \E id \in 0 .. MaxPackets : OutputIgnored(id)
    <3>1. PICK id \in 0 .. MaxPackets : OutputIgnored(id)
      BY <2>1
    <3> QED
      BY <3>1 DEF OutputIgnored, RecordOf, BuffersStand, IdsSpent
  <2>2. CASE \E id \in 0 .. MaxPackets, kind \in ErrorKinds : OutputCloses(id, kind)
    BY <2>2, ClosingStartsOver DEF OutputCloses, IdsSpent
  <2>3. CASE ErrorCallback
    BY <2>3, FatalCloseFresh DEF ErrorCallback, ErrorKinds, StartsOver, IdsSpent
  <2>4. CASE DequeueCallback
    BY <2>4 DEF DequeueCallback, BuffersStand, IdsSpent
  <2> QED
    BY <1>5, <2>1, <2>2, <2>3, <2>4
    DEF OutputCallback, OutputUnmatched, OutputUnmeasured, OutputRefused, ErrorKinds
<1>6. CASE \E c \in copies : CopyTask(c)
  <2>1. PICK c \in copies : CopyTask(c)
    BY <1>6
  <2>2. CASE CopyOverflows(c) \/ \E copied \in BOOLEAN : CopyFails(c, copied)
    <3>1. PICK kind \in ErrorKinds : FatalClose(kind)
      BY <2>2 DEF CopyOverflows, CopyFails, ErrorKinds
    <3>2. CopyEnds(c)
      BY <2>2 DEF CopyOverflows, CopyFails
    <3> QED
      BY <3>1, <3>2, ClosingStartsOver DEF CopyEnds, IdsSpent
  <2> QED
    BY <2>1, <2>2 DEF CopyTask
<1>7. CASE CodecTakes \/ CodecEmits \/ FlushSettles
  BY <1>7 DEF CodecTakes, CodecEmits, FlushSettles, adapterVars, BuffersStand, IdsSpent
<1>8. CASE UNCHANGED vars
  BY <1>8 DEF vars, BuffersStand, IdsSpent
<1> QED
  BY <1>1, <1>2, <1>3, <1>4, <1>5, <1>6, <1>7, <1>8 DEF Next

-----------------------------------------------------------------------------
(* Which ids are where *)

\* What a queue gives away, takes in and repeats.
LEMMA RangeOfTail ==
  ASSUME NEW S, NEW s \in Seq(S), s # <<>>
  PROVE  Range(s) = {Head(s)} \cup Range(Tail(s))
<1>1. Len(s) \in Nat \ {0} /\ DOMAIN s = 1 .. Len(s) /\ Head(s) = s[1]
  OBVIOUS
<1>2. DOMAIN Tail(s) = 1 .. Len(s) - 1 /\ \A k \in 1 .. Len(s) - 1 : Tail(s)[k] = s[k + 1]
  OBVIOUS
<1>3. \A k \in 1 .. Len(s) : k = 1 \/ (k - 1 \in 1 .. Len(s) - 1 /\ s[k] = Tail(s)[k - 1])
  BY <1>1, <1>2
<1>4. \A x \in Range(s) : x \in {Head(s)} \cup Range(Tail(s))
  <2> TAKE x \in Range(s)
  <2>1. PICK k \in 1 .. Len(s) : x = s[k]
    BY <1>1 DEF Range
  <2>2. CASE k = 1
    BY <2>1, <2>2, <1>1
  <2>3. CASE k - 1 \in 1 .. Len(s) - 1 /\ s[k] = Tail(s)[k - 1]
    BY <2>1, <2>3, <1>2 DEF Range
  <2> QED
    BY <2>1, <2>2, <2>3, <1>3
<1>5. \A x \in Range(Tail(s)) : x \in Range(s)
  <2>1. \A k \in 1 .. Len(s) - 1 : k + 1 \in 1 .. Len(s)
    BY <1>1
  <2> QED
    BY <2>1, <1>1, <1>2 DEF Range
<1>6. Head(s) \in Range(s)
  BY <1>1 DEF Range
<1> QED
  BY <1>4, <1>5, <1>6

LEMMA RangeOfAppend ==
  ASSUME NEW S, NEW s \in Seq(S), NEW x \in S
  PROVE  Range(Append(s, x)) = Range(s) \cup {x}
<1>1. Len(s) \in Nat /\ DOMAIN s = 1 .. Len(s) /\ DOMAIN Append(s, x) = 1 .. Len(s) + 1
  OBVIOUS
<1>2. \A k \in 1 .. Len(s) + 1 : Append(s, x)[k] = IF k = Len(s) + 1 THEN x ELSE s[k]
  OBVIOUS
<1> QED
  BY <1>1, <1>2 DEF Range

\* Every chunk and every coming output callback of the browser decoder.
InBrowser == Range(inputQ) \cup held \cup Range(outputs)

\* reset() only empties.
LEMMA JsResetTakesNone ==
  ASSUME JsReset
  PROVE  Range(inputQ') \subseteq Range(inputQ) /\ held' \subseteq held
BY DEF JsReset, JsAbandon, codecVars, Range

\* The next output callback takes its output off the line.
LEMMA OutputOffTheLine ==
  ASSUME TypeOK, NEW id, OutputOf(id)
  PROVE  Range(outputs) = {id} \cup Range(outputs')
BY RangeOfTail DEF OutputOf, TypeOK, JsTypeOK

\* Chunks enter the browser decoder by send_packet alone, and of the ids it
\* holds a step makes no new one.
LEMMA BrowserGains ==
  ASSUME TypeOK, [Next]_vars
  PROVE  \/ InBrowser' \subseteq InBrowser
         \/ /\ \E bytes \in PacketBytes[nextSubmissionId] : SendAccepted(bytes)
            /\ InBrowser' = InBrowser \cup {nextSubmissionId}
<1> SUFFICES ASSUME \A bytes \in PacketBytes[nextSubmissionId] : ~SendAccepted(bytes)
             PROVE  InBrowser' \subseteq InBrowser
  <2>1. ASSUME NEW bytes \in PacketBytes[nextSubmissionId], SendAccepted(bytes)
        PROVE  InBrowser' = InBrowser \cup {nextSubmissionId}
    <3>1. /\ inputQ \in Seq(Nat) /\ nextSubmissionId \in Nat
          /\ inputQ' = Append(inputQ, nextSubmissionId)
          /\ UNCHANGED <<held, outputs>>
      BY <2>1 DEF SendAccepted, JsDecode, SendReturns, TypeOK, StateTypeOK, JsTypeOK
    <3> QED
      BY <3>1, RangeOfAppend DEF InBrowser
  <2> QED
    BY <2>1
<1> USE DEF InBrowser
<1>1. CASE SendPacket \/ SendCancelled
  <2>1. CASE SendRefused \/ SendMustDrain \/ SendCancelled \/ SendParks
    BY <2>1 DEF SendRefused, SendMustDrain, SendCancelled, SendParks, SendReturns,
                codecVars, jsVars
  <2>2. CASE \E bytes \in PacketBytes[nextSubmissionId], built \in BOOLEAN : SendThrows(bytes, built)
    BY <2>2 DEF SendThrows, SendReturns, codecVars
  <2>3. CASE \E bytes \in PacketBytes[nextSubmissionId] :
               SendClosesOnRecords(bytes) \/ \E a \in BOOLEAN : SendClosesOnInput(bytes, a)
    <3>1. JsReset /\ outputs' = outputs
      BY <2>3 DEF SendClosesOnRecords, SendClosesOnInput, SendReturns, FatalClose
    <3> QED
      BY <3>1, JsResetTakesNone
  <2> QED
    BY <1>1, <2>1, <2>2, <2>3 DEF SendPacket
<1>2. CASE ReceiveFrame \/ ReceiveCancelled
  BY <1>2 DEF ReceiveFrame, ReceiveCancelled, ReceiveClosed, ReceiveProduced, ReceiveDry,
              ReceiveParks, ReceiveReturns, jsVars
<1>3. CASE SendEof \/ EofCancelled
  <2>1. CASE EofClosed \/ EofAwaits \/ EofCompletes
    BY <2>1 DEF EofClosed, EofAwaits, EofCompletes, JsFlush, codecVars, jsVars
  <2>2. CASE EofRejected \/ EofCancelled
    BY <2>2, JsResetTakesNone DEF EofRejected, EofCancelled, EofGuardFires
  <2> QED
    BY <1>3, <2>1, <2>2 DEF SendEof
<1>4. CASE Flush \/ Drop
  <2>1. CASE FlushReopens
    BY <2>1 DEF FlushReopens, JsAbandon, Range
  <2>2. CASE FlushFails
    BY <2>2, JsResetTakesNone DEF FlushFails
  <2>3. CASE Drop
    BY <2>3 DEF Drop, Range
  <2> QED
    BY <1>4, <2>1, <2>2, <2>3 DEF Flush
<1>5. CASE OutputCallback \/ ErrorCallback \/ DequeueCallback
  <2>1. CASE \E id \in 0 .. MaxPackets : OutputIgnored(id)
    BY <2>1, OutputOffTheLine DEF OutputIgnored, codecVars
  <2>2. CASE \E id \in 0 .. MaxPackets : \E kind : OutputCloses(id, kind)
    BY <2>2, OutputOffTheLine, JsResetTakesNone DEF OutputCloses, FatalClose
  <2>3. CASE \E id \in 0 .. MaxPackets, bytes \in FrameBytes : OutputAdmitted(id, bytes)
    BY <2>3, OutputOffTheLine DEF OutputAdmitted, codecVars
  <2>4. CASE ErrorCallback
    BY <2>4 DEF ErrorCallback, JsAbandon, Range
  <2>5. CASE DequeueCallback
    BY <2>5 DEF DequeueCallback
  <2> QED
    BY <1>5, <2>1, <2>2, <2>3, <2>4, <2>5
    DEF OutputCallback, OutputUnmatched, OutputUnmeasured, OutputRefused
<1>6. CASE \E c \in copies : CopyTask(c)
  <2>1. PICK c \in copies : CopyTask(c)
    BY <1>6
  <2>2. CASE CopyStarts(c) \/ CopyDiscarded(c) \/ CopyDelivered(c)
    BY <2>2 DEF CopyStarts, CopyDiscarded, CopyDelivered, CopyEnds, jsVars, codecVars
  <2>3. CASE CopyOverflows(c) \/ \E copied \in BOOLEAN : CopyFails(c, copied)
    BY <2>3, JsResetTakesNone DEF CopyOverflows, CopyFails, CopyEnds, FatalClose
  <2> QED
    BY <2>1, <2>2, <2>3 DEF CopyTask
<1>7. CASE CodecTakes
  <2>1. Range(inputQ) = {Head(inputQ)} \cup Range(inputQ')
    BY <1>7, RangeOfTail DEF CodecTakes, JsDequeue, TypeOK, JsTypeOK
  <2> QED
    BY <1>7, <2>1 DEF CodecTakes, JsDequeue
<1>8. CASE CodecEmits
  <2>1. PICK id \in held, frames \in 0 .. 2 : JsEmit(id, frames)
    BY <1>8 DEF CodecEmits
  <2>2. id \in Nat /\ outputs \in Seq(Nat) /\ frames \in Nat
    BY DEF TypeOK, JsTypeOK
  <2>3. [k \in 1 .. frames |-> id] \in Seq(Nat)
    BY <2>2
  <2>4. Range([k \in 1 .. frames |-> id]) \subseteq {id}
    BY DEF Range
  <2> DEFINE frame == [k \in 1 .. frames |-> id]
  <2>5. Range(outputs') \subseteq Range(outputs) \cup {id}
    <3>1. outputs' = outputs \o frame
      BY <2>1 DEF JsEmit
    <3> HIDE DEF frame
    <3>2. Range(outputs \o frame) = Range(outputs) \cup Range(frame)
      BY <2>2, <2>3, RangeConcatenation DEF frame
    <3> QED
      BY <3>1, <3>2, <2>4 DEF frame
  <2> QED
    BY <2>1, <2>5 DEF JsEmit
<1>9. CASE FlushSettles
  BY <1>9 DEF FlushSettles, JsFlushDone
<1>10. CASE UNCHANGED vars
  BY <1>10 DEF vars, jsVars
<1> QED
  BY <1>1, <1>2, <1>3, <1>4, <1>5, <1>6, <1>7, <1>8, <1>9, <1>10 DEF Next

(***************************************************************************)
(* ReopensFresh needs to know of every id that is about how it compares    *)
(* with the next one, and of the records whose generation they are of: one *)
(* record per id, all of this generation, none below the floor.            *)
(***************************************************************************)
IdsInv ==
  /\ epochIdFloor <= nextSubmissionId
  /\ nextSubmissionId <= MaxPackets
  /\ \A id \in InBrowser : id < nextSubmissionId
  /\ \A r \in pendingOutputs :
       r.epoch = epoch /\ epochIdFloor <= r.id /\ r.id < nextSubmissionId
  /\ \A q, r \in pendingOutputs : q.id = r.id => q = r

\* An opened decoder has spent no id.
LEMMA IdsInit == Init => IdsInv
BY VideoAssumption DEF Init, JsInit, StateInit, IdsInv, InBrowser, Range

\* Every step preserves IdsInv.
LEMMA IdsStep == TypeOK /\ IdsInv /\ [Next]_vars => IdsInv'
<1> SUFFICES ASSUME TypeOK, IdsInv, [Next]_vars PROVE IdsInv'
  OBVIOUS
<1> DEFINE n == nextSubmissionId
           m == nextSubmissionId'
<1>1. /\ n \in Nat /\ epoch \in Nat /\ epochIdFloor \in Nat /\ MaxPackets \in Nat
      /\ InBrowser \subseteq Nat
  <2>1. inputQ \in Seq(Nat) /\ outputs \in Seq(Nat) /\ held \in SUBSET Nat
    BY DEF TypeOK, JsTypeOK
  <2>2. Range(inputQ) \subseteq Nat /\ Range(outputs) \subseteq Nat
    BY <2>1 DEF Range
  <2> QED
    BY <2>1, <2>2, VideoAssumption DEF TypeOK, StateTypeOK, InBrowser
<1>2. \A r \in pendingOutputs : r.id \in Nat
  BY DEF TypeOK, StateTypeOK, Record
<1>3. n <= MaxPackets /\ epochIdFloor <= n /\ \A id \in InBrowser : id < n
  BY DEF IdsInv
<1>4. m = n \/ (m = n + 1 /\ n < MaxPackets)
  BY StepKinds
  DEF StartsOver, BuffersStand, IdsSpent, SendAccepted, SpendId, HasRoom, ReceiveProduced,
      ReceiveReturns, OutputAdmitted, CopyStarts, CopyDiscarded, CopyDelivered, CopyEnds,
      idVars
<1>5. m \in Nat /\ m >= n /\ m <= MaxPackets
  BY <1>1, <1>3, <1>4
<1>6. \A id \in InBrowser' : id < m
  <2>1. CASE InBrowser' \subseteq InBrowser
    BY <2>1, <1>1, <1>3, <1>5
  <2>2. CASE /\ \E bytes \in PacketBytes[nextSubmissionId] : SendAccepted(bytes)
             /\ InBrowser' = InBrowser \cup {nextSubmissionId}
    <3>1. m = n + 1
      BY <2>2 DEF SendAccepted, SpendId
    <3> QED
      BY <3>1, <2>2, <1>1, <1>3
  <2> QED
    BY <2>1, <2>2, BrowserGains
<1>7. CASE StartsOver
  <2>1. pendingOutputs' = {} /\ epochIdFloor' \in {epochIdFloor, n}
    BY <1>7 DEF StartsOver, ClearGeneration
  <2> QED
    BY <2>1, <1>1, <1>3, <1>5, <1>6 DEF IdsInv
<1>8. CASE /\ pendingOutputs' \subseteq pendingOutputs
           /\ UNCHANGED <<epoch, epochIdFloor>>
  BY <1>8, <1>1, <1>2, <1>3, <1>5, <1>6 DEF IdsInv
<1>9. ASSUME NEW bytes \in PacketBytes[nextSubmissionId], SendAccepted(bytes)
      PROVE  IdsInv'
  <2> DEFINE r == [id |-> n, epoch |-> epoch, bytes |-> bytes]
  <2>1. /\ pendingOutputs' = pendingOutputs \cup {r}
        /\ UNCHANGED <<epoch, epochIdFloor>>
        /\ m = n + 1
    BY <1>9 DEF SendAccepted, InsertPendingOutput, SendReturns, SpendId
  <2>2. r.id = n /\ r.epoch = epoch
    OBVIOUS
  <2> HIDE DEF r
  <2>3. \A q \in pendingOutputs : q.id # n
    BY <1>1, <1>2 DEF IdsInv
  <2> QED
    BY <2>1, <2>2, <2>3, <1>1, <1>2, <1>3, <1>5, <1>6 DEF IdsInv
<1> QED
  BY <1>7, <1>8, <1>9, StepKinds
  DEF BuffersStand, ClearPendingOutputs, RemovePendingOutput, recordVars, ReceiveProduced,
      ReceiveReturns, OutputAdmitted, CopyStarts, CopyDiscarded, CopyDelivered, CopyEnds,
      idVars

\* The ids in sight, in every reachable state.
LEMMA IdsAlways == Spec => [](TypeOK /\ ReorderInv /\ IdsInv)
BY TypeInit, TypeStep, ReorderInit, ReorderStep, IdsInit, IdsStep, PTL DEF Spec

\* A step that takes an adapter out of the closed state is flush() reopening it.
LEMMA OnlyFlushReopens ==
  ASSUME [Next]_vars, IsClosed, lastError' = NoError
  PROVE  FlushReopens
<1>1. lastError # NoError
  BY DEF IsClosed
<1>2. \A kind \in ErrorKinds : ~RecordClose(kind)
  BY DEF RecordClose, IsClosed
<1>3. ~ UNCHANGED lastError
  BY <1>1
<1>4. ~(SendPacket \/ SendCancelled)
  BY <1>2, <1>3
  DEF SendPacket, SendCancelled, SendRefused, SendMustDrain, SendParks, SendClosesOnInput,
      SendThrows, SendClosesOnRecords, SendAccepted, FatalClose, ErrorKinds
<1>5. ~(ReceiveFrame \/ ReceiveCancelled)
  BY <1>3
  DEF ReceiveFrame, ReceiveCancelled, ReceiveClosed, ReceiveProduced, ReceiveDry,
      ReceiveParks, ReceiveReturns
<1>6. ~(SendEof \/ EofCancelled)
  BY <1>2, <1>3
  DEF SendEof, EofClosed, EofAwaits, EofCompletes, EofRejected, EofCancelled,
      EofGuardFires, ErrorKinds
<1>7. ~FlushFails /\ ~Drop
  BY <1>2, <1>3 DEF FlushFails, Drop, ErrorKinds
<1>8. ~(OutputCallback \/ ErrorCallback \/ DequeueCallback)
  BY <1>2, <1>3
  DEF OutputCallback, OutputIgnored, OutputUnmatched, OutputUnmeasured, OutputRefused,
      OutputCloses, OutputAdmitted, ErrorCallback, DequeueCallback, FatalClose, ErrorKinds
<1>9. ~ \E c \in copies : CopyTask(c)
  BY <1>2, <1>3
  DEF CopyTask, CopyStarts, CopyDiscarded, CopyFails, CopyOverflows, CopyDelivered,
      FatalClose, ErrorKinds
<1>10. ~(CodecTakes \/ CodecEmits \/ FlushSettles)
  BY <1>3 DEF CodecTakes, CodecEmits, FlushSettles, adapterVars
<1>11. ~ UNCHANGED vars
  BY <1>3 DEF vars
<1> QED
  BY <1>4, <1>5, <1>6, <1>7, <1>8, <1>9, <1>10, <1>11 DEF Next, Flush

(***************************************************************************)
(* No close wears off: only flush() takes an adapter out of the closed     *)
(* state, and what is still under way from before is then told apart - any *)
(* copy task by its epoch, any output callback by the id floor - whatever  *)
(* was in flight when it closed.                                           *)
(***************************************************************************)
THEOREM ReopeningIsFresh == Spec => ReopensFresh
<1> DEFINE Fresh ==
      IsClosed /\ lastError' = NoError =>
        /\ dec' = "configured" /\ ~eof'
        /\ \A c \in copies' : c.epoch < epoch'
        /\ \A k \in 1 .. Len(outputs') : outputs'[k] < epochIdFloor'
<1>1. TypeOK /\ ReorderInv /\ IdsInv /\ [Next]_vars => [Fresh]_vars
  <2> SUFFICES ASSUME TypeOK, ReorderInv, IdsInv, [Next]_vars, IsClosed,
                      lastError' = NoError
               PROVE  Fresh
    OBVIOUS
  <2>1. FlushReopens
    BY OnlyFlushReopens
  <2>2. /\ epoch' = epoch + 1 /\ epochIdFloor' = nextSubmissionId
        /\ UNCHANGED <<copies, outputs>>
        /\ dec' = "configured" /\ ~eof'
    BY <2>1 DEF FlushReopens, BumpEpoch
  <2>3. \A c \in copies : c.epoch < epoch + 1
    BY DEF ReorderInv, TypeOK, StateTypeOK, Copy
  <2>4. \A k \in 1 .. Len(outputs) : outputs[k] < nextSubmissionId
    <3>1. \A k \in 1 .. Len(outputs) : outputs[k] \in InBrowser
      BY DEF InBrowser, Range, TypeOK, JsTypeOK
    <3> QED
      BY <3>1 DEF IdsInv
  <2> QED
    BY <2>2, <2>3, <2>4
<1>2. Spec => [][Fresh]_vars
  BY <1>1, IdsAlways, PTL DEF Spec
<1> QED
  BY <1>2 DEF ReopensFresh

-----------------------------------------------------------------------------
(* The stream leaves in order *)

(***************************************************************************)
(* Copies are told apart by generation and sequence - also after a close,  *)
(* which numbers from 0 again but admits nothing - so the counter of live  *)
(* tasks is their number.                                                  *)
(***************************************************************************)
CopiesInv ==
  /\ pendingCopies = Cardinality(copies)
  /\ \A c, d \in copies : c.epoch = d.epoch /\ c.seq = d.seq => c = d

\* An opened decoder has spawned no task.
LEMMA CopiesInit == Init => CopiesInv
BY FS_EmptySet DEF Init, StateInit, CopiesInv

\* Ending a task takes one off the counter.
LEMMA CopiesEnd ==
  ASSUME TypeOK, CopiesInv, NEW c \in copies, CopyEnds(c)
  PROVE  CopiesInv'
<1>1. IsFiniteSet(copies) /\ Cardinality(copies) \in Nat
  BY FS_CardinalityType DEF TypeOK
<1>2. Cardinality(copies \ {c}) = Cardinality(copies) - 1
  BY <1>1, FS_RemoveElement
<1>3. Cardinality(copies) # 0
  BY <1>1, FS_EmptySet
<1>4. copies' = copies \ {c} /\ pendingCopies' = SatSub(pendingCopies, 1)
  BY DEF CopyEnds, SubPendingCopy
<1> QED
  BY <1>1, <1>2, <1>3, <1>4 DEF CopiesInv, SatSub

\* A task that starts copying is still the same task.
LEMMA CopiesStart ==
  ASSUME TypeOK, CopiesInv, NEW c \in copies, CopyStarts(c)
  PROVE  CopiesInv'
<1> DEFINE d == [c EXCEPT !.stage = "copying"]
<1>1. c \in Copy /\ c.stage = "spawned"
  BY DEF TypeOK, CopyStarts
<1>2. d.seq = c.seq /\ d.epoch = c.epoch /\ d # c
  <2>1. d.stage = "copying"
    BY <1>1 DEF Copy
  <2> QED
    BY <2>1, <1>1 DEF Copy
<1>3. copies' = (copies \ {c}) \cup {d} /\ pendingCopies' = pendingCopies
  BY DEF CopyStarts, copyCounters
<1> HIDE DEF d
<1>4. d \notin copies
  BY <1>2 DEF CopiesInv
<1>5. IsFiniteSet(copies) /\ Cardinality(copies) \in Nat
  BY FS_CardinalityType DEF TypeOK
<1>6. IsFiniteSet(copies \ {c}) /\ Cardinality(copies \ {c}) = Cardinality(copies) - 1
  BY <1>5, FS_RemoveElement
<1>7. Cardinality((copies \ {c}) \cup {d}) = Cardinality(copies \ {c}) + 1
  BY <1>4, <1>6, FS_AddElement
<1>8. Cardinality(copies') = Cardinality(copies)
  BY <1>3, <1>5, <1>6, <1>7
<1>9. \A x, y \in copies' : x.epoch = y.epoch /\ x.seq = y.seq => x = y
  BY <1>2, <1>3 DEF CopiesInv
<1> QED
  BY <1>3, <1>8, <1>9 DEF CopiesInv

\* The sequence a new copy takes is that of no other copy of its generation.
LEMMA CopyIsNew ==
  ASSUME TypeOK, ReorderInv, ~IsClosed, NEW c \in copies, c.epoch = epoch
  PROVE  c.seq # nextOutputSeq
<1>1. c.seq \in Awaited
  BY DEF ReorderInv, LiveCopies, Stale
<1> QED
  BY <1>1 DEF Awaited, TypeOK, StateTypeOK

LEMMA CopiesAdmit ==
  ASSUME TypeOK, ReorderInv, CopiesInv, NEW id \in 0 .. MaxPackets,
         NEW bytes \in FrameBytes, OutputAdmitted(id, bytes)
  PROVE  CopiesInv'
<1> DEFINE c == [id |-> id, epoch |-> epoch, seq |-> nextOutputSeq, bytes |-> bytes,
                 stage |-> "spawned"]
<1>1. ~IsClosed /\ copies' = copies \cup {c} /\ pendingCopies' = pendingCopies + 1
  BY DEF OutputAdmitted, Unwanted, AddPendingCopy
<1>2. c.epoch = epoch /\ c.seq = nextOutputSeq
  OBVIOUS
<1> HIDE DEF c
<1>3. \A d \in copies : ~(d.epoch = c.epoch /\ d.seq = c.seq)
  BY <1>1, <1>2, CopyIsNew
<1>4. IsFiniteSet(copies) /\ Cardinality(copies \cup {c}) = Cardinality(copies) + 1
  BY <1>3, FS_AddElement DEF TypeOK
<1> QED
  BY <1>1, <1>3, <1>4 DEF CopiesInv

\* Every step preserves CopiesInv.
LEMMA CopiesStep == TypeOK /\ ReorderInv /\ CopiesInv /\ [Next]_vars => CopiesInv'
<1> SUFFICES ASSUME TypeOK, ReorderInv, CopiesInv, [Next]_vars PROVE CopiesInv'
  OBVIOUS
<1>1. CASE UNCHANGED <<copies, copyCounters>>
  BY <1>1 DEF CopiesInv, copyCounters
<1> QED
  BY <1>1, StepKinds, CopiesEnd, CopiesStart, CopiesAdmit
  DEF StartsOver, BuffersStand, SendAccepted, SendReturns, ReceiveProduced,
      ReceiveReturns, CopyDiscarded, CopyDelivered

(***************************************************************************)
(* What OutputOrder needs to be preserved: an id is output once in a       *)
(* generation, for the record it takes with it is the only one.            *)
(***************************************************************************)
OrderInv ==
  /\ Len(admitted) = nextOutputSeq
  /\ delivered \o Ids(queue) = SubSeq(admitted, 1, nextPushSeq)
  /\ \A p \in pendingPushes \cup LiveCopies : p.id = admitted[p.seq + 1]
  /\ \A k \in 1 .. Len(admitted) :
       epochIdFloor <= admitted[k] /\ admitted[k] < nextSubmissionId
  /\ \A j, k \in 1 .. Len(admitted) : admitted[j] = admitted[k] => j = k
  /\ \A r \in pendingOutputs : \A k \in 1 .. Len(admitted) : r.id # admitted[k]

\* The inductive form implies the property the runs check.
LEMMA OrderSuffices ==
  ASSUME TypeOK, ReorderInv, OrderInv
  PROVE  OutputOrder
<1>1. \A p \in pendingPushes \cup LiveCopies : p.seq < nextOutputSeq
  BY DEF ReorderInv, Awaited, TypeOK, StateTypeOK
<1> QED
  BY <1>1 DEF OrderInv, OutputOrder

\* Ids of a run of frames, and of the empty one.
LEMMA IdsType ==
  ASSUME NEW frames \in Seq(Frame)
  PROVE  /\ Ids(frames) \in Seq(Nat)
         /\ Len(Ids(frames)) = Len(frames)
         /\ \A k \in 1 .. Len(frames) : Ids(frames)[k] = frames[k].id
<1>1. Len(frames) \in Nat /\ \A k \in 1 .. Len(frames) : frames[k] \in Frame
  OBVIOUS
<1>2. \A k \in 1 .. Len(frames) : frames[k].id \in Nat
  BY <1>1 DEF Frame
<1>3. Ids(frames) \in [1 .. Len(frames) -> Nat]
  BY <1>2 DEF Ids
<1>4. Ids(frames) \in Seq(Nat) /\ Len(Ids(frames)) = Len(frames)
  BY <1>1, <1>3
<1> QED
  BY <1>4 DEF Ids

\* The ids of what is left when the first frame is taken off the queue.
LEMMA IdsPop ==
  ASSUME NEW frames \in Seq(Frame), frames # <<>>
  PROVE  /\ Ids(frames) \in Seq(Nat) /\ Ids(frames) # <<>>
         /\ Head(Ids(frames)) = Head(frames).id
         /\ Tail(Ids(frames)) = Ids(Tail(frames))
<1> DEFINE n == Len(frames)
<1>1. /\ n \in Nat \ {0} /\ Tail(frames) \in Seq(Frame) /\ Len(Tail(frames)) = n - 1
      /\ Head(frames) = frames[1]
      /\ \A k \in 1 .. n - 1 : Tail(frames)[k] = frames[k + 1]
  OBVIOUS
<1>2. /\ Ids(frames) \in Seq(Nat) /\ Len(Ids(frames)) = n
      /\ \A k \in 1 .. n : Ids(frames)[k] = frames[k].id
  BY IdsType
<1>3. /\ Ids(Tail(frames)) \in Seq(Nat) /\ Len(Ids(Tail(frames))) = n - 1
      /\ \A k \in 1 .. n - 1 : Ids(Tail(frames))[k] = Tail(frames)[k].id
  BY <1>1, IdsType
<1> HIDE DEF n
<1>4. Ids(frames) # <<>> /\ Head(Ids(frames)) = Head(frames).id
  BY <1>1, <1>2
<1>5. /\ Tail(Ids(frames)) \in Seq(Nat) /\ Len(Tail(Ids(frames))) = n - 1
      /\ \A k \in 1 .. n - 1 : Tail(Ids(frames))[k] = Ids(frames)[k + 1]
  BY <1>1, <1>2, <1>4
<1>6. \A k \in 1 .. n - 1 : Tail(Ids(frames))[k] = Ids(Tail(frames))[k]
  <2> TAKE k \in 1 .. n - 1
  <2>1. k + 1 \in 1 .. n
    BY <1>1
  <2>2. Ids(frames)[k + 1] = frames[k + 1].id /\ Tail(frames)[k] = frames[k + 1]
    BY <2>1, <1>1, <1>2
  <2> QED
    BY <2>2, <1>3, <1>5
<1> QED
  BY <1>2, <1>3, <1>4, <1>5, <1>6, SeqEqual

\* The ids of one run of frames after another.
LEMMA IdsConcat ==
  ASSUME NEW a \in Seq(Frame), NEW b \in Seq(Frame)
  PROVE  Ids(a \o b) = Ids(a) \o Ids(b)
<1> DEFINE s == Ids(a)
           t == Ids(b)
<1>1. /\ Len(a) \in Nat /\ Len(b) \in Nat
      /\ a \o b \in Seq(Frame) /\ Len(a \o b) = Len(a) + Len(b)
      /\ \A k \in 1 .. Len(a) + Len(b) :
           (a \o b)[k] = IF k <= Len(a) THEN a[k] ELSE b[k - Len(a)]
  BY ConcatProperties
<1>2. /\ s \in Seq(Nat) /\ Len(s) = Len(a) /\ \A k \in 1 .. Len(a) : s[k] = a[k].id
      /\ t \in Seq(Nat) /\ Len(t) = Len(b) /\ \A k \in 1 .. Len(b) : t[k] = b[k].id
  BY IdsType
<1>3. /\ Ids(a \o b) \in Seq(Nat) /\ Len(Ids(a \o b)) = Len(a) + Len(b)
      /\ \A k \in 1 .. Len(a) + Len(b) : Ids(a \o b)[k] = (a \o b)[k].id
  BY <1>1, IdsType
<1> HIDE DEF s, t
<1>4. /\ s \o t \in Seq(Nat) /\ Len(s \o t) = Len(a) + Len(b)
      /\ \A k \in 1 .. Len(a) + Len(b) :
           (s \o t)[k] = IF k <= Len(a) THEN s[k] ELSE t[k - Len(a)]
  BY <1>2, ConcatProperties
<1>5. \A k \in 1 .. Len(a) + Len(b) : Ids(a \o b)[k] = (s \o t)[k]
  <2> TAKE k \in 1 .. Len(a) + Len(b)
  <2>1. CASE k <= Len(a)
    <3>1. k \in 1 .. Len(a)
      BY <2>1, <1>1
    <3> QED
      BY <2>1, <3>1, <1>1, <1>2, <1>3, <1>4
  <2>2. CASE ~(k <= Len(a))
    <3>1. k - Len(a) \in 1 .. Len(b)
      BY <2>2, <1>1
    <3> QED
      BY <2>2, <3>1, <1>1, <1>2, <1>3, <1>4
  <2> QED
    BY <2>1, <2>2
<1>6. Ids(a \o b) = s \o t
  BY <1>3, <1>4, <1>5, SeqEqual
<1> QED
  BY <1>6 DEF s, t

\* Moving the first element of one sequence to the end of another.
LEMMA HeadMoves ==
  ASSUME NEW S, NEW d \in Seq(S), NEW s \in Seq(S), s # <<>>
  PROVE  Append(d, Head(s)) \o Tail(s) = d \o s
<1>1. Head(s) \in S /\ Tail(s) \in Seq(S) /\ <<Head(s)>> \in Seq(S)
  OBVIOUS
<1>2. <<Head(s)>> \o Tail(s) = s
  BY <1>1
<1>3. Append(d, Head(s)) = d \o <<Head(s)>>
  BY <1>1, AppendIsConcat
<1>4. \A t, u \in Seq(S) : (d \o t) \o u = d \o (t \o u)
  BY ConcatAssociative
<1> QED
  BY <1>1, <1>2, <1>3, <1>4, Zenon

\* The equation of the first clause when nothing has come out.
LEMMA NothingDelivered ==
  /\ Len(<<>>) = 0
  /\ <<>> \o Ids(<<>>) = SubSeq(<<>>, 1, 0)
<1>1. Ids(<<>>) = <<>>
  BY DEF Ids
<1>2. <<>> \o <<>> = <<>>
  BY NoneYet
<1>3. SubSeq(<<>>, 1, 0) = <<>>
  BY NoneYet
<1> QED
  BY <1>1, <1>2, <1>3

\* An opened decoder has nothing in order.
LEMMA OrderInit == Init => OrderInv
BY NothingDelivered DEF Init, StateInit, LiveCopies, Stale, OrderInv

\* A close, or a new generation.
LEMMA OrderStartsOver ==
  ASSUME TypeOK, ReorderInv, StartsOver
  PROVE  OrderInv'
<1>1. epoch \in Nat /\ \A c \in copies : c.epoch \in Nat /\ c.epoch <= epoch
  BY DEF TypeOK, StateTypeOK, ReorderInv, Copy
<1>2. copies' \subseteq copies
  BY DEF StartsOver, CopyEnds
<1>3. IsClosed' \/ epoch' = epoch + 1
  BY DEF StartsOver
<1>4. LiveCopies' = {}
  BY <1>1, <1>2, <1>3 DEF LiveCopies, Stale
<1>5. /\ queue' = <<>> /\ pendingPushes' = {} /\ nextPushSeq' = 0 /\ nextOutputSeq' = 0
      /\ admitted' = <<>> /\ delivered' = <<>>
  BY DEF StartsOver, ClearGeneration, ForgetHistory
<1> QED
  BY <1>4, <1>5, NothingDelivered DEF OrderInv

\* A new record is that of an id no output has had yet; settled ones only go.
LEMMA OrderRecords ==
  ASSUME TypeOK, IdsInv, OrderInv,
         UNCHANGED <<queue, lastError, epochIdFloor, epoch, pushVars, copies, history>>,
         nextSubmissionId' \in Nat, nextSubmissionId' >= nextSubmissionId,
         \A r \in pendingOutputs' : r \in pendingOutputs \/ r.id = nextSubmissionId
  PROVE  OrderInv'
<1>1. UNCHANGED <<admitted, delivered, nextPushSeq, nextOutputSeq, pendingPushes>>
  BY DEF pushVars, history
<1>2. LiveCopies' = LiveCopies
  BY DEF LiveCopies, IsClosed, Stale
<1>3. Ids(queue)' = Ids(queue)
  BY DEF Ids
<1>4. admitted \in Seq(Nat) /\ nextSubmissionId \in Nat /\ epochIdFloor \in Nat
  BY DEF TypeOK, StateTypeOK
<1>5. \A k \in 1 .. Len(admitted) : admitted[k] \in Nat /\ admitted[k] < nextSubmissionId
  BY <1>4 DEF OrderInv
<1>6. \A k \in 1 .. Len(admitted) : admitted[k] < nextSubmissionId' /\ admitted[k] # nextSubmissionId
  BY <1>4, <1>5
<1>7. \A r \in pendingOutputs' : \A k \in 1 .. Len(admitted) : r.id # admitted[k]
  BY <1>6 DEF OrderInv
<1> QED
  BY <1>1, <1>2, <1>3, <1>6, <1>7 DEF OrderInv

\* The frame receive_frame takes off the queue is the next one delivered.
LEMMA OrderProduces ==
  ASSUME TypeOK, OrderInv, ReceiveProduced
  PROVE  OrderInv'
<1>1. /\ queue \in Seq(Frame) /\ queue # <<>> /\ delivered \in Seq(Nat)
      /\ delivered' = Append(delivered, Head(queue).id) /\ queue' = Tail(queue)
      /\ UNCHANGED <<lastError, epochIdFloor, epoch, nextPushSeq, nextOutputSeq,
                     pendingPushes, copies, admitted, pendingOutputs, nextSubmissionId>>
  BY DEF TypeOK, StateTypeOK, ReceiveProduced, PopQueue, ReceiveReturns, recordVars,
         idVars, pushVars
<1>2. LiveCopies' = LiveCopies
  BY <1>1 DEF LiveCopies, IsClosed, Stale
<1>3. delivered' \o Ids(queue') = delivered \o Ids(queue)
  <2>1. /\ Ids(queue) \in Seq(Nat) /\ Ids(queue) # <<>>
        /\ Head(Ids(queue)) = Head(queue).id /\ Tail(Ids(queue)) = Ids(Tail(queue))
    BY <1>1, IdsPop
  <2> QED
    BY <1>1, <2>1, HeadMoves
<1> QED
  BY <1>1, <1>2, <1>3 DEF OrderInv, Ids

\* An admitted output is the last so far, and the first with its id.
LEMMA OrderAdmits ==
  ASSUME TypeOK, ReorderInv, IdsInv, OrderInv, NEW id \in 0 .. MaxPackets,
         NEW bytes \in FrameBytes, OutputAdmitted(id, bytes)
  PROVE  OrderInv'
<1> DEFINE c == [id |-> id, epoch |-> epoch, seq |-> nextOutputSeq, bytes |-> bytes,
                 stage |-> "spawned"]
<1>1. /\ ~IsClosed
      /\ copies' = copies \cup {c}
      /\ admitted' = Append(admitted, id) /\ nextOutputSeq' = nextOutputSeq + 1
      /\ UNCHANGED <<queue, lastError, epochIdFloor, epoch, nextPushSeq, pendingPushes,
                     nextSubmissionId, delivered>>
  BY DEF OutputAdmitted, Unwanted, queueVars, idVars
<1>2. c.id = id /\ c.seq = nextOutputSeq /\ c.epoch = epoch
  OBVIOUS
<1> HIDE DEF c
<1>3. PICK r \in pendingOutputs : r.id = id /\ pendingOutputs' = pendingOutputs \ {r}
  BY DEF OutputAdmitted, RecordOf, RemovePendingOutput
<1>4. epochIdFloor <= id /\ id < nextSubmissionId
  BY <1>3 DEF IdsInv
<1>5. \A k \in 1 .. Len(admitted) : admitted[k] # id
  BY <1>3 DEF OrderInv
<1>6. \A q \in pendingOutputs' : q \in pendingOutputs /\ q.id # id
  BY <1>3 DEF IdsInv
<1>7. /\ admitted \in Seq(Nat) /\ id \in Nat
      /\ nextPushSeq \in Nat /\ nextOutputSeq \in Nat
      /\ Len(admitted) = nextOutputSeq /\ nextPushSeq <= nextOutputSeq
  BY VideoAssumption DEF TypeOK, StateTypeOK, OrderInv, ReorderInv
<1>8. /\ Len(admitted') = nextOutputSeq + 1
      /\ admitted'[nextOutputSeq + 1] = id
      /\ \A k \in 1 .. nextOutputSeq : admitted'[k] = admitted[k]
  BY <1>1, <1>7
<1>9. SubSeq(admitted', 1, nextPushSeq) = SubSeq(admitted, 1, nextPushSeq)
  BY <1>1, <1>7, <1>8
<1>10. LiveCopies' = LiveCopies \cup {c}
  BY <1>1, <1>2 DEF LiveCopies, IsClosed, Stale
<1>11. \A p \in pendingPushes \cup LiveCopies : p.seq + 1 \in 1 .. nextOutputSeq
  BY <1>7 DEF ReorderInv, Awaited
<1>12. \A p \in pendingPushes' \cup LiveCopies' : p.id = admitted'[p.seq + 1]
  BY <1>1, <1>2, <1>8, <1>10, <1>11 DEF OrderInv
<1>13. \A k \in 1 .. Len(admitted') : k \in 1 .. Len(admitted) \/ k = nextOutputSeq + 1
  BY <1>7, <1>8
<1>14. \A k \in 1 .. Len(admitted') :
         epochIdFloor <= admitted'[k] /\ admitted'[k] < nextSubmissionId
  BY <1>4, <1>7, <1>8, <1>13 DEF OrderInv
<1>15. \A j, k \in 1 .. Len(admitted') : admitted'[j] = admitted'[k] => j = k
  BY <1>5, <1>7, <1>8, <1>13 DEF OrderInv
<1>16. \A q \in pendingOutputs' : \A k \in 1 .. Len(admitted') : q.id # admitted'[k]
  BY <1>6, <1>7, <1>8, <1>13 DEF OrderInv
<1>17. Ids(queue)' = Ids(queue)
  BY <1>1 DEF Ids
<1> QED
  BY <1>1, <1>8, <1>9, <1>12, <1>14, <1>15, <1>16, <1>17 DEF OrderInv

\* What the drain loop hands over is what was output next.
LEMMA DrainedIds ==
  ASSUME NEW pushes \in SUBSET Push, IsFiniteSet(pushes), nextPushSeq \in Nat
  PROVE  \A k \in 1 .. DrainEnd(pushes) - nextPushSeq :
           \E p \in pushes :
             /\ p.seq = nextPushSeq + k - 1
             /\ p = PushAt(pushes, nextPushSeq + k - 1)
             /\ Drained(pushes)[k] = [id |-> p.id, bytes |-> p.bytes]
<1> TAKE k \in 1 .. DrainEnd(pushes) - nextPushSeq
<1> DEFINE s == nextPushSeq + k - 1
<1>1. HasSeq(pushes, s)
  BY DrainEndFact
<1>2. PushAt(pushes, s) \in pushes /\ PushAt(pushes, s).seq = s
  BY <1>1 DEF HasSeq, PushAt
<1>3. Drained(pushes)[k] = [id |-> PushAt(pushes, s).id, bytes |-> PushAt(pushes, s).bytes]
  BY DEF Drained
<1> QED
  BY <1>2, <1>3

\* A completed copy extends what is delivered and queued up to the sequence the
\* drain loop stops at.
LEMMA OrderDelivers ==
  ASSUME TypeOK, ReorderInv, OrderInv, ReorderInv', NEW c \in copies, CopyDelivered(c)
  PROVE  OrderInv'
<1> DEFINE p == PushOf(c)
           pushes == pendingPushes \cup {p}
           end == DrainEnd(pushes)
           frames == Drained(pushes)
           d == delivered
           q == Ids(queue)
           f == Ids(frames)
<1>1. /\ copies' = copies \ {c}
      /\ queue' = queue \o frames
      /\ pendingPushes' = {x \in pushes : x.seq >= end}
      /\ nextPushSeq' = end
      /\ UNCHANGED <<nextOutputSeq, lastError, pendingOutputs, epochIdFloor,
                     nextSubmissionId, epoch, admitted, delivered>>
      /\ ~IsClosed /\ c \in LiveCopies
  BY DEF CopyDelivered, CopyEnds, DeliverPendingPush, Completes, LiveCopies, recordVars,
         idVars, history
<1>2. c \in Copy
  BY DEF TypeOK
<1>3. p \in Push /\ p.seq = c.seq /\ p.id = c.id
  BY <1>2 DEF PushOf, Copy, Push
<1> HIDE DEF p
<1>4. /\ pushes \in SUBSET Push /\ IsFiniteSet(pushes)
      /\ nextPushSeq \in Nat /\ nextOutputSeq \in Nat
      /\ queue \in Seq(Frame) /\ admitted \in Seq(Nat) /\ d \in Seq(Nat)
  BY <1>3, FS_AddElement DEF TypeOK, StateTypeOK
<1>5. \A x \in pushes : x.id = admitted[x.seq + 1]
  BY <1>1, <1>3 DEF OrderInv
<1> HIDE DEF pushes
<1>6. /\ frames \in Seq(Frame) /\ Len(frames) = end - nextPushSeq
      /\ end \in Nat /\ end >= nextPushSeq
  BY <1>4, DrainedType, DrainEndFact
<1>7. end <= nextOutputSeq /\ Len(admitted) = nextOutputSeq
  BY <1>1 DEF ReorderInv, OrderInv
<1>8. \A k \in 1 .. end - nextPushSeq : frames[k].id = admitted[nextPushSeq + k]
  <2> TAKE k \in 1 .. end - nextPushSeq
  <2>1. PICK x \in pushes : /\ x.seq = nextPushSeq + k - 1
                            /\ frames[k] = [id |-> x.id, bytes |-> x.bytes]
    BY <1>4, DrainedIds
  <2>2. x.seq + 1 = nextPushSeq + k
    BY <2>1, <1>4
  <2> QED
    BY <2>1, <2>2, <1>5
<1> HIDE DEF end, frames
<1>9. /\ q \in Seq(Nat) /\ Len(q) = Len(queue)
      /\ f \in Seq(Nat) /\ Len(f) = end - nextPushSeq
      /\ \A k \in 1 .. Len(queue) : q[k] = queue[k].id
      /\ \A k \in 1 .. end - nextPushSeq : f[k] = frames[k].id
  BY <1>4, <1>6, IdsType
<1>10. Ids(queue \o frames) = q \o f
  BY <1>4, <1>6, IdsConcat
<1> HIDE DEF d, q, f
<1>11. f = SubSeq(admitted, nextPushSeq + 1, end)
  <2>1. SubSeq(admitted, nextPushSeq + 1, end) \in Seq(Nat)
    BY <1>4, <1>6, <1>7
  <2>2. Len(SubSeq(admitted, nextPushSeq + 1, end)) = end - nextPushSeq
    BY <1>4, <1>6, <1>7
  <2>3. \A k \in 1 .. end - nextPushSeq :
          SubSeq(admitted, nextPushSeq + 1, end)[k] = admitted[nextPushSeq + k]
    BY <1>4, <1>6, <1>7
  <2>4. \A k \in 1 .. end - nextPushSeq : f[k] = admitted[nextPushSeq + k]
    BY <1>8, <1>9
  <2> QED
    BY <2>1, <2>2, <2>3, <2>4, <1>9, SeqEqual
<1>12. d \o (q \o f) = SubSeq(admitted, 1, end)
  <2>1. d \o (q \o f) = (d \o q) \o f
    <3>1. d \in Seq(Nat) /\ q \in Seq(Nat) /\ f \in Seq(Nat)
      BY <1>4, <1>9
    <3>2. \A s, t, u \in Seq(Nat) : (s \o t) \o u = s \o (t \o u)
      BY ConcatAssociative
    <3> QED
      BY <3>1, <3>2, Zenon
  <2>2. d \o q = SubSeq(admitted, 1, nextPushSeq)
    BY DEF OrderInv, d, q
  <2>3. SubSeq(admitted, 1, nextPushSeq) \o SubSeq(admitted, nextPushSeq + 1, end)
          = SubSeq(admitted, 1, end)
    <3>1. /\ nextPushSeq \in 1 - 1 .. Len(admitted) /\ 1 \in 1 .. Len(admitted) + 1
          /\ end \in nextPushSeq .. Len(admitted)
      BY <1>4, <1>6, <1>7
    <3> QED
      BY <3>1, <1>4, ConcatAdjacentSubSeq
  <2> QED
    BY <2>1, <2>2, <2>3, <1>11
<1>13. delivered' \o Ids(queue') = SubSeq(admitted', 1, nextPushSeq')
  BY <1>1, <1>10, <1>12 DEF d
<1>14. LiveCopies' \subseteq LiveCopies
  BY <1>1 DEF LiveCopies, IsClosed, Stale
<1>15. \A x \in pendingPushes' \cup LiveCopies' : x.id = admitted'[x.seq + 1]
  BY <1>1, <1>5, <1>14 DEF OrderInv
<1> QED
  BY <1>1, <1>13, <1>15 DEF OrderInv, Ids

\* A task that starts copying, or ends without delivering.
LEMMA OrderCopies ==
  ASSUME TypeOK, OrderInv, NEW c \in copies, CopyStarts(c) \/ CopyDiscarded(c)
  PROVE  OrderInv'
<1>1. UNCHANGED <<queue, lastError, epochIdFloor, epoch, nextPushSeq, nextOutputSeq,
                  pendingPushes, admitted, delivered, pendingOutputs, nextSubmissionId>>
  BY DEF CopyStarts, CopyDiscarded, CopyEnds, queueVars, recordVars, idVars, pushVars,
         history
<1>2. \A x \in LiveCopies' : \E y \in LiveCopies : x.id = y.id /\ x.seq = y.seq
  <2>1. CASE CopyDiscarded(c)
    BY <2>1, <1>1 DEF CopyDiscarded, CopyEnds, LiveCopies, IsClosed, Stale
  <2>2. CASE CopyStarts(c)
    <3> DEFINE d == [c EXCEPT !.stage = "copying"]
    <3>1. c \in Copy
      BY DEF TypeOK
    <3>2. d.id = c.id /\ d.seq = c.seq /\ d.epoch = c.epoch
      BY <3>1 DEF Copy
    <3>3. copies' = (copies \ {c}) \cup {d}
      BY <2>2 DEF CopyStarts
    <3> HIDE DEF d
    <3> QED
      BY <3>2, <3>3, <1>1 DEF LiveCopies, IsClosed, Stale
  <2> QED
    BY <2>1, <2>2
<1>3. \A x \in pendingPushes' \cup LiveCopies' : x.id = admitted'[x.seq + 1]
  BY <1>1, <1>2 DEF OrderInv
<1> QED
  BY <1>1, <1>3 DEF OrderInv, Ids

\* Every step preserves OrderInv.
LEMMA OrderStep ==
  TypeOK /\ ReorderInv /\ IdsInv /\ OrderInv /\ [Next]_vars => OrderInv'
<1> SUFFICES ASSUME TypeOK, ReorderInv, IdsInv, OrderInv, [Next]_vars PROVE OrderInv'
  OBVIOUS
<1>1. ReorderInv' /\ nextSubmissionId \in Nat
  BY ReorderStep DEF TypeOK, StateTypeOK
<1>2. CASE BuffersStand
  <2>1. pendingOutputs' \subseteq pendingOutputs
    BY <1>2 DEF BuffersStand, ClearPendingOutputs, RemovePendingOutput, recordVars
  <2>2. nextSubmissionId' \in Nat /\ nextSubmissionId' >= nextSubmissionId
    BY <1>1, <1>2 DEF BuffersStand, IdsSpent
  <2> QED
    BY <1>2, <2>1, <2>2, OrderRecords DEF BuffersStand, queueVars
<1>3. ASSUME NEW bytes \in PacketBytes[nextSubmissionId], SendAccepted(bytes)
      PROVE  OrderInv'
  <2>1. \A r \in pendingOutputs' : r \in pendingOutputs \/ r.id = nextSubmissionId
    BY <1>3 DEF SendAccepted, InsertPendingOutput
  <2>2. nextSubmissionId' \in Nat /\ nextSubmissionId' >= nextSubmissionId
    BY <1>1, <1>3 DEF SendAccepted, SpendId
  <2> QED
    BY <1>3, <2>1, <2>2, OrderRecords DEF SendAccepted, SendReturns, queueVars
<1> QED
  BY <1>1, <1>2, <1>3, StepKinds, OrderStartsOver, OrderProduces, OrderAdmits, OrderCopies,
     OrderDelivers

-----------------------------------------------------------------------------
(* The end of the stream *)

(***************************************************************************)
(* Once a flush has resolved, and as long as the end of the stream stands, *)
(* the browser decoder is empty; and nobody holds a promise but a caller   *)
(* that awaits it.                                                         *)
(***************************************************************************)
EofInv ==
  /\ client = "send" => ~eof
  /\ flushP # "none" => client = "eof"
  /\ eof \/ flushP = "resolved" => inputQ = <<>> /\ held = {} /\ outputs = <<>>

BrowserEmpty == inputQ = <<>> /\ held = {} /\ outputs = <<>>

\* An opened decoder is idle.
LEMMA EofInit == Init => EofInv
BY DEF Init, JsInit, EofInv

\* reset() on an empty browser decoder, or any.
LEMMA JsResetEmpties ==
  ASSUME JsReset, outputs' = outputs
  PROVE  BrowserEmpty => BrowserEmpty'
BY DEF JsReset, JsAbandon, codecVars, BrowserEmpty

\* The steps that neither begin nor end a flush.
LEMMA EofKept ==
  ASSUME EofInv, UNCHANGED <<flushP, eof>>, BrowserEmpty => BrowserEmpty',
         client' = client \/ (flushP = "none" /\ (client' = "send" => ~eof))
  PROVE  EofInv'
BY DEF EofInv, BrowserEmpty

\* A fatal close rejects a pending promise and leaves the others alone.
LEMMA EofCloses ==
  ASSUME EofInv, NEW kind, FatalClose(kind), UNCHANGED eof,
         outputs' = outputs \/ outputs # <<>>,
         client' = client \/ (client # "eof" /\ client' = "idle")
  PROVE  EofInv'
<1>1. JsReset /\ JsRejectFlush
  BY DEF FatalClose
<1>2. flushP' # "none" <=> flushP # "none"
  BY <1>1 DEF JsRejectFlush
<1>3. flushP' = "resolved" <=> flushP = "resolved"
  BY <1>1 DEF JsRejectFlush
<1>4. BrowserEmpty => BrowserEmpty'
  BY <1>1, JsResetEmpties DEF BrowserEmpty
<1> QED
  BY <1>2, <1>3, <1>4 DEF EofInv, BrowserEmpty

\* Every step preserves EofInv.
LEMMA EofStep == TypeOK /\ EofInv /\ [Next]_vars => EofInv'
<1> SUFFICES ASSUME TypeOK, EofInv, [Next]_vars PROVE EofInv'
  OBVIOUS
<1>1. CASE SendPacket \/ SendCancelled
  <2>1. client \in {"idle", "send"} /\ flushP = "none"
    BY <1>1
    DEF SendPacket, SendCancelled, SendRefused, SendMustDrain, SendParks, SendRuns,
        SendClosesOnInput, SendThrows, SendClosesOnRecords, SendAccepted, SpendId,
        HasRoom, EofInv
  <2>2. CASE SendRefused \/ SendMustDrain \/ SendCancelled
    BY <2>1, <2>2, EofKept
    DEF SendRefused, SendMustDrain, SendCancelled, SendReturns, codecVars, BrowserEmpty
  <2>3. CASE SendParks
    BY <2>1, <2>3, EofKept DEF SendParks, jsVars, BrowserEmpty, EofInv
  <2>4. CASE \E bytes \in PacketBytes[nextSubmissionId], built \in BOOLEAN : SendThrows(bytes, built)
    BY <2>1, <2>4, EofKept DEF SendThrows, SendReturns, codecVars, BrowserEmpty
  <2>5. CASE \E bytes \in PacketBytes[nextSubmissionId] :
               SendClosesOnRecords(bytes) \/ \E a \in BOOLEAN : SendClosesOnInput(bytes, a)
    BY <2>1, <2>5, EofCloses DEF SendClosesOnRecords, SendClosesOnInput, SendReturns
  <2>6. CASE \E bytes \in PacketBytes[nextSubmissionId] : SendAccepted(bytes)
    <3>1. ~eof
      BY <2>6, <2>1 DEF SendAccepted, SpendId, HasRoom, EofInv
    <3> QED
      BY <2>6, <2>1, <3>1 DEF SendAccepted, SendReturns, JsDecode, EofInv
  <2> QED
    BY <1>1, <2>2, <2>3, <2>4, <2>5, <2>6 DEF SendPacket
<1>2. CASE ReceiveFrame \/ ReceiveCancelled
  <2>1. client \in {"idle", "receive"} /\ flushP = "none"
    BY <1>2
    DEF ReceiveFrame, ReceiveCancelled, ReceiveClosed, ReceiveProduced, ReceiveDry,
        ReceiveParks, ReceiveRuns, EofInv
  <2> QED
    BY <1>2, <2>1, EofKept
    DEF ReceiveFrame, ReceiveCancelled, ReceiveClosed, ReceiveProduced, ReceiveDry,
        ReceiveParks, ReceiveReturns, jsVars, BrowserEmpty
<1>3. CASE SendEof \/ EofCancelled
  <2>1. CASE EofClosed
    BY <2>1, EofKept DEF EofClosed, jsVars, BrowserEmpty
  <2>2. CASE EofAwaits
    BY <2>2 DEF EofAwaits, JsFlush, codecVars, EofInv
  <2>3. CASE EofCompletes
    BY <2>3 DEF EofCompletes, codecVars, EofInv
  <2>4. CASE EofRejected \/ EofCancelled
    <3>1. /\ flushP' = "none" /\ eof' = eof /\ client' = "idle"
          /\ JsReset /\ outputs' = outputs
      BY <2>4 DEF EofRejected, EofCancelled, EofGuardFires
    <3>2. BrowserEmpty => BrowserEmpty'
      BY <3>1, JsResetEmpties
    <3> QED
      BY <3>1, <3>2 DEF EofInv, BrowserEmpty
  <2> QED
    BY <1>3, <2>1, <2>2, <2>3, <2>4 DEF SendEof
<1>4. CASE Flush \/ Drop
  <2>1. flushP = "none" /\ flushP' = "none"
    BY <1>4 DEF Flush, FlushReopens, FlushFails, Drop, EofInv
  <2>2. CASE Flush
    BY <2>1, <2>2 DEF Flush, FlushReopens, FlushFails, EofInv
  <2>3. CASE Drop
    BY <2>1, <2>3 DEF Drop, EofInv
  <2> QED
    BY <1>4, <2>2, <2>3
<1>5. CASE OutputCallback \/ ErrorCallback \/ DequeueCallback
  <2>1. CASE \E id \in 0 .. MaxPackets : OutputIgnored(id)
    BY <2>1, EofKept DEF OutputIgnored, OutputOf, clientVars, BrowserEmpty
  <2>2. CASE \E id \in 0 .. MaxPackets : \E kind : OutputCloses(id, kind)
    BY <2>2, EofCloses DEF OutputCloses, OutputOf, clientVars
  <2>3. CASE \E id \in 0 .. MaxPackets, bytes \in FrameBytes : OutputAdmitted(id, bytes)
    BY <2>3, EofKept DEF OutputAdmitted, OutputOf, clientVars, BrowserEmpty
  <2>4. CASE ErrorCallback
    BY <2>4 DEF ErrorCallback, JsAbandon, JsRejectFlush, clientVars, EofInv
  <2>5. CASE DequeueCallback
    BY <2>5, EofKept DEF DequeueCallback, clientVars, BrowserEmpty
  <2> QED
    BY <1>5, <2>1, <2>2, <2>3, <2>4, <2>5
    DEF OutputCallback, OutputUnmatched, OutputUnmeasured, OutputRefused
<1>6. CASE \E c \in copies : CopyTask(c)
  <2>1. PICK c \in copies : CopyTask(c)
    BY <1>6
  <2>2. CASE CopyStarts(c) \/ CopyDiscarded(c) \/ CopyDelivered(c)
    BY <2>2, EofKept
    DEF CopyStarts, CopyDiscarded, CopyDelivered, CopyEnds, jsVars, codecVars, clientVars,
        BrowserEmpty
  <2>3. CASE CopyOverflows(c) \/ \E copied \in BOOLEAN : CopyFails(c, copied)
    BY <2>3, EofCloses DEF CopyOverflows, CopyFails, CopyEnds, clientVars
  <2> QED
    BY <2>1, <2>2, <2>3 DEF CopyTask
<1>7. CASE CodecTakes
  BY <1>7, EofKept DEF CodecTakes, JsDequeue, adapterVars, clientVars, BrowserEmpty
<1>8. CASE CodecEmits
  BY <1>8, EofKept DEF CodecEmits, JsEmit, adapterVars, clientVars, BrowserEmpty
<1>9. CASE FlushSettles
  BY <1>9 DEF FlushSettles, JsFlushDone, adapterVars, clientVars, EofInv
<1>10. CASE UNCHANGED vars
  BY <1>10, EofKept DEF vars, jsVars, clientVars, BrowserEmpty
<1> QED
  BY <1>1, <1>2, <1>3, <1>4, <1>5, <1>6, <1>7, <1>8, <1>9, <1>10 DEF Next

(***************************************************************************)
(* EndedIsFinal is about everything that could still be on its way; the    *)
(* browser decoder is empty because eof stands, and with no sequence       *)
(* awaited there is neither a live copy nor a parked push.                 *)
(***************************************************************************)
EndedInv ==
  answer = "ended" => eof /\ queue = <<>> /\ nextPushSeq = nextOutputSeq

\* An opened decoder has answered nothing.
LEMMA EndedInit == Init => EndedInv
BY DEF Init, EndedInv

\* With nothing queued and nothing on the way, the whole stream is delivered.
LEMMA DryMeansDone ==
  ASSUME TypeOK, ReorderInv, CopiesInv, ~IsClosed, pendingCopies = 0
  PROVE  nextPushSeq = nextOutputSeq
<1>1. copies = {}
  BY FS_EmptySet DEF CopiesInv, TypeOK
<1>2. LiveCopies = {} /\ ~HasSeq(LiveCopies, nextPushSeq)
  BY <1>1 DEF LiveCopies, HasSeq
<1>3. nextPushSeq \notin Awaited
  BY <1>2 DEF ReorderInv
<1> QED
  BY <1>3 DEF ReorderInv, Awaited, TypeOK, StateTypeOK

\* When the end has been answered no task is live and no push is parked.
LEMMA NothingAwaited ==
  ASSUME TypeOK, ReorderInv, nextPushSeq = nextOutputSeq
  PROVE  LiveCopies = {} /\ pendingPushes = {}
<1>1. Awaited = {}
  BY DEF Awaited, TypeOK, StateTypeOK
<1> QED
  BY <1>1 DEF ReorderInv

\* Every step preserves EndedInv.
LEMMA EndedStep ==
  TypeOK /\ ReorderInv /\ CopiesInv /\ EofInv /\ EndedInv /\ [Next]_vars => EndedInv'
<1> SUFFICES ASSUME TypeOK, ReorderInv, CopiesInv, EofInv, EndedInv, [Next]_vars,
                    answer' = "ended"
             PROVE  eof' /\ queue' = <<>> /\ nextPushSeq' = nextOutputSeq'
  BY DEF EndedInv
<1>1. CASE ReceiveFrame /\ answer # "ended"
  <2>1. ReceiveDry
    BY <1>1 DEF ReceiveFrame, ReceiveClosed, ReceiveProduced, ReceiveParks, ReceiveReturns
  <2>2. eof /\ ~IsClosed /\ queue = <<>> /\ ~ActiveDecodeWork
    BY <2>1 DEF ReceiveDry, ReceiveReturns
  <2>3. nextPushSeq = nextOutputSeq
    BY <2>2, DryMeansDone DEF ActiveDecodeWork, TypeOK, StateTypeOK
  <2> QED
    BY <2>1, <2>2, <2>3 DEF ReceiveDry, ReceiveReturns, queueVars, pushVars
<1>2. CASE answer = "ended"
  <2>1. /\ eof /\ queue = <<>> /\ nextPushSeq = nextOutputSeq
        /\ LiveCopies = {} /\ inputQ = <<>> /\ held = {} /\ outputs = <<>>
        /\ client # "send"
    BY <1>2, NothingAwaited DEF EndedInv, EofInv
  <2>2. ~ ReceiveProduced /\ \A id, bytes : ~OutputAdmitted(id, bytes)
    BY <2>1 DEF ReceiveProduced, OutputAdmitted, OutputOf
  <2>3. \A c \in copies : ~CopyDelivered(c)
    BY <2>1 DEF CopyDelivered, Completes, LiveCopies
  <2>4. \A bytes : ~SendAccepted(bytes)
    BY <2>1 DEF SendAccepted, SpendId, HasRoom, SendRuns
  <2>5. queue' = <<>> /\ nextPushSeq' = nextOutputSeq'
    BY <2>1, <2>2, <2>3, <2>4, StepKinds
    DEF StartsOver, ClearGeneration, BuffersStand, CopyStarts, CopyDiscarded, queueVars,
        pushVars
  <2>6. eof'
    <3>1. ~Flush
      BY <1>2 DEF Flush, FlushReopens, FlushFails
    <3>2. UNCHANGED eof \/ eof'
      BY <3>1
      DEF Next, SendPacket, SendCancelled, SendRefused, SendMustDrain, SendParks,
          SendClosesOnInput, SendThrows, SendClosesOnRecords, SendAccepted, SendReturns,
          ReceiveFrame, ReceiveCancelled, ReceiveClosed, ReceiveProduced, ReceiveDry,
          ReceiveParks, ReceiveReturns, SendEof, EofClosed, EofAwaits, EofCompletes,
          EofRejected, EofCancelled, EofGuardFires, Drop, OutputCallback, OutputIgnored,
          OutputUnmatched, OutputUnmeasured, OutputRefused, OutputCloses, OutputAdmitted,
          ErrorCallback, DequeueCallback, CopyTask, CopyStarts, CopyDiscarded, CopyFails,
          CopyOverflows, CopyDelivered, CopyEnds, CodecTakes, CodecEmits, FlushSettles,
          adapterVars, clientVars, vars
    <3> QED
      BY <3>2, <2>1
  <2> QED
    BY <2>5, <2>6
<1>3. ReceiveFrame \/ answer = "ended"
  BY DEF Next, SendPacket, SendCancelled, SendRefused, SendMustDrain, SendParks,
         SendClosesOnInput, SendThrows, SendClosesOnRecords, SendAccepted, SendReturns,
         ReceiveCancelled, ReceiveReturns, SendEof, EofClosed, EofAwaits, EofCompletes,
         EofRejected, EofCancelled, EofGuardFires, Flush, FlushReopens, FlushFails, Drop,
         OutputCallback, OutputIgnored, OutputUnmatched, OutputUnmeasured, OutputRefused,
         OutputCloses, OutputAdmitted, ErrorCallback, DequeueCallback, CopyTask,
         CopyStarts, CopyDiscarded, CopyFails, CopyOverflows, CopyDelivered, CopyEnds,
         CodecTakes, CodecEmits, FlushSettles, adapterVars, clientVars, vars
<1> QED
  BY <1>1, <1>2, <1>3

StreamInv == ReorderInv /\ IdsInv /\ CopiesInv /\ OrderInv /\ EofInv /\ EndedInv

\* Order and end together, in every reachable state.
LEMMA StreamAlways == Spec => [](TypeOK /\ StreamInv)
<1>1. Init => TypeOK /\ StreamInv
  BY TypeInit, ReorderInit, IdsInit, CopiesInit, OrderInit, EofInit, EndedInit
  DEF StreamInv
<1>2. TypeOK /\ StreamInv /\ [Next]_vars => TypeOK' /\ StreamInv'
  BY TypeStep, ReorderStep, IdsStep, CopiesStep, OrderStep, EofStep, EndedStep
  DEF StreamInv
<1> QED
  BY <1>1, <1>2, PTL DEF Spec

\* The inductive form implies the property the runs check.
LEMMA StreamSuffices ==
  ASSUME TypeOK, StreamInv
  PROVE  StreamWhole
<1>1. OutputOrder
  BY OrderSuffices DEF StreamInv
<1>2. ASSUME answer = "ended"
      PROVE  /\ inputQ = <<>> /\ held = {} /\ outputs = <<>> /\ queue = <<>>
             /\ pendingPushes = {} /\ LiveCopies = {}
             /\ delivered = admitted
  <2>1. eof /\ queue = <<>> /\ nextPushSeq = nextOutputSeq
    BY <1>2 DEF StreamInv, EndedInv
  <2>2. inputQ = <<>> /\ held = {} /\ outputs = <<>>
    BY <2>1 DEF StreamInv, EofInv
  <2>3. delivered \o Ids(<<>>) = SubSeq(admitted, 1, Len(admitted))
    BY <2>1 DEF StreamInv, OrderInv
  <2>4. Ids(<<>>) = <<>> /\ delivered \in Seq(Nat) /\ admitted \in Seq(Nat)
    BY DEF Ids, TypeOK
  <2>5. delivered \o <<>> = delivered /\ SubSeq(admitted, 1, Len(admitted)) = admitted
    BY <2>4
  <2> QED
    BY <2>1, <2>2, <2>3, <2>4, <2>5, NothingAwaited DEF StreamInv
<1>3. Len(<<>>) = 0
  OBVIOUS
<1> QED
  BY <1>1, <1>2, <1>3 DEF StreamWhole, EndedIsFinal

(***************************************************************************)
(* Frames leave in the order the browser made them, each once and none of  *)
(* an earlier generation, whatever order their copies complete in; and     *)
(* when receive_frame says that the stream has ended it has delivered      *)
(* every output, and nothing is left in the adapter or the browser.        *)
(***************************************************************************)
THEOREM StreamKept == Spec => []StreamWhole
BY StreamAlways, StreamSuffices, PTL

-----------------------------------------------------------------------------
(* The push rhythm *)

\* Some record of this generation waits for the id.
Recorded(id) == \E r \in pendingOutputs : r.id = id /\ r.epoch = epoch

\* The ids that are fed, before and after a step.
LEMMA FedIdsAre ==
  /\ FedIds = {id \in InBrowser : Recorded(id)} \cup {c.id : c \in LiveCopies}
                \cup {p.id : p \in pendingPushes} \cup Range(Ids(queue))
  /\ FedIds' = {id \in InBrowser' : Recorded(id)'} \cup {c.id : c \in LiveCopies'}
                 \cup {p.id : p \in pendingPushes'} \cup Range(Ids(queue'))
<1>1. \A id : Recorded(id) <=> RecordOf(id) # {} /\ CurrentRecordOf(id) # {}
  BY DEF Recorded, RecordOf, CurrentRecordOf
<1>2. \A id : Recorded(id)' <=> RecordOf(id)' # {} /\ CurrentRecordOf(id)' # {}
  BY DEF Recorded, RecordOf, CurrentRecordOf
<1> QED
  BY <1>1, <1>2 DEF FedIds, InBrowser, Ids

\* What a close or a new generation leaves fed.
LEMMA FedStartsOver ==
  ASSUME TypeOK, StreamInv, StartsOver
  PROVE  FedIds' = {}
<1>1. epoch \in Nat /\ \A c \in copies : c.epoch \in Nat /\ c.epoch <= epoch
  BY DEF TypeOK, StateTypeOK, StreamInv, ReorderInv, Copy
<1>2. copies' \subseteq copies /\ (IsClosed' \/ epoch' = epoch + 1)
  BY DEF StartsOver, CopyEnds
<1>3. LiveCopies' = {}
  BY <1>1, <1>2 DEF LiveCopies, Stale
<1>4. pendingOutputs' = {} /\ pendingPushes' = {} /\ queue' = <<>>
  BY DEF StartsOver, ClearGeneration
<1>5. Range(Ids(<<>>)) = {}
  BY DEF Ids, Range
<1>6. \A id : ~Recorded(id)'
  BY <1>4 DEF Recorded
<1> QED
  BY <1>3, <1>4, <1>5, <1>6, FedIdsAre

\* A step that moves nothing but chunks within the browser and records away.
LEMMA FedStands ==
  ASSUME UNCHANGED <<queue, lastError, epoch, pendingPushes, copies>>,
         pendingOutputs' \subseteq pendingOutputs, InBrowser' \subseteq InBrowser
  PROVE  FedIds' \subseteq FedIds
<1>1. \A id : Recorded(id)' => Recorded(id)
  BY DEF Recorded
<1>2. LiveCopies' = LiveCopies
  BY DEF LiveCopies, IsClosed, Stale
<1> QED
  BY <1>1, <1>2, FedIdsAre

\* A call that only answers.
LEMMA FedSame ==
  ASSUME UNCHANGED <<queue, lastError, epoch, pendingPushes, copies, pendingOutputs,
                     inputQ, held, outputs>>
  PROVE  FedIds' = FedIds
<1>1. \A id : Recorded(id)' <=> Recorded(id)
  BY DEF Recorded
<1>2. LiveCopies' = LiveCopies /\ InBrowser' = InBrowser
  BY DEF LiveCopies, IsClosed, Stale, InBrowser
<1> QED
  BY <1>1, <1>2, FedIdsAre

\* send_packet feeds the chunk it submits and nothing else.
LEMMA FedAccepts ==
  ASSUME TypeOK, NEW bytes \in PacketBytes[nextSubmissionId], SendAccepted(bytes)
  PROVE  FedIds' \subseteq FedIds \cup {nextSubmissionId}
<1>1. /\ UNCHANGED <<queue, lastError, epoch, pendingPushes, copies, held, outputs>>
      /\ inputQ' = Append(inputQ, nextSubmissionId)
      /\ pendingOutputs' = pendingOutputs \cup
           {[id |-> nextSubmissionId, epoch |-> epoch, bytes |-> bytes]}
  BY DEF SendAccepted, SendReturns, InsertPendingOutput, JsDecode, queueVars, pushVars
<1>2. InBrowser' = InBrowser \cup {nextSubmissionId}
  <2>1. inputQ \in Seq(Nat) /\ nextSubmissionId \in Nat
    BY DEF TypeOK, StateTypeOK, JsTypeOK
  <2>2. Range(inputQ') = Range(inputQ) \cup {nextSubmissionId}
    BY <2>1, <1>1, RangeOfAppend
  <2> QED
    BY <2>2, <1>1 DEF InBrowser
<1>3. \A id : Recorded(id)' => Recorded(id) \/ id = nextSubmissionId
  BY <1>1 DEF Recorded
<1>4. LiveCopies' = LiveCopies
  BY <1>1 DEF LiveCopies, IsClosed, Stale
<1> QED
  BY <1>1, <1>2, <1>3, <1>4, FedIdsAre

\* An output moves from the browser and its record to a copy.
LEMMA FedAdmits ==
  ASSUME TypeOK, StreamInv, NEW id \in 0 .. MaxPackets, NEW bytes \in FrameBytes,
         OutputAdmitted(id, bytes)
  PROVE  FedIds' \subseteq FedIds
<1> DEFINE c == [id |-> id, epoch |-> epoch, seq |-> nextOutputSeq, bytes |-> bytes,
                 stage |-> "spawned"]
<1>1. /\ ~IsClosed
      /\ copies' = copies \cup {c}
      /\ UNCHANGED <<queue, lastError, epoch, pendingPushes, inputQ, held>>
      /\ pendingOutputs' \subseteq pendingOutputs
  BY DEF OutputAdmitted, Unwanted, queueVars, codecVars, RemovePendingOutput
<1>2. c.id = id
  OBVIOUS
<1> HIDE DEF c
<1>3. Recorded(id) /\ Range(outputs) = {id} \cup Range(outputs')
  BY OutputOffTheLine DEF OutputAdmitted, Unwanted, Recorded, RecordOf, CurrentRecordOf
<1>4. id \in FedIds /\ InBrowser' \subseteq InBrowser
  BY <1>1, <1>3, FedIdsAre DEF InBrowser
<1>5. \A i : Recorded(i)' => Recorded(i)
  BY <1>1 DEF Recorded
<1>6. LiveCopies' \subseteq LiveCopies \cup {c}
  BY <1>1 DEF LiveCopies, IsClosed, Stale
<1> QED
  BY <1>1, <1>2, <1>4, <1>5, <1>6, FedIdsAre

\* A task that starts copying, or ends without delivering.
LEMMA FedCopies ==
  ASSUME TypeOK, NEW c \in copies, CopyStarts(c) \/ CopyDiscarded(c)
  PROVE  FedIds' \subseteq FedIds
<1>1. UNCHANGED <<queue, lastError, epoch, pendingPushes, pendingOutputs, inputQ, held, outputs>>
  BY DEF CopyStarts, CopyDiscarded, CopyEnds, queueVars, recordVars, pushVars, jsVars,
         codecVars
<1>2. \A x \in LiveCopies' : \E y \in LiveCopies : x.id = y.id
  <2>1. CASE CopyDiscarded(c)
    BY <2>1, <1>1 DEF CopyDiscarded, CopyEnds, LiveCopies, IsClosed, Stale
  <2>2. CASE CopyStarts(c)
    <3> DEFINE d == [c EXCEPT !.stage = "copying"]
    <3>1. d.id = c.id /\ d.epoch = c.epoch
      BY DEF TypeOK, Copy
    <3>2. copies' = (copies \ {c}) \cup {d}
      BY <2>2 DEF CopyStarts
    <3> HIDE DEF d
    <3> QED
      BY <3>1, <3>2, <1>1 DEF LiveCopies, IsClosed, Stale
  <2> QED
    BY <2>1, <2>2
<1>3. \A i : Recorded(i)' => Recorded(i)
  BY <1>1 DEF Recorded
<1> QED
  BY <1>1, <1>2, <1>3, FedIdsAre DEF InBrowser

\* A completed copy moves to the reorder buffer and frames from there on to the
\* queue.
LEMMA FedDelivers ==
  ASSUME TypeOK, NEW c \in copies, CopyDelivered(c)
  PROVE  FedIds' \subseteq FedIds
<1> DEFINE p == PushOf(c)
           pushes == pendingPushes \cup {p}
           frames == Drained(pushes)
<1>1. /\ copies' = copies \ {c}
      /\ queue' = queue \o frames
      /\ pendingPushes' \subseteq pushes
      /\ UNCHANGED <<lastError, pendingOutputs, epoch, inputQ, held, outputs>>
      /\ ~IsClosed /\ c \in LiveCopies
  BY DEF CopyDelivered, CopyEnds, DeliverPendingPush, Completes, LiveCopies, recordVars,
         codecVars
<1>2. c \in Copy
  BY DEF TypeOK
<1>3. p \in Push /\ p.id = c.id
  BY <1>2 DEF PushOf, Copy, Push
<1> HIDE DEF p
<1>4. /\ pushes \in SUBSET Push /\ IsFiniteSet(pushes)
      /\ nextPushSeq \in Nat /\ queue \in Seq(Frame)
  BY <1>3, FS_AddElement DEF TypeOK, StateTypeOK
<1>5. \A x \in pushes : x.id \in FedIds
  BY <1>1, <1>3, FedIdsAre
<1> HIDE DEF pushes
<1>6. frames \in Seq(Frame) /\ Len(frames) = DrainEnd(pushes) - nextPushSeq
  BY <1>4, DrainedType
<1>7. \A k \in 1 .. Len(frames) : frames[k].id \in FedIds
  <2> TAKE k \in 1 .. Len(frames)
  <2>1. PICK x \in pushes : frames[k] = [id |-> x.id, bytes |-> x.bytes]
    BY <1>4, <1>6, DrainedIds
  <2> QED
    BY <2>1, <1>5
<1> HIDE DEF frames
<1>8. Range(Ids(frames)) \subseteq FedIds
  BY <1>6, <1>7, IdsType DEF Range
<1>9. Range(Ids(queue')) \subseteq FedIds
  <2>1. Ids(queue) \in Seq(Nat) /\ Ids(frames) \in Seq(Nat)
    BY <1>4, <1>6, IdsType
  <2>2. Range(Ids(queue) \o Ids(frames)) = Range(Ids(queue)) \cup Range(Ids(frames))
    BY <2>1, RangeConcatenation
  <2>3. Ids(queue') = Ids(queue) \o Ids(frames)
    BY <1>1, <1>4, <1>6, IdsConcat
  <2> QED
    BY <2>2, <2>3, <1>8, FedIdsAre
<1>10. LiveCopies' \subseteq LiveCopies
  BY <1>1 DEF LiveCopies, IsClosed, Stale
<1>11. \A i : Recorded(i)' => Recorded(i)
  BY <1>1 DEF Recorded
<1> QED
  BY <1>1, <1>5, <1>9, <1>10, <1>11, FedIdsAre DEF InBrowser

\* Where the queued frames stand among the outputs.
LEMMA QueuedIds ==
  ASSUME TypeOK, OrderInv, nextPushSeq <= Len(admitted)
  PROVE  /\ Len(delivered) + Len(queue) = nextPushSeq
         /\ \A k \in 1 .. Len(queue) : queue[k].id = admitted[Len(delivered) + k]
<1>1. /\ delivered \in Seq(Nat) /\ admitted \in Seq(Nat) /\ queue \in Seq(Frame)
      /\ nextPushSeq \in Nat
  BY DEF TypeOK, StateTypeOK
<1>2. /\ Ids(queue) \in Seq(Nat) /\ Len(Ids(queue)) = Len(queue)
      /\ \A k \in 1 .. Len(queue) : Ids(queue)[k] = queue[k].id
  BY <1>1, IdsType
<1> DEFINE s == delivered \o Ids(queue)
           t == SubSeq(admitted, 1, nextPushSeq)
<1>3. /\ Len(s) = Len(delivered) + Len(queue)
      /\ \A k \in 1 .. Len(queue) : s[Len(delivered) + k] = Ids(queue)[k]
  <2>1. /\ Len(s) = Len(delivered) + Len(Ids(queue))
        /\ \A i \in 1 .. Len(delivered) + Len(Ids(queue)) :
             s[i] = IF i <= Len(delivered) THEN delivered[i] ELSE Ids(queue)[i - Len(delivered)]
    <3>1. \A u, v \in Seq(Nat) :
            /\ Len(u \o v) = Len(u) + Len(v)
            /\ \A i \in 1 .. Len(u) + Len(v) :
                 (u \o v)[i] = IF i <= Len(u) THEN u[i] ELSE v[i - Len(u)]
      BY ConcatProperties
    <3> QED
      BY <1>1, <1>2, <3>1, Zenon
  <2> HIDE DEF s
  <2>2. ASSUME NEW k \in 1 .. Len(queue)
        PROVE  s[Len(delivered) + k] = Ids(queue)[k]
    <3>1. /\ Len(delivered) + k \in 1 .. Len(delivered) + Len(Ids(queue))
          /\ ~(Len(delivered) + k <= Len(delivered))
          /\ Len(delivered) + k - Len(delivered) = k
      BY <1>1, <1>2
    <3> QED
      BY <3>1, <2>1
  <2> QED
    BY <2>1, <2>2, <1>2
<1>4. Len(t) = nextPushSeq /\ \A k \in 1 .. nextPushSeq : t[k] = admitted[k]
  BY <1>1
<1>5. s = t
  BY DEF OrderInv
<1> HIDE DEF s, t
<1>6. \A k \in 1 .. Len(queue) : Len(delivered) + k \in 1 .. nextPushSeq
  BY <1>1, <1>3, <1>4, <1>5
<1> QED
  BY <1>2, <1>3, <1>4, <1>5, <1>6

\* The frame that is delivered was fed, and is no longer, anywhere.
LEMMA FedProduces ==
  ASSUME TypeOK, StreamInv, ReceiveProduced
  PROVE  Head(queue).id \in FedIds /\ FedIds' \subseteq FedIds \ {Head(queue).id}
<1> DEFINE h == Head(queue).id
           n == Len(delivered) + 1
<1>1. /\ queue \in Seq(Frame) /\ queue # <<>> /\ delivered \in Seq(Nat)
      /\ admitted \in Seq(Nat) /\ nextPushSeq \in Nat /\ nextOutputSeq \in Nat
      /\ queue' = Tail(queue)
      /\ UNCHANGED <<lastError, epoch, pendingPushes, copies, pendingOutputs, inputQ,
                     held, outputs>>
  BY DEF TypeOK, StateTypeOK, ReceiveProduced, PopQueue, ReceiveReturns, recordVars,
         pushVars, jsVars
<1>2. nextPushSeq <= Len(admitted) /\ Len(admitted) = nextOutputSeq
  BY DEF StreamInv, OrderInv, ReorderInv
<1>3. /\ Len(delivered) + Len(queue) = nextPushSeq
      /\ \A k \in 1 .. Len(queue) : queue[k].id = admitted[Len(delivered) + k]
  BY <1>1, <1>2, QueuedIds DEF StreamInv
<1>4. h = admitted[n] /\ n \in 1 .. nextPushSeq
  <2>1. 1 \in 1 .. Len(queue) /\ Head(queue) = queue[1]
    BY <1>1
  <2>2. queue[1].id = admitted[Len(delivered) + 1]
    BY <2>1, <1>3
  <2>3. Len(delivered) \in Nat /\ Len(queue) \in Nat
    BY <1>1
  <2> QED
    BY <2>1, <2>2, <2>3, <1>3
<1> HIDE DEF h, n
<1>5. \A k \in 1 .. Len(admitted) : k # n => admitted[k] # h
  <2>1. n \in 1 .. Len(admitted)
    BY <1>1, <1>2, <1>4
  <2> QED
    BY <2>1, <1>4 DEF StreamInv, OrderInv
<1>6. ~Recorded(h)
  <2>1. n \in 1 .. Len(admitted)
    BY <1>1, <1>2, <1>4
  <2> QED
    BY <2>1, <1>4 DEF Recorded, StreamInv, OrderInv
<1>7. \A x \in pendingPushes \cup LiveCopies : x.id # h
  <2> TAKE x \in pendingPushes \cup LiveCopies
  <2>1. x.seq \in nextPushSeq .. nextOutputSeq - 1 /\ x.id = admitted[x.seq + 1]
    BY DEF StreamInv, ReorderInv, OrderInv, Awaited
  <2>2. x.seq + 1 \in 1 .. Len(admitted) /\ x.seq + 1 # n
    <3>1. n \in Nat /\ n <= nextPushSeq
      BY <1>1, <1>4
    <3> QED
      BY <2>1, <3>1, <1>1, <1>2
  <2> QED
    BY <2>1, <2>2, <1>5
<1>8. /\ Head(Ids(queue)) = h /\ Tail(Ids(queue)) = Ids(Tail(queue))
      /\ Ids(queue) \in Seq(Nat) /\ Ids(queue) # <<>>
  BY <1>1, IdsPop DEF h
<1>9. Range(Ids(queue)) = {h} \cup Range(Ids(Tail(queue)))
  BY <1>8, RangeOfTail
<1>10. h \notin Range(Ids(Tail(queue)))
  <2>1. \A k \in 1 .. Len(queue) - 1 : Tail(queue)[k].id # h
    <3> TAKE k \in 1 .. Len(queue) - 1
    <3>1. k + 1 \in 1 .. Len(queue) /\ Tail(queue)[k] = queue[k + 1]
      BY <1>1
    <3>2. queue[k + 1].id = admitted[Len(delivered) + (k + 1)]
      BY <3>1, <1>3
    <3>3. Len(delivered) + (k + 1) \in 1 .. Len(admitted) /\ Len(delivered) + (k + 1) # n
      BY <1>1, <1>2, <1>3 DEF n
    <3> QED
      BY <3>1, <3>2, <3>3, <1>5
  <2>2. /\ Tail(queue) \in Seq(Frame) /\ Len(Tail(queue)) = Len(queue) - 1
    BY <1>1
  <2>3. /\ Ids(Tail(queue)) \in Seq(Nat) /\ Len(Ids(Tail(queue))) = Len(queue) - 1
        /\ \A k \in 1 .. Len(queue) - 1 : Ids(Tail(queue))[k] = Tail(queue)[k].id
    BY <2>2, IdsType
  <2>4. \A k \in DOMAIN Ids(Tail(queue)) : Ids(Tail(queue))[k] # h
    BY <2>1, <2>3
  <2> QED
    BY <2>4 DEF Range
<1>11. \A i : Recorded(i)' <=> Recorded(i)
  BY <1>1 DEF Recorded
<1>12. LiveCopies' = LiveCopies /\ InBrowser' = InBrowser
  BY <1>1 DEF LiveCopies, IsClosed, Stale, InBrowser
<1>13. h \in FedIds /\ FedIds' \subseteq FedIds \ {h}
  BY <1>1, <1>6, <1>7, <1>9, <1>10, <1>11, <1>12, FedIdsAre
<1> QED
  BY <1>13 DEF h

\* A step of the push rhythm, or none of its.
RhythmStep == Rhythm!RhythmNext \/ UNCHANGED Rhythm!rhythmVars

\* What happens inside the session between two answers.
LEMMA QuietStep ==
  ASSUME FedIds' \subseteq FedIds, UNCHANGED <<eof, answer>>, IsClosed' = IsClosed
  PROVE  RhythmStep
BY DEF RhythmStep, Rhythm!RhythmNext, Rhythm!DecodeToNothing, Rhythm!AtMost

\* An answer that changes nothing else.
LEMMA AnswerStep ==
  ASSUME FedIds' = FedIds, UNCHANGED eof, IsClosed' = IsClosed,
         \/ answer' = "closed" /\ IsClosed
         \/ answer' = "afterEof" /\ eof /\ ~IsClosed
         \/ answer' \in {"cancelled", "failed"}
         \/ answer' \in {"mustDrain", "needsInput"} /\ ~IsClosed /\ ~eof
         \/ answer' = "ended" /\ ~IsClosed /\ eof /\ FedIds = {}
  PROVE  RhythmStep
BY DEF RhythmStep, Rhythm!RhythmNext, Rhythm!AnswerOnly, Rhythm!AskToDrain,
       Rhythm!AskForInput, Rhythm!AnswerEnded, Rhythm!AtMost

\* A close takes everything fed with it.
LEMMA FaultStep ==
  ASSUME FedIds' = {}, IsClosed', UNCHANGED eof,
         answer' \in {answer, "closed", "failed", "cancelled"}
  PROVE  RhythmStep
BY DEF RhythmStep, Rhythm!RhythmNext, Rhythm!Fault

\* A fatal close is one.
LEMMA FatalCloseFault ==
  ASSUME TypeOK, StreamInv, NEW kind \in ErrorKinds, FatalClose(kind),
         UNCHANGED <<epoch, epochIdFloor, eof>>,
         UNCHANGED <<copies, copyCounters>> \/ \E c \in copies : CopyEnds(c),
         IdsSpent, answer' \in {answer, "closed"}
  PROVE  RhythmStep
<1>1. StartsOver
  BY ClosingStartsOver
<1>2. FedIds' = {}
  BY <1>1, FedStartsOver
<1>3. IsClosed'
  BY FatalCloseFresh DEF FatalClose
<1> QED
  BY <1>2, <1>3, FaultStep

\* send_packet accepts at most its own packet, and asks to drain only before
\* the end.
LEMMA RhythmSend ==
  ASSUME TypeOK, StreamInv, SendPacket \/ SendCancelled
  PROVE  RhythmStep
<1>1. SendRuns /\ client = "send" => ~eof
  BY DEF StreamInv, EofInv
<1>2. CASE SendRefused \/ SendMustDrain \/ SendCancelled
  <2>1. FedIds' = FedIds /\ UNCHANGED eof /\ IsClosed' = IsClosed
    BY <1>2, FedSame
    DEF SendRefused, SendMustDrain, SendCancelled, SendReturns, codecVars, queueVars,
        recordVars, pushVars, IsClosed
  <2> QED
    BY <1>2, <1>1, <2>1, AnswerStep
    DEF SendRefused, SendMustDrain, SendCancelled, SendReturns, SendRuns
<1>3. CASE SendParks
  <2>1. FedIds' = FedIds /\ UNCHANGED <<eof, answer>> /\ IsClosed' = IsClosed
    BY <1>3, FedSame DEF SendParks, jsVars, queueVars, recordVars, pushVars, IsClosed
  <2> QED
    BY <2>1, QuietStep
<1>4. CASE \E bytes \in PacketBytes[nextSubmissionId], built \in BOOLEAN : SendThrows(bytes, built)
  <2>1. /\ FedIds' = FedIds /\ UNCHANGED eof /\ IsClosed' = IsClosed
        /\ answer' = "failed"
    BY <1>4, FedSame
    DEF SendThrows, SendReturns, codecVars, queueVars, recordVars, pushVars, IsClosed
  <2> QED
    BY <2>1, AnswerStep
<1>5. CASE \E bytes \in PacketBytes[nextSubmissionId] :
             SendClosesOnRecords(bytes) \/ \E a \in BOOLEAN : SendClosesOnInput(bytes, a)
  <2>1. PICK kind \in ErrorKinds : FatalClose(kind)
    BY <1>5 DEF SendClosesOnRecords, SendClosesOnInput, ErrorKinds
  <2>2. UNCHANGED <<epoch, epochIdFloor, eof, copies, copyCounters>> /\ IdsSpent /\ answer' = "closed"
    BY <1>5 DEF SendClosesOnRecords, SendClosesOnInput, SendReturns, SpendId, HasRoom, IdsSpent
  <2> QED
    BY <2>1, <2>2, FatalCloseFault
<1>6. ASSUME NEW bytes \in PacketBytes[nextSubmissionId], SendAccepted(bytes)
      PROVE  RhythmStep
  <2>1. /\ ~IsClosed /\ ~eof /\ nextSubmissionId \in 0 .. MaxPackets
        /\ answer' = "accepted" /\ UNCHANGED eof /\ IsClosed' = IsClosed
    <3>1. /\ SendRuns /\ ~IsClosed /\ ~(client = "idle" /\ eof)
          /\ nextSubmissionId < MaxPackets
      BY <1>6 DEF SendAccepted, SpendId, HasRoom
    <3>2. ~eof
      BY <3>1, <1>1 DEF SendRuns
    <3>3. answer' = "accepted" /\ UNCHANGED <<eof, lastError>>
      BY <1>6 DEF SendAccepted, SendReturns
    <3>4. nextSubmissionId \in 0 .. MaxPackets
      BY <3>1, VideoAssumption DEF TypeOK, StateTypeOK
    <3> QED
      BY <3>1, <3>2, <3>3, <3>4 DEF IsClosed
  <2>2. FedIds' \subseteq FedIds \cup {nextSubmissionId}
    BY <1>6, FedAccepts
  <2> QED
    BY <2>1, <2>2 DEF RhythmStep, Rhythm!RhythmNext, Rhythm!Accept, Rhythm!AtMost
<1> QED
  BY <1>2, <1>3, <1>4, <1>5, <1>6 DEF SendPacket

\* receive_frame delivers a packet that was fed, and Ended only when none is.
LEMMA RhythmReceive ==
  ASSUME TypeOK, StreamInv, ReceiveFrame \/ ReceiveCancelled
  PROVE  RhythmStep
<1>1. CASE ReceiveClosed \/ ReceiveDry \/ ReceiveParks \/ ReceiveCancelled
  <2>1. FedIds' = FedIds /\ UNCHANGED eof /\ IsClosed' = IsClosed
    BY <1>1, FedSame
    DEF ReceiveClosed, ReceiveDry, ReceiveParks, ReceiveCancelled, ReceiveReturns,
        jsVars, queueVars, recordVars, pushVars, IsClosed
  <2>2. CASE ReceiveDry /\ eof
    <3>1. ~IsClosed /\ queue = <<>> /\ pendingCopies = 0 /\ answer' = "ended"
      BY <2>2 DEF ReceiveDry, ReceiveReturns, ActiveDecodeWork, TypeOK, StateTypeOK
    <3>2. pendingPushes = {} /\ LiveCopies = {}
      BY <3>1, DryMeansDone, NothingAwaited DEF StreamInv
    <3>3. InBrowser = {} /\ Range(Ids(queue)) = {}
      BY <2>2, <3>1 DEF StreamInv, EofInv, InBrowser, Range, Ids
    <3>4. FedIds = {}
      BY <3>2, <3>3, FedIdsAre
    <3> QED
      BY <2>1, <2>2, <3>1, <3>4, AnswerStep
  <2> QED
    BY <1>1, <2>1, <2>2, AnswerStep, QuietStep
    DEF ReceiveClosed, ReceiveDry, ReceiveParks, ReceiveCancelled, ReceiveReturns
<1>2. CASE ReceiveProduced
  <2> DEFINE p == Head(queue).id
  <2>1. /\ ~IsClosed /\ answer' = "produced" /\ UNCHANGED eof /\ IsClosed' = IsClosed
    BY <1>2 DEF ReceiveProduced, ReceiveReturns, IsClosed
  <2>2. p \in FedIds /\ FedIds' \subseteq FedIds \ {p}
    BY <1>2, FedProduces
  <2>3. p \in 0 .. MaxPackets
    <3>1. queue \in Seq(Frame) /\ queue # <<>>
      BY <1>2 DEF ReceiveProduced, TypeOK, StateTypeOK
    <3>2. 1 \in 1 .. Len(queue) /\ Head(queue) = queue[1] /\ queue[1] \in Frame
      BY <3>1
    <3>3. nextPushSeq <= Len(admitted) /\ delivered \in Seq(Nat) /\ admitted \in Seq(Nat)
      BY DEF StreamInv, OrderInv, ReorderInv, TypeOK
    <3>4. /\ Len(delivered) + Len(queue) = nextPushSeq
          /\ queue[1].id = admitted[Len(delivered) + 1]
      BY <3>2, <3>3, QueuedIds DEF StreamInv
    <3>5. Len(delivered) + 1 \in 1 .. Len(admitted)
      BY <3>1, <3>2, <3>3, <3>4
    <3>6. queue[1].id \in Nat /\ queue[1].id < nextSubmissionId
      BY <3>2, <3>4, <3>5 DEF StreamInv, OrderInv, Frame
    <3>7. nextSubmissionId \in Nat /\ nextSubmissionId <= MaxPackets /\ MaxPackets \in Nat
      BY VideoAssumption DEF StreamInv, IdsInv, TypeOK, StateTypeOK
    <3> QED
      BY <3>2, <3>6, <3>7
  <2> HIDE DEF p
  <2> QED
    BY <2>1, <2>2, <2>3 DEF RhythmStep, Rhythm!RhythmNext, Rhythm!Produce, Rhythm!AtMost
<1> QED
  BY <1>1, <1>2 DEF ReceiveFrame

\* send_eof ends the stream, or its cancellation faults it.
LEMMA RhythmEof ==
  ASSUME TypeOK, StreamInv, [Next]_vars, SendEof \/ EofCancelled
  PROVE  RhythmStep
<1>1. CASE EofClosed \/ EofAwaits
  <2>1. FedIds' = FedIds /\ UNCHANGED eof /\ IsClosed' = IsClosed
    BY <1>1, FedSame
    DEF EofClosed, EofAwaits, JsFlush, codecVars, jsVars, queueVars, recordVars, pushVars,
        IsClosed
  <2> QED
    BY <1>1, <2>1, AnswerStep, QuietStep DEF EofClosed, EofAwaits
<1>2. CASE EofCompletes
  <2>1. UNCHANGED <<queue, lastError, epoch, pendingPushes, copies, inputQ, held, outputs>>
    BY <1>2 DEF EofCompletes, codecVars, queueVars, pushVars
  <2>2. inputQ = <<>> /\ held = {} /\ outputs = <<>>
    BY <1>2 DEF EofCompletes, StreamInv, EofInv
  <2>3. InBrowser = {} /\ InBrowser' = {}
    BY <2>1, <2>2 DEF InBrowser, Range
  <2>4. LiveCopies' = LiveCopies /\ IsClosed' = IsClosed
    BY <2>1 DEF LiveCopies, IsClosed, Stale
  <2>5. FedIds' = FedIds
    BY <2>1, <2>3, <2>4, FedIdsAre
  <2> QED
    BY <1>2, <2>4, <2>5 DEF EofCompletes, RhythmStep, Rhythm!RhythmNext, Rhythm!EndStream
<1>3. CASE EofRejected \/ EofCancelled
  <2>1. /\ BumpEpoch /\ RecordClose("eof") /\ ForgetHistory
        /\ UNCHANGED <<nextSubmissionId, copies, copyCounters, eof>>
        /\ answer' \in {"failed", "cancelled"}
    BY <1>3 DEF EofRejected, EofCancelled, EofGuardFires
  <2>2. StartsOver
    BY <2>1 DEF BumpEpoch, StartsOver, IdsSpent
  <2>3. IsClosed'
    BY <2>1, FatalCloseFresh DEF ErrorKinds
  <2> QED
    BY <2>1, <2>2, <2>3, FedStartsOver, FaultStep
<1> QED
  BY <1>1, <1>2, <1>3 DEF SendEof

\* flush starts over, Drop forgets.
LEMMA RhythmFlush ==
  ASSUME TypeOK, StreamInv, Flush \/ Drop
  PROVE  RhythmStep
<1>1. StartsOver
  BY DEF Flush, FlushReopens, FlushFails, Drop, BumpEpoch, StartsOver, IdsSpent
<1>2. FedIds' = {}
  BY <1>1, FedStartsOver
<1>3. CASE FlushReopens
  BY <1>2, <1>3 DEF FlushReopens, IsClosed, RhythmStep, Rhythm!RhythmNext, Rhythm!Restart
<1>4. CASE FlushFails
  <2>1. IsClosed'
    BY <1>4, FatalCloseFresh DEF FlushFails, ErrorKinds
  <2> QED
    BY <1>2, <1>4, <2>1 DEF FlushFails, IsClosed, RhythmStep, Rhythm!RhythmNext, Rhythm!Restart
<1>5. CASE Drop
  BY <1>2, <1>5 DEF Drop, IsClosed, RhythmStep, Rhythm!RhythmNext, Rhythm!Forget
<1> QED
  BY <1>3, <1>4, <1>5 DEF Flush

\* The callbacks move or drop what is fed, or fault.
LEMMA RhythmCallbacks ==
  ASSUME TypeOK, StreamInv, [Next]_vars, OutputCallback \/ ErrorCallback \/ DequeueCallback
  PROVE  RhythmStep
<1>1. CASE \E id \in 0 .. MaxPackets : OutputIgnored(id)
  <2>1. PICK id \in 0 .. MaxPackets : OutputIgnored(id)
    BY <1>1
  <2>2. /\ UNCHANGED <<queue, lastError, epoch, pendingPushes, copies, inputQ, held>>
        /\ UNCHANGED <<eof, answer>> /\ IsClosed' = IsClosed
        /\ pendingOutputs' \subseteq pendingOutputs
    BY <2>1
    DEF OutputIgnored, queueVars, pushVars, codecVars, clientVars, recordVars,
        RemovePendingOutput, IsClosed
  <2>3. InBrowser' \subseteq InBrowser
    BY <2>1, <2>2, OutputOffTheLine DEF OutputIgnored, InBrowser
  <2> QED
    BY <2>2, <2>3, FedStands, QuietStep
<1>2. CASE \E id \in 0 .. MaxPackets, kind \in ErrorKinds : OutputCloses(id, kind)
  BY <1>2, FatalCloseFault DEF OutputCloses, clientVars, IdsSpent, idVars
<1>3. CASE \E id \in 0 .. MaxPackets, bytes \in FrameBytes : OutputAdmitted(id, bytes)
  <2>1. FedIds' \subseteq FedIds
    BY <1>3, FedAdmits
  <2> QED
    BY <1>3, <2>1, QuietStep DEF OutputAdmitted, clientVars, IsClosed
<1>4. CASE ErrorCallback
  <2>1. IsClosed' /\ ClearGeneration
    BY <1>4, FatalCloseFresh DEF ErrorCallback, ErrorKinds
  <2>2. StartsOver
    BY <1>4, <2>1 DEF ErrorCallback, StartsOver, IdsSpent, idVars
  <2> QED
    BY <1>4, <2>1, <2>2, FedStartsOver, FaultStep DEF ErrorCallback, clientVars
<1>5. CASE DequeueCallback
  <2>1. FedIds' = FedIds
    BY <1>5, FedSame DEF DequeueCallback, queueVars, recordVars, pushVars
  <2> QED
    BY <1>5, <2>1, QuietStep DEF DequeueCallback, clientVars, IsClosed
<1> QED
  BY <1>1, <1>2, <1>3, <1>4, <1>5
  DEF OutputCallback, OutputUnmatched, OutputUnmeasured, OutputRefused, ErrorKinds

\* A copy task carries its frame on, loses it, or faults.
LEMMA RhythmCopy ==
  ASSUME TypeOK, StreamInv, NEW c \in copies, CopyTask(c)
  PROVE  RhythmStep
<1>1. CASE CopyOverflows(c) \/ \E copied \in BOOLEAN : CopyFails(c, copied)
  <2>1. PICK kind \in ErrorKinds : FatalClose(kind)
    BY <1>1 DEF CopyOverflows, CopyFails, ErrorKinds
  <2>2. CopyEnds(c)
    BY <1>1 DEF CopyOverflows, CopyFails
  <2> QED
    BY <2>1, <2>2, FatalCloseFault DEF CopyEnds, clientVars, IdsSpent, idVars
<1>2. CASE CopyStarts(c) \/ CopyDiscarded(c) \/ CopyDelivered(c)
  <2>1. FedIds' \subseteq FedIds
    BY <1>2, FedCopies, FedDelivers
  <2> QED
    BY <1>2, <2>1, QuietStep
    DEF CopyStarts, CopyDiscarded, CopyDelivered, CopyEnds, clientVars, IsClosed
<1> QED
  BY <1>1, <1>2 DEF CopyTask

\* The browser's own steps move chunks and swallow them.
LEMMA RhythmBrowser ==
  ASSUME TypeOK, StreamInv, [Next]_vars, CodecTakes \/ CodecEmits \/ FlushSettles
  PROVE  RhythmStep
<1>1. UNCHANGED adapterVars
  BY DEF CodecTakes, CodecEmits, FlushSettles
<1>2. UNCHANGED <<queue, lastError, epoch, pendingPushes, pendingOutputs, copies, eof, answer>>
  BY <1>1 DEF adapterVars, queueVars, recordVars, pushVars, clientVars
<1>3. nextSubmissionId \in Nat /\ UNCHANGED nextSubmissionId
  BY <1>1 DEF adapterVars, idVars, TypeOK, StateTypeOK
<1>4. InBrowser' \subseteq InBrowser
  <2>1. \A bytes : ~SendAccepted(bytes)
    BY <1>3 DEF SendAccepted, SpendId
  <2> QED
    BY <2>1, BrowserGains
<1> QED
  BY <1>2, <1>4, FedStands, QuietStep DEF IsClosed

(***************************************************************************)
(* The decoder implements the push rhythm: each answer is one the contract *)
(* allows where it is given, a frame comes only from a packet accepted in  *)
(* this generation and at most once, and Ended only when nothing is left - *)
(* whatever the browser makes of the chunks, in whatever order the copies  *)
(* end, across closes, generations and dropped futures.                    *)
(***************************************************************************)
THEOREM RhythmKept == Spec => ImplementsRhythm
<1>1. Init => Rhythm!RhythmInit
  <2> SUFFICES ASSUME Init PROVE Rhythm!RhythmInit
    OBVIOUS
  <2>1. /\ inputQ = <<>> /\ held = {} /\ outputs = <<>> /\ copies = {}
        /\ pendingPushes = {} /\ queue = <<>>
        /\ eof = FALSE /\ answer = "none" /\ ~IsClosed
    BY DEF Init, StateInit, JsInit, IsClosed
  <2>2. InBrowser = {} /\ LiveCopies = {} /\ Range(Ids(queue)) = {}
    BY <2>1 DEF InBrowser, Range, Ids, LiveCopies
  <2>3. FedIds = {}
    BY <2>1, <2>2, FedIdsAre
  <2> QED
    BY <2>1, <2>3 DEF Rhythm!RhythmInit
<1>2. TypeOK /\ StreamInv /\ [Next]_vars => [Rhythm!RhythmNext]_Rhythm!rhythmVars
  <2> SUFFICES ASSUME TypeOK, StreamInv, [Next]_vars PROVE RhythmStep
    BY DEF RhythmStep
  <2>1. CASE \E c \in copies : CopyTask(c)
    BY <2>1, RhythmCopy
  <2>2. CASE UNCHANGED vars
    <3>1. FedIds' = FedIds
      BY <2>2, FedSame DEF vars, queueVars, recordVars, pushVars, jsVars
    <3> QED
      BY <2>2, <3>1, QuietStep DEF vars, clientVars, IsClosed
  <2> QED
    BY <2>1, <2>2, RhythmSend, RhythmReceive, RhythmEof, RhythmFlush, RhythmCallbacks,
       RhythmBrowser
    DEF Next
<1>3. Spec => Rhythm!RhythmSpec
  BY <1>1, <1>2, StreamAlways, PTL DEF Spec, Rhythm!RhythmSpec
<1> QED
  BY <1>3 DEF ImplementsRhythm

-----------------------------------------------------------------------------
(* Byte totals: of a set, whatever order it is summed in, and of a run of     *)
(* frames.                                                                    *)

\* A nonempty family of subsets of a finite set has a smallest member.
LEMMA SmallestSubset ==
  ASSUME NEW S, IsFiniteSet(S), NEW P \in SUBSET SUBSET S, P # {}
  PROVE  \E s \in P : \A t \in P : Cardinality(s) <= Cardinality(t)
<1> DEFINE sizes == {Cardinality(s) : s \in P}
<1>1. \A s \in P : Cardinality(s) \in Nat
  BY FS_Subset, FS_CardinalityType
<1>2. sizes \in SUBSET Nat /\ sizes # {}
  BY <1>1
<1> HIDE DEF sizes
<1>3. PICK m \in sizes : \A k \in sizes : m <= k
  BY <1>2, LeastNat
<1> QED
  BY <1>3 DEF sizes

\* One element fewer.
LEMMA OneFewer ==
  ASSUME NEW S, IsFiniteSet(S), NEW s \in SUBSET S, NEW x \in s
  PROVE  /\ IsFiniteSet(s) /\ IsFiniteSet(s \ {x}) /\ s \ {x} \in SUBSET S
         /\ Cardinality(s) \in Nat /\ Cardinality(s \ {x}) \in Nat
         /\ Cardinality(s \ {x}) = Cardinality(s) - 1
         /\ ~(Cardinality(s) <= Cardinality(s \ {x}))
<1>1. IsFiniteSet(s) /\ Cardinality(s) \in Nat
  BY FS_Subset, FS_CardinalityType
<1>2. IsFiniteSet(s \ {x}) /\ Cardinality(s \ {x}) = Cardinality(s) - 1
  BY <1>1, FS_RemoveElement
<1>3. Cardinality(s \ {x}) \in Nat
  BY <1>2, FS_CardinalityType
<1> QED
  BY <1>1, <1>2, <1>3

\* The recursion SumBytes is defined by.
Chosen(s) == CHOOSE r \in s : TRUE
SumStep(f, s) == IF s = {} THEN 0 ELSE f[s \ {Chosen(s)}] + Chosen(s).bytes
SumsOf(S) == CHOOSE f : f = [s \in SUBSET S |-> SumStep(f, s)]

LEMMA SumIsLast ==
  ASSUME NEW S
  PROVE  SumBytes(S) = SumsOf(S)[S]
BY DEF SumBytes, FoldSet, MapThenFoldSet, SumsOf, SumStep, Chosen

\* A function that satisfies the recursion exists, one cardinality after another.
LEMMA SumsExist ==
  ASSUME NEW S, IsFiniteSet(S)
  PROVE  \E f : f = [s \in SUBSET S |-> SumStep(f, s)]
<1> DEFINE N == Cardinality(S)
           Small(m) == {s \in SUBSET S : Cardinality(s) <= m}
           UpTo(m, f) == f = [s \in Small(m) |-> SumStep(f, s)]
           bad == {m \in 0 .. N : ~ \E f : UpTo(m, f)}
<1>1. N \in Nat
  BY FS_CardinalityType
<1>2. Small(N) = SUBSET S
  BY FS_Subset
<1>3. bad = {}
  <2>1. SUFFICES ASSUME bad # {} PROVE FALSE
    OBVIOUS
  <2>2. bad \in SUBSET Nat
    BY <1>1
  <2>3. PICK m \in bad : \A k \in bad : m <= k
    BY <2>1, <2>2, LeastNat
  <2>4. m \in Nat /\ m \in 0 .. N /\ ~ \E f : UpTo(m, f)
    BY <2>2, <2>3
  <2>5. CASE m = 0
    <3> DEFINE g == [s \in Small(0) |-> 0]
    <3>1. \A s \in Small(0) : s = {}
      <4> TAKE s \in Small(0)
      <4>1. IsFiniteSet(s) /\ Cardinality(s) = 0
        BY FS_Subset, FS_CardinalityType
      <4> QED
        BY <4>1, FS_EmptySet
    <3>2. \A s \in Small(0) : g[s] = SumStep(g, s)
      BY <3>1 DEF SumStep
    <3>3. UpTo(0, g)
      <4> HIDE DEF SumStep, Small
      <4> QED
        BY <3>2, Zenon
    <3> QED
      BY <3>3, <2>4, <2>5
  <2>6. CASE m # 0
    <3>1. m - 1 \in 0 .. N /\ ~(m <= m - 1)
      <4> HIDE DEF N
      <4> QED
        BY <2>4, <2>6, <1>1
    <3>2. m - 1 \notin bad
      <4> HIDE DEF bad
      <4> QED
        BY <2>3, <3>1
    <3>3. PICK f : UpTo(m - 1, f)
      BY <3>1, <3>2
    <3> DEFINE g == [s \in Small(m) |->
                       IF Cardinality(s) = m THEN f[s \ {Chosen(s)}] + Chosen(s).bytes
                       ELSE f[s]]
    <3>4. \A s \in Small(m - 1) : f[s] = SumStep(f, s)
      <4> HIDE DEF SumStep, Small
      <4> QED
        BY <3>3
    <3>5. ASSUME NEW s \in Small(m)
          PROVE  g[s] = SumStep(g, s)
      <4>1. s \in SUBSET S /\ IsFiniteSet(s) /\ Cardinality(s) \in Nat /\ Cardinality(s) <= m
        BY FS_Subset, FS_CardinalityType
      <4>2. CASE s = {}
        <5>1. Cardinality(s) = 0
          BY <4>2, FS_EmptySet
        <5>2. s \in Small(m - 1) /\ Cardinality(s) # m
          BY <4>1, <5>1, <2>4, <2>6
        <5>3. g[s] = f[s]
          BY <5>2
        <5> QED
          BY <4>2, <5>2, <5>3, <3>4 DEF SumStep
      <4>3. CASE s # {}
        <5> DEFINE r == s \ {Chosen(s)}
        <5>1. Chosen(s) \in s
          BY <4>3 DEF Chosen
        <5>2. r \in SUBSET S /\ Cardinality(r) = Cardinality(s) - 1 /\ Cardinality(r) \in Nat
          BY <4>1, <5>1, OneFewer
        <5>3. r \in Small(m) /\ Cardinality(r) # m
          BY <4>1, <5>2, <2>4
        <5>4. g[r] = f[r]
          BY <5>3
        <5>5. SumStep(g, s) = f[r] + Chosen(s).bytes
          BY <4>3, <5>4 DEF SumStep
        <5>6. CASE Cardinality(s) = m
          BY <5>5, <5>6
        <5>7. CASE Cardinality(s) # m
          <6>1. s \in Small(m - 1) /\ g[s] = f[s]
            BY <4>1, <5>7, <2>4
          <6>2. f[s] = f[r] + Chosen(s).bytes
            BY <6>1, <3>4, <4>3 DEF SumStep
          <6> QED
            BY <5>5, <6>1, <6>2
        <5> QED
          BY <5>6, <5>7
      <4> QED
        BY <4>2, <4>3
    <3>6. UpTo(m, g)
      <4> HIDE DEF SumStep, Small
      <4> QED
        BY <3>5, Zenon
    <3> QED
      BY <3>6, <2>4
  <2> QED
    BY <2>5, <2>6
<1>4. \E f : UpTo(N, f)
  <2>1. N \in 0 .. N
    <3> HIDE DEF N
    <3> QED
      BY <1>1
  <2> QED
    BY <2>1, <1>3
<1> QED
  BY <1>2, <1>4

\* Which makes it the function CHOOSE picks.
LEMMA SumsStep ==
  ASSUME NEW S, IsFiniteSet(S), NEW s \in SUBSET S
  PROVE  SumsOf(S)[s] = SumStep(SumsOf(S), s)
<1> DEFINE f == SumsOf(S)
<1>1. f = [t \in SUBSET S |-> SumStep(f, t)]
  BY SumsExist, Zenon DEF SumsOf
<1> HIDE DEF f
<1>2. f[s] = SumStep(f, s)
  <2> HIDE DEF SumStep
  <2> QED
    BY <1>1
<1> QED
  BY <1>2 DEF f

\* The total of a set is the same within every larger one.
LEMMA SumsAgree ==
  ASSUME NEW A, NEW B, IsFiniteSet(A), IsFiniteSet(B), NEW s \in SUBSET (A \cap B)
  PROVE  SumsOf(A)[s] = SumsOf(B)[s]
<1> DEFINE bad == {t \in SUBSET (A \cap B) : SumsOf(A)[t] # SumsOf(B)[t]}
<1>1. IsFiniteSet(A \cap B)
  BY FS_Intersection
<1>2. SUFFICES ASSUME bad # {} PROVE FALSE
  OBVIOUS
<1>3. PICK t \in bad : \A u \in bad : Cardinality(t) <= Cardinality(u)
  <2>1. bad \in SUBSET SUBSET (A \cap B)
    OBVIOUS
  <2> HIDE DEF bad
  <2> QED
    BY <1>1, <1>2, <2>1, SmallestSubset
<1>4. /\ t \in SUBSET A /\ t \in SUBSET B /\ t \in SUBSET (A \cap B)
      /\ SumsOf(A)[t] # SumsOf(B)[t]
  BY <1>3
<1>5. /\ SumsOf(A)[t] = SumStep(SumsOf(A), t)
      /\ SumsOf(B)[t] = SumStep(SumsOf(B), t)
  BY <1>4, SumsStep
<1>6. CASE t = {}
  BY <1>4, <1>5, <1>6 DEF SumStep
<1>7. CASE t # {}
  <2> DEFINE r == t \ {Chosen(t)}
  <2>1. Chosen(t) \in t
    BY <1>7 DEF Chosen
  <2>2. r \in SUBSET (A \cap B) /\ ~(Cardinality(t) <= Cardinality(r))
    BY <1>1, <1>4, <2>1, OneFewer
  <2>3. r \notin bad
    BY <1>3, <2>2
  <2>4. SumsOf(A)[r] = SumsOf(B)[r]
    BY <2>2, <2>3
  <2> QED
    BY <1>4, <1>5, <1>7, <2>4 DEF SumStep
<1> QED
  BY <1>6, <1>7

\* The recursion on SumBytes itself.
LEMMA SumBytesStep ==
  ASSUME NEW S, IsFiniteSet(S)
  PROVE  SumBytes(S) = IF S = {} THEN 0 ELSE SumBytes(S \ {Chosen(S)}) + Chosen(S).bytes
<1>1. SumBytes(S) = SumStep(SumsOf(S), S)
  BY SumIsLast, SumsStep
<1>2. CASE S = {}
  BY <1>1, <1>2 DEF SumStep
<1>3. CASE S # {}
  <2> DEFINE r == S \ {Chosen(S)}
  <2>1. IsFiniteSet(r) /\ r \in SUBSET (S \cap r)
    BY FS_Subset
  <2>2. SumsOf(S)[r] = SumsOf(r)[r]
    BY <2>1, SumsAgree
  <2>3. SumsOf(r)[r] = SumBytes(r)
    BY SumIsLast
  <2> QED
    BY <1>1, <1>3, <2>2, <2>3 DEF SumStep
<1> QED
  BY <1>2, <1>3

\* Nothing weighs nothing.
LEMMA SumBytesEmpty == SumBytes({}) = 0
BY FS_EmptySet, SumBytesStep

\* Sets whose elements have a size.
Sized(S) == IsFiniteSet(S) /\ \A r \in S : r.bytes \in Nat

\* A total is a natural.
LEMMA SumBytesType ==
  ASSUME NEW S, Sized(S)
  PROVE  SumBytes(S) \in Nat
<1> DEFINE bad == {s \in SUBSET S : SumBytes(s) \notin Nat}
<1>1. IsFiniteSet(S) /\ \A r \in S : r.bytes \in Nat
  BY DEF Sized
<1>2. SUFFICES ASSUME bad # {} PROVE FALSE
  OBVIOUS
<1>3. PICK s \in bad : \A t \in bad : Cardinality(s) <= Cardinality(t)
  <2>1. bad \in SUBSET SUBSET S
    OBVIOUS
  <2> HIDE DEF bad
  <2> QED
    BY <1>1, <1>2, <2>1, SmallestSubset
<1>4. s \in SUBSET S /\ SumBytes(s) \notin Nat /\ IsFiniteSet(s)
  BY <1>1, <1>3, FS_Subset
<1>5. s # {}
  BY <1>4, SumBytesEmpty
<1>6. Chosen(s) \in s /\ Chosen(s).bytes \in Nat
  BY <1>1, <1>4, <1>5 DEF Chosen
<1> DEFINE r == s \ {Chosen(s)}
<1>7. r \in SUBSET S /\ ~(Cardinality(s) <= Cardinality(r))
  BY <1>1, <1>4, <1>6, OneFewer
<1>8. SumBytes(r) \in Nat
  BY <1>3, <1>7
<1>9. SumBytes(s) = SumBytes(r) + Chosen(s).bytes
  BY <1>4, <1>5, SumBytesStep
<1> QED
  BY <1>4, <1>6, <1>8, <1>9

\* The order does not matter: any element can be taken out first.
LEMMA SumBytesRemove ==
  ASSUME NEW S, Sized(S), NEW x \in S
  PROVE  SumBytes(S) = SumBytes(S \ {x}) + x.bytes
<1> DEFINE bad == {s \in SUBSET S : \E y \in s : SumBytes(s) # SumBytes(s \ {y}) + y.bytes}
<1>1. IsFiniteSet(S) /\ \A r \in S : r.bytes \in Nat
  BY DEF Sized
<1>2. SUFFICES ASSUME bad # {} PROVE FALSE
  OBVIOUS
<1>3. PICK s \in bad : \A t \in bad : Cardinality(s) <= Cardinality(t)
  <2>1. bad \in SUBSET SUBSET S
    OBVIOUS
  <2> HIDE DEF bad
  <2> QED
    BY <1>1, <1>2, <2>1, SmallestSubset
<1>4. s \in SUBSET S /\ IsFiniteSet(s) /\ s # {}
  BY <1>1, <1>3, FS_Subset
<1>5. PICK y \in s : SumBytes(s) # SumBytes(s \ {y}) + y.bytes
  BY <1>3
<1> DEFINE p == Chosen(s)
<1>6. p \in s /\ SumBytes(s) = SumBytes(s \ {p}) + p.bytes
  BY <1>4, SumBytesStep DEF Chosen
<1> HIDE DEF p
<1>7. p # y
  BY <1>5, <1>6
<1>8. /\ s \ {p} \in SUBSET S /\ ~(Cardinality(s) <= Cardinality(s \ {p}))
      /\ s \ {y} \in SUBSET S /\ ~(Cardinality(s) <= Cardinality(s \ {y}))
  BY <1>1, <1>4, <1>5, <1>6, OneFewer
<1>9. s \ {p} \notin bad /\ s \ {y} \notin bad
  BY <1>3, <1>8
<1>10. SumBytes(s \ {p}) = SumBytes((s \ {p}) \ {y}) + y.bytes
  BY <1>5, <1>7, <1>8, <1>9
<1>11. SumBytes(s \ {y}) = SumBytes((s \ {y}) \ {p}) + p.bytes
  BY <1>6, <1>7, <1>8, <1>9
<1>12. (s \ {p}) \ {y} = (s \ {y}) \ {p}
  OBVIOUS
<1>13. /\ SumBytes((s \ {y}) \ {p}) \in Nat /\ p.bytes \in Nat /\ y.bytes \in Nat
  <2>1. Sized((s \ {y}) \ {p})
    BY <1>1, <1>4, FS_Subset DEF Sized
  <2> QED
    BY <2>1, <1>1, <1>4, <1>5, <1>6, SumBytesType
<1> DEFINE rest == SumBytes((s \ {y}) \ {p})
<1>14. SumBytes(s) = rest + y.bytes + p.bytes
  BY <1>6, <1>10, <1>12
<1>15. SumBytes(s \ {y}) = rest + p.bytes
  BY <1>11
<1>16. rest \in Nat /\ p.bytes \in Nat /\ y.bytes \in Nat
  BY <1>13
<1> HIDE DEF rest
<1>17. rest + y.bytes + p.bytes = rest + p.bytes + y.bytes
  BY <1>16
<1> QED
  BY <1>5, <1>14, <1>15, <1>17

\* Adding an element.
LEMMA SumBytesAdd ==
  ASSUME NEW S, Sized(S), NEW x, x \notin S, x.bytes \in Nat
  PROVE  /\ Sized(S \cup {x})
         /\ SumBytes(S \cup {x}) = SumBytes(S) + x.bytes
<1>1. Sized(S \cup {x})
  BY FS_AddElement DEF Sized
<1>2. (S \cup {x}) \ {x} = S
  OBVIOUS
<1>3. SumBytes(S \cup {x}) = SumBytes((S \cup {x}) \ {x}) + x.bytes
  BY <1>1, SumBytesRemove
<1> QED
  BY <1>1, <1>2, <1>3

\* The bytes of no frames, of one, and of one run after another.
LEMMA BytesOfNone == BytesOf(<<>>) = 0
<1>1. <<>> \in Seq(Frame) /\ Len(<<>>) = 0
  BY NoneYet
<1>2. 0 \in 0 .. Len(<<>>)
  BY <1>1
<1>3. TotalsOf(<<>>)[0] = 0
  BY <1>1, <1>2, TotalsStep
<1> QED
  BY <1>1, <1>3, BytesIsLast

LEMMA BytesOfOne ==
  ASSUME NEW x \in Frame
  PROVE  BytesOf(<<x>>) = x.bytes
<1> DEFINE s == <<x>>
<1>1. s \in Seq(Frame) /\ Len(s) = 1 /\ s[1] = x /\ x.bytes \in Nat
  BY DEF Frame
<1> HIDE DEF s
<1>2. 0 \in 0 .. Len(s) /\ 1 \in 0 .. Len(s)
  BY <1>1
<1>3. TotalsOf(s)[0] = 0 /\ TotalsOf(s)[1] = TotalsOf(s)[1 - 1] + s[1].bytes
  BY <1>1, <1>2, TotalsStep
<1>4. TotalsOf(s)[1] = x.bytes
  BY <1>1, <1>3
<1> QED
  BY <1>1, <1>4, BytesIsLast DEF s

LEMMA BytesOfConcat ==
  ASSUME NEW s \in Seq(Frame), NEW t \in Seq(Frame)
  PROVE  BytesOf(s \o t) = BytesOf(s) + BytesOf(t)
<1> DEFINE m == Len(s)
           n == Len(t)
           u == s \o t
           A == TotalsOf(s)
           B == TotalsOf(t)
           T == TotalsOf(u)
           lag == {k \in 0 .. m : T[k] # A[k]}
           off == {k \in 0 .. n : T[m + k] # A[m] + B[k]}
<1>1. /\ m \in Nat /\ n \in Nat
      /\ u \in Seq(Frame) /\ Len(u) = m + n
      /\ \A k \in 1 .. m + n : u[k] = IF k <= m THEN s[k] ELSE t[k - m]
  BY ConcatProperties
<1>2. /\ \A k \in 0 .. m : A[k] = IF k = 0 THEN 0 ELSE A[k - 1] + s[k].bytes
      /\ \A k \in 0 .. n : B[k] = IF k = 0 THEN 0 ELSE B[k - 1] + t[k].bytes
  BY TotalsStep
<1>3. \A k \in 0 .. m + n : T[k] = IF k = 0 THEN 0 ELSE T[k - 1] + u[k].bytes
  BY <1>1, TotalsStep
<1>4. \A k \in 0 .. m : A[k] \in Nat
  BY TotalsType
<1>5. \A k \in 0 .. n : B[k] \in Nat
  BY TotalsType
<1>6. \A k \in 1 .. n : t[k].bytes \in Nat
  <2>1. \A k \in 1 .. n : t[k] \in Frame
    BY <1>1
  <2> QED
    BY <2>1 DEF Frame
<1>7. BytesOf(s) = A[m] /\ BytesOf(t) = B[n] /\ BytesOf(u) = T[m + n]
  BY <1>1, BytesIsLast
<1> HIDE DEF m, n, u, A, B, T
<1>8. lag = {}
  <2>1. SUFFICES ASSUME lag # {} PROVE FALSE
    OBVIOUS
  <2>2. lag \in SUBSET Nat
    BY <1>1
  <2> HIDE DEF lag
  <2>3. PICK k \in lag : \A j \in lag : k <= j
    BY <2>1, <2>2, LeastNat
  <2>4. k \in 0 .. m /\ T[k] # A[k]
    BY <2>3 DEF lag
  <2>5. k # 0
    BY <2>4, <1>1, <1>2, <1>3
  <2>6. k \in 1 .. m + n /\ k - 1 \in 0 .. m /\ ~(k <= k - 1)
    BY <2>4, <2>5, <1>1
  <2>7. k - 1 \notin lag
    BY <2>3, <2>6
  <2>8. T[k - 1] = A[k - 1]
    BY <2>6, <2>7 DEF lag
  <2>9. u[k] = s[k]
    BY <2>4, <2>6, <1>1
  <2> QED
    BY <2>4, <2>5, <2>6, <2>8, <2>9, <1>1, <1>2, <1>3
<1>9. off = {}
  <2>1. SUFFICES ASSUME off # {} PROVE FALSE
    OBVIOUS
  <2>2. off \in SUBSET Nat
    BY <1>1
  <2> HIDE DEF off
  <2>3. PICK k \in off : \A j \in off : k <= j
    BY <2>1, <2>2, LeastNat
  <2>4. k \in 0 .. n /\ T[m + k] # A[m] + B[k]
    BY <2>3 DEF off
  <2>5. m \in 0 .. m /\ T[m] = A[m] /\ A[m] \in Nat
    BY <1>1, <1>4, <1>8
  <2>6. k # 0
    <3>1. 0 \in 0 .. n /\ B[0] = 0 /\ m + 0 = m /\ A[m] + 0 = A[m]
      BY <2>5, <1>1, <1>2
    <3> QED
      BY <3>1, <2>4, <2>5
  <2>7. k - 1 \in 0 .. n /\ ~(k <= k - 1) /\ k \in 1 .. n
    BY <2>4, <2>6, <1>1
  <2>8. k - 1 \notin off
    BY <2>3, <2>7
  <2>9. T[m + (k - 1)] = A[m] + B[k - 1]
    BY <2>7, <2>8 DEF off
  <2>10. /\ m + k \in 1 .. m + n /\ ~(m + k <= m) /\ m + k - m = k
         /\ m + k - 1 = m + (k - 1) /\ m + k # 0
    BY <2>7, <1>1
  <2>11. u[m + k] = t[k]
    <3> DEFINE i == m + k
    <3>1. i \in 1 .. m + n /\ ~(i <= m) /\ i - m = k
      <4>1. k \in 1 .. n /\ m \in Nat /\ n \in Nat
        BY <2>7, <1>1
      <4> QED
        BY <4>1
    <3> HIDE DEF i
    <3>2. u[i] = t[i - m]
      BY <3>1, <1>1
    <3> QED
      BY <3>1, <3>2 DEF i
  <2>12. T[m + k] = T[m + (k - 1)] + t[k].bytes
    <3> DEFINE i == m + k
    <3>1. i \in 0 .. m + n /\ i # 0 /\ i - 1 = m + (k - 1)
      <4>1. k \in 1 .. n /\ m \in Nat /\ n \in Nat
        BY <2>7, <1>1
      <4> QED
        BY <4>1
    <3>2. u[i] = t[k]
      BY <2>11
    <3> HIDE DEF i
    <3>3. T[i] = T[i - 1] + u[i].bytes
      BY <3>1, <1>3
    <3> QED
      BY <3>1, <3>2, <3>3 DEF i
  <2>13. B[k] = B[k - 1] + t[k].bytes
    BY <2>4, <2>6, <1>2
  <2>14. B[k - 1] \in Nat /\ t[k].bytes \in Nat
    BY <2>7, <1>5, <1>6
  <2> QED
    BY <2>4, <2>5, <2>9, <2>12, <2>13, <2>14
<1>10. n \in 0 .. n
  BY <1>1
<1>11. T[m + n] = A[m] + B[n]
  BY <1>9, <1>10
<1> QED
  BY <1>7, <1>11 DEF u

\* Taking the first frame off.
LEMMA BytesOfPop ==
  ASSUME NEW s \in Seq(Frame), s # <<>>
  PROVE  /\ BytesOf(s) = Head(s).bytes + BytesOf(Tail(s))
         /\ Head(s).bytes \in Nat /\ BytesOf(Tail(s)) \in Nat
<1>1. Head(s) \in Frame /\ Tail(s) \in Seq(Frame) /\ <<Head(s)>> \in Seq(Frame)
  OBVIOUS
<1>2. <<Head(s)>> \o Tail(s) = s
  BY <1>1
<1>3. BytesOf(<<Head(s)>> \o Tail(s)) = BytesOf(<<Head(s)>>) + BytesOf(Tail(s))
  BY <1>1, BytesOfConcat
<1>4. BytesOf(<<Head(s)>>) = Head(s).bytes
  BY <1>1, BytesOfOne
<1>5. Head(s).bytes \in Nat /\ BytesOf(Tail(s)) \in Nat
  BY <1>1, BytesOfType DEF Frame
<1> QED
  BY <1>2, <1>3, <1>4, <1>5

(***************************************************************************)
(* What the drain loop hands over and what stays parked weigh together     *)
(* what was parked, provided that no two pushes hold one sequence and none *)
(* is behind the queue.                                                    *)
(***************************************************************************)
LEMMA DrainedBytes ==
  ASSUME NEW pushes \in SUBSET Push, IsFiniteSet(pushes), nextPushSeq \in Nat,
         \A p, q \in pushes : p.seq = q.seq => p = q,
         \A p \in pushes : p.seq >= nextPushSeq
  PROVE  /\ Sized({p \in pushes : p.seq >= DrainEnd(pushes)})
         /\ BytesOf(Drained(pushes)) + SumBytes({p \in pushes : p.seq >= DrainEnd(pushes)})
              = SumBytes(pushes)
<1> DEFINE D == Drained(pushes)
           n == DrainEnd(pushes) - nextPushSeq
           T == TotalsOf(D)
           From(s) == {p \in pushes : p.seq >= s}
           off == {k \in 0 .. n : T[k] + SumBytes(From(nextPushSeq + k)) # SumBytes(pushes)}
<1>1. /\ DrainEnd(pushes) \in Nat /\ n \in Nat /\ nextPushSeq + n = DrainEnd(pushes)
  BY DrainEndFact
<1>2. D \in Seq(Frame) /\ Len(D) = n
  BY DrainedType
<1>3. \A p \in pushes : p.seq \in Nat /\ p.bytes \in Nat
  BY DEF Push
<1>4. \A s : Sized(From(s))
  <2> TAKE s
  <2>1. From(s) \in SUBSET pushes
    OBVIOUS
  <2> QED
    BY <2>1, <1>3, FS_Subset DEF Sized
<1>5. \A k \in 1 .. n : \E p \in pushes :
        /\ p.seq = nextPushSeq + k - 1
        /\ D[k] = [id |-> p.id, bytes |-> p.bytes]
  BY DrainedIds
<1>6. \A k \in 0 .. n : T[k] = IF k = 0 THEN 0 ELSE T[k - 1] + D[k].bytes
  BY <1>2, TotalsStep
<1>7. \A k \in 0 .. n : T[k] \in Nat
  BY <1>2, TotalsType
<1>8. BytesOf(D) = T[n]
  BY <1>2, BytesIsLast
<1> HIDE DEF D, T, n
<1>9. off = {}
  <2>1. SUFFICES ASSUME off # {} PROVE FALSE
    OBVIOUS
  <2>2. off \in SUBSET Nat
    BY <1>1
  <2> HIDE DEF off
  <2>3. PICK k \in off : \A j \in off : k <= j
    BY <2>1, <2>2, LeastNat
  <2>4. k \in 0 .. n /\ T[k] + SumBytes(From(nextPushSeq + k)) # SumBytes(pushes)
    BY <2>3 DEF off
  <2>5. k # 0
    <3>1. From(nextPushSeq + 0) = pushes
      OBVIOUS
    <3>2. T[0] = 0
      BY <1>1, <1>6
    <3>3. Sized(pushes)
      BY <1>3 DEF Sized
    <3>4. SumBytes(pushes) \in Nat
      BY <3>3, SumBytesType
    <3>5. 0 + SumBytes(pushes) = SumBytes(pushes)
      BY <3>4
    <3> QED
      BY <3>1, <3>2, <3>5, <2>4
  <2>6. k \in 1 .. n /\ k - 1 \in 0 .. n /\ ~(k <= k - 1)
    BY <2>4, <2>5, <1>1
  <2>7. k - 1 \notin off
    BY <2>3, <2>6
  <2>8. T[k - 1] + SumBytes(From(nextPushSeq + (k - 1))) = SumBytes(pushes)
    BY <2>6, <2>7 DEF off
  <2>9. PICK p \in pushes : /\ p.seq = nextPushSeq + k - 1
                            /\ D[k] = [id |-> p.id, bytes |-> p.bytes]
    BY <2>6, <1>5
  <2>10. p \in From(nextPushSeq + (k - 1))
    BY <2>6, <2>9, <1>3
  <2>11. From(nextPushSeq + (k - 1)) \ {p} = From(nextPushSeq + k)
    <3>1. \A q \in pushes :
            q.seq >= nextPushSeq + k <=> q.seq >= nextPushSeq + (k - 1) /\ q.seq # p.seq
      BY <2>6, <2>9, <1>3
    <3> QED
      BY <3>1
  <2>12. SumBytes(From(nextPushSeq + (k - 1))) = SumBytes(From(nextPushSeq + k)) + p.bytes
    BY <2>10, <2>11, <1>4, SumBytesRemove
  <2>13. T[k] = T[k - 1] + p.bytes
    BY <2>4, <2>5, <2>9, <1>6
  <2>14. SumBytes(From(nextPushSeq + k)) \in Nat
    BY <1>4, SumBytesType
  <2>15. T[k - 1] \in Nat /\ p.bytes \in Nat
    BY <2>6, <1>3, <1>7
  <2> DEFINE a == SumBytes(From(nextPushSeq + k))
  <2>16. T[k - 1] + (a + p.bytes) = T[k - 1] + p.bytes + a
    BY <2>14, <2>15
  <2> QED
    BY <2>4, <2>8, <2>12, <2>13, <2>16
<1>10. n \in 0 .. n
  BY <1>1
<1>11. T[n] + SumBytes(From(DrainEnd(pushes))) = SumBytes(pushes)
  BY <1>1, <1>9, <1>10
<1> QED
  BY <1>4, <1>8, <1>11 DEF D

-----------------------------------------------------------------------------
(* The accounts are true, the caps hold and draining is possible *)

(***************************************************************************)
(* Each counter against what it counts.  The parts hold one another up     *)
(* with the invariants above: a parked push may be weighed where it is     *)
(* queued only because no two hold one sequence (ReorderInv), and a record *)
(* or copy may be added only because it is not there yet (IdsInv,          *)
(* CopiesInv).                                                             *)
(***************************************************************************)
CountsInv ==
  /\ pendingCopyBytes = Estimate(SumBytes(copies))
  /\ queueBytes = BytesOf(queue)
  /\ pendingPushBytes = SumBytes(pendingPushes)
  /\ pendingInputBytes = SumBytes(pendingOutputs)

\* An opened decoder holds nothing.
LEMMA CountsInit == Init => CountsInv
<1>1. Estimate(0) = 0
  BY DEF Estimate
<1> QED
  BY <1>1, SumBytesEmpty, BytesOfNone DEF Init, StateInit, CountsInv

\* Whatever is counted has a size.
LEMMA AllSized ==
  ASSUME TypeOK
  PROVE  Sized(copies) /\ Sized(pendingPushes) /\ Sized(pendingOutputs)
<1>1. Sized(copies)
  BY DEF TypeOK, Copy, Sized
<1>2. Sized(pendingPushes)
  BY DEF TypeOK, StateTypeOK, Push, Sized
<1>3. Sized(pendingOutputs)
  BY DEF TypeOK, StateTypeOK, Record, Sized
<1> QED
  BY <1>1, <1>2, <1>3

\* A task that ends gives back exactly the estimate it was admitted with.
LEMMA CountsEnd ==
  ASSUME TypeOK, CountsInv, NEW c \in copies, CopyEnds(c)
  PROVE  /\ pendingCopyBytes' = Estimate(SumBytes(copies'))
         /\ c.bytes \in Nat
         /\ pendingCopyBytes' \in Nat
         /\ pendingCopyBytes = pendingCopyBytes' + Estimate(c.bytes)
<1> DEFINE rest == SumBytes(copies \ {c})
           all == SumBytes(copies)
<1>1. all = rest + c.bytes
  BY AllSized, SumBytesRemove
<1>2. c.bytes \in Nat
  BY DEF TypeOK, Copy
<1>3. rest \in Nat
  <2>1. Sized(copies \ {c})
    BY AllSized, FS_RemoveElement DEF Sized
  <2> QED
    BY <2>1, SumBytesType
<1>4. copies' = copies \ {c} /\ pendingCopyBytes' = SatSub(pendingCopyBytes, Estimate(c.bytes))
  BY DEF CopyEnds, SubPendingCopy
<1>5. pendingCopyBytes = Estimate(all)
  BY DEF CountsInv
<1>6. SumBytes(copies') = rest
  BY <1>4
<1> HIDE DEF rest, all
<1> QED
  BY <1>1, <1>2, <1>3, <1>4, <1>5, <1>6 DEF SatSub, Estimate

\* A close, or a new generation: only the running copies still count.
LEMMA CountsStartOver ==
  ASSUME TypeOK, CountsInv, StartsOver
  PROVE  CountsInv'
<1>1. /\ queue' = <<>> /\ queueBytes' = 0
      /\ pendingOutputs' = {} /\ pendingInputBytes' = 0
      /\ pendingPushes' = {} /\ pendingPushBytes' = 0
  BY DEF StartsOver, ClearGeneration
<1>2. BytesOf(queue') = 0 /\ SumBytes(pendingOutputs') = 0 /\ SumBytes(pendingPushes') = 0
  BY <1>1, BytesOfNone, SumBytesEmpty
<1>3. pendingCopyBytes' = Estimate(SumBytes(copies'))
  <2>1. CASE UNCHANGED <<copies, copyCounters>>
    BY <2>1 DEF CountsInv, copyCounters
  <2> QED
    BY <2>1, CountsEnd DEF StartsOver
<1> QED
  BY <1>1, <1>2, <1>3 DEF CountsInv

\* A settled record takes its bytes with it.
LEMMA CountsSettle ==
  ASSUME TypeOK, CountsInv, NEW r \in pendingOutputs, RemovePendingOutput(r)
  PROVE  pendingInputBytes' = SumBytes(pendingOutputs') /\ pendingInputBytes' <= pendingInputBytes
<1> DEFINE rest == SumBytes(pendingOutputs \ {r})
           all == SumBytes(pendingOutputs)
<1>1. all = rest + r.bytes
  BY AllSized, SumBytesRemove
<1>2. r.bytes \in Nat
  BY DEF TypeOK, StateTypeOK, Record
<1>3. rest \in Nat
  <2>1. Sized(pendingOutputs \ {r})
    BY AllSized, FS_RemoveElement DEF Sized
  <2> QED
    BY <2>1, SumBytesType
<1>4. /\ pendingInputBytes = all
      /\ pendingInputBytes' = SatSub(pendingInputBytes, r.bytes)
      /\ SumBytes(pendingOutputs') = rest
  BY DEF CountsInv, RemovePendingOutput
<1> HIDE DEF rest, all
<1> QED
  BY <1>1, <1>2, <1>3, <1>4 DEF SatSub

\* An accepted packet: its id is new, so its record is.
LEMMA CountsAccept ==
  ASSUME TypeOK, IdsInv, CountsInv, NEW bytes \in PacketBytes[nextSubmissionId],
         SendAccepted(bytes)
  PROVE  CountsInv' /\ bytes \in Nat
<1> DEFINE r == [id |-> nextSubmissionId, epoch |-> epoch, bytes |-> bytes]
<1>1. nextSubmissionId \in 0 .. MaxPackets
  BY VideoAssumption DEF IdsInv, TypeOK, StateTypeOK
<1>2. bytes \in Nat
  BY <1>1, VideoAssumption
<1>3. /\ pendingOutputs' = pendingOutputs \cup {r}
      /\ pendingInputBytes' = pendingInputBytes + bytes
      /\ UNCHANGED <<copies, pendingCopyBytes, queue, queueBytes, pendingPushes,
                     pendingPushBytes>>
  BY DEF SendAccepted, InsertPendingOutput, SendReturns, queueVars, pushVars, copyCounters
<1>4. r.id = nextSubmissionId /\ r.bytes = bytes
  OBVIOUS
<1> HIDE DEF r
<1>5. r \notin pendingOutputs
  BY <1>4 DEF IdsInv, TypeOK, StateTypeOK
<1>6. SumBytes(pendingOutputs \cup {r}) = SumBytes(pendingOutputs) + r.bytes
  BY <1>2, <1>4, <1>5, AllSized, SumBytesAdd
<1> QED
  BY <1>2, <1>3, <1>4, <1>6 DEF CountsInv

\* A delivered frame leaves the queue.
LEMMA CountsProduce ==
  ASSUME TypeOK, CountsInv, ReceiveProduced
  PROVE  CountsInv' /\ queueBytes' <= queueBytes
<1>1. /\ queue \in Seq(Frame) /\ queue # <<>> /\ queue' = Tail(queue)
      /\ queueBytes' = SatSub(queueBytes, Head(queue).bytes)
      /\ UNCHANGED <<copies, pendingCopyBytes, pendingPushes, pendingPushBytes,
                     pendingOutputs, pendingInputBytes>>
  BY DEF ReceiveProduced, PopQueue, ReceiveReturns, TypeOK, StateTypeOK, copyCounters,
         recordVars, pushVars
<1>2. /\ BytesOf(queue) = Head(queue).bytes + BytesOf(Tail(queue))
      /\ Head(queue).bytes \in Nat /\ BytesOf(Tail(queue)) \in Nat
  BY <1>1, BytesOfPop
<1>3. queueBytes = BytesOf(queue)
  BY DEF CountsInv
<1>4. queueBytes' = BytesOf(Tail(queue)) /\ queueBytes' <= queueBytes
  BY <1>1, <1>2, <1>3 DEF SatSub
<1> QED
  BY <1>1, <1>4 DEF CountsInv

\* An admitted output: its record is settled and its copy is a new one.
LEMMA CountsAdmit ==
  ASSUME TypeOK, ReorderInv, CountsInv, NEW id \in 0 .. MaxPackets,
         NEW bytes \in FrameBytes, OutputAdmitted(id, bytes)
  PROVE  CountsInv' /\ bytes \in Nat /\ pendingInputBytes' <= pendingInputBytes
<1> DEFINE c == [id |-> id, epoch |-> epoch, seq |-> nextOutputSeq, bytes |-> bytes,
                 stage |-> "spawned"]
<1>1. /\ ~IsClosed /\ copies' = copies \cup {c}
      /\ pendingCopyBytes' = pendingCopyBytes + Estimate(bytes)
      /\ \E r \in pendingOutputs : RemovePendingOutput(r)
      /\ UNCHANGED <<queue, queueBytes, pendingPushes, pendingPushBytes>>
  BY DEF OutputAdmitted, Unwanted, AddPendingCopy, RecordOf, queueVars
<1>2. bytes \in Nat
  BY VideoAssumption
<1>3. c.epoch = epoch /\ c.seq = nextOutputSeq /\ c.bytes = bytes
  OBVIOUS
<1> HIDE DEF c
<1>4. c \notin copies
  BY <1>1, <1>3, CopyIsNew
<1>5. SumBytes(copies \cup {c}) = SumBytes(copies) + bytes /\ SumBytes(copies) \in Nat
  BY <1>2, <1>3, <1>4, AllSized, SumBytesAdd, SumBytesType
<1>6. Estimate(SumBytes(copies) + bytes) = Estimate(SumBytes(copies)) + Estimate(bytes)
  BY <1>2, <1>5 DEF Estimate
<1>7. pendingCopyBytes' = Estimate(SumBytes(copies'))
  BY <1>1, <1>5, <1>6 DEF CountsInv
<1> QED
  BY <1>1, <1>2, <1>7, CountsSettle DEF CountsInv

\* A task that starts copying is still worth the same.
LEMMA CountsStart ==
  ASSUME TypeOK, CopiesInv, CountsInv, NEW c \in copies, CopyStarts(c)
  PROVE  CountsInv'
<1> DEFINE d == [c EXCEPT !.stage = "copying"]
<1>1. c \in Copy /\ c.stage = "spawned"
  BY DEF TypeOK, CopyStarts
<1>2. d.seq = c.seq /\ d.epoch = c.epoch /\ d.bytes = c.bytes /\ d # c /\ c.bytes \in Nat
  <2>1. d.stage = "copying"
    BY <1>1 DEF Copy
  <2> QED
    BY <2>1, <1>1 DEF Copy
<1>3. /\ copies' = (copies \ {c}) \cup {d}
      /\ UNCHANGED <<pendingCopyBytes, queue, queueBytes, pendingPushes, pendingPushBytes,
                     pendingOutputs, pendingInputBytes>>
  BY DEF CopyStarts, copyCounters, queueVars, pushVars, recordVars
<1> HIDE DEF d
<1>4. d \notin copies
  BY <1>2 DEF CopiesInv
<1>5. Sized(copies \ {c})
  BY AllSized, FS_RemoveElement DEF Sized
<1>6. SumBytes((copies \ {c}) \cup {d}) = SumBytes(copies \ {c}) + d.bytes
  BY <1>2, <1>4, <1>5, SumBytesAdd
<1>7. SumBytes(copies) = SumBytes(copies \ {c}) + c.bytes
  BY AllSized, SumBytesRemove
<1> QED
  BY <1>2, <1>3, <1>6, <1>7 DEF CountsInv

\* A delivered copy: what its sequence releases is weighed in the queue, the
\* rest stays weighed in the reorder buffer.
LEMMA CountsDeliver ==
  ASSUME TypeOK, ReorderInv, CountsInv, NEW c \in copies, CopyDelivered(c)
  PROVE  /\ CountsInv'
         /\ queueBytes' + pendingPushBytes' = queueBytes + pendingPushBytes + c.bytes
<1> DEFINE p == PushOf(c)
           pushes == pendingPushes \cup {p}
           frames == Drained(pushes)
           left == {q \in pushes : q.seq >= DrainEnd(pushes)}
<1>1. /\ queue' = queue \o frames
      /\ queueBytes' = queueBytes + BytesOf(frames)
      /\ pendingPushes' = left
      /\ pendingPushBytes' = SatSub(pendingPushBytes + p.bytes, BytesOf(frames))
      /\ UNCHANGED <<pendingOutputs, pendingInputBytes>>
      /\ CopyEnds(c) /\ c \in LiveCopies
  BY DEF CopyDelivered, DeliverPendingPush, Completes, LiveCopies, recordVars
<1>2. /\ p \in Push /\ p.seq = c.seq /\ p.bytes = c.bytes /\ c.bytes \in Nat
  BY DEF TypeOK, PushOf, Copy, Push
<1> HIDE DEF p
<1>3. ~HasSeq(pendingPushes, p.seq) /\ p.seq \in Awaited
  BY <1>1, <1>2 DEF ReorderInv
<1>4. p \notin pendingPushes
  BY <1>3 DEF HasSeq
<1>5. SumBytes(pushes) = pendingPushBytes + c.bytes
  BY <1>2, <1>4, AllSized, SumBytesAdd DEF CountsInv
<1>6. /\ pushes \in SUBSET Push /\ IsFiniteSet(pushes) /\ nextPushSeq \in Nat
      /\ queue \in Seq(Frame)
  BY <1>2, FS_AddElement DEF TypeOK, StateTypeOK
<1>7. \A x, y \in pushes : x.seq = y.seq => x = y
  BY <1>3 DEF ReorderInv, HasSeq
<1>8. \A x \in pushes : x.seq >= nextPushSeq
  <2>1. \A x \in pushes : x.seq \in Awaited
    BY <1>3 DEF ReorderInv
  <2> QED
    BY <2>1 DEF Awaited, TypeOK, StateTypeOK
<1> HIDE DEF pushes
<1>9. Sized(left) /\ BytesOf(frames) + SumBytes(left) = SumBytes(pushes)
  BY <1>6, <1>7, <1>8, DrainedBytes
<1>10. frames \in Seq(Frame)
  BY <1>6, DrainedType
<1> HIDE DEF frames, left
<1>11. BytesOf(frames) \in Nat /\ SumBytes(left) \in Nat
  BY <1>9, <1>10, BytesOfType, SumBytesType
<1>12. pendingPushBytes' = SumBytes(pendingPushes')
  BY <1>1, <1>2, <1>5, <1>9, <1>11 DEF SatSub
<1>13. queueBytes' = BytesOf(queue')
  BY <1>1, <1>6, <1>10, BytesOfConcat DEF CountsInv
<1>14. pendingCopyBytes' = Estimate(SumBytes(copies'))
  BY <1>1, CountsEnd
<1>15. queueBytes' + pendingPushBytes' = queueBytes + pendingPushBytes + c.bytes
  <2>1. queueBytes \in Nat /\ pendingPushBytes \in Nat
    BY DEF TypeOK, StateTypeOK
  <2>2. pendingPushBytes' = SumBytes(left)
    BY <1>1, <1>12
  <2> DEFINE f == BytesOf(frames)
             s == SumBytes(left)
  <2>3. queueBytes' = queueBytes + f
    BY <1>1
  <2>4. f + s = pendingPushBytes + c.bytes
    BY <1>5, <1>9
  <2>5. f \in Nat /\ s \in Nat
    BY <1>11
  <2> HIDE DEF f, s
  <2>6. queueBytes' + s = queueBytes + (f + s)
    BY <2>1, <2>3, <2>5
  <2>7. queueBytes + (pendingPushBytes + c.bytes) = queueBytes + pendingPushBytes + c.bytes
    BY <2>1, <1>2
  <2> QED
    BY <2>2, <2>4, <2>6, <2>7 DEF s
<1> QED
  BY <1>1, <1>12, <1>13, <1>14, <1>15 DEF CountsInv

\* Every step preserves CountsInv.
LEMMA CountsStep ==
  TypeOK /\ StreamInv /\ CountsInv /\ [Next]_vars => CountsInv'
<1> SUFFICES ASSUME TypeOK, ReorderInv, IdsInv, CopiesInv, CountsInv, [Next]_vars
             PROVE  CountsInv'
  BY DEF StreamInv
<1>1. CASE BuffersStand
  <2>1. UNCHANGED <<copies, pendingCopyBytes, queue, queueBytes, pendingPushes,
                    pendingPushBytes>>
    BY <1>1 DEF BuffersStand, queueVars, pushVars, copyCounters
  <2>2. pendingInputBytes' = SumBytes(pendingOutputs')
    <3>1. CASE UNCHANGED recordVars
      BY <3>1 DEF recordVars, CountsInv
    <3>2. CASE ClearPendingOutputs
      BY <3>2, SumBytesEmpty DEF ClearPendingOutputs
    <3> QED
      BY <1>1, <3>1, <3>2, CountsSettle DEF BuffersStand
  <2> QED
    BY <2>1, <2>2 DEF CountsInv
<1>2. ASSUME NEW c \in copies, CopyDiscarded(c) PROVE CountsInv'
  <2>1. /\ CopyEnds(c)
        /\ UNCHANGED <<queue, queueBytes, pendingPushes, pendingPushBytes,
                       pendingOutputs, pendingInputBytes>>
    BY <1>2 DEF CopyDiscarded, queueVars, pushVars, recordVars
  <2> QED
    BY <2>1, CountsEnd DEF CountsInv
<1> QED
  BY <1>1, <1>2, StepKinds, CountsStartOver, CountsAccept, CountsProduce, CountsAdmit,
     CountsStart, CountsDeliver

(***************************************************************************)
(* Each account under its cap, and nothing but running copies where the    *)
(* reorder buffer has no say: what the gates leave behind.  The last       *)
(* measured size is bounded too, or an empty decoder could refuse a packet *)
(* for good.                                                               *)
(***************************************************************************)
LimitsInv ==
  /\ Len(queue) <= QueueCapacity
  /\ Cardinality(pendingPushes) <= MaxPendingPushes
  /\ pendingCopies <= MaxPendingDecode
  /\ Cardinality(pendingOutputs) <= MaxPendingOutputs
  /\ pendingInputBytes <= MaxInputInflightBytes
  /\ PinnedBytes <= MaxInflightBytes
  /\ lastMeasured <= MaxFrameBytes

\* An opened decoder is far from every cap.
LEMMA LimitsInit == Init => LimitsInv
BY CapsAssumption, VideoAssumption, FS_EmptySet
DEF Init, StateInit, LimitsInv, QueueCapacity, MaxPendingPushes, PinnedBytes

\* One element more, at most.
LEMMA OneMore ==
  ASSUME NEW S, IsFiniteSet(S), NEW x
  PROVE  Cardinality(S \cup {x}) \in Nat /\ Cardinality(S \cup {x}) <= Cardinality(S) + 1
<1>1. Cardinality(S) \in Nat /\ Cardinality(S \cup {x}) \in Nat
  BY FS_AddElement, FS_CardinalityType
<1>2. CASE x \in S
  <2>1. S \cup {x} = S
    BY <1>2
  <2>2. Cardinality(S \cup {x}) = Cardinality(S)
    BY <2>1
  <2> QED
    BY <2>2, <1>1
<1>3. CASE x \notin S
  <2>1. Cardinality(S \cup {x}) = Cardinality(S) + 1
    BY <1>3, FS_AddElement
  <2> QED
    BY <2>1, <1>1
<1> QED
  BY <1>2, <1>3

\* Bytes pinned, whatever they are.
LEMMA PinnedNumbers ==
  ASSUME TypeOK
  PROVE  /\ queueBytes \in Nat /\ pendingCopyBytes \in Nat /\ pendingPushBytes \in Nat
         /\ PinnedBytes \in Nat /\ MaxInflightBytes \in Nat
         /\ pendingCopyBytes <= PinnedBytes
<1>1. queueBytes \in Nat /\ pendingCopyBytes \in Nat /\ pendingPushBytes \in Nat
  BY DEF TypeOK, StateTypeOK
<1> QED
  BY <1>1, CapsAssumption DEF PinnedBytes

\* The numbers the limits compare.
LEMMA LimitNumbers ==
  ASSUME TypeOK
  PROVE  /\ Len(queue) \in Nat
         /\ IsFiniteSet(pendingPushes) /\ Cardinality(pendingPushes) \in Nat
         /\ IsFiniteSet(pendingOutputs) /\ Cardinality(pendingOutputs) \in Nat
         /\ pendingCopies \in Nat /\ pendingCopyBytes \in Nat /\ lastMeasured \in Nat
         /\ pendingInputBytes \in Nat /\ queueBytes \in Nat /\ pendingPushBytes \in Nat
         /\ QueueCapacity \in Nat /\ MaxPendingPushes \in Nat
BY CapsAssumption, FS_CardinalityType
DEF TypeOK, StateTypeOK, QueueCapacity, MaxPendingPushes

\* Records only go.
LEMMA FewerRecords ==
  ASSUME TypeOK, LimitsInv, pendingOutputs' \subseteq pendingOutputs
  PROVE  Cardinality(pendingOutputs') <= MaxPendingOutputs
<1>1. Cardinality(pendingOutputs') <= Cardinality(pendingOutputs)
      /\ Cardinality(pendingOutputs') \in Nat
  BY LimitNumbers, FS_Subset, FS_CardinalityType
<1> QED
  BY <1>1, LimitNumbers, CapsAssumption DEF LimitsInv

\* A task that ends only lowers the counters.
LEMMA LimitsEnd ==
  ASSUME TypeOK, CountsInv, LimitsInv, NEW c \in copies, CopyEnds(c)
  PROVE  /\ pendingCopies' <= MaxPendingDecode
         /\ pendingCopyBytes' \in Nat /\ pendingCopyBytes' <= pendingCopyBytes
         /\ lastMeasured' <= MaxFrameBytes
<1>1. pendingCopies' = SatSub(pendingCopies, 1) /\ lastMeasured' = lastMeasured
  BY DEF CopyEnds, SubPendingCopy
<1>2. pendingCopies' <= MaxPendingDecode
  BY <1>1, LimitNumbers, CapsAssumption DEF SatSub, LimitsInv
<1>3. /\ pendingCopyBytes' \in Nat /\ c.bytes \in Nat
      /\ pendingCopyBytes = pendingCopyBytes' + Estimate(c.bytes)
  BY CountsEnd
<1>4. pendingCopyBytes' <= pendingCopyBytes
  BY <1>3 DEF Estimate
<1> QED
  BY <1>1, <1>2, <1>3, <1>4 DEF LimitsInv

\* A close, or a new generation: only the running copies still count.
LEMMA LimitsStartOver ==
  ASSUME TypeOK, CountsInv, LimitsInv, StartsOver
  PROVE  LimitsInv'
<1>1. /\ queue' = <<>> /\ queueBytes' = 0
      /\ pendingOutputs' = {} /\ pendingInputBytes' = 0
      /\ pendingPushes' = {} /\ pendingPushBytes' = 0
  BY DEF StartsOver, ClearGeneration
<1>2. /\ pendingCopies' <= MaxPendingDecode
      /\ pendingCopyBytes' \in Nat /\ pendingCopyBytes' <= pendingCopyBytes
      /\ lastMeasured' <= MaxFrameBytes
  <2>1. CASE UNCHANGED <<copies, copyCounters>>
    BY <2>1, LimitNumbers DEF LimitsInv, copyCounters
  <2> QED
    BY <2>1, LimitsEnd DEF StartsOver
<1>3. PinnedBytes' <= MaxInflightBytes
  <2>1. PinnedBytes' = pendingCopyBytes'
    <3>1. \A n \in Nat : 0 + n + 0 = n
      OBVIOUS
    <3>2. pendingCopyBytes' \in Nat
      BY <1>2
    <3>3. PinnedBytes' = 0 + pendingCopyBytes' + 0
      BY <1>1 DEF PinnedBytes
    <3> QED
      BY <3>1, <3>2, <3>3, Zenon
  <2>2. /\ pendingCopyBytes \in Nat /\ PinnedBytes \in Nat /\ MaxInflightBytes \in Nat
        /\ pendingCopyBytes <= PinnedBytes /\ PinnedBytes <= MaxInflightBytes
    BY PinnedNumbers DEF LimitsInv
  <2> QED
    BY <1>2, <2>1, <2>2
<1>4. /\ Len(queue') = 0 /\ Cardinality(pendingPushes') = 0
      /\ Cardinality(pendingOutputs') = 0
  BY <1>1, FS_EmptySet
<1> QED
  BY <1>1, <1>2, <1>3, <1>4, LimitNumbers, CapsAssumption, VideoAssumption DEF LimitsInv, QueueCapacity, MaxPendingPushes

\* An accepted packet passed the record cap and the input cap.
LEMMA LimitsAccept ==
  ASSUME TypeOK, IdsInv, CountsInv, LimitsInv,
         NEW bytes \in PacketBytes[nextSubmissionId], SendAccepted(bytes)
  PROVE  LimitsInv'
<1> DEFINE r == [id |-> nextSubmissionId, epoch |-> epoch, bytes |-> bytes]
<1>1. /\ Cardinality(pendingOutputs) < MaxPendingOutputs
      /\ ~(pendingInputBytes + bytes > MaxInputInflightBytes)
      /\ pendingOutputs' = pendingOutputs \cup {r}
      /\ pendingInputBytes' = pendingInputBytes + bytes
      /\ UNCHANGED <<copies, copyCounters, queue, queueBytes, pendingPushes,
                     pendingPushBytes>>
  BY DEF SendAccepted, SpendId, InputTooLarge, InsertPendingOutput, SendReturns,
         queueVars, pushVars
<1>2. bytes \in Nat
  BY CountsAccept
<1> HIDE DEF r
<1>3. Cardinality(pendingOutputs \cup {r}) <= Cardinality(pendingOutputs) + 1
  BY LimitNumbers, OneMore
<1>4. Cardinality(pendingOutputs \cup {r}) \in Nat
  BY LimitNumbers, OneMore
<1>5. Cardinality(pendingOutputs') <= MaxPendingOutputs
  BY <1>1, <1>3, <1>4, LimitNumbers, CapsAssumption
<1>6. pendingInputBytes' <= MaxInputInflightBytes
  BY <1>1, <1>2, LimitNumbers, VideoAssumption
<1> QED
  BY <1>1, <1>5, <1>6 DEF LimitsInv, PinnedBytes, copyCounters

\* A frame leaves the queue.
LEMMA LimitsProduce ==
  ASSUME TypeOK, CountsInv, LimitsInv, TypeOK', ReceiveProduced
  PROVE  LimitsInv'
<1>1. /\ queue \in Seq(Frame) /\ queue # <<>> /\ queue' = Tail(queue)
      /\ UNCHANGED <<copies, copyCounters, pendingPushes, pendingPushBytes,
                     pendingOutputs, pendingInputBytes>>
  BY DEF ReceiveProduced, PopQueue, ReceiveReturns, TypeOK, StateTypeOK,
         recordVars, pushVars
<1>2. Len(queue') = Len(queue) - 1
  BY <1>1
<1>3. queueBytes' <= queueBytes /\ queueBytes' \in Nat
  BY CountsProduce DEF TypeOK, StateTypeOK
<1>4. Len(queue') <= QueueCapacity
  BY <1>2, LimitNumbers DEF LimitsInv
<1>5. PinnedBytes' <= MaxInflightBytes
  <2>1. PinnedBytes' = queueBytes' + pendingCopyBytes + pendingPushBytes
    BY <1>1 DEF PinnedBytes, copyCounters
  <2>2. /\ queueBytes \in Nat /\ pendingCopyBytes \in Nat /\ pendingPushBytes \in Nat
        /\ MaxInflightBytes \in Nat
        /\ queueBytes + pendingCopyBytes + pendingPushBytes <= MaxInflightBytes
    BY PinnedNumbers DEF PinnedBytes, LimitsInv
  <2>3. \A p, q, n, w, cap \in Nat : p <= q /\ q + n + w <= cap => p + n + w <= cap
    OBVIOUS
  <2>4. queueBytes' + pendingCopyBytes + pendingPushBytes <= MaxInflightBytes
    BY <1>3, <2>2, <2>3, Zenon
  <2> QED
    BY <2>1, <2>4, Zenon
<1> QED
  BY <1>1, <1>4, <1>5 DEF LimitsInv, copyCounters

\* An admitted output passed the copy cap, the frame cap and the byte budget.
LEMMA LimitsAdmit ==
  ASSUME TypeOK, ReorderInv, CountsInv, LimitsInv, NEW id \in 0 .. MaxPackets,
         NEW bytes \in FrameBytes, OutputAdmitted(id, bytes)
  PROVE  LimitsInv'
<1>1. /\ ~(pendingCopies >= MaxPendingDecode)
      /\ ~(Estimate(bytes) > MaxFrameBytes)
      /\ ~(PinnedBytes + Estimate(bytes) > MaxInflightBytes)
      /\ pendingCopies' = pendingCopies + 1
      /\ pendingCopyBytes' = pendingCopyBytes + Estimate(bytes)
      /\ lastMeasured' = Estimate(bytes)
      /\ UNCHANGED <<queue, queueBytes, pendingPushes, pendingPushBytes>>
  BY DEF OutputAdmitted, AddPendingCopy, CopiesFull, FrameTooLarge, queueVars
<1>2. bytes \in Nat /\ Estimate(bytes) \in Nat /\ pendingInputBytes' <= pendingInputBytes
  BY CountsAdmit DEF Estimate
<1>3. pendingOutputs' \subseteq pendingOutputs /\ pendingInputBytes' \in Nat
  <2>1. \E r \in pendingOutputs : RemovePendingOutput(r)
    BY DEF OutputAdmitted, RecordOf
  <2>2. pendingInputBytes' = SumBytes(pendingOutputs') /\ pendingOutputs' \subseteq pendingOutputs
    BY <2>1, CountsSettle DEF RemovePendingOutput
  <2>3. Sized(pendingOutputs')
    BY <2>2, AllSized, FS_Subset DEF Sized
  <2> QED
    BY <2>2, <2>3, SumBytesType
<1>4. Cardinality(pendingOutputs') <= MaxPendingOutputs
  BY <1>3, FewerRecords
<1>5. pendingInputBytes' <= MaxInputInflightBytes
  BY <1>2, <1>3, LimitNumbers, VideoAssumption DEF LimitsInv
<1>6. PinnedBytes' = PinnedBytes + Estimate(bytes)
  <2> DEFINE e == Estimate(bytes)
  <2>1. /\ queueBytes \in Nat /\ pendingCopyBytes \in Nat /\ pendingPushBytes \in Nat
        /\ e \in Nat
    BY <1>2, PinnedNumbers
  <2>2. PinnedBytes' = queueBytes + (pendingCopyBytes + e) + pendingPushBytes
    BY <1>1 DEF PinnedBytes
  <2> HIDE DEF e
  <2>3. PinnedBytes' = queueBytes + pendingCopyBytes + pendingPushBytes + e
    BY <2>1, <2>2
  <2> QED
    BY <2>3 DEF PinnedBytes, e
<1>7. PinnedBytes' <= MaxInflightBytes
  <2> DEFINE now == PinnedBytes + Estimate(bytes)
  <2>1. now \in Nat /\ MaxInflightBytes \in Nat /\ ~(now > MaxInflightBytes)
    BY <1>1, <1>2, PinnedNumbers
  <2> HIDE DEF now
  <2>2. now <= MaxInflightBytes
    BY <2>1
  <2> QED
    BY <2>2, <1>6 DEF now
<1>8. pendingCopies' <= MaxPendingDecode /\ lastMeasured' <= MaxFrameBytes
  <2> DEFINE e == Estimate(bytes)
  <2>1. /\ e \in Nat /\ MaxFrameBytes \in Nat /\ ~(e > MaxFrameBytes)
        /\ pendingCopies \in Nat /\ MaxPendingDecode \in Nat
        /\ ~(pendingCopies >= MaxPendingDecode)
    BY <1>1, <1>2, LimitNumbers, CapsAssumption
  <2> HIDE DEF e
  <2>2. e <= MaxFrameBytes /\ pendingCopies + 1 <= MaxPendingDecode
    BY <2>1
  <2> QED
    BY <2>2, <1>1 DEF e
<1> QED
  BY <1>1, <1>4, <1>5, <1>7, <1>8 DEF LimitsInv

\* A delivered copy passed the two buffers' refusals, and what it adds to them
\* is half of what it gives back.
LEMMA LimitsDeliver ==
  ASSUME TypeOK, ReorderInv, CountsInv, LimitsInv, TypeOK', NEW c \in copies,
         CopyDelivered(c)
  PROVE  LimitsInv'
<1> DEFINE p == PushOf(c)
           pushes == pendingPushes \cup {p}
           frames == Drained(pushes)
<1>1. /\ ~(Cardinality(pendingPushes) >= MaxPendingPushes)
      /\ ~(Len(queue) + Len(frames) > QueueCapacity)
      /\ queue' = queue \o frames
      /\ pendingPushes' \subseteq pushes
      /\ UNCHANGED <<pendingOutputs, pendingInputBytes>>
      /\ CopyEnds(c)
  BY DEF CopyDelivered, DeliverPendingPush, DeliveryOverflows, ReorderRefuses, QueueRefuses,
         recordVars
<1>2. p \in Push
  BY DEF TypeOK, PushOf, Copy, Push
<1> HIDE DEF p
<1>3. pushes \in SUBSET Push /\ IsFiniteSet(pushes) /\ nextPushSeq \in Nat /\ queue \in Seq(Frame)
  BY <1>2, FS_AddElement DEF TypeOK, StateTypeOK
<1>4. Cardinality(pushes) <= Cardinality(pendingPushes) + 1 /\ Cardinality(pushes) \in Nat
  BY LimitNumbers, OneMore
<1>5. Cardinality(pendingPushes') <= Cardinality(pushes) /\ Cardinality(pendingPushes') \in Nat
  BY <1>1, <1>3, FS_Subset, FS_CardinalityType
<1> HIDE DEF pushes
<1>6. Cardinality(pendingPushes') <= MaxPendingPushes
  BY <1>1, <1>4, <1>5, LimitNumbers
<1>7. frames \in Seq(Frame)
  BY <1>3, DrainedType
<1> HIDE DEF frames
<1>8. Len(queue') = Len(queue) + Len(frames) /\ Len(frames) \in Nat
  BY <1>1, <1>3, <1>7
<1>9. Len(queue') <= QueueCapacity
  BY <1>1, <1>8, LimitNumbers
<1>10. PinnedBytes' <= MaxInflightBytes
  <2>1. queueBytes' + pendingPushBytes' = queueBytes + pendingPushBytes + c.bytes
    BY CountsDeliver
  <2>2. /\ c.bytes \in Nat /\ pendingCopyBytes' \in Nat
        /\ pendingCopyBytes = pendingCopyBytes' + 2 * c.bytes
    BY <1>1, CountsEnd DEF Estimate
  <2>3. queueBytes' \in Nat /\ pendingPushBytes' \in Nat
    BY DEF TypeOK, StateTypeOK
  <2>4. /\ queueBytes \in Nat /\ pendingCopyBytes \in Nat /\ pendingPushBytes \in Nat
        /\ MaxInflightBytes \in Nat
        /\ queueBytes + pendingCopyBytes + pendingPushBytes <= MaxInflightBytes
    BY PinnedNumbers DEF PinnedBytes, LimitsInv
  <2>5. queueBytes' + pendingCopyBytes' + pendingPushBytes' <= MaxInflightBytes
    <3> DEFINE n == pendingCopyBytes'
    <3>1. queueBytes + (n + 2 * c.bytes) + pendingPushBytes <= MaxInflightBytes
      BY <2>2, <2>4, Zenon
    <3>2. \A w, x, y, z, cap \in Nat : x + (y + 2 * w) + z <= cap => y + (x + z + w) <= cap
      OBVIOUS
    <3>3. n + (queueBytes + pendingPushBytes + c.bytes) <= MaxInflightBytes
      BY <2>2, <2>4, <3>1, <3>2, Zenon
    <3>4. n + (queueBytes' + pendingPushBytes') <= MaxInflightBytes
      BY <2>1, <3>3, Zenon
    <3>5. \A a, b, y \in Nat : y + (a + b) = a + y + b
      OBVIOUS
    <3>6. n + (queueBytes' + pendingPushBytes') = queueBytes' + n + pendingPushBytes'
      BY <2>2, <2>3, <3>5, Zenon
    <3> QED
      BY <3>4, <3>6, Zenon
  <2> QED
    BY <2>5 DEF PinnedBytes
<1> QED
  BY <1>1, <1>6, <1>9, <1>10, LimitsEnd DEF LimitsInv

\* Every step preserves LimitsInv.
LEMMA LimitsStep ==
  TypeOK /\ StreamInv /\ CountsInv /\ LimitsInv /\ [Next]_vars => LimitsInv'
<1> SUFFICES ASSUME TypeOK, ReorderInv, IdsInv, CountsInv, LimitsInv, [Next]_vars
             PROVE  LimitsInv'
  BY DEF StreamInv
<1>1. TypeOK'
  BY TypeStep
<1>2. CASE BuffersStand
  <2>1. UNCHANGED <<copyCounters, queue, queueBytes, pendingPushes, pendingPushBytes>>
    BY <1>2 DEF BuffersStand, queueVars, pushVars
  <2>2. /\ pendingOutputs' \subseteq pendingOutputs
        /\ pendingInputBytes' <= MaxInputInflightBytes
    <3>1. CASE UNCHANGED recordVars
      BY <3>1 DEF recordVars, LimitsInv
    <3>2. CASE ClearPendingOutputs
      BY <3>2, VideoAssumption DEF ClearPendingOutputs
    <3>3. ASSUME NEW r \in pendingOutputs, RemovePendingOutput(r)
          PROVE  /\ pendingOutputs' \subseteq pendingOutputs
                 /\ pendingInputBytes' <= MaxInputInflightBytes
      <4>1. pendingOutputs' \subseteq pendingOutputs /\ pendingInputBytes' <= pendingInputBytes
        BY <3>3, CountsSettle DEF RemovePendingOutput
      <4>2. pendingInputBytes' \in Nat
        BY <1>1 DEF TypeOK, StateTypeOK
      <4> QED
        BY <4>1, <4>2, LimitNumbers, VideoAssumption DEF LimitsInv
    <3> QED
      BY <1>2, <3>1, <3>2, <3>3 DEF BuffersStand
  <2> QED
    BY <2>1, <2>2, FewerRecords DEF LimitsInv, PinnedBytes, copyCounters
<1>3. ASSUME NEW c \in copies, CopyStarts(c) PROVE LimitsInv'
  BY <1>3 DEF CopyStarts, LimitsInv, PinnedBytes, copyCounters, queueVars, pushVars, recordVars
<1>4. ASSUME NEW c \in copies, CopyDiscarded(c) PROVE LimitsInv'
  <2>1. /\ CopyEnds(c)
        /\ UNCHANGED <<queue, queueBytes, pendingPushes, pendingPushBytes,
                       pendingOutputs, pendingInputBytes>>
    BY <1>4 DEF CopyDiscarded, queueVars, pushVars, recordVars
  <2>2. PinnedBytes' <= MaxInflightBytes
    <3>1. pendingCopyBytes' \in Nat /\ pendingCopyBytes' <= pendingCopyBytes
      BY <2>1, LimitsEnd
    <3>2. /\ queueBytes \in Nat /\ pendingCopyBytes \in Nat /\ pendingPushBytes \in Nat
          /\ MaxInflightBytes \in Nat
          /\ queueBytes + pendingCopyBytes + pendingPushBytes <= MaxInflightBytes
      BY PinnedNumbers DEF PinnedBytes, LimitsInv
    <3>3. PinnedBytes' = queueBytes + pendingCopyBytes' + pendingPushBytes
      BY <2>1 DEF PinnedBytes
    <3>4. \A p, q, n, w, cap \in Nat : p <= q /\ n + q + w <= cap => n + p + w <= cap
      OBVIOUS
    <3>5. queueBytes + pendingCopyBytes' + pendingPushBytes <= MaxInflightBytes
      BY <3>1, <3>2, <3>4, Zenon
    <3> QED
      BY <3>3, <3>5, Zenon
  <2> QED
    BY <2>1, <2>2, LimitsEnd DEF LimitsInv
<1> QED
  BY <1>1, <1>2, <1>3, <1>4, StepKinds, LimitsStartOver, LimitsAccept, LimitsProduce,
     LimitsAdmit, LimitsDeliver

\* An account that is true, under its cap and not always shut.
LEMMA AccountsSuffice ==
  ASSUME TypeOK, StreamInv, CountsInv, LimitsInv
  PROVE  AccountsHonest
<1>1. CountersHonest
  BY DEF StreamInv, CopiesInv, CountsInv, CountersHonest
<1>2. ASSUME NEW c \in LiveCopies
      PROVE  ~OverBudgetAtCompletion(c)
  <2> DEFINE rest == SumBytes(copies \ {c})
  <2>1. c \in copies /\ c.bytes \in Nat
    BY DEF LiveCopies, TypeOK, Copy
  <2>2. SumBytes(copies) = rest + c.bytes
    BY <2>1, AllSized, SumBytesRemove
  <2>3. rest \in Nat
    <3>1. Sized(copies \ {c})
      BY AllSized, FS_RemoveElement DEF Sized
    <3> QED
      BY <3>1, SumBytesType
  <2>4. pendingCopyBytes = 2 * (rest + c.bytes)
    BY <2>2 DEF CountsInv, Estimate
  <2> HIDE DEF rest
  <2>5. /\ queueBytes \in Nat /\ pendingCopyBytes \in Nat /\ pendingPushBytes \in Nat
        /\ MaxInflightBytes \in Nat
        /\ queueBytes + pendingCopyBytes + pendingPushBytes <= MaxInflightBytes
    BY PinnedNumbers DEF PinnedBytes, LimitsInv
  <2>6. ~(queueBytes + pendingPushBytes + c.bytes > MaxInflightBytes)
    BY <2>1, <2>3, <2>4, <2>5
  <2> QED
    BY <2>6 DEF OverBudgetAtCompletion
<1>3. CapsHold
  BY <1>2 DEF CapsHold, ByteBudget, LimitsInv
<1>4. DrainIsPossible
  <2>1. SUFFICES ASSUME ~IsClosed, queue = <<>>, ~ActiveDecodeWork, MustDrain PROVE FALSE
    BY DEF DrainIsPossible
  <2>2. pendingCopies = 0
    BY <2>1, LimitNumbers DEF ActiveDecodeWork
  <2>3. copies = {}
    BY <2>2, FS_EmptySet DEF TypeOK, StreamInv, CopiesInv
  <2>4. pendingPushes = {}
    BY <2>1, <2>2, DryMeansDone, NothingAwaited DEF StreamInv
  <2>5. queueBytes = 0 /\ pendingCopyBytes = 0 /\ pendingPushBytes = 0
    <3>1. BytesOf(queue) = 0 /\ SumBytes(copies) = 0 /\ SumBytes(pendingPushes) = 0
      BY <2>1, <2>3, <2>4, BytesOfNone, SumBytesEmpty
    <3> QED
      BY <3>1 DEF CountsInv, Estimate
  <2>6. ~OverBudget
    BY <2>5, LimitNumbers, CapsAssumption DEF OverBudget, PinnedBytes, LimitsInv
  <2>7. ~QueueFull
    <3>1. Len(queue) = 0
      BY <2>1
    <3> QED
      BY <3>1, CapsAssumption DEF QueueFull
  <2> QED
    BY <2>1, <2>6, <2>7 DEF MustDrain
<1> QED
  BY <1>1, <1>3, <1>4 DEF AccountsHonest

(***************************************************************************)
(* AccountsHonest: every counter an admission gate reads is the number or  *)
(* the weight of what it counts, nothing exceeds its cap, and a gate that  *)
(* refuses leaves something to drain, in every reachable state and for     *)
(* every value of the caps.                                                *)
(***************************************************************************)
THEOREM AccountsKept == Spec => []AccountsHonest
<1>1. Init => CountsInv /\ LimitsInv
  BY CountsInit, LimitsInit
<1>2. TypeOK /\ StreamInv /\ CountsInv /\ LimitsInv /\ [Next]_vars => CountsInv' /\ LimitsInv'
  BY CountsStep, LimitsStep
<1>3. TypeOK /\ StreamInv /\ CountsInv /\ LimitsInv => AccountsHonest
  BY AccountsSuffice
<1> QED
  BY <1>1, <1>2, <1>3, StreamAlways, PTL DEF Spec
=============================================================================
