--------------------------- MODULE WebCodecsState ---------------------------
(***************************************************************************)
(* The state one WebCodecs decoder shares between its async methods, its   *)
(* JS callbacks and its spawned copy tasks (mediadecode-webcodecs,         *)
(* state.rs: struct Inner and struct SharedState), and the operations on   *)
(* it.  Every operation is an action over the variables it assigns; a      *)
(* handler of the video or audio decoder conjoins the operations it calls. *)
(*                                                                         *)
(* Callbacks, copy tasks and polls of the caller's future all run on one   *)
(* JS thread and each runs to its next await, so one of them is one step.  *)
(***************************************************************************)
EXTENDS Integers, Sequences, FiniteSets, FiniteSetsExt, Functions

CONSTANTS
  MaxQueuedOutput,     \* MAX_QUEUED_OUTPUT: frames before send answers MustDrain
  MaxPendingDecode,    \* MAX_PENDING_DECODE: decoder-side pipeline
  MaxPendingOutputs,   \* MAX_PENDING_OUTPUTS: submission records
  MaxInflightBytes,    \* MAX_INFLIGHT_BYTES: decoded bytes pinned at once
  MaxFrameBytes        \* MAX_FRAME_ALLOCATION_BYTES

ASSUME CapsAssumption ==
  /\ MaxQueuedOutput \in Nat \ {0}
  /\ MaxPendingDecode \in Nat \ {0}
  /\ MaxPendingOutputs \in Nat \ {0}
  /\ MaxInflightBytes \in Nat
  /\ MaxFrameBytes \in Nat
  /\ MaxFrameBytes <= MaxInflightBytes

VARIABLES
  queue,             \* decoded frames waiting for receive_frame
  queueBytes,
  lastError,         \* NoError, or the kind of the first fatal error
  pendingOutputs,    \* one record per submitted chunk not yet answered
  pendingInputBytes,
  nextSubmissionId,
  epochIdFloor,      \* ids below it belong to an earlier generation
  pendingCopies,     \* number of live copy tasks, of any generation
  pendingCopyBytes,
  lastMeasured,      \* bytes the last admitted output reserved
  epoch,
  nextOutputSeq,     \* sequence the next admitted output gets
  nextPushSeq,       \* sequence the queue takes next
  pendingPushes,     \* completed copies waiting for an earlier sequence
  pendingPushBytes,
  receiverWaker,     \* TRUE while receive_frame's waker is registered
  dequeueWaker,      \* TRUE while send_packet's waker is registered
  woken              \* the caller's task has been scheduled by a wake

queueVars == <<queue, queueBytes>>
recordVars == <<pendingOutputs, pendingInputBytes>>
idVars == <<nextSubmissionId, epochIdFloor>>
copyCounters == <<pendingCopies, pendingCopyBytes, lastMeasured>>
pushVars == <<nextOutputSeq, nextPushSeq, pendingPushes, pendingPushBytes>>
wakers == <<receiverWaker, dequeueWaker, woken>>

NoError == "none"

(***************************************************************************)
(* Fatal-error kinds.  "queueFull" and "reorderFull": a preallocated       *)
(* buffer refused a frame; "burst": too many live copies at an output;     *)
(* "budget": a decoded byte cap; "input": a compressed byte or record cap; *)
(* "js": a failing browser call or the error callback; "unmatched": an     *)
(* output without a record; "eof": send_eof cancelled or rejected;         *)
(* "flush": flush() failed.                                                *)
(***************************************************************************)
ErrorKinds ==
  {"queueFull", "reorderFull", "burst", "budget", "input", "js", "unmatched",
   "eof", "flush"}

IsClosed == lastError # NoError

\* Capacity open() preallocates for the queue, and the reorder buffer's.
QueueCapacity == MaxQueuedOutput + MaxPendingDecode
MaxPendingPushes == MaxPendingDecode

Record == [id : Nat, epoch : Nat, bytes : Nat]
Frame == [id : Nat, bytes : Nat]
Push == [seq : Nat, id : Nat, bytes : Nat]

StateTypeOK ==
  /\ queue \in Seq(Frame)
  /\ lastError \in ErrorKinds \cup {NoError}
  /\ pendingOutputs \in SUBSET Record
  /\ pendingPushes \in SUBSET Push
  /\ IsFiniteSet(pendingOutputs) /\ IsFiniteSet(pendingPushes)
  /\ queueBytes \in Nat /\ pendingInputBytes \in Nat
  /\ nextSubmissionId \in Nat /\ epochIdFloor \in Nat /\ epoch \in Nat
  /\ pendingCopies \in Nat /\ pendingCopyBytes \in Nat /\ lastMeasured \in Nat
  /\ nextOutputSeq \in Nat /\ nextPushSeq \in Nat /\ pendingPushBytes \in Nat
  /\ receiverWaker \in BOOLEAN /\ dequeueWaker \in BOOLEAN /\ woken \in BOOLEAN

StateInit ==
  /\ queue = <<>> /\ queueBytes = 0
  /\ lastError = NoError
  /\ pendingOutputs = {} /\ pendingInputBytes = 0
  /\ nextSubmissionId = 0 /\ epochIdFloor = 0
  /\ pendingCopies = 0 /\ pendingCopyBytes = 0 /\ lastMeasured = 0
  /\ epoch = 0
  /\ nextOutputSeq = 0 /\ nextPushSeq = 0
  /\ pendingPushes = {} /\ pendingPushBytes = 0
  /\ receiverWaker = FALSE /\ dequeueWaker = FALSE /\ woken = FALSE

\* u64::saturating_sub
SatSub(a, b) == IF a >= b THEN a - b ELSE 0

-----------------------------------------------------------------------------
(* Queue, records and copy counters *)

\* What record_close and bump_epoch both drop: everything a generation buffers.
ClearGeneration ==
  /\ queue' = <<>> /\ queueBytes' = 0
  /\ pendingOutputs' = {} /\ pendingInputBytes' = 0
  /\ pendingPushes' = {} /\ pendingPushBytes' = 0
  /\ nextOutputSeq' = 0 /\ nextPushSeq' = 0

\* The first error wins; live copy tasks keep their counters.
RecordClose(kind) ==
  /\ lastError' = IF IsClosed THEN lastError ELSE kind
  /\ ClearGeneration

\* Mutant: late outputs of the old generation are not told apart.
BumpEpochButFloor ==
  /\ epoch' = epoch + 1
  /\ UNCHANGED epochIdFloor
  /\ ClearGeneration

\* A new generation.  Neither pendingCopies nor lastError is reset.
BumpEpoch ==
  /\ epoch' = epoch + 1
  /\ epochIdFloor' = nextSubmissionId
  /\ ClearGeneration

PopQueue ==
  /\ queue' = Tail(queue)
  /\ queueBytes' = SatSub(queueBytes, Head(queue).bytes)

InsertPendingOutput(id, bytes) ==
  /\ pendingOutputs' = pendingOutputs \cup {[id |-> id, epoch |-> epoch, bytes |-> bytes]}
  /\ pendingInputBytes' = pendingInputBytes + bytes

\* Mutants: the bytes stay charged; the record stays in the map.
RemoveRecordOnly(r) ==
  /\ pendingOutputs' = pendingOutputs \ {r}
  /\ UNCHANGED pendingInputBytes

KeepRecord(r) == r \in pendingOutputs /\ UNCHANGED recordVars

RemovePendingOutput(r) ==
  /\ pendingOutputs' = pendingOutputs \ {r}
  /\ pendingInputBytes' = SatSub(pendingInputBytes, r.bytes)

\* Every chunk still on record at the end of a drain decoded to nothing.
ClearPendingOutputs ==
  /\ pendingOutputs' = {}
  /\ pendingInputBytes' = 0

AddPendingCopy(estimate) ==
  /\ pendingCopies' = pendingCopies + 1
  /\ pendingCopyBytes' = pendingCopyBytes + estimate
  /\ lastMeasured' = estimate

SubPendingCopy(estimate) ==
  /\ pendingCopies' = SatSub(pendingCopies, 1)
  /\ pendingCopyBytes' = SatSub(pendingCopyBytes, estimate)
  /\ UNCHANGED lastMeasured

-----------------------------------------------------------------------------
(* The reorder buffer *)

HasSeq(pushes, s) == \E p \in pushes : p.seq = s

\* Mutant: the drain takes one frame and does not loop.
DrainOne(pushes) ==
  IF HasSeq(pushes, nextPushSeq) THEN nextPushSeq + 1 ELSE nextPushSeq

\* The sequence the drain loop stops at: the first from nextPushSeq on that
\* no completed copy holds.
DrainEnd(pushes) ==
  CHOOSE m \in nextPushSeq .. nextPushSeq + Cardinality(pushes) :
    /\ ~HasSeq(pushes, m)
    /\ \A s \in nextPushSeq .. m - 1 : HasSeq(pushes, s)

PushAt(pushes, s) == CHOOSE p \in pushes : p.seq = s

\* Mutant: the latest frame first.
DrainedBackwards(pushes) ==
  [k \in 1 .. DrainEnd(pushes) - nextPushSeq |->
     LET p == PushAt(pushes, DrainEnd(pushes) - k)
     IN [id |-> p.id, bytes |-> p.bytes]]

\* The frames the loop hands to the queue, in sequence order.
Drained(pushes) ==
  [k \in 1 .. DrainEnd(pushes) - nextPushSeq |->
     LET p == PushAt(pushes, nextPushSeq + k - 1)
     IN [id |-> p.id, bytes |-> p.bytes]]

BytesOf(frames) ==
  LET upTo[n \in 0 .. Len(frames)] ==
        IF n = 0 THEN 0 ELSE upTo[n - 1] + frames[n].bytes
  IN upTo[Len(frames)]

\* pending_pushes refuses the entry, or the queue one of the drained frames.
ReorderRefuses == Cardinality(pendingPushes) >= MaxPendingPushes
QueueRefuses(p) ==
  Len(queue) + Len(Drained(pendingPushes \cup {p})) > QueueCapacity
DeliveryOverflows(p) == ReorderRefuses \/ QueueRefuses(p)

\* deliver_pending_push on an open decoder, when nothing overflows.
DeliverPendingPush(p) ==
  LET pushes == pendingPushes \cup {p}
      frames == Drained(pushes)
  IN /\ queue' = queue \o frames
     /\ queueBytes' = queueBytes + BytesOf(frames)
     /\ pendingPushes' = {q \in pushes : q.seq >= DrainEnd(pushes)}
     /\ pendingPushBytes' = SatSub(pendingPushBytes + p.bytes, BytesOf(frames))
     /\ nextPushSeq' = DrainEnd(pushes)
     /\ UNCHANGED nextOutputSeq

-----------------------------------------------------------------------------
(* Wakers.  Both slots hold the one task that owns the decoder. *)

WakeDequeue ==
  /\ woken' = (woken \/ dequeueWaker)
  /\ dequeueWaker' = FALSE
  /\ UNCHANGED receiverWaker

WakeAll ==
  /\ woken' = (woken \/ receiverWaker \/ dequeueWaker)
  /\ receiverWaker' = FALSE
  /\ dequeueWaker' = FALSE

\* Mutant: only the producer is woken.
WakeAfterPushProducer(pushedAny) ==
  /\ woken' = (woken \/ dequeueWaker)
  /\ dequeueWaker' = FALSE
  /\ UNCHANGED receiverWaker

\* A delivered frame wakes the receiver inside deliver_pending_push; the copy
\* task then wakes the producer.
WakeAfterPush(pushedAny) ==
  /\ woken' = (woken \/ dequeueWaker \/ (pushedAny /\ receiverWaker))
  /\ receiverWaker' = (receiverWaker /\ ~pushedAny)
  /\ dequeueWaker' = FALSE

\* A future that parks leaves its waker behind and waits to be woken.
ParkReceiver ==
  /\ receiverWaker' = TRUE /\ woken' = FALSE
  /\ UNCHANGED dequeueWaker

ParkProducer ==
  /\ dequeueWaker' = TRUE /\ woken' = FALSE
  /\ UNCHANGED receiverWaker

\* DequeueWakerGuard: however the producer's await ends, its slot is emptied.
DropProducerGuard ==
  /\ dequeueWaker' = FALSE /\ woken' = FALSE
  /\ UNCHANGED receiverWaker

-----------------------------------------------------------------------------
(* Budgets the two decoders read *)

PinnedBytes == queueBytes + pendingCopyBytes + pendingPushBytes

=============================================================================
