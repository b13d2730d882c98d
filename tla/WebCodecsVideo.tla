--------------------------- MODULE WebCodecsVideo ---------------------------
(***************************************************************************)
(* WebCodecsVideoStreamDecoder (mediadecode-webcodecs, video.rs): the      *)
(* async push decoder a caller drives with send_packet, receive_frame,     *)
(* send_eof and flush, the browser's callbacks, and one spawned task per   *)
(* decoded frame that copies it into linear memory.                        *)
(*                                                                         *)
(* One step is one turn of the JS thread: a poll of the caller's future, a *)
(* callback, a copy task from one await to the next, or a turn of the      *)
(* browser.  The methods take &mut self, so the caller has at most one     *)
(* future alive; dropping it is a step of its own.                         *)
(***************************************************************************)
EXTENDS WebCodecsState, BrowserDecoder

CONSTANTS
  MaxInputPacketBytes,     \* MAX_INPUT_PACKET_BYTES
  MaxInputInflightBytes,   \* MAX_INPUT_INFLIGHT_BYTES
  PacketBytes,             \* sizes the packet of each id may have
  FrameBytes,              \* allocation sizes of the frames they decode to
  MaxPackets,              \* bound: chunks created, over all generations
  MaxEpoch                 \* bound: flush() is called below this epoch

ASSUME VideoAssumption ==
  /\ MaxInputPacketBytes \in Nat
  /\ MaxInputInflightBytes \in Nat
  /\ PacketBytes \in [0 .. MaxPackets -> SUBSET Nat]
  /\ FrameBytes \subseteq Nat
  /\ MaxPackets \in Nat
  /\ MaxEpoch \in Nat

VARIABLES
  copies,     \* spawned handle_video_frame tasks
  eof,
  client,     \* what the caller awaits
  answer,     \* what its last call answered
  admitted,   \* history: ids of this generation's outputs, in output order
  delivered   \* history: ids receive_frame has handed over, this generation

history == <<admitted, delivered>>
clientVars == <<eof, client, answer>>
vars == <<queueVars, lastError, recordVars, idVars, copyCounters, epoch, pushVars,
          wakers, jsVars, copies, clientVars, history>>

Copy == [id : Nat, epoch : Nat, seq : Nat, bytes : Nat, stage : {"spawned", "copying"}]
ClientStates == {"idle", "send", "receive", "eof", "dropped"}
Answers ==
  {"none", "accepted", "mustDrain", "produced", "needsInput", "ended",
   "closed", "afterEof", "failed", "cancelled"}

TypeOK ==
  /\ StateTypeOK
  /\ JsTypeOK
  /\ copies \in SUBSET Copy /\ IsFiniteSet(copies)
  /\ eof \in BOOLEAN
  /\ client \in ClientStates
  /\ answer \in Answers
  /\ admitted \in Seq(Nat)
  /\ delivered \in Seq(Nat)

\* open(): the decoder is configured and the close hook installed.
Init ==
  /\ StateInit
  /\ JsInit
  /\ copies = {}
  /\ eof = FALSE
  /\ client = "idle"
  /\ answer = "none"
  /\ admitted = <<>>
  /\ delivered = <<>>

ForgetHistory == admitted' = <<>> /\ delivered' = <<>>

\* Mutant: the browser decoder is left running.
CloseWithoutHook(kind) ==
  /\ RecordClose(kind)
  /\ UNCHANGED codecVars
  /\ UNCHANGED flushP
  /\ ForgetHistory

\* An adapter-internal fatal close: record_close, then the close hook.
FatalClose(kind) ==
  /\ RecordClose(kind)
  /\ JsReset
  /\ JsRejectFlush
  /\ ForgetHistory

\* Twice the measured size: the JS and the Rust copy of it live together.
Estimate(bytes) == 2 * bytes

-----------------------------------------------------------------------------
(* send_packet *)

\* The decoder-side pipeline.  Chunks inside the codec are not part of it.
PendingDecode == JsDecodeQueueSize + pendingCopies + Cardinality(pendingPushes)

Busy == PendingDecode >= MaxPendingDecode
QueueFull == Len(queue) >= MaxQueuedOutput
\* Mutant: off by one at the budget.
AtBudget == PinnedBytes + lastMeasured >= MaxInflightBytes
OverBudget == PinnedBytes + lastMeasured > MaxInflightBytes
MustDrain == QueueFull \/ OverBudget

\* A first call, or a poll that leaves await_decode_room's wait: a parked
\* producer looks at the byte budget only once one of these holds.
SendRuns ==
  \/ client = "idle"
  \/ client = "send" /\ (IsClosed \/ ~Busy \/ QueueFull)

SendReturns(a) ==
  /\ client' = "idle"
  /\ answer' = a
  /\ DropProducerGuard
  /\ UNCHANGED <<eof, copies, copyCounters, epoch, epochIdFloor, outputs>>

\* check_closed, at the call and whenever the wait ends.
SendRefused ==
  /\ SendRuns
  /\ IsClosed \/ (client = "idle" /\ eof)
  /\ SendReturns(IF IsClosed THEN "closed" ELSE "afterEof")
  /\ UNCHANGED <<queueVars, lastError, recordVars, nextSubmissionId, pushVars,
                 codecVars, flushP, history>>

SendMustDrain ==
  /\ SendRuns
  /\ ~IsClosed /\ ~(client = "idle" /\ eof)
  /\ MustDrain
  /\ SendReturns("mustDrain")
  /\ UNCHANGED <<queueVars, lastError, recordVars, nextSubmissionId, pushVars,
                 codecVars, flushP, history>>

SendParks ==
  /\ \/ client = "idle" /\ ~eof /\ ~MustDrain
     \/ client = "send" /\ ~QueueFull
  /\ ~IsClosed /\ Busy
  /\ nextSubmissionId < MaxPackets
  /\ client' = "send"
  /\ ParkProducer
  /\ UNCHANGED <<queueVars, lastError, recordVars, idVars, copyCounters, epoch,
                 pushVars, jsVars, copies, eof, answer, history>>

\* await_decode_room answered Accepted.
HasRoom ==
  /\ SendRuns
  /\ ~IsClosed /\ ~(client = "idle" /\ eof)
  /\ ~MustDrain /\ ~Busy
  /\ nextSubmissionId < MaxPackets

InputTooLarge(bytes) ==
  \/ bytes > MaxInputPacketBytes
  \/ pendingInputBytes + bytes > MaxInputInflightBytes

\* An input cap, or the Uint8Array for the packet cannot be allocated.
SendClosesOnInput(bytes, allocated) ==
  /\ HasRoom
  /\ InputTooLarge(bytes) \/ ~allocated
  /\ FatalClose(IF InputTooLarge(bytes) THEN "input" ELSE "js")
  /\ SendReturns("closed")
  /\ UNCHANGED nextSubmissionId

\* An id is spent on every chunk the adapter goes on to build.
SpendId(bytes) ==
  /\ HasRoom
  /\ ~InputTooLarge(bytes)
  /\ nextSubmissionId' = nextSubmissionId + 1

\* new EncodedVideoChunk or decode() throws: the packet is refused, its record
\* (if it got that far) removed, and the decoder stays open.
SendThrows(bytes, chunkBuilt) ==
  /\ SpendId(bytes)
  /\ chunkBuilt => Cardinality(pendingOutputs) < MaxPendingOutputs
  /\ SendReturns("failed")
  /\ UNCHANGED <<queueVars, lastError, recordVars, pushVars, codecVars, flushP, history>>

SendClosesOnRecords(bytes) ==
  /\ SpendId(bytes)
  /\ Cardinality(pendingOutputs) >= MaxPendingOutputs
  /\ FatalClose("input")
  /\ SendReturns("closed")

SendAccepted(bytes) ==
  /\ SpendId(bytes)
  /\ Cardinality(pendingOutputs) < MaxPendingOutputs
  /\ InsertPendingOutput(nextSubmissionId, bytes)
  /\ JsDecode(nextSubmissionId)
  /\ SendReturns("accepted")
  /\ UNCHANGED <<queueVars, lastError, pushVars, history>>

\* The caller drops the future of a parked send_packet.
SendCancelled ==
  /\ client = "send"
  /\ SendReturns("cancelled")
  /\ UNCHANGED <<queueVars, lastError, recordVars, nextSubmissionId, pushVars,
                 codecVars, flushP, history>>

SendPacket ==
  \/ SendRefused
  \/ SendMustDrain
  \/ SendParks
  \/ \E bytes \in PacketBytes[nextSubmissionId] :
       \/ \E allocated \in BOOLEAN : SendClosesOnInput(bytes, allocated)
       \/ \E chunkBuilt \in BOOLEAN : SendThrows(bytes, chunkBuilt)
       \/ SendClosesOnRecords(bytes)
       \/ SendAccepted(bytes)

-----------------------------------------------------------------------------
(* receive_frame *)

\* Mutant: frames being copied are not work.
OnlyQueuedChunks == JsDecodeQueueSize > 0

\* Work that can still complete without another packet.
ActiveDecodeWork == pendingCopies > 0 \/ JsDecodeQueueSize > 0

ReceiveRuns == client \in {"idle", "receive"}

\* A returning future drops its guard; popping a frame first wakes the producer.
ReceiveReturns(a) ==
  /\ client' = "idle"
  /\ answer' = a
  /\ receiverWaker' = FALSE /\ dequeueWaker' = (dequeueWaker /\ a # "produced")
  /\ woken' = FALSE
  /\ UNCHANGED <<eof, copies, lastError, recordVars, idVars, copyCounters, epoch,
                 pushVars, jsVars, admitted>>

ReceiveClosed ==
  /\ ReceiveRuns
  /\ IsClosed
  /\ ReceiveReturns("closed")
  /\ UNCHANGED <<queueVars, delivered>>

ReceiveProduced ==
  /\ ReceiveRuns
  /\ ~IsClosed
  /\ queue # <<>>
  /\ PopQueue
  /\ delivered' = Append(delivered, Head(queue).id)
  /\ ReceiveReturns("produced")

\* Nothing queued and nothing on the way.
ReceiveDry ==
  /\ ReceiveRuns
  /\ ~IsClosed
  /\ queue = <<>> /\ ~ActiveDecodeWork
  /\ ReceiveReturns(IF eof THEN "ended" ELSE "needsInput")
  /\ UNCHANGED <<queueVars, delivered>>

ReceiveParks ==
  /\ ReceiveRuns
  /\ ~IsClosed
  /\ queue = <<>> /\ ActiveDecodeWork
  /\ client' = "receive"
  /\ ParkReceiver
  /\ UNCHANGED <<queueVars, lastError, recordVars, idVars, copyCounters, epoch,
                 pushVars, jsVars, copies, eof, answer, history>>

\* The caller drops the future of a parked receive_frame.
ReceiveCancelled ==
  /\ client = "receive"
  /\ ReceiveReturns("cancelled")
  /\ UNCHANGED <<queueVars, delivered>>

ReceiveFrame == ReceiveClosed \/ ReceiveProduced \/ ReceiveDry \/ ReceiveParks

-----------------------------------------------------------------------------
(* send_eof *)

EofClosed ==
  /\ client = "idle"
  /\ IsClosed
  /\ answer' = "closed"
  /\ UNCHANGED <<queueVars, lastError, recordVars, idVars, copyCounters, epoch,
                 pushVars, wakers, jsVars, copies, eof, client, history>>

EofAwaits ==
  /\ client = "idle"
  /\ ~IsClosed
  /\ JsFlush
  /\ client' = "eof"
  /\ UNCHANGED <<queueVars, lastError, recordVars, idVars, copyCounters, epoch,
                 pushVars, wakers, outputs, copies, eof, answer, history>>

\* The promise resolved.  The closed flag is not looked at again.
EofCompletes ==
  /\ client = "eof"
  /\ flushP = "resolved" /\ flushP' = "none"
  /\ ClearPendingOutputs
  /\ eof' = TRUE
  /\ client' = "idle"
  /\ answer' = "accepted"
  /\ WakeAll
  /\ UNCHANGED <<queueVars, lastError, idVars, copyCounters, epoch, pushVars,
                 codecVars, outputs, copies, history>>

\* EofCancelGuard: a flush that did not complete starts a new generation,
\* closes it and fires the hook.
EofGuardFires ==
  /\ client = "eof"
  /\ flushP' = "none"
  /\ BumpEpoch
  /\ RecordClose("eof")
  /\ JsReset
  /\ client' = "idle"
  /\ WakeAll
  /\ ForgetHistory
  /\ UNCHANGED <<nextSubmissionId, copyCounters, outputs, copies, eof>>

EofRejected == flushP = "rejected" /\ answer' = "failed" /\ EofGuardFires

\* The caller drops the future.
EofCancelled == answer' = "cancelled" /\ EofGuardFires

SendEof == EofClosed \/ EofAwaits \/ EofCompletes \/ EofRejected

-----------------------------------------------------------------------------
(* flush and Drop *)

\* reset() and configure() succeed: a new generation of an open decoder.
FlushReopens ==
  /\ client = "idle"
  /\ epoch < MaxEpoch
  /\ dec # "closed"
  /\ BumpEpoch
  /\ dec' = "configured" /\ JsAbandon
  /\ lastError' = NoError
  /\ eof' = FALSE
  /\ answer' = "none"
  /\ WakeDequeue
  /\ ForgetHistory
  /\ UNCHANGED <<nextSubmissionId, copyCounters, outputs, flushP, copies, client>>

\* reset() throws on a closed decoder, or configure() fails after the reset.
FlushFails ==
  /\ client = "idle"
  /\ epoch < MaxEpoch
  /\ BumpEpoch
  /\ RecordClose("flush")
  /\ JsReset
  /\ eof' = FALSE
  /\ answer' = "failed"
  /\ WakeAll
  /\ ForgetHistory
  /\ UNCHANGED <<nextSubmissionId, copyCounters, outputs, flushP, copies, client>>

Flush == FlushReopens \/ FlushFails

\* The handler slots are freed with the decoder: later callbacks find none.
Drop ==
  /\ client = "idle"
  /\ client' = "dropped"
  /\ BumpEpoch
  /\ dec' = "closed"
  /\ inputQ' = <<>> /\ held' = {} /\ dequeueEvt' = FALSE
  /\ ForgetHistory
  /\ UNCHANGED <<lastError, nextSubmissionId, copyCounters, wakers, outputs, flushP,
                 copies, eof, answer>>

-----------------------------------------------------------------------------
(* Callbacks *)

OutputOf(id) ==
  /\ outputs # <<>>
  /\ id = Head(outputs)
  /\ outputs' = Tail(outputs)

RecordOf(id) == {r \in pendingOutputs : r.id = id}
CurrentRecordOf(id) == {r \in RecordOf(id) : r.epoch = epoch}

\* An output nothing waits for any more: its adapter is gone or closed, or it
\* comes from an earlier generation.  Its frame is closed, its record (which
\* bump_epoch has dropped with the generation) removed if it were found.
Unwanted(id) ==
  \/ client = "dropped"
  \/ IsClosed
  \/ RecordOf(id) = {} /\ id < epochIdFloor
  \/ RecordOf(id) # {} /\ CurrentRecordOf(id) = {}

OutputIgnored(id) ==
  /\ OutputOf(id)
  /\ Unwanted(id)
  /\ IF client = "dropped" THEN UNCHANGED wakers ELSE WakeAll
  /\ IF client = "dropped" \/ IsClosed \/ RecordOf(id) = {}
     THEN UNCHANGED recordVars
     ELSE \E r \in RecordOf(id) : RemovePendingOutput(r)
  /\ UNCHANGED <<queueVars, lastError, idVars, copyCounters, epoch,
                 pushVars, codecVars, flushP, copies, clientVars, history>>

OutputCloses(id, kind) ==
  /\ OutputOf(id)
  /\ ~Unwanted(id)
  /\ FatalClose(kind)
  /\ WakeAll
  /\ UNCHANGED <<idVars, copyCounters, epoch, copies, clientVars>>

OutputUnmatched(id) == RecordOf(id) = {} /\ OutputCloses(id, "unmatched")

OutputUnmeasured(id) == RecordOf(id) # {} /\ OutputCloses(id, "js")

CopiesFull == pendingCopies >= MaxPendingDecode

FrameTooLarge(bytes) ==
  \/ Estimate(bytes) > MaxFrameBytes
  \/ PinnedBytes + Estimate(bytes) > MaxInflightBytes

OutputRefused(id, bytes) ==
  /\ RecordOf(id) # {}
  /\ CopiesFull \/ FrameTooLarge(bytes)
  /\ OutputCloses(id, IF CopiesFull THEN "burst" ELSE "budget")

OutputAdmitted(id, bytes) ==
  /\ OutputOf(id)
  /\ ~Unwanted(id)
  /\ ~CopiesFull /\ ~FrameTooLarge(bytes)
  /\ \E r \in RecordOf(id) : RemovePendingOutput(r)
  /\ AddPendingCopy(Estimate(bytes))
  /\ nextOutputSeq' = nextOutputSeq + 1
  /\ copies' = copies \cup
       {[id |-> id, epoch |-> epoch, seq |-> nextOutputSeq, bytes |-> bytes,
         stage |-> "spawned"]}
  /\ admitted' = Append(admitted, id)
  /\ UNCHANGED <<queueVars, lastError, idVars, epoch, nextPushSeq, pendingPushes,
                 pendingPushBytes, wakers, codecVars, flushP, clientVars, delivered>>

OutputCallback ==
  \E id \in 0 .. MaxPackets :
    \/ OutputIgnored(id)
    \/ OutputUnmatched(id)
    \/ OutputUnmeasured(id)
    \/ \E bytes \in FrameBytes : OutputRefused(id, bytes) \/ OutputAdmitted(id, bytes)

\* The browser closes the decoder and reports why.
ErrorCallback ==
  /\ dec # "closed"
  /\ dec' = "closed" /\ JsAbandon /\ JsRejectFlush
  /\ RecordClose("js")
  /\ WakeAll
  /\ ForgetHistory
  /\ UNCHANGED <<idVars, copyCounters, epoch, outputs, copies, clientVars>>

DequeueCallback ==
  /\ dequeueEvt
  /\ dequeueEvt' = FALSE
  /\ WakeAll
  /\ UNCHANGED <<queueVars, lastError, recordVars, idVars, copyCounters, epoch,
                 pushVars, dec, inputQ, held, outputs, flushP, copies, clientVars,
                 history>>

-----------------------------------------------------------------------------
(* handle_video_frame *)

Stale(c) == c.epoch # epoch

\* First poll of a task whose generation is still the current one: copyTo starts.
CopyStarts(c) ==
  /\ c.stage = "spawned" /\ ~Stale(c)
  /\ copies' = (copies \ {c}) \cup {[c EXCEPT !.stage = "copying"]}
  /\ UNCHANGED <<queueVars, lastError, recordVars, idVars, copyCounters, epoch,
                 pushVars, wakers, jsVars, clientVars, history>>

CopyEnds(c) ==
  /\ copies' = copies \ {c}
  /\ SubPendingCopy(Estimate(c.bytes))
  /\ UNCHANGED <<idVars, epoch, outputs, clientVars>>

\* A task of an earlier generation, at its first poll or when its copy ends,
\* or one whose decoder has closed meanwhile: the frame is dropped.
CopyDiscarded(c) ==
  /\ Stale(c) \/ (c.stage = "copying" /\ IsClosed)
  /\ CopyEnds(c)
  /\ WakeAll
  /\ UNCHANGED <<queueVars, lastError, recordVars, pushVars, codecVars, flushP, history>>

Completes(c) == c.stage = "copying" /\ ~Stale(c) /\ ~IsClosed

\* The byte budget is looked at again with the frame's actual size.
OverBudgetAtCompletion(c) == queueBytes + pendingPushBytes + c.bytes > MaxInflightBytes

PushOf(c) == [seq |-> c.seq, id |-> c.id, bytes |-> c.bytes]

CopyFails(c, copied) ==
  /\ Completes(c)
  /\ copied => OverBudgetAtCompletion(c)
  /\ CopyEnds(c)
  /\ FatalClose(IF copied THEN "budget" ELSE "js")
  /\ WakeAll

CopyOverflows(c) ==
  /\ Completes(c) /\ ~OverBudgetAtCompletion(c)
  /\ DeliveryOverflows(PushOf(c))
  /\ CopyEnds(c)
  /\ FatalClose(IF ReorderRefuses THEN "reorderFull" ELSE "queueFull")
  /\ WakeAll

CopyDelivered(c) ==
  /\ Completes(c) /\ ~OverBudgetAtCompletion(c)
  /\ ~DeliveryOverflows(PushOf(c))
  /\ CopyEnds(c)
  /\ DeliverPendingPush(PushOf(c))
  /\ WakeAfterPush(nextPushSeq' # nextPushSeq)
  /\ UNCHANGED <<lastError, recordVars, codecVars, flushP, history>>

CopyTask(c) ==
  \/ CopyStarts(c)
  \/ CopyDiscarded(c)
  \/ \E copied \in BOOLEAN : CopyFails(c, copied)
  \/ CopyOverflows(c)
  \/ CopyDelivered(c)

-----------------------------------------------------------------------------
(* The browser between callbacks *)

adapterVars == <<queueVars, lastError, recordVars, idVars, copyCounters, epoch,
                 pushVars, wakers, copies, clientVars, history>>

CodecTakes == JsDequeue /\ UNCHANGED adapterVars

\* A chunk usually decodes to one frame, but the codec may make none or two.
CodecEmits == \E id \in held, frames \in 0 .. 2 : JsEmit(id, frames) /\ UNCHANGED adapterVars

FlushSettles == JsFlushDone /\ UNCHANGED adapterVars

\* The codec owes an output: it is being flushed, or full with chunks waiting.
EmissionDue == flushP = "pending" \/ (Cardinality(held) >= CodecDepth /\ inputQ # <<>>)

-----------------------------------------------------------------------------
Next ==
  \/ SendPacket \/ SendCancelled
  \/ ReceiveFrame \/ ReceiveCancelled
  \/ SendEof \/ EofCancelled
  \/ Flush \/ Drop
  \/ OutputCallback \/ ErrorCallback \/ DequeueCallback
  \/ \E c \in copies : CopyTask(c)
  \/ CodecTakes \/ CodecEmits \/ FlushSettles

Spec == Init /\ [][Next]_vars

\* The event loop runs every queued callback and every woken task, promises
\* settle and the codec keeps working.  Nothing is assumed of the caller but
\* that its executor polls a future it has parked once the waker has fired.
Fairness ==
  /\ WF_vars(OutputCallback)
  /\ WF_vars(DequeueCallback)
  /\ WF_vars(\E c \in copies : CopyTask(c))
  /\ WF_vars(CodecTakes)
  /\ WF_vars(EmissionDue /\ CodecEmits)
  /\ WF_vars(FlushSettles)
  /\ WF_vars(client = "send" /\ woken /\ SendPacket)
  /\ WF_vars(client = "receive" /\ woken /\ ReceiveFrame)
  /\ WF_vars(EofCompletes \/ EofRejected)

FairSpec == Spec /\ Fairness

-----------------------------------------------------------------------------
(* Properties *)

\* Tasks whose frame can still reach the queue.
LiveCopies == IF IsClosed THEN {} ELSE {c \in copies : ~Stale(c)}

Ids(frames) == [k \in 1 .. Len(frames) |-> frames[k].id]

\* Frames reach the caller in the order the browser output them, none lost,
\* repeated or from before a flush, whatever order the copies finish in: what
\* was delivered and what is queued are the first nextPushSeq outputs, and
\* every later output is a running copy or waits in the reorder buffer.
OutputOrder ==
  /\ delivered \o Ids(queue) = SubSeq(admitted, 1, nextPushSeq)
  /\ Len(admitted) = nextOutputSeq
  /\ \A p \in pendingPushes \cup LiveCopies :
       p.seq < nextOutputSeq /\ p.id = admitted[p.seq + 1]
  /\ \A k \in 1 .. Len(admitted) : admitted[k] >= epochIdFloor

\* The reorder buffer cannot be left waiting for a frame nobody is copying:
\* each sequence from nextPushSeq on has exactly one holder, and the first of
\* them is a running copy.
ReorderNeverStuck ==
  LET copying == {c.seq : c \in LiveCopies}
      parked == {p.seq : p \in pendingPushes}
  IN /\ copying \cup parked = nextPushSeq .. nextOutputSeq - 1
     /\ copying \cap parked = {}
     /\ nextPushSeq \notin parked

SumBytes(S) == FoldSet(LAMBDA r, total : total + r.bytes, 0, S)

\* Every counter an admission gate reads equals what it counts, across closes,
\* generations and cancelled calls: a drift would close the gate for good or
\* let the caps be exceeded.
CountersHonest ==
  /\ pendingCopies = Cardinality(copies)
  /\ pendingCopyBytes = Estimate(SumBytes(copies))
  /\ queueBytes = BytesOf(queue)
  /\ pendingPushBytes = SumBytes(pendingPushes)
  /\ pendingInputBytes = SumBytes(pendingOutputs)

\* Decoded bytes pinned at once, both halves of a running copy and stale
\* copies included: then the re-check at copy completion never refuses.
ByteBudget ==
  /\ PinnedBytes <= MaxInflightBytes
  /\ \A c \in LiveCopies : ~OverBudgetAtCompletion(c)

\* Nothing the decoder holds exceeds its cap, however outputs bunch up and
\* closes leave copies behind: the two preallocated buffers, the compressed
\* side and the decoded bytes.
CapsHold ==
  /\ Len(queue) <= QueueCapacity
  /\ Cardinality(pendingPushes) <= MaxPendingPushes
  /\ pendingCopies <= MaxPendingDecode
  /\ Cardinality(pendingOutputs) <= MaxPendingOutputs
  /\ pendingInputBytes <= MaxInputInflightBytes
  /\ ByteBudget

\* The rhythm cannot spin: when send_packet answers MustDrain, receive_frame
\* has a frame or waits for one, and does not answer NeedsInput.
DrainIsPossible ==
  ~IsClosed /\ MustDrain => queue # <<>> \/ ActiveDecodeWork

\* The accounts the gates read are true, the caps they guard hold, and a gate that
\* refuses leaves something to drain: no part says much alone, for a drifting
\* counter satisfies its own cap and a gate that is always shut any cap.
AccountsHonest == CountersHonest /\ CapsHold /\ DrainIsPossible

\* "Ended" is the last word: when receive_frame answered it nothing of this
\* generation is left anywhere, and every output has been delivered.
EndedIsFinal ==
  answer = "ended" =>
    /\ inputQ = <<>> /\ held = {} /\ queue = <<>> /\ pendingPushes = {}
    /\ \A k \in 1 .. Len(outputs) : outputs[k] < epochIdFloor
    /\ LiveCopies = {}
    /\ delivered = admitted

\* The stream leaves in order, and whole by the time it is said to have ended.
StreamWhole == OutputOrder /\ EndedIsFinal

\* A closed adapter has stopped its browser decoder: no chunk and no output
\* of it keeps memory alive until the caller gets round to flush().
ClosedMeansStopped ==
  IsClosed => dec # "configured" /\ inputQ = <<>> /\ held = {}

\* Only flush() reopens, and it reopens a fresh generation: every copy still
\* running is stale, every output still on its way is below the id floor.
ReopensFresh ==
  [][IsClosed /\ lastError' = NoError =>
       /\ dec' = "configured" /\ ~eof'
       /\ \A c \in copies' : c.epoch < epoch'
       /\ \A k \in 1 .. Len(outputs') : outputs'[k] < epochIdFloor']_vars

\* The session as its caller sees it: a packet is fed while its chunk is in
\* the browser with a record waiting for it, or its frame is being copied,
\* reordered or queued.
FedIds ==
  {id \in Range(inputQ) \cup held \cup Range(outputs) :
     RecordOf(id) # {} /\ CurrentRecordOf(id) # {}}
    \cup {c.id : c \in LiveCopies}
    \cup {p.id : p \in pendingPushes}
    \cup Range(Ids(queue))

Rhythm == INSTANCE PushRhythm WITH
  Packets <- 0 .. MaxPackets,
  fed <- FedIds,
  over <- eof,
  fault <- IsClosed

\* The decoder implements the push rhythm: every answer it gives is one the
\* contract allows, a frame comes only from a packet accepted in the same
\* generation and at most once, and Ended only when nothing is left.
ImplementsRhythm == Rhythm!RhythmSpec

\* Every call returns once the browser has done its work, also when a close,
\* an error or a swallowed frame comes in between; and the copy tasks of a
\* dropped decoder end, each giving up the browser frame it holds.
CallsReturn ==
  /\ client \in {"send", "receive", "eof"} ~> client = "idle"
  /\ client = "dropped" ~> copies = {}

=============================================================================
