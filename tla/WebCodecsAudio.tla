--------------------------- MODULE WebCodecsAudio ---------------------------
(***************************************************************************)
(* WebCodecsAudioStreamDecoder (mediadecode-webcodecs, audio.rs).  It      *)
(* shares its state machine with the video decoder and differs from it in  *)
(* three ways.                                                             *)
(*                                                                         *)
(* A codec that rebases timestamps gives outputs no id to look up: the     *)
(* oldest record is taken, and the sample count has to be the record's.    *)
(* flush() throws the browser decoder away: it frees the handler slots and *)
(* installs another decoder behind new ones, so an output of the old one   *)
(* finds no handler.  A copy task does not await: it runs from its first   *)
(* poll to its end, the tasks in the order they were spawned, and there is *)
(* no reorder buffer.                                                      *)
(***************************************************************************)
EXTENDS WebCodecsState, BrowserDecoder

CONSTANTS
  MaxInputPacketBytes,     \* MAX_INPUT_PACKET_BYTES
  MaxInputInflightBytes,   \* MAX_INPUT_INFLIGHT_BYTES
  PacketBytes,             \* id -> the sizes its packet may have; a PCM sample is one byte
  DataBytes,               \* allocation sizes of the AudioData they decode to
  MaxPackets,              \* bound: chunks created, over all generations
  MaxEpoch                 \* bound: flush() is called below this epoch

ASSUME AudioAssumption ==
  /\ MaxInputPacketBytes \in Nat /\ MaxInputInflightBytes \in Nat
  /\ MaxPackets \in Nat /\ MaxEpoch \in Nat
  /\ PacketBytes \in [0 .. MaxPackets -> SUBSET Nat] /\ DataBytes \subseteq Nat

VARIABLES
  rebases,    \* rebases_timestamps: a codec of the PCM family
  slotFloor,  \* ids below it went to a decoder whose handler slots are freed
  tasks,      \* spawned handle_audio_data tasks, in the executor's order
  eof,
  client,     \* what the caller awaits
  answer,     \* what its last call answered
  chunk,      \* history: the bytes of each chunk, by id + 1
  split,      \* history: ids whose chunk came out in two outputs
  admitted,   \* history: [output, record] ids of this generation's outputs
  delivered   \* history: ids receive_frame has handed over, this generation

stateVars == <<queueVars, lastError, recordVars, idVars, copyCounters, epoch, pushVars>>
clientVars == <<eof, client, answer>>
history == <<admitted, delivered>>
fixed == <<rebases, chunk>>
vars == <<stateVars, wakers, jsVars, fixed, slotFloor, tasks, clientVars, split, history>>

\* open_with_codec_string.
Init ==
  /\ StateInit /\ JsInit
  /\ rebases \in BOOLEAN
  /\ slotFloor = 0 /\ tasks = <<>>
  /\ eof = FALSE /\ client = "idle" /\ answer = "none"
  /\ chunk = <<>> /\ split = {} /\ admitted = <<>> /\ delivered = <<>>

ForgetHistory == admitted' = <<>> /\ delivered' = <<>>

\* record_close, then the close hook.
FatalClose(kind) ==
  /\ RecordClose(kind)
  /\ JsReset /\ JsRejectFlush
  /\ ForgetHistory

-----------------------------------------------------------------------------
(* send_packet *)

PendingDecode == JsDecodeQueueSize + pendingCopies
Busy == PendingDecode >= MaxPendingDecode
QueueFull == Len(queue) >= MaxQueuedOutput
MustDrain == QueueFull \/ PinnedBytes + lastMeasured > MaxInflightBytes

\* The future runs: at the call, or when what it waits for is over.
SendRuns ==
  \/ client = "idle"
  \/ client = "send" /\ (IsClosed \/ ~Busy \/ QueueFull)

Accepting == ~IsClosed /\ ~eof

SendReturns(a) ==
  /\ client' = "idle" /\ answer' = a
  /\ DropProducerGuard
  /\ UNCHANGED <<eof, copyCounters, epoch, epochIdFloor, outputs, rebases, slotFloor, tasks, split>>

\* An answer that leaves the session as it was.
SendLeaves(a) ==
  /\ SendReturns(a)
  /\ UNCHANGED <<queueVars, lastError, recordVars, nextSubmissionId, pushVars, codecVars,
                 flushP, chunk, history>>

SendRefused ==
  /\ SendRuns /\ ~Accepting
  /\ SendLeaves(IF IsClosed THEN "closed" ELSE "afterEof")

SendMustDrain == SendRuns /\ Accepting /\ MustDrain /\ SendLeaves("mustDrain")

\* await_decode_room waits; woken, it may have to wait again.
SendParks ==
  /\ \/ client = "idle" /\ ~MustDrain
     \/ client = "send" /\ ~QueueFull
  /\ Accepting /\ Busy
  /\ nextSubmissionId < MaxPackets
  /\ client' = "send"
  /\ ParkProducer
  /\ UNCHANGED <<stateVars, jsVars, fixed, slotFloor, tasks, eof, answer, split, history>>

HasRoom ==
  /\ SendRuns /\ Accepting /\ ~MustDrain /\ ~Busy
  /\ nextSubmissionId < MaxPackets

InputTooLarge(bytes) ==
  \/ bytes > MaxInputPacketBytes
  \/ pendingInputBytes + bytes > MaxInputInflightBytes

\* A cap of the compressed side, or no memory for the Uint8Array.
SendClosesOnInput(bytes) ==
  /\ HasRoom
  /\ \/ InputTooLarge(bytes) /\ FatalClose("input")
     \/ ~InputTooLarge(bytes) /\ FatalClose("js")
  /\ SendReturns("closed")
  /\ UNCHANGED <<nextSubmissionId, chunk>>

\* A PCM packet that is no whole number of samples.
SendMalformed(bytes) ==
  /\ HasRoom /\ ~InputTooLarge(bytes) /\ rebases
  /\ SendLeaves("failed")

SpendId(bytes) ==
  /\ HasRoom /\ ~InputTooLarge(bytes)
  /\ nextSubmissionId' = nextSubmissionId + 1
  /\ chunk' = Append(chunk, bytes)

RecordsFull == Cardinality(pendingOutputs) >= MaxPendingOutputs

\* The chunk cannot be built, or decode() throws and its record is removed.
SendThrows(bytes, built) ==
  /\ SpendId(bytes)
  /\ built => ~RecordsFull
  /\ SendReturns("failed")
  /\ UNCHANGED <<queueVars, lastError, recordVars, pushVars, codecVars, flushP, history>>

SendClosesOnRecords(bytes) ==
  /\ SpendId(bytes) /\ RecordsFull
  /\ FatalClose("input")
  /\ SendReturns("closed")

SendAccepted(bytes) ==
  /\ SpendId(bytes) /\ ~RecordsFull
  /\ InsertPendingOutput(nextSubmissionId, bytes)
  /\ JsDecode(nextSubmissionId)
  /\ SendReturns("accepted")
  /\ UNCHANGED <<queueVars, lastError, pushVars, history>>

\* The caller drops the future of a parked send_packet.
SendCancelled == client = "send" /\ SendLeaves("cancelled")

SendPacket ==
  \/ SendRefused \/ SendMustDrain \/ SendParks
  \/ \E bytes \in PacketBytes[nextSubmissionId] :
       \/ SendClosesOnInput(bytes) \/ SendMalformed(bytes)
       \/ \E built \in BOOLEAN : SendThrows(bytes, built)
       \/ SendClosesOnRecords(bytes) \/ SendAccepted(bytes)

-----------------------------------------------------------------------------
(* receive_frame *)

ActiveDecodeWork == pendingCopies > 0 \/ JsDecodeQueueSize > 0

ReceiveRuns == client \in {"idle", "receive"}

ReceiveReturns(a) ==
  /\ client' = "idle" /\ answer' = a
  /\ receiverWaker' = FALSE /\ dequeueWaker' = (dequeueWaker /\ a # "produced")
  /\ woken' = FALSE
  /\ UNCHANGED <<eof, tasks, lastError, recordVars, idVars, copyCounters, epoch, pushVars,
                 jsVars, fixed, slotFloor, split, admitted>>

ReceiveLeaves(a) == ReceiveReturns(a) /\ UNCHANGED <<queueVars, delivered>>

ReceiveClosed == ReceiveRuns /\ IsClosed /\ ReceiveLeaves("closed")

ReceiveProduced ==
  /\ ReceiveRuns /\ ~IsClosed /\ queue # <<>>
  /\ PopQueue
  /\ delivered' = Append(delivered, Head(queue).id)
  /\ ReceiveReturns("produced")

ReceiveDry ==
  /\ ReceiveRuns /\ ~IsClosed /\ queue = <<>> /\ ~ActiveDecodeWork
  /\ ReceiveLeaves(IF eof THEN "ended" ELSE "needsInput")

ReceiveParks ==
  /\ ReceiveRuns /\ ~IsClosed /\ queue = <<>> /\ ActiveDecodeWork
  /\ client' = "receive"
  /\ ParkReceiver
  /\ UNCHANGED <<stateVars, jsVars, fixed, slotFloor, tasks, eof, answer, split, history>>

ReceiveCancelled == client = "receive" /\ ReceiveLeaves("cancelled")

ReceiveFrame == ReceiveClosed \/ ReceiveProduced \/ ReceiveDry \/ ReceiveParks

-----------------------------------------------------------------------------
(* send_eof, flush and Drop *)

EofClosed ==
  /\ client = "idle" /\ IsClosed
  /\ answer' = "closed"
  /\ UNCHANGED <<stateVars, wakers, jsVars, fixed, slotFloor, tasks, eof, client, split, history>>

EofAwaits ==
  /\ client = "idle" /\ ~IsClosed
  /\ JsFlush
  /\ client' = "eof"
  /\ UNCHANGED <<stateVars, wakers, outputs, fixed, slotFloor, tasks, eof, answer, split, history>>

EofCompletes ==
  /\ client = "eof"
  /\ flushP = "resolved" /\ flushP' = "none"
  /\ ClearPendingOutputs
  /\ eof' = TRUE /\ client' = "idle" /\ answer' = "accepted"
  /\ WakeAll
  /\ UNCHANGED <<queueVars, lastError, idVars, copyCounters, epoch, pushVars, codecVars, outputs,
                 fixed, slotFloor, tasks, split, history>>

\* EofCancelGuard: a new generation, closed, and the hook stops the browser.
EofGuardFires(a) ==
  /\ client = "eof"
  /\ flushP' = "none"
  /\ BumpEpoch /\ RecordClose("eof")
  /\ JsReset
  /\ client' = "idle" /\ answer' = a
  /\ WakeAll
  /\ ForgetHistory
  /\ UNCHANGED <<nextSubmissionId, copyCounters, outputs, fixed, slotFloor, tasks, eof, split>>

EofRejected == flushP = "rejected" /\ EofGuardFires("failed")
EofCancelled == EofGuardFires("cancelled")

SendEof == EofClosed \/ EofAwaits \/ EofCompletes \/ EofRejected

\* Mutant: the decoder is rebuilt behind the slots it had.
KeepSlots == UNCHANGED slotFloor

\* free_value_handler and free_void_handler of the three slots.
FreeSlots == slotFloor' = nextSubmissionId

\* The browser decoder is closed for good, and its late events find no slot.
AbandonDecoder == inputQ' = <<>> /\ held' = {} /\ dequeueEvt' = FALSE /\ FreeSlots

FlushBegins ==
  /\ client = "idle" /\ epoch < MaxEpoch
  /\ BumpEpoch /\ AbandonDecoder
  /\ eof' = FALSE
  /\ ForgetHistory
  /\ UNCHANGED <<nextSubmissionId, copyCounters, outputs, flushP, fixed, tasks, client, split>>

\* install_audio_decoder succeeds: another decoder, an open generation.
FlushRebuilds ==
  /\ FlushBegins
  /\ dec' = "configured" /\ lastError' = NoError
  /\ answer' = "none"
  /\ WakeDequeue

\* A slot, the decoder or its configuration fails: FlushGuard closes.
FlushFails ==
  /\ FlushBegins
  /\ dec' = "closed" /\ RecordClose("flush")
  /\ answer' = "failed"
  /\ WakeAll

Flush == FlushRebuilds \/ FlushFails

Drop ==
  /\ client = "idle" /\ client' = "dropped"
  /\ BumpEpoch /\ AbandonDecoder
  /\ dec' = "closed"
  /\ ForgetHistory
  /\ UNCHANGED <<lastError, nextSubmissionId, copyCounters, wakers, outputs, flushP, fixed, tasks,
                 eof, answer, split>>

-----------------------------------------------------------------------------
(* Callbacks *)

OutputOf(id) == outputs # <<>> /\ id = Head(outputs) /\ outputs' = Tail(outputs)

\* value_dispatcher: no handler in the slot, so the AudioData is closed.
OutputOrphaned(id) ==
  /\ OutputOf(id) /\ id < slotFloor
  /\ UNCHANGED <<stateVars, wakers, codecVars, flushP, fixed, slotFloor, tasks, clientVars, split,
                 history>>

Handled(id) == OutputOf(id) /\ id >= slotFloor

Oldest == {r \in pendingOutputs : \A q \in pendingOutputs : r.id <= q.id}

\* The record an output is matched to: the oldest, or the one of its timestamp.
RecordOf(id) == IF rebases THEN Oldest ELSE {r \in pendingOutputs : r.id = id}

\* An output of a split chunk has fewer samples than the chunk.
Samples(id) == IF id \in split THEN 0 .. chunk[id + 1] - 1 ELSE {chunk[id + 1]}

\* A rebasing codec whose output does not have the samples of the record.
WrongSamples(id, r) == rebases /\ (r.bytes = 0 \/ \E n \in Samples(id) : n # r.bytes)

Unmatched(id) ==
  IF RecordOf(id) = {}
  THEN ~rebases /\ id >= epochIdFloor
  ELSE \E r \in RecordOf(id) : WrongSamples(id, r)

\* Closed, unsolicited, or of an earlier generation: closed without a word.
OutputIgnored(id) ==
  /\ Handled(id)
  /\ IsClosed \/ (RecordOf(id) = {} /\ ~Unmatched(id))
  /\ WakeAll
  /\ UNCHANGED <<stateVars, codecVars, flushP, fixed, slotFloor, tasks, clientVars, split, history>>

OutputCloses(id, kind) ==
  /\ Handled(id) /\ ~IsClosed
  /\ FatalClose(kind)
  /\ WakeAll
  /\ UNCHANGED <<idVars, copyCounters, epoch, fixed, slotFloor, tasks, clientVars, split>>

OutputUnmatched(id) == OutputCloses(id, "unmatched") /\ Unmatched(id)

Matched(id) == RecordOf(id) # {} /\ ~Unmatched(id)
CopiesFull == pendingCopies >= MaxPendingDecode
Estimate(bytes) == 2 * bytes

\* Mutant: the frames on the queue are not counted.
TooLargeButQueue(bytes) ==
  bytes > MaxFrameBytes \/ pendingCopyBytes + Estimate(bytes) > MaxInflightBytes

\* One frame alone counts once, and twice against what is pinned.
DataTooLarge(bytes) ==
  bytes > MaxFrameBytes \/ queueBytes + pendingCopyBytes + Estimate(bytes) > MaxInflightBytes

\* The AudioData cannot be measured, or a cap refuses it.
OutputRefused(id, bytes) ==
  /\ Handled(id) /\ Matched(id)
  /\ \/ OutputCloses(id, "js")
     \/ DataTooLarge(bytes) /\ OutputCloses(id, "budget")
     \/ CopiesFull /\ bytes <= MaxFrameBytes /\ OutputCloses(id, "burst")

OutputAdmitted(id, bytes) ==
  /\ Handled(id) /\ ~IsClosed
  /\ Matched(id) /\ ~CopiesFull /\ ~DataTooLarge(bytes)
  /\ AddPendingCopy(Estimate(bytes))
  /\ \E r \in RecordOf(id) :
       /\ RemovePendingOutput(r)
       /\ admitted' = Append(admitted, [output |-> id, record |-> r.id])
       /\ tasks' = Append(tasks, [id |-> r.id, epoch |-> epoch, bytes |-> bytes])
  /\ UNCHANGED <<queueVars, lastError, idVars, epoch, pushVars, wakers, codecVars, flushP, fixed,
                 slotFloor, clientVars, split, delivered>>

OutputCallback ==
  \E id \in 0 .. MaxPackets :
    \/ OutputOrphaned(id) \/ OutputIgnored(id) \/ OutputUnmatched(id)
    \/ \E bytes \in DataBytes : OutputRefused(id, bytes) \/ OutputAdmitted(id, bytes)

\* The browser closes the decoder and reports why.
ErrorCallback ==
  /\ dec # "closed" /\ dec' = "closed"
  /\ JsAbandon /\ JsRejectFlush
  /\ RecordClose("js") /\ WakeAll /\ ForgetHistory
  /\ UNCHANGED <<idVars, copyCounters, epoch, outputs, fixed, slotFloor, tasks, clientVars, split>>

DequeueCallback ==
  /\ dequeueEvt /\ dequeueEvt' = FALSE
  /\ WakeAll
  /\ UNCHANGED <<stateVars, dec, inputQ, held, outputs, flushP, fixed, slotFloor, tasks, clientVars,
                 split, history>>

-----------------------------------------------------------------------------
(* handle_audio_data: the task at the head of the executor's queue *)

Current == tasks[1].epoch = epoch /\ ~IsClosed

\* Mutant: the executor takes the latest task first.
TaskRunsLast ==
  /\ tasks # <<>>
  /\ tasks' = SubSeq(tasks, 1, Len(tasks) - 1)
  /\ SubPendingCopy(Estimate(tasks[Len(tasks)].bytes))
  /\ UNCHANGED <<idVars, epoch, outputs, fixed, slotFloor, clientVars, split>>

TaskRuns ==
  /\ tasks # <<>>
  /\ tasks' = Tail(tasks)
  /\ SubPendingCopy(Estimate(tasks[1].bytes))
  /\ UNCHANGED <<idVars, epoch, outputs, fixed, slotFloor, clientVars, split>>

\* Mutant: the caller waiting for a free copy is not woken.
CopyDiscardedSilently ==
  /\ TaskRuns /\ ~Current
  /\ UNCHANGED <<queueVars, lastError, recordVars, pushVars, wakers, codecVars, flushP, history>>

\* A task of an earlier generation, or whose decoder has closed meanwhile.
CopyDiscarded ==
  /\ TaskRuns /\ ~Current
  /\ WakeAll
  /\ UNCHANGED <<queueVars, lastError, recordVars, pushVars, codecVars, flushP, history>>

OverBudgetAtCompletion(t) == queueBytes + t.bytes > MaxInflightBytes
QueueAtCapacity == Len(queue) >= QueueCapacity

CopyCloses(kind) == TaskRuns /\ Current /\ FatalClose(kind) /\ WakeAll

\* Any task may fail in the browser; a full account or queue ends one that did not.
CopyFaults(t) ==
  {"js"} \cup (IF OverBudgetAtCompletion(t) THEN {"budget"}
              ELSE IF QueueAtCapacity THEN {"queueFull"} ELSE {})

CopyFails == tasks # <<>> /\ \E kind \in CopyFaults(tasks[1]) : CopyCloses(kind)

CopyDelivered ==
  /\ TaskRuns /\ Current
  /\ ~OverBudgetAtCompletion(tasks[1]) /\ ~QueueAtCapacity
  /\ queue' = Append(queue, [id |-> tasks[1].id, bytes |-> tasks[1].bytes])
  /\ queueBytes' = queueBytes + tasks[1].bytes
  /\ WakeAll
  /\ UNCHANGED <<lastError, recordVars, pushVars, codecVars, flushP, history>>

CopyTask == CopyDiscarded \/ CopyFails \/ CopyDelivered

-----------------------------------------------------------------------------
(* The browser between callbacks *)

adapterVars == <<stateVars, wakers, fixed, slotFloor, tasks, clientVars, history>>

CodecTakes == JsDequeue /\ UNCHANGED <<adapterVars, split>>

\* A chunk decodes to one output, to none or to two; a PCM chunk to one unless
\* it is empty or split.
CodecEmits ==
  \E id \in held, frames \in 0 .. 2 :
    /\ rebases => (frames = 0 <=> chunk[id + 1] = 0) /\ (frames = 2 => chunk[id + 1] > 1)
    /\ rebases => \A other \in held : id <= other
    /\ JsEmit(id, frames)
    /\ split' = IF frames = 2 THEN split \cup {id} ELSE split
    /\ UNCHANGED adapterVars

FlushSettles == JsFlushDone /\ UNCHANGED <<adapterVars, split>>

\* The codec owes an output: it is being flushed, or full with chunks waiting.
EmissionDue == flushP = "pending" \/ (Cardinality(held) >= CodecDepth /\ inputQ # <<>>)

Next ==
  \/ SendPacket \/ SendCancelled
  \/ ReceiveFrame \/ ReceiveCancelled
  \/ SendEof \/ EofCancelled
  \/ Flush \/ Drop
  \/ OutputCallback \/ ErrorCallback \/ DequeueCallback
  \/ CopyTask
  \/ CodecTakes \/ CodecEmits \/ FlushSettles

Spec == Init /\ [][Next]_vars

\* As for the video decoder: the event loop runs what is queued, promises
\* settle, the codec keeps working and the executor polls a woken future.
Fairness ==
  /\ WF_vars(OutputCallback)
  /\ WF_vars(DequeueCallback)
  /\ WF_vars(CopyTask)
  /\ WF_vars(CodecTakes)
  /\ WF_vars(EmissionDue /\ CodecEmits)
  /\ WF_vars(FlushSettles)
  /\ WF_vars(client = "send" /\ woken /\ SendPacket)
  /\ WF_vars(client = "receive" /\ woken /\ ReceiveFrame)
  /\ WF_vars(EofCompletes \/ EofRejected)

FairSpec == Spec /\ Fairness

-----------------------------------------------------------------------------
(* Properties *)

\* The tasks of the current generation: spawned in order, they are the last ones.
StaleTasks == CHOOSE n \in 0 .. Len(tasks) : \A i \in DOMAIN tasks : i > n <=> tasks[i].epoch = epoch
LiveTasks == IF IsClosed THEN <<>> ELSE SubSeq(tasks, StaleTasks + 1, Len(tasks))
Ids(frames) == [i \in DOMAIN frames |-> frames[i].id]

\* Frames reach the caller in the order the browser output them, none lost or
\* repeated, although nothing but the executor's order arranges it.
OutputOrder ==
  delivered \o Ids(queue) \o Ids(LiveTasks) = [i \in DOMAIN admitted |-> admitted[i].record]

\* An output is given the timestamp of the packet it was decoded from, also
\* when the codec leaves it no id and only the order and the sample count tell;
\* in particular no output of a decoder flush() threw away takes a record.  And
\* it keeps it to the caller.
OwnRecord ==
  /\ \A i \in DOMAIN admitted : admitted[i].output = admitted[i].record
  /\ OutputOrder

SumBytes(S) == FoldSet(LAMBDA r, total : total + r.bytes, 0, S)

\* The counters the gates read are what they count, over closes and generations.
CountersHonest ==
  /\ pendingCopies = Len(tasks)
  /\ pendingCopyBytes = Estimate(BytesOf(tasks))
  /\ queueBytes = BytesOf(queue)
  /\ pendingInputBytes = SumBytes(pendingOutputs)

\* The counters are honest, so the decoded bytes pinned at once, with those of
\* generations thrown away still being copied, stay within MAX_INFLIGHT_BYTES
\* and the check at the end of a copy never refuses what was admitted.
ByteBudget ==
  /\ CountersHonest
  /\ PinnedBytes <= MaxInflightBytes
  /\ \A i \in DOMAIN LiveTasks : ~OverBudgetAtCompletion(LiveTasks[i])

\* What is held belongs to the packet it came from and is paid for while held.
OutputsAccounted == OwnRecord /\ ByteBudget

\* The session as its caller sees it, as for the video decoder.
FedIds ==
  {id \in Range(inputQ) \cup held \cup Range(outputs) :
     id >= slotFloor /\ \E r \in pendingOutputs : r.id = id}
    \cup Range(Ids(LiveTasks)) \cup Range(Ids(queue))

Rhythm == INSTANCE PushRhythm WITH
  Packets <- 0 .. MaxPackets, fed <- FedIds, over <- eof, fault <- IsClosed

\* The audio decoder implements the push rhythm.
ImplementsRhythm == Rhythm!RhythmSpec

\* Every call returns once the browser has done its work.
CallsReturn == client \in {"send", "receive", "eof"} ~> client \in {"idle", "dropped"}
=============================================================================
