------------------------------- MODULE HwProbe -------------------------------
(***************************************************************************)
(* VideoDecoder (mediadecode-ffmpeg, decoder/mod.rs) opened by             *)
(* open_probing: a hardware decoder whose backend is on trial until it     *)
(* has produced a frame.  While it is, every packet it takes is also       *)
(* recorded; when it fails, the next backend in the probe order is built   *)
(* and replayed the recorded packets; when none is left the packets go     *)
(* back to the caller, who decodes them in software.                       *)
(*                                                                         *)
(* The methods take &mut self, so calls do not overlap.  One step is one   *)
(* question to libavcodec and the code that follows its answer up to the   *)
(* next question: stage says where the call is.  Frames are [by, of]: the  *)
(* backend that decoded them and the packet they were decoded from.        *)
(***************************************************************************)
EXTENDS LibavDecoder, Functions

CONSTANTS
  Order,              \* backend::probe_order(): the backends, in order of trial
  MaxProbePackets,    \* MAX_PROBE_PACKETS
  MaxProbeBytes,      \* MAX_PROBE_PACKET_BYTES
  MaxPendingFrames,   \* MAX_PROBE_PENDING_FRAMES
  PacketBytes,        \* size of each packet
  MaxUnallocated,     \* bound: replays refused their frame, while one backend is installed
  MaxPackets          \* bound: packets the caller has

ASSUME ProbeAssumption ==
  /\ Order \in Seq(Backends) /\ Order # <<>>
  /\ \A i, j \in 1 .. Len(Order) : Order[i] = Order[j] => i = j
  /\ MaxProbePackets \in Nat /\ MaxProbeBytes \in Nat /\ MaxPendingFrames \in Nat
  /\ MaxPackets \in Nat
  /\ PacketBytes \in [1 .. MaxPackets -> Nat]
  /\ MaxUnallocated \in Nat

VARIABLES
  dec,            \* state: the decoder installed
  probing,        \* probe.is_some()
  attempts,       \* probe.attempts
  remaining,      \* probe.remaining_backends
  buffered,       \* probe.buffered_packets
  bufferedBytes,  \* probe.buffered_bytes
  pending,        \* pending_frames
  eofSent,        \* eof_sent
  call,           \* the method that is running
  stage,          \* where it is
  cand,           \* candidate_state, while a replay runs
  replayed,       \* packets of the history the candidate has taken
  localPending,   \* local_pending
  answer,         \* what the last call answered
  nextPacket,     \* the packet the caller offers next
  accepted,       \* history: packets accepted since the open or the last flush
  delivered,      \* history: frames handed over since then
  handedBack,     \* the packets AllBackendsFailed carried
  proven,         \* history: the session has delivered a frame
  forfeited,      \* history: packets whose frames the installed backend lost from its queue
  unallocated     \* history: replays refused their frame since it was installed

probeVars == <<probing, attempts, remaining, buffered, bufferedBytes>>
replayVars == <<cand, replayed, localPending>>
callVars == <<call, stage, answer>>
dealings == <<accepted, delivered, handedBack, proven>>
losses == <<forfeited, unallocated>>
history == <<dealings, losses>>
vars == <<dec, probeVars, pending, eofSent, callVars, replayVars, nextPacket, history>>

Frame == [by : Backends, of : Nat]

\* A reason an attempt failed for: a funnel verdict, or a candidate that could
\* not be built.  "refused" is history: the backend had declined the surface.
Reasons == Errnos \cup Refusals \cup {"build"}
Attempt == [backend : Backends, reason : Reasons, refused : BOOLEAN]

Calls == {"none", "packet", "end", "receive"}
Stages == {"idle", "pop", "codec", "advance", "replay", "drain", "released"}
FlowAnswers == {"mustDrain", "needsInput", "ended"}
Answers ==
  FlowAnswers \cup Errnos \cup Refusals
  \cup {"none", "accepted", "produced", "tooLarge", "noMemory", "allFailed"}

TypeOK ==
  /\ dec \in Decoder /\ cand \in Decoder
  /\ probing \in BOOLEAN /\ eofSent \in BOOLEAN /\ proven \in BOOLEAN
  /\ attempts \in Seq(Attempt)
  /\ remaining \in Seq(Backends)
  /\ buffered \in Seq(Nat) /\ bufferedBytes \in Nat
  /\ pending \in Seq(Frame) /\ localPending \in Seq(Frame)
  /\ call \in Calls /\ stage \in Stages /\ answer \in Answers
  /\ replayed \in Nat /\ nextPacket \in Nat
  /\ accepted \in Seq(Nat) /\ handedBack \in Seq(Nat)
  /\ delivered \in Seq(Frame)
  /\ forfeited \subseteq Nat /\ unallocated \in Nat

FrameOf(d) == [by |-> d.backend, of |-> NextPicture(d)]
Decoded(frames) == {frames[i].of : i \in DOMAIN frames}

\* The candidate exists only during a replay; outside one, a fixed value.
NoCandidate == OpenDecoder(Order[1])

FailedToOpen(i) ==
  [k \in 1 .. i - 1 |-> [backend |-> Order[k], reason |-> "build", refused |-> FALSE]]

\* open_probing: the first backend that opens goes on trial, the ones before it
\* are in the log.  (When none opens there is no session.)
Init ==
  \E i \in 1 .. Len(Order) :
    /\ dec = OpenDecoder(Order[i])
    /\ attempts = FailedToOpen(i)
    /\ remaining = SubSeq(Order, i + 1, Len(Order))
    /\ probing = TRUE
    /\ buffered = <<>> /\ bufferedBytes = 0
    /\ pending = <<>> /\ eofSent = FALSE
    /\ call = "none" /\ stage = "idle" /\ answer = "none"
    /\ cand = NoCandidate /\ replayed = 0 /\ localPending = <<>>
    /\ nextPacket = 1
    /\ accepted = <<>> /\ delivered = <<>> /\ handedBack = <<>> /\ proven = FALSE
    /\ forfeited = {} /\ unallocated = 0

-----------------------------------------------------------------------------
(* The funnel, the routing and the phase.                                   *)

\* Mutant: the errno is classified before the latches are read.
RawErrno(d, error) == error

\* hw_exit: a refusal the callbacks latched takes the place of the error.
HwExit(d, error) ==
  CASE "ceiling" \in d.latch -> "ceiling"
    [] "ceiling" \notin d.latch /\ "budget" \in d.latch -> "budget"
    [] OTHER -> error

\* ... and is consumed by being read.
Collected(d) == [d EXCEPT !.latch = @ \ {HwExit(d, "fail")}]

\* SessionPhase::accepts_input and ::is_committed.
AcceptsInput == ~eofSent
Committed == ~probing

\* Mutant: a candidate's EOF is taken for the stream's.
StatusOfAnyone(verdict) ==
  CASE call = "receive" /\ verdict = "again" -> IF AcceptsInput THEN "needsInput" ELSE "ended"
    [] call = "receive" /\ verdict = "eof" -> "ended"
    [] call # "receive" /\ verdict = "again" /\ AcceptsInput -> "mustDrain"
    [] OTHER -> "none"

\* receive_status and send_status: the flow signal a verdict stands for.
\* "none": the verdict is an error.
Status(verdict) ==
  CASE call = "receive" /\ verdict = "again" ->
         IF AcceptsInput THEN "needsInput" ELSE IF Committed THEN "ended" ELSE "none"
    [] call = "receive" /\ verdict = "eof" /\ Committed -> "ended"
    [] call # "receive" /\ verdict = "again" /\ AcceptsInput -> "mustDrain"
    [] OTHER -> "none"

\* hw_route: an unnamed verdict is the candidate's failure on the receive road,
\* and on the send roads unless it is a flow signal's own fault; a declined
\* surface always is, a frame budget never.
FailsCandidate(verdict) ==
  /\ probing
  /\ verdict \in {"ceiling", "fail"} \cup (IF call = "receive" THEN {"again", "eof"} ELSE {})

-----------------------------------------------------------------------------
(* How a call ends.                                                         *)

Return(a) ==
  /\ answer' = a
  /\ stage' = "idle"
  /\ call' = "none"

\* Mutant: delivering a frame leaves the probe in place.
ProbeStays == UNCHANGED probeVars

\* self.probe = None
ProbeCollapses ==
  /\ probing' = FALSE
  /\ attempts' = <<>>
  /\ remaining' = <<>>
  /\ buffered' = <<>>
  /\ bufferedBytes' = 0

\* Mutant: the packets are read after the probe was cleared.
HandBackTooLate ==
  /\ ProbeCollapses
  /\ handedBack' = buffered'
  /\ answer' = "allFailed"
  /\ stage' = "released"
  /\ call' = "none"
  /\ UNCHANGED <<accepted, delivered, proven, losses, nextPacket>>

\* AllBackendsFailed: the probe is taken and its packets go to the caller, who
\* goes on in software: the session is not called again.
HandBack ==
  /\ ProbeCollapses
  /\ handedBack' = buffered
  /\ answer' = "allFailed"
  /\ stage' = "released"
  /\ call' = "none"
  /\ UNCHANGED <<accepted, delivered, proven, losses, nextPacket>>

Deliver(frame) ==
  /\ delivered' = Append(delivered, frame)
  /\ proven' = TRUE
  /\ ProbeCollapses
  /\ Return("produced")
  /\ UNCHANGED <<accepted, handedBack, losses, nextPacket>>

-----------------------------------------------------------------------------
(* The caller.                                                              *)

Begin(c, first) ==
  /\ stage = "idle"
  /\ call' = c
  /\ stage' = first
  /\ answer' = "none"
  /\ UNCHANGED <<dec, probeVars, pending, eofSent, replayVars, nextPacket, history>>

StartSend == nextPacket <= MaxPackets /\ Begin("packet", "codec")
StartEnd == Begin("end", "codec")
StartReceive == Begin("receive", "pop")

\* flush: the probe goes on, without the packets of the old position.
Flush ==
  /\ stage = "idle"
  /\ dec' = Flushed(dec)
  /\ pending' = <<>>
  /\ eofSent' = FALSE
  /\ buffered' = <<>> /\ bufferedBytes' = 0
  /\ answer' = "none"
  /\ accepted' = <<>> /\ delivered' = <<>> /\ forfeited' = {}
  /\ UNCHANGED <<probing, attempts, remaining, call, stage, replayVars,
                 nextPacket, handedBack, proven, unallocated>>

-----------------------------------------------------------------------------
(* send_av_packet and send_eof.                                             *)

OverProbeCaps ==
  \/ Len(buffered) + 1 > MaxProbePackets
  \/ bufferedBytes + PacketBytes[nextPacket] > MaxProbeBytes

\* The pre-flight: a packet that cannot be recorded - over a cap, with too many
\* side data entries, or that cannot be copied - never reaches the decoder.
SendUnrecordable ==
  /\ stage = "codec" /\ call = "packet" /\ probing
  /\ HandBack
  /\ UNCHANGED <<dec, pending, eofSent, replayVars>>

MayOffer == probing => ~OverProbeCaps

SendAccepted ==
  /\ stage = "codec" /\ call = "packet" /\ MayOffer
  /\ dec' \in Takes(dec, nextPacket)
  /\ IF probing
       THEN /\ buffered' = Append(buffered, nextPacket)
            /\ bufferedBytes' = bufferedBytes + PacketBytes[nextPacket]
       ELSE UNCHANGED <<buffered, bufferedBytes>>
  /\ accepted' = Append(accepted, nextPacket)
  /\ nextPacket' = nextPacket + 1
  /\ Return("accepted")
  /\ UNCHANGED <<probing, attempts, remaining, pending, eofSent, replayVars,
                 delivered, handedBack, proven, losses>>

EndAccepted ==
  /\ stage = "codec" /\ call = "end"
  /\ dec' \in TakesEnd(dec)
  /\ eofSent' = TRUE
  /\ Return("accepted")
  /\ UNCHANGED <<probeVars, pending, replayVars, nextPacket, history>>

-----------------------------------------------------------------------------
(* receive_frame.                                                           *)

\* try_pop_pending: a frame of the replay commits its backend.
ReceivePending ==
  /\ stage = "pop" /\ pending # <<>>
  /\ pending' = Tail(pending)
  /\ Deliver(Head(pending))
  /\ UNCHANGED <<dec, eofSent, replayVars>>

NothingPending ==
  /\ stage = "pop" /\ pending = <<>>
  /\ stage' = "codec"
  /\ UNCHANGED <<dec, probeVars, pending, eofSent, call, answer, replayVars,
                 nextPacket, history>>

ReceiveProduced ==
  /\ stage = "codec" /\ call = "receive" /\ HasPicture(dec)
  /\ dec' = Yielded(dec)
  /\ Deliver(FrameOf(dec))
  /\ UNCHANGED <<pending, eofSent, replayVars>>

\* judge_hw_transfer: a frame over the ceiling is refused for good.  The probe
\* stays: another backend would be refused as well.
ReceiveTooLarge ==
  /\ stage = "codec" /\ call = "receive" /\ HasPicture(dec)
  /\ dec' = PictureLost(dec)
  /\ Return("tooLarge")
  /\ UNCHANGED <<probeVars, pending, eofSent, replayVars, nextPacket, history>>

-----------------------------------------------------------------------------
(* Every error of the decoder, in all three calls.                          *)

\* The errors the call can meet.  A frame that will not download is one of the
\* receive road's.
Errors ==
  CASE call = "packet" /\ MayOffer -> SendErrors(dec)
    [] call = "end" -> SendErrors(dec)
    [] call = "receive" ->
         ReceiveErrors(dec)
         \cup {[errno |-> "fail", after |-> x] :
                 x \in IF HasPicture(dec) THEN Latched(PictureLost(dec)) ELSE {}}
    [] OTHER -> {}

\* A flow signal, or an error that is the caller's to see.
CodecAnswers ==
  /\ stage = "codec"
  /\ \E e \in Errors :
       LET verdict == HwExit(e.after, e.errno)
       IN  /\ dec' = Collected(e.after)
           /\ \/ /\ Status(verdict) # "none"
                 /\ Return(Status(verdict))
              \/ /\ Status(verdict) = "none"
                 /\ ~FailsCandidate(verdict)
                 /\ Return(verdict)
  /\ UNCHANGED <<probeVars, pending, eofSent, replayVars, nextPacket, history>>

\* Mutant: they stay queued.
QueuedFramesKept == UNCHANGED pending

\* pending_frames.clear(): the frames the failed backend's own replay had queued.
QueuedFramesDropped == pending' = <<>>

\* The backend on trial fails: advance_probe logs it.
CandidateFails ==
  /\ stage = "codec"
  /\ \E e \in Errors :
       LET verdict == HwExit(e.after, e.errno)
           funnelled == Collected(e.after)
       IN  /\ Status(verdict) = "none"
           /\ FailsCandidate(verdict)
           /\ attempts' = Append(attempts,
                [backend |-> dec.backend,
                 reason  |-> HwExit(funnelled, verdict),
                 refused |-> "ceiling" \in e.after.latch])
           /\ dec' = Collected(funnelled)
  /\ QueuedFramesDropped
  /\ forfeited' = forfeited \cup Decoded(pending)
  /\ stage' = "advance"
  /\ UNCHANGED <<probing, remaining, buffered, bufferedBytes, eofSent, call, answer,
                 replayVars, nextPacket, dealings, unallocated>>

-----------------------------------------------------------------------------
(* advance_probe_with.                                                      *)

\* A candidate that fails leaves the list and enters the log.
GiveUpOn(reason, refused) ==
  /\ attempts' = Append(attempts,
       [backend |-> Head(remaining), reason |-> reason, refused |-> refused])
  /\ remaining' = Tail(remaining)

Exhausted ==
  /\ stage = "advance" /\ remaining = <<>>
  /\ HandBack
  /\ UNCHANGED <<dec, pending, eofSent, replayVars>>

\* Mutant: a candidate that cannot be built ends the call.
UnbuiltEndsCall ==
  /\ stage = "advance" /\ remaining # <<>>
  /\ GiveUpOn("build", FALSE)
  /\ Return("fail")
  /\ UNCHANGED <<dec, probing, buffered, bufferedBytes, pending, eofSent,
                 replayVars, nextPacket, history>>

CandidateUnbuilt ==
  /\ stage = "advance" /\ remaining # <<>>
  /\ GiveUpOn("build", FALSE)
  /\ UNCHANGED <<dec, probing, buffered, bufferedBytes, pending, eofSent, callVars,
                 replayVars, nextPacket, history>>

\* alloc_av_frame fails: the call ends, the failed backend still installed and on
\* trial, in the log, and without the frames it had queued.
ReplayUnallocated ==
  /\ stage = "advance" /\ remaining # <<>>
  /\ unallocated < MaxUnallocated
  /\ unallocated' = unallocated + 1
  /\ Return("noMemory")
  /\ UNCHANGED <<dec, probeVars, pending, eofSent, replayVars, nextPacket, dealings,
                 forfeited>>

CandidateBuilt ==
  /\ stage = "advance" /\ remaining # <<>>
  /\ cand' = OpenDecoder(Head(remaining))
  /\ replayed' = 0
  /\ localPending' = <<>>
  /\ stage' = "replay"
  /\ UNCHANGED <<dec, probeVars, pending, eofSent, call, answer, nextPacket, history>>

\* Mutant: the last packet is not replayed.
AllButLast == replayed + 1 < Len(buffered)

PacketsLeft == replayed < Len(buffered)
EndLeft == ~PacketsLeft /\ eofSent /\ ~cand.ended

ReplayTakes ==
  /\ stage = "replay"
  /\ \/ /\ PacketsLeft
        /\ cand' \in Takes(cand, buffered[replayed + 1])
        /\ replayed' = replayed + 1
     \/ /\ EndLeft
        /\ cand' \in TakesEnd(cand)
        /\ UNCHANGED replayed
  /\ UNCHANGED <<dec, probeVars, pending, eofSent, callVars, localPending,
                 nextPacket, history>>

ReplayMustDrain ==
  /\ stage = "replay" /\ (PacketsLeft \/ EndLeft)
  /\ \E e \in SendErrors(cand) : e.errno = "again"
  /\ stage' = "drain"
  /\ UNCHANGED <<dec, probeVars, pending, eofSent, call, answer, replayVars,
                 nextPacket, history>>

\* drain_into_pending: the candidate's frames, downloaded while it lives.
DrainTakes ==
  /\ stage = "drain" /\ HasPicture(cand)
  /\ Len(localPending) < MaxPendingFrames
  /\ localPending' = Append(localPending, FrameOf(cand))
  /\ cand' = Yielded(cand)
  /\ UNCHANGED <<dec, probeVars, pending, eofSent, callVars, replayed, nextPacket, history>>

DrainEnds ==
  /\ stage = "drain"
  /\ \E e \in ReceiveErrors(cand) : e.errno \in {"again", "eof"}
  /\ stage' = "replay"
  /\ UNCHANGED <<dec, probeVars, pending, eofSent, call, answer, replayVars,
                 nextPacket, history>>

\* Mutant: a frame over the cap does not end the replay.
ReplayErrorsButCaps ==
  CASE stage = "replay" /\ (PacketsLeft \/ EndLeft) ->
         {e.after : e \in {x \in SendErrors(cand) : x.errno # "again"}}
    [] OTHER -> {}

\* The errors that end a replay: a packet that cannot be copied or is not taken,
\* a frame over a cap or that cannot be downloaded.  Only a declined surface is
\* collected from the candidate before it is dropped.
ReplayErrors ==
  CASE stage = "replay" /\ (PacketsLeft \/ EndLeft) ->
         {e.after : e \in {x \in SendErrors(cand) : x.errno # "again"}}
         \cup (IF PacketsLeft THEN {cand} ELSE {})
    [] stage = "drain" ->
         {e.after : e \in {x \in ReceiveErrors(cand) : x.errno = "fail"}}
         \cup (IF HasPicture(cand) THEN {cand} ELSE {})
    [] OTHER -> {}

\* Mutant: the latch of the backend still installed is read.
ReasonOfInstalled(d) == IF "ceiling" \in dec.latch THEN "ceiling" ELSE "fail"

ReplayReason(d) == IF "ceiling" \in d.latch THEN "ceiling" ELSE "fail"

CandidateGone == cand' = NoCandidate /\ replayed' = 0 /\ localPending' = <<>>

ReplayFails ==
  /\ \E d \in ReplayErrors : GiveUpOn(ReplayReason(d), "ceiling" \in d.latch)
  /\ CandidateGone
  /\ stage' = "advance"
  /\ UNCHANGED <<dec, probing, buffered, bufferedBytes, pending, eofSent, call, answer,
                 nextPacket, history>>

\* The losses are those of the backend installed, and this is another.
NothingForfeited == forfeited' = {} /\ unallocated' = 0

\* Mutant: the frames drained during the replay are dropped.
CommitWithoutFrames ==
  /\ stage = "replay" /\ ~PacketsLeft /\ ~EndLeft
  /\ dec' = cand
  /\ remaining' = Tail(remaining)
  /\ CandidateGone
  /\ NothingForfeited
  /\ stage' = IF call = "receive" THEN "pop" ELSE "codec"
  /\ UNCHANGED <<probing, attempts, buffered, bufferedBytes, pending, eofSent, call,
                 answer, nextPacket, dealings>>

\* The candidate is installed and its frames are the first to be delivered.
Commit ==
  /\ stage = "replay" /\ ~PacketsLeft /\ ~EndLeft
  /\ dec' = cand
  /\ pending' = pending \o localPending
  /\ remaining' = Tail(remaining)
  /\ CandidateGone
  /\ NothingForfeited
  /\ stage' = IF call = "receive" THEN "pop" ELSE "codec"
  /\ UNCHANGED <<probing, attempts, buffered, bufferedBytes, eofSent, call, answer,
                 nextPacket, dealings>>

-----------------------------------------------------------------------------
SendStep == SendUnrecordable \/ SendAccepted \/ EndAccepted
ReceiveStep == ReceivePending \/ NothingPending \/ ReceiveProduced \/ ReceiveTooLarge
AdvanceStep == Exhausted \/ CandidateUnbuilt \/ ReplayUnallocated \/ CandidateBuilt
ReplayStep ==
  ReplayTakes \/ ReplayMustDrain \/ DrainTakes \/ DrainEnds \/ ReplayFails \/ Commit
CallStep ==
  SendStep \/ ReceiveStep \/ CodecAnswers \/ CandidateFails \/ AdvanceStep \/ ReplayStep
CallerStep == StartSend \/ StartEnd \/ StartReceive \/ Flush

Next == CallStep \/ CallerStep

Spec == Init /\ [][Next]_vars

\* A call runs until it returns; nothing obliges the caller to make one.
FairSpec == Spec /\ WF_vars(CallStep)

-----------------------------------------------------------------------------
(* What the probe promises.                                                 *)

Advancing == stage \in {"advance", "replay", "drain"}

\* The backend installed, whichever it is, has been fed every packet accepted
\* since the last flush, in order, and the end if it was signalled; the history
\* a replacement will be fed is the same; a candidate has been fed a prefix.
FedWholeHistory ==
  /\ dec.fed = accepted /\ dec.ended = eofSent
  /\ probing => buffered = accepted
  /\ stage \in {"replay", "drain"} => cand.fed = SubSeq(accepted, 1, replayed)

\* AllBackendsFailed carries every packet the session accepted since the last
\* flush, and no frame was ever handed over: software can start from them.
HandsBackEverything ==
  stage = "released" => handedBack = accepted /\ ~proven

\* Each packet of the installed backend was delivered, is queued, is still inside,
\* was given up by the decoder, or lost its queued frame when the backend failed.
NothingElseLost ==
  Range(accepted) = Decoded(delivered) \cup Decoded(pending) \cup Range(dec.inside)
                    \cup dec.dropped \cup forfeited

\* A backend that goes on has lost its queue only to a replay of its replacement
\* that was refused its frame: any other end of an advance takes it away, or ends
\* the session.
LostOnlyUnallocated ==
  forfeited # {} => Advancing \/ stage = "released" \/ unallocated > 0

\* Frames handed over, then those queued, are one backend's, in packet order,
\* none twice.
OneBackendInOrder ==
  LET frames == delivered \o pending
  IN  /\ \A i \in DOMAIN frames : frames[i].by = dec.backend
      /\ \A i, j \in DOMAIN frames : i < j => frames[i].of < frames[j].of

\* What the caller sees is one backend's output, whichever backends failed before
\* it and wherever they did: nothing of theirs is mixed in, and nothing of its own
\* is left behind in the replay that installed it, unless it failed and memory ran
\* out while it was being replaced (advance_probe_with, 1764-1774 and 1888-1891).
FramesWhole == NothingElseLost /\ LostOnlyUnallocated /\ OneBackendInOrder

\* MustDrain and NeedsInput are only answered when the caller can do what they
\* ask, and no flow answer hides a refusal the callbacks have latched.
FlowHonest ==
  /\ answer = "mustDrain" => ~eofSent /\ HasPicture(dec)
  /\ answer = "needsInput" => ~eofSent /\ pending = <<>>
  /\ answer \in FlowAnswers => dec.latch = {}

\* Ended is the committed backend's to say - one that has produced a frame - and
\* then every packet has been delivered or given up, but for a queue lost before.
EndedComplete ==
  answer = "ended" =>
    /\ proven /\ eofSent
    /\ Range(accepted) = Decoded(delivered) \cup dec.dropped \cup forfeited

\* A surface the callbacks declined is logged as a refusal, never as the errno
\* libavcodec reported in its place.
RefusalsNamed ==
  \A i \in DOMAIN attempts : attempts[i].refused => attempts[i].reason \in Refusals

\* The caller can act on what it is told: a flow signal only when what it asks
\* for is possible, Ended only from a committed backend with nothing left, and
\* a refusal always under its own name, in the answer and in the log.
AnswersHonest == FlowHonest /\ EndedComplete /\ RefusalsNamed

\* Every call returns: no chain of failing backends and no replay against back
\* pressure goes on for ever.
CallsReturn == stage \notin {"idle", "released"} ~> stage \in {"idle", "released"}

Rescue == INSTANCE RescueContract WITH
  taken <- accepted, shown <- delivered, returned <- handedBack,
  outcome <- IF stage = "released" THEN "returned"
             ELSE IF proven THEN "committed" ELSE "trial",
  by <- IF proven THEN dec.backend ELSE "none"

\* Seen from the caller, the session keeps the rescue contract.
ImplementsRescue == Rescue!Spec

=============================================================================
