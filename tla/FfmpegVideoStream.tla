-------------------------- MODULE FfmpegVideoStream --------------------------
(***************************************************************************)
(* CarrierVideoStreamDecoder (mediadecode-ffmpeg, video/mod.rs): the       *)
(* session a caller drives, a hardware decoder that may be replaced once,  *)
(* before its first picture, by a software decoder which is fed everything *)
(* the hardware took.                                                      *)
(*                                                                         *)
(* The hardware decoder is seen through HwInner.  What goes on behind that *)
(* seam is HwProbe's; here it is one decoder, trial while its probe runs.  *)
(* HwProbe shows what is used of it: what it has been fed is the history   *)
(* AllBackendsFailed hands back, the probe ends with the first picture,    *)
(* and its calls return.                                                   *)
(*                                                                         *)
(* The methods take &mut self.  A step is one question to a decoder with   *)
(* the code up to the next question; stage says where the call is.         *)
(***************************************************************************)
EXTENDS LibavDecoder, Functions

CONSTANTS
  Paths,          \* the decode paths a session may be opened on
  Spares,         \* hardware backends behind the first one
  ReplayCap,      \* SW_REPLAY_FRAME_CAP
  MaxAttempts,    \* the 16 attempts of a replayed packet, and of the end
  MaxPackets      \* bound: packets the caller has

ASSUME StreamAssumption ==
  /\ Backends = {"hw", "sw"}
  /\ Refusals \subseteq {"budget"}
  /\ Paths \subseteq {"auto", "anyHardware", "hardware", "software"}
  /\ Spares \in Nat /\ ReplayCap \in Nat /\ MaxAttempts \in Nat /\ MaxPackets \in Nat

VARIABLES
  path,        \* path
  dec,         \* state: Hw or Sw, by its backend
  trial,       \* the hardware session's probe runs
  spare,       \* the backends that probe has left
  replay,      \* sw_replay_frames
  parked,      \* the frame in the scratch of state, while scratch_pending
  eofSent,     \* eof_sent
  call,        \* the method that is running
  stage,       \* where it is
  answer,      \* what the last call answered
  sw,          \* the software decoder of a fallback under way
  replayed,    \* rescued packets it has taken
  attempts,    \* attempts
  local,       \* local_replay
  nextPacket,  \* the packet the caller offers next
  accepted,    \* history: packets accepted since the open or the last flush
  delivered,   \* history: pictures handed over since then, by their packet
  discarded,   \* history: pictures no carrier can hold
  handedBack   \* the packets AllBackendsFailed or FallbackFailed carried

session == <<path, dec, trial, spare, replay, parked, eofSent>>
callVars == <<call, stage, answer>>
fallback == <<sw, replayed, attempts, local>>
history == <<nextPacket, accepted, delivered, discarded, handedBack>>
vars == <<session, callVars, fallback, history>>

Fallback == {"open", "replay", "drain"}
Stages == {"idle", "front", "codec", "committed"} \cup Fallback
FlowAnswers == {"mustDrain", "needsInput", "ended"}
RescueAnswers == {"allFailed", "fallbackFailed"}
Answers ==
  {"none", "accepted", "produced", "afterEof", "failed"} \cup FlowAnswers \cup RescueAnswers

TypeOK ==
  /\ path \in Paths
  /\ dec \in Decoder /\ sw \in Decoder
  /\ trial \in BOOLEAN /\ eofSent \in BOOLEAN
  /\ spare \in Nat /\ replayed \in Nat /\ attempts \in Nat /\ nextPacket \in Nat
  /\ replay \in Seq(Nat) /\ local \in Seq(Nat)
  /\ parked \in Seq(Nat) /\ Len(parked) <= 1
  /\ call \in {"none", "packet", "end", "receive"}
  /\ stage \in Stages /\ answer \in Answers
  /\ accepted \in Seq(Nat) /\ delivered \in Seq(Nat) /\ handedBack \in Seq(Nat)
  /\ discarded \subseteq Nat

OnHardware == dec.backend = "hw"

\* Outside a fallback there is no second decoder; a fixed value.
NoFallback == sw' = OpenDecoder("sw") /\ replayed' = 0 /\ attempts' = 0 /\ local' = <<>>

\* open_as_in.  Auto goes straight to software when no backend opens; a named
\* backend is committed from the open.  (The other failures leave no session.)
Init ==
  /\ path \in Paths
  /\ \/ path \in {"auto", "anyHardware"} /\ dec = OpenDecoder("hw") /\ trial = TRUE
     \/ path = "hardware" /\ dec = OpenDecoder("hw") /\ trial = FALSE
     \/ path \in {"auto", "software"} /\ dec = OpenDecoder("sw") /\ trial = FALSE
  /\ spare = Spares
  /\ replay = <<>> /\ parked = <<>> /\ eofSent = FALSE
  /\ call = "none" /\ stage = "idle" /\ answer = "none"
  /\ sw = OpenDecoder("sw") /\ replayed = 0 /\ attempts = 0 /\ local = <<>>
  /\ nextPacket = 1
  /\ accepted = <<>> /\ delivered = <<>> /\ discarded = {} /\ handedBack = <<>>

MayOpenSoftware == path \in {"auto", "software"}

Return(a) ==
  /\ answer' = a
  /\ stage' = "idle"
  /\ call' = "none"

Begin(c, first) ==
  /\ call' = c
  /\ stage' = first
  /\ UNCHANGED answer

-----------------------------------------------------------------------------
(* Entering a call.                                                         *)

\* The two gates of both sends, in the code's order: past the end a fault,
\* under a parked frame back pressure.  Neither reaches a decoder.
StartSubmission(c) ==
  /\ stage = "idle"
  /\ \/ eofSent /\ Return("afterEof")
     \/ ~eofSent /\ parked # <<>> /\ Return("mustDrain")
     \/ ~eofSent /\ parked = <<>> /\ Begin(c, "codec")
  /\ UNCHANGED <<session, fallback, history>>

SendPacket == nextPacket <= MaxPackets /\ StartSubmission("packet")
SendEof == StartSubmission("end")

ReceiveFrame ==
  /\ stage = "idle"
  /\ Begin("receive", "front")
  /\ UNCHANGED <<session, fallback, history>>

Flush ==
  /\ stage = "idle"
  /\ replay' = <<>>
  /\ parked' = <<>>
  /\ eofSent' = FALSE
  /\ dec' = Flushed(dec)
  /\ answer' = "none"
  /\ accepted' = <<>> /\ delivered' = <<>> /\ discarded' = {}
  /\ UNCHANGED <<path, trial, spare, call, stage, fallback, nextPacket, handedBack>>

-----------------------------------------------------------------------------
(* Reading a decoder's answer.                                              *)

\* hw_exit and software_exit: a refusal of the allocator's takes the place of
\* the errno, and is consumed by being read.
Verdict(e) == IF "budget" \in e.after.latch THEN "budget" ELSE e.errno

AfterVerdict(e) ==
  IF Verdict(e) = "budget" THEN [e.after EXCEPT !.latch = {}] ELSE e.after

\* SessionPhase: the hardware session keeps its own end of stream.
AcceptsInput == IF OnHardware THEN ~dec.ended ELSE ~eofSent

\* Mutant: EAGAIN is asked to be fed, whatever the phase.
StatusWithoutPhase(verdict) ==
  CASE call = "receive" /\ verdict = "again" -> "needsInput"
    [] call = "receive" /\ verdict = "eof" /\ ~trial -> "ended"
    [] call # "receive" /\ verdict = "again" -> "mustDrain"
    [] OTHER -> "none"

\* receive_status and send_status; "none" is an error.
Status(verdict) ==
  CASE call = "receive" /\ verdict = "again" ->
         IF AcceptsInput THEN "needsInput" ELSE IF trial THEN "none" ELSE "ended"
    [] call = "receive" /\ verdict = "eof" /\ ~trial -> "ended"
    [] call # "receive" /\ verdict = "again" /\ AcceptsInput -> "mustDrain"
    [] OTHER -> "none"

\* What a decoder can answer besides taking or yielding something.  A picture
\* of the hardware's that will not download is lost like one it cannot decode.
Errors ==
  IF call = "receive"
    THEN ReceiveErrors(dec)
           \cup {[errno |-> "fail", after |-> x] :
                   x \in IF OnHardware /\ HasPicture(dec) THEN Latched(PictureLost(dec)) ELSE {}}
    ELSE SendErrors(dec)

\* The probe takes an unnamed error for the failure of its candidate.
FailsCandidate(e) == trial /\ Status(Verdict(e)) = "none" /\ Verdict(e) # "budget"

-----------------------------------------------------------------------------
(* The question to the decoder in use.                                      *)

\* with_ffmpeg_video_packet cannot build the packet: nothing was sent.
PacketUnbuilt ==
  /\ stage = "codec" /\ call = "packet"
  /\ Return("failed")
  /\ UNCHANGED <<session, fallback, history>>

PacketAccepted ==
  /\ stage = "codec" /\ call = "packet"
  /\ dec' \in Takes(dec, nextPacket)
  /\ accepted' = Append(accepted, nextPacket)
  /\ nextPacket' = nextPacket + 1
  /\ Return("accepted")
  /\ UNCHANGED <<path, trial, spare, replay, parked, eofSent, fallback,
                 delivered, discarded, handedBack>>

\* Mutant: back pressure counts as the end having been taken.
RecordsEnd(a) == call = "end" /\ a \in {"accepted", "mustDrain"}

\* send_eof records the end when it was taken, and only then.
TakesTheEnd(a) == call = "end" /\ a = "accepted"

EndAccepted ==
  /\ stage = "codec" /\ call = "end"
  /\ dec' \in TakesEnd(dec)
  /\ eofSent' = TakesTheEnd("accepted")
  /\ Return("accepted")
  /\ UNCHANGED <<path, trial, spare, replay, parked, fallback, history>>

\* A flow signal, or an error of this call alone.
CodecAnswers ==
  /\ stage = "codec"
  /\ \E e \in Errors :
       LET status == Status(Verdict(e))
           told == IF status = "none" THEN "failed" ELSE status
       IN  /\ ~FailsCandidate(e)
           /\ dec' = AfterVerdict(e)
           /\ eofSent' = (eofSent \/ TakesTheEnd(told))
           /\ Return(told)
  /\ UNCHANGED <<path, trial, spare, replay, parked, fallback, history>>

\* The probe moves on to another backend, past any that will not take the history;
\* that one has all of it to decode.
HwAdvances ==
  /\ stage = "codec"
  /\ \E e \in Errors : FailsCandidate(e)
  /\ spare' \in 0 .. spare - 1
  /\ dec' = [dec EXCEPT !.inside = dec.fed, !.dropped = {}, !.latch = {}]
  /\ UNCHANGED <<path, trial, replay, parked, eofSent, callVars, fallback, history>>

\* AllBackendsFailed: the last candidate failed, or a packet cannot be recorded.
\* The probe is gone either way, and the caller or the fallback has its packets.
HwExhausted ==
  /\ stage = "codec" /\ trial
  /\ \/ call = "packet" /\ UNCHANGED dec
     \/ \E e \in Errors : FailsCandidate(e) /\ dec' = AfterVerdict(e)
  /\ trial' = FALSE
  /\ IF MayOpenSoftware
       THEN /\ stage' = "open"
            /\ UNCHANGED <<call, answer, handedBack>>
       ELSE /\ handedBack' = dec.fed
            /\ Return("allFailed")
  /\ UNCHANGED <<path, spare, replay, parked, eofSent, fallback,
                 nextPacket, accepted, delivered, discarded>>

-----------------------------------------------------------------------------
(* receive_frame: where the next picture is taken from, and its conversion. *)

\* Mutant: the frames of the replay are not looked at.
NeverReplayed == FALSE

ReplayWaits == replay # <<>>

\* Mutant: the head is popped before it is converted.
PoppedFirst ==
  /\ replay' = Tail(replay)
  /\ UNCHANGED <<delivered, discarded>>
  /\ Return("failed")

\* An allocation fails: the frame stays where it is, for another attempt.
ReplayedStays ==
  /\ UNCHANGED <<replay, delivered, discarded>>
  /\ Return("failed")

\* The head of the replay queue: converted, kept for another attempt when an
\* allocation failed, dropped when no carrier can hold it.
DeliverReplayed ==
  /\ stage = "front" /\ ReplayWaits
  /\ \/ /\ delivered' = Append(delivered, Head(replay))
        /\ replay' = Tail(replay)
        /\ Return("produced")
        /\ UNCHANGED discarded
     \/ ReplayedStays
     \/ /\ discarded' = discarded \cup {Head(replay)}
        /\ replay' = Tail(replay)
        /\ Return("failed")
        /\ UNCHANGED delivered
  /\ UNCHANGED <<path, dec, trial, spare, parked, eofSent, fallback,
                 nextPacket, accepted, handedBack>>

\* deliver_frame: the same three ends for the picture in the scratch.
ConvertScratch(picture) ==
  \/ /\ delivered' = Append(delivered, picture)
     /\ parked' = <<>>
     /\ Return("produced")
     /\ UNCHANGED discarded
  \/ /\ parked' = <<picture>>
     /\ Return("failed")
     /\ UNCHANGED <<delivered, discarded>>
  \/ /\ discarded' = discarded \cup {picture}
     /\ parked' = <<>>
     /\ Return("failed")
     /\ UNCHANGED delivered

DeliverParked ==
  /\ stage = "front" /\ ~ReplayWaits /\ parked # <<>>
  /\ ConvertScratch(Head(parked))
  /\ UNCHANGED <<path, dec, trial, spare, replay, eofSent, fallback,
                 nextPacket, accepted, handedBack>>

AskDecoder ==
  /\ stage = "front" /\ ~ReplayWaits /\ parked = <<>>
  /\ stage' = "codec"
  /\ UNCHANGED <<session, call, answer, fallback, history>>

\* A picture: the hardware's probe ends with it, whatever becomes of it here.
Produced ==
  /\ stage = "codec" /\ call = "receive" /\ HasPicture(dec)
  /\ dec' = Yielded(dec)
  /\ trial' = FALSE
  /\ ConvertScratch(NextPicture(dec))
  /\ UNCHANGED <<path, spare, replay, eofSent, fallback, nextPacket, accepted, handedBack>>

-----------------------------------------------------------------------------
(* fall_back_to_sw.                                                         *)

Rescued == dec.fed

\* eof_pending: an end taken by the hardware, or the one being signalled.
EofPending == eofSent \/ call = "end"

PacketsLeft == replayed < Len(Rescued)
EndLeft == ~PacketsLeft /\ EofPending /\ ~sw.ended
AllTaken == ~PacketsLeft /\ ~EndLeft

\* Mutant: what was already replayed is not returned.
ReturnTheRest ==
  /\ handedBack' = SubSeq(Rescued, replayed + 1, Len(Rescued))
  /\ NoFallback
  /\ Return("fallbackFailed")
  /\ UNCHANGED <<session, nextPacket, accepted, delivered, discarded>>

\* FallbackFailed: the software decoder and its frames are dropped, the rescued
\* packets returned, the session stays on the hardware decoder.
FallbackFails ==
  /\ handedBack' = Rescued
  /\ NoFallback
  /\ Return("fallbackFailed")
  /\ UNCHANGED <<session, nextPacket, accepted, delivered, discarded>>

SoftwareUnopened == stage = "open" /\ FallbackFails

SoftwareOpened ==
  /\ stage = "open"
  /\ NoFallback
  /\ stage' = "replay"
  /\ UNCHANGED <<session, call, answer, history>>

ReplayTakes ==
  /\ stage = "replay"
  /\ \/ /\ PacketsLeft
        /\ sw' \in Takes(sw, Rescued[replayed + 1])
        /\ replayed' = replayed + 1
     \/ /\ EndLeft
        /\ sw' \in TakesEnd(sw)
        /\ UNCHANGED replayed
  /\ attempts' = 0
  /\ UNCHANGED <<session, callVars, local, history>>

\* EAGAIN, which the code does not trust to end by itself; and the final drain.
ReplayPauses ==
  /\ stage = "replay"
  /\ stage' = "drain"
  /\ UNCHANGED <<session, call, answer, fallback, history>>

ReplayErrors ==
  /\ stage = "replay" /\ ~AllTaken
  /\ \E e \in SendErrors(sw) : e.errno # "again"
  /\ FallbackFails

DrainTakes ==
  /\ stage = "drain" /\ HasPicture(sw)
  /\ Len(local) < ReplayCap
  /\ local' = Append(local, NextPicture(sw))
  /\ sw' = Yielded(sw)
  /\ UNCHANGED <<session, callVars, replayed, attempts, history>>

\* Mutant: an attempt is not counted.
AttemptsUncounted == attempts

AttemptsMade == attempts + 1

\* EAGAIN or EOF ends a drain.  While something is left to take it is offered
\* again, so often and no more.
DrainResumes ==
  /\ stage = "drain" /\ ~AllTaken
  /\ \E e \in ReceiveErrors(sw) : e.errno \in {"again", "eof"}
  /\ AttemptsMade <= MaxAttempts
  /\ attempts' = AttemptsMade
  /\ stage' = "replay"
  /\ UNCHANGED <<session, call, answer, sw, replayed, local, history>>

\* No frame to drain into.
DrainUnallocated == stage = "drain" /\ FallbackFails

\* The frame over the cap, the attempt too many, a decode error.
DrainErrors ==
  /\ stage = "drain"
  /\ \/ HasPicture(sw) /\ Len(local) >= ReplayCap
     \/ ~AllTaken /\ AttemptsMade > MaxAttempts
          /\ \E e \in ReceiveErrors(sw) : e.errno \in {"again", "eof"}
     \/ \E e \in ReceiveErrors(sw) : e.errno = "fail"
  /\ FallbackFails

\* Everything taken and drained: the software decoder is installed.  The packet
\* in hand is sent to it next, a receive begins again with the frames replayed.
Commit ==
  /\ stage = "drain" /\ AllTaken
  /\ \E e \in ReceiveErrors(sw) : e.errno \in {"again", "eof"}
  /\ dec' = sw
  /\ replay' = replay \o local
  /\ NoFallback
  /\ stage' = CASE call = "packet" -> "codec" [] call = "receive" -> "front"
                [] call = "end" -> "committed"
  /\ UNCHANGED <<path, trial, spare, parked, eofSent, call, answer, history>>

\* send_eof after its fallback: the end went over with the packets.
EndForwarded ==
  /\ stage = "committed"
  /\ eofSent' = TakesTheEnd("accepted")
  /\ Return("accepted")
  /\ UNCHANGED <<path, dec, trial, spare, replay, parked, fallback, history>>

-----------------------------------------------------------------------------
DecoderStep ==
  PacketUnbuilt \/ PacketAccepted \/ EndAccepted \/ CodecAnswers \/ HwAdvances
    \/ HwExhausted \/ Produced
FrontStep == DeliverReplayed \/ DeliverParked \/ AskDecoder
FallbackStep ==
  SoftwareUnopened \/ SoftwareOpened \/ ReplayTakes \/ ReplayPauses \/ ReplayErrors
    \/ DrainTakes \/ DrainResumes \/ DrainErrors
    \/ DrainUnallocated \/ Commit \/ EndForwarded
CallStep == DecoderStep \/ FrontStep \/ FallbackStep
CallerStep == SendPacket \/ SendEof \/ ReceiveFrame \/ Flush

Next == CallStep \/ CallerStep

Spec == Init /\ [][Next]_vars

\* A call runs until it returns; nothing obliges the caller to make one.
FairSpec == Spec /\ WF_vars(CallStep)

-----------------------------------------------------------------------------
(* What the session promises.                                               *)

\* No picture is lost between the decoders, the replay queue and the scratch:
\* that of every packet accepted since the last flush has been delivered, is
\* queued, is parked, is still inside, or was given up by the decoder in use or
\* by the conversion.  Also during a fallback, and after one that failed.
NothingLost ==
  Range(accepted) =
    Range(delivered) \cup discarded \cup Range(parked) \cup Range(replay)
      \cup Range(dec.inside) \cup dec.dropped

\* Pictures leave in the order of their packets, each once, across the change
\* of decoder: those delivered, then the parked one, then the replayed ones,
\* then those inside.
InOrderOnce ==
  LET pictures == delivered \o parked \o replay \o dec.inside
  IN  \A i, j \in DOMAIN pictures : i < j => pictures[i] < pictures[j]

\* send_eof: "keeping the fallback all-or-nothing".  Between calls the end is
\* recorded exactly when the decoder in use has been told it.
EndAllOrNothing == stage = "idle" => eofSent = dec.ended

\* An error that gives packets back gives all of them back, none of them having
\* come out as a picture, and nothing of the software decoder was committed.
RescueWhole ==
  answer \in RescueAnswers =>
    /\ handedBack = accepted /\ delivered = <<>>
    /\ OnHardware /\ replay = <<>> /\ parked = <<>>

\* A fallback is all or nothing: the end of stream and every packet are on one
\* side of it, wherever it failed.
FallbackAllOrNothing == EndAllOrNothing /\ RescueWhole

\* No flow answer of a decoder hides a refusal of the allocator's; only the seat,
\* which does not ask the decoder, may leave one for later.
RefusalFirst ==
  stage = "idle" /\ answer \in FlowAnswers /\ parked = <<>> => dec.latch = {}

\* Every call returns, however the software decoder answers the replay.
CallsReturn == stage # "idle" ~> stage = "idle"

\* Of an accepted packet the caller can expect a picture while a decoder has it
\* to decode: on trial and in a fallback that is the whole history.
InFlight ==
  IF trial \/ stage \in Fallback
    THEN Range(accepted)
    ELSE Range(parked) \cup Range(replay) \cup Range(dec.inside)

Rhythm == INSTANCE PushRhythm WITH
  Packets <- 1 .. MaxPackets,
  fed <- InFlight,
  over <- eofSent,
  fault <- FALSE,
  answer <- IF answer \in RescueAnswers THEN "failed" ELSE answer

\* The session keeps the same push rhythm as the WebCodecs decoder: a picture
\* only of a packet accepted since the last flush and once, NeedsInput never past
\* the end, Ended only when nothing is left.
ImplementsRhythm == Rhythm!RhythmSpec

\* failed_eof_fallback_restores_eof_sent_and_stays_on_hw: "second send_eof must
\* again drive the fallback".  After a fallback that failed, an end that fails
\* too is not answered with the bare error of the hardware.
RetryFallsBack ==
  [][answer = "fallbackFailed" /\ call = "end" => answer' # "failed"]_vars

=============================================================================
