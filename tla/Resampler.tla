----------------------------- MODULE Resampler -----------------------------
(***************************************************************************)
(* CarrierResampler (mediaio-ffmpeg, resampler.rs) between two rates:      *)
(* send_frame, receive_frame, send_eof and flush over libswresample, a     *)
(* delay line that yields samples when it likes and may keep a residue.    *)
(* Output timestamps are counted, not computed: anchored once, then        *)
(* advanced by what was produced, through the tail drained after the end.  *)
(*                                                                         *)
(* swr itself is external: it has taken `taken` samples and given `given`, *)
(* and gives any number between none and what the ratio of the rates       *)
(* allows, as long as the frame offered has room.                          *)
(***************************************************************************)
EXTENDS Integers, Sequences

CONSTANTS
  SourceRate, TargetRate,
  Counts,       \* samples of the frames offered
  Stamps,       \* their timestamps, on the output's timeline
  MaxTick,      \* i64::MAX
  MaxCount,     \* i32::MAX, what av_frame_get_buffer takes
  MaxSamples,   \* FrameLimits::max_frame_bytes, in samples of the target
  MaxTaken,     \* bound: samples taken since a flush
  MaxFaults     \* bound: refused allocations and failed conversions

NoStamp == -1        \* a frame without a timestamp
OutOfRange == -2     \* a timestamp that does not fit the output's timeline

ASSUME ResamplerAssumption ==
  /\ SourceRate \in Nat \ {0} /\ TargetRate \in Nat \ {0}
  /\ Counts \subseteq Nat
  /\ Stamps \subseteq 0 .. MaxTick \cup {NoStamp, OutOfRange}
  /\ MaxTick \in Nat /\ MaxCount \in Nat /\ MaxSamples \in Nat
  /\ MaxTaken \in Nat /\ MaxFaults \in Nat

VARIABLES
  taken, given,  \* SwrContext: samples in, samples out
  nextPts,       \* next_pts, NoStamp for None
  ready,         \* converted frames
  eof, drained,
  answer,        \* what the last call answered
  faults,
  accepted,      \* history: [stamp, given] of each frame converted since a flush
  delivered      \* history: the frames received since a flush

swrVars == <<taken, given>>
session == <<swrVars, nextPts, ready, eof, drained>>
history == <<accepted, delivered>>
vars == <<session, answer, faults, history>>

Frame == [pts : 0 .. MaxTick, samples : Nat \ {0}]

TypeOK ==
  /\ taken \in Nat /\ given \in Nat
  /\ nextPts \in 0 .. MaxTick \cup {NoStamp}
  /\ ready \in Seq(Frame) /\ delivered \in Seq(Frame)
  /\ eof \in BOOLEAN /\ drained \in BOOLEAN
  /\ answer \in {"none", "accepted", "afterEof", "failed", "produced", "needsInput", "ended"}
  /\ faults \in 0 .. MaxFaults
  /\ accepted \in Seq([stamp : Stamps, given : Nat])

Init ==
  /\ taken = 0 /\ given = 0
  /\ nextPts = NoStamp /\ ready = <<>> /\ eof = FALSE /\ drained = FALSE
  /\ answer = "none" /\ faults = 0
  /\ accepted = <<>> /\ delivered = <<>>

-----------------------------------------------------------------------------
(* swr *)

DivUp(a, b) == (a + b - 1) \div b

\* What the ratio of the rates lets out when `more` samples have gone in.
Available(more) == DivUp((taken + more) * TargetRate - given * SourceRate, SourceRate)

\* swr_get_delay, at the input's and at the output's rate.
DelayIn == DivUp(taken * TargetRate - given * SourceRate, TargetRate)
DelayOut == Available(0)

-----------------------------------------------------------------------------
(* What a conversion is judged by *)

\* Mutant: the delay line is not counted.
CapacityOfInput(samples) == DivUp(samples * TargetRate, SourceRate) + 1

\* output_capacity
Capacity(samples) == DivUp((DelayIn + samples) * TargetRate, SourceRate) + 1

Least(a, b) == IF a < b THEN a ELSE b

\* next_pts.or(anchor).unwrap_or(0)
StartOf(anchor) ==
  IF nextPts # NoStamp THEN nextPts ELSE IF anchor # NoStamp THEN anchor ELSE 0

\* check_timeline
FitsTimeline(anchor, capacity) == StartOf(anchor) + capacity <= MaxTick

\* prepare_output's own check; the allocations it makes may fail besides.
FitsFrame(capacity) == capacity <= MaxSamples

\* Mutant: a second conversion before a drain replaces the first.
ProduceOne(pts, n, queue) ==
  IF n = 0 THEN queue ELSE <<[pts |-> pts, samples |-> n]>>

\* finish_output
Produce(pts, n, queue) ==
  IF n = 0 THEN queue ELSE Append(queue, [pts |-> pts, samples |-> n])

-----------------------------------------------------------------------------
(* send_frame *)

\* An error leaves the session as it was.
Refuses(stamp) == answer' = "failed" /\ UNCHANGED <<session, history>>

SendAfterEof ==
  /\ eof
  /\ answer' = "afterEof"
  /\ UNCHANGED <<session, faults, history>>

\* A frame of another rate, format or layout.
SendSourceChanged ==
  /\ ~eof
  /\ Refuses(NoStamp) /\ UNCHANGED faults

\* A frame whose planes are fewer, or shorter, than its samples need.
SendMalformed(samples) ==
  /\ ~eof /\ samples # 0
  /\ Refuses(NoStamp) /\ UNCHANGED faults

\* A frame without samples is a header and nothing else, whatever its stamp.
SendEmpty ==
  /\ ~eof /\ 0 \in Counts
  /\ answer' = "accepted"
  /\ UNCHANGED <<session, faults, history>>

Sendable(stamp, samples) ==
  /\ ~eof /\ samples # 0
  /\ stamp # OutOfRange
  /\ Capacity(samples) <= MaxCount
  /\ FitsTimeline(stamp, Capacity(samples))
  /\ FitsFrame(Capacity(samples))

SendRefused(stamp, samples) ==
  /\ ~eof /\ samples # 0 /\ ~Sendable(stamp, samples)
  /\ Refuses(stamp) /\ UNCHANGED faults

\* An allocation, or swr_convert_frame itself, fails.
SendFails(stamp, samples) ==
  /\ Sendable(stamp, samples) /\ faults < MaxFaults
  /\ faults' = faults + 1
  /\ Refuses(stamp)

SendConverts(stamp, samples) ==
  /\ Sendable(stamp, samples) /\ taken + samples <= MaxTaken
  /\ \E n \in 0 .. Least(Available(samples), Capacity(samples)) :
       LET start == StartOf(stamp) IN
         /\ given' = given + n
         /\ nextPts' = IF n = 0 /\ nextPts = NoStamp THEN stamp ELSE start + n
         /\ ready' = Produce(start, n, ready)
  /\ taken' = taken + samples
  /\ accepted' = Append(accepted, [stamp |-> stamp, given |-> given])
  /\ answer' = "accepted"
  /\ UNCHANGED <<eof, drained, faults, delivered>>

SendFrame ==
  \/ SendAfterEof \/ SendSourceChanged \/ SendEmpty
  \/ \E samples \in Counts : SendMalformed(samples)
  \/ \E stamp \in Stamps, samples \in Counts :
       SendRefused(stamp, samples) \/ SendFails(stamp, samples) \/ SendConverts(stamp, samples)

-----------------------------------------------------------------------------
(* receive_frame *)

ReceiveReady ==
  /\ ready # <<>>
  /\ ready' = Tail(ready) /\ delivered' = Append(delivered, Head(ready))
  /\ answer' = "produced"
  /\ UNCHANGED <<swrVars, nextPts, eof, drained, faults, accepted>>

ReceiveNothing ==
  /\ ready = <<>>
  /\ (~eof \/ drained)
  /\ answer' = IF eof THEN "ended" ELSE "needsInput"
  /\ UNCHANGED <<session, faults, history>>

Tails == ready = <<>> /\ eof /\ ~drained

\* Mutant: the end of the tail is a pause in it.
TailPauses == answer' = "needsInput" /\ UNCHANGED drained

\* Mutant: the end is answered and not remembered.
TailEndsOnce == answer' = "ended" /\ UNCHANGED drained

TailEnds == answer' = "ended" /\ drained' = TRUE

ReceiveDry ==
  /\ Tails /\ DelayOut <= 0
  /\ TailEnds
  /\ UNCHANGED <<swrVars, nextPts, ready, eof, faults, history>>

TailCapacity == Least(DelayOut, MaxCount)
TailFits == FitsTimeline(NoStamp, TailCapacity) /\ FitsFrame(TailCapacity)

TailFails ==
  /\ Tails /\ DelayOut > 0
  /\ \/ ~TailFits /\ UNCHANGED faults
     \/ TailFits /\ faults < MaxFaults /\ faults' = faults + 1
  /\ Refuses(NoStamp)

\* Mutant: the tail starts a timeline of its own.
TailStartsOver == 0

TailStart == StartOf(NoStamp)

TailConverts ==
  /\ Tails /\ DelayOut > 0 /\ TailFits
  /\ \E n \in 1 .. TailCapacity :
       /\ given' = given + n
       /\ nextPts' = TailStart + n
       /\ delivered' = Produce(TailStart, n, delivered)
  /\ answer' = "produced"
  /\ UNCHANGED <<taken, ready, eof, drained, faults, accepted>>

\* swr reports samples and gives none: it would report the same again.
TailResidue ==
  /\ Tails /\ DelayOut > 0 /\ TailFits
  /\ TailEnds
  /\ UNCHANGED <<swrVars, nextPts, ready, eof, faults, history>>

ReceiveFrame ==
  ReceiveReady \/ ReceiveNothing \/ ReceiveDry \/ TailFails \/ TailConverts \/ TailResidue

-----------------------------------------------------------------------------
(* send_eof and flush *)

SendEof ==
  /\ eof' = TRUE /\ answer' = "accepted"
  /\ UNCHANGED <<swrVars, nextPts, ready, drained, faults, history>>

\* A new context, and everything the session keeps is reset.
FlushResets ==
  /\ taken' = 0 /\ given' = 0
  /\ nextPts' = NoStamp /\ ready' = <<>> /\ eof' = FALSE /\ drained' = FALSE
  /\ accepted' = <<>> /\ delivered' = <<>>
  /\ answer' = "none"
  /\ UNCHANGED faults

\* The new context cannot be built.
FlushFails ==
  /\ faults < MaxFaults /\ faults' = faults + 1
  /\ Refuses(NoStamp)

Next == SendFrame \/ ReceiveFrame \/ SendEof \/ FlushResets \/ FlushFails

Spec == Init /\ [][Next]_vars

\* The caller drains until it is told to stop.
FairSpec == Spec /\ WF_vars(ReceiveFrame)

-----------------------------------------------------------------------------
(* Properties *)

Frames == delivered \o ready

\* The i-th frame taken fixed where the stream starts: it had a timestamp and
\* nothing had come out yet.
Anchors(i) == accepted[i].given = 0 /\ accepted[i].stamp # NoStamp

\* The start a stream should have: the first anchoring timestamp, or 0.
StartsAt(pts) ==
  \/ pts = 0 /\ \A i \in DOMAIN accepted : ~Anchors(i)
  \/ \E i \in DOMAIN accepted :
       Anchors(i) /\ pts = accepted[i].stamp /\ \A j \in 1 .. i - 1 : ~Anchors(j)

EndOf(f) == f.pts + f.samples

\* The timeline starts at the first input timestamp, each frame starts where the
\* one before it ends, and the last ends at the timestamp the next will have.
Unbroken ==
  Frames # <<>> =>
    /\ StartsAt(Frames[1].pts)
    /\ \A i \in 1 .. Len(Frames) - 1 : Frames[i + 1].pts = EndOf(Frames[i])
    /\ EndOf(Frames[Len(Frames)]) = nextPts

\* Every sample swr gave is in a frame delivered or ready: from the first of
\* them to the next timestamp there are as many.
NothingLost == given = IF Frames = <<>> THEN 0 ELSE nextPts - Frames[1].pts

\* Whatever was accepted can be drained: the tail is never refused, neither
\* because its end leaves i64 nor because it exceeds the ceiling on a frame.
TailIsPayable == DelayOut > 0 => TailFits

\* One unbroken timeline through refusals, errors and the tail after the end,
\* made of exactly the samples swr gave, and with room for those it still holds.
Timeline == Unbroken /\ NothingLost /\ TailIsPayable

\* An error leaves the session where the call found it.
RefusalLeavesNoTrace == [][answer' = "failed" => UNCHANGED session]_vars

\* Ended is the last word of a stream: once a drain has ended, no later drain
\* finds a frame, a pause or an error, whatever swr still reports.
EndIsTheEnd == [][answer = "ended" /\ ReceiveFrame => answer' = "ended"]_vars

\* A caller that keeps draining after send_eof is told that it may stop, and is
\* told so again whenever it asks.
DrainEnds == EndIsTheEnd /\ (eof ~> (answer = "ended" \/ ~eof))
=============================================================================
