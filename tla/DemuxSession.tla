---------------------------- MODULE DemuxSession ----------------------------
(***************************************************************************)
(* An opened FFmpeg demuxer (mediadecode-ffmpeg, demuxer.rs): next_packet, *)
(* seek and the measurement of where each track ends that rides on the     *)
(* walk (mediaio-ffmpeg, measured.rs).                                     *)
(*                                                                         *)
(* The file is what libavformat will hand out, an immutable sequence read  *)
(* at pos.  An item is a packet, data libavformat refuses and resyncs past *)
(* ("damaged"), or an error it repeats for ever ("fatal").  The four timed *)
(* kinds of track share one arm of the code and are one kind here.         *)
(*                                                                         *)
(* next_packet passes packets by in a loop: a call enters ("walking"),     *)
(* takes one packet per step and leaves with a result.  The methods take   *)
(* &mut self, so only one call runs; the reader behind libavformat may     *)
(* panic inside any read or seek, which latches for the whole session.     *)
(***************************************************************************)
EXTENDS Integers, Sequences, FiniteSets

CONSTANTS
  Track,        \* rows of the track table: 0 .. n - 1
  Kind,         \* kind of each row
  Attachments,  \* rows of attachment tracks, in table order
  Files,        \* the files a session may be opened on
  MaxTick,      \* i64::MAX
  MaxSeeks,     \* bound: seeks of one session
  MaxAllocs     \* bound: refused allocations of one session

NoPts == -1            \* AV_NOPTS_VALUE
Unseen == -2           \* Figure::Unseen
Unrepresentable == -3  \* Figure::Unrepresentable

Packets ==
  [what : {"packet"}, stream : Int, pts : Int, dur : Int,
   body : {"payload", "empty", "bad"}]
Items == Packets \cup [what : {"damaged", "fatal"}]

ASSUME SessionAssumption ==
  /\ Track \subseteq Nat
  /\ Kind \in [Track -> {"timed", "attachment", "unknown"}]
  /\ Attachments \in Seq(Track)
  /\ \A t \in Track : Kind[t] = "attachment" <=> \E i \in DOMAIN Attachments : Attachments[i] = t
  /\ \A i, j \in DOMAIN Attachments : i < j => Attachments[i] < Attachments[j]
  /\ Files \subseteq Seq(Items)
  /\ \A f \in Files : \A i \in DOMAIN f : f[i].what = "packet" =>
       /\ f[i].pts = NoPts \/ f[i].pts \in 0 .. MaxTick
       /\ f[i].dur \in 0 .. MaxTick
  /\ MaxTick \in Nat /\ MaxSeeks \in Nat /\ MaxAllocs \in Nat

VARIABLES
  file,         \* the file: chosen once, never changed
  pos,          \* where libavformat stands in it
  latch,        \* AVIOContext: "eof" or "error" once it answers nothing else
  panicked,     \* reader_panic: the latch of the guarded reader
  pending,      \* pending: attachments not handed out yet
  unconverted,  \* unconverted: the packet parked in the session, 0 for None
  eof,          \* eof: the session has answered end of file
  figure,       \* Measured.ends: the figure of each track
  exact,        \* Measured.ends: its exact mark
  unbroken,     \* Measured.unbroken
  complete,     \* Measured.walk_complete
  call,         \* "idle", or "walking" inside next_packet's loop
  result,       \* what the last call answered
  handed,       \* history: attachments handed out
  start,        \* history: where the last seek (or the open) left the reader
  carried,      \* history: the packet parked across a failed seek, 0 if none
  delivered,    \* history: packets delivered since then
  seeks, allocs \* bounded counters

measured == <<figure, exact, unbroken, complete>>
history == <<handed, start, carried, delivered>>
bounds == <<seeks, allocs>>
vars == <<file, pos, latch, panicked, pending, unconverted, eof, measured, call, result, history, bounds>>

\* Everything that belongs to libavformat and the reader behind it.
input == <<file, pos, latch, panicked>>

Results == {"open", "panic", "attachment", "none", "fatal", "packet", "alloc",
            "refused", "sought", "seekfailed"}

TypeOK ==
  /\ file \in Files /\ pos \in 1 .. Len(file) + 1
  /\ latch \in {"none", "eof", "error"}
  /\ panicked \in BOOLEAN /\ eof \in BOOLEAN
  /\ unbroken \in BOOLEAN /\ complete \in BOOLEAN
  /\ pending \in Seq(Track) /\ handed \in Seq(Track)
  /\ unconverted \in 0 .. Len(file)
  /\ figure \in [Track -> Int] /\ exact \in [Track -> BOOLEAN]
  /\ call \in {"idle", "walking"} /\ result \in Results
  /\ start \in 1 .. Len(file) + 1 /\ carried \in 0 .. Len(file)
  /\ delivered \in Seq(1 .. Len(file))
  /\ seeks \in 0 .. MaxSeeks /\ allocs \in 0 .. MaxAllocs

\* from_input: the attachments build_tracks captured are queued; nothing is read yet.
Init ==
  /\ file \in Files /\ pos = 1 /\ latch = "none"
  /\ panicked = FALSE /\ pending = Attachments /\ unconverted = 0 /\ eof = FALSE
  /\ figure = [t \in Track |-> Unseen] /\ exact = [t \in Track |-> TRUE]
  /\ unbroken = TRUE /\ complete = FALSE
  /\ call = "idle" /\ result = "open"
  /\ handed = <<>> /\ start = 1 /\ carried = 0 /\ delivered = <<>>
  /\ seeks = 0 /\ allocs = 0

-----------------------------------------------------------------------------
(* Measured *)

\* Mutant: a walk that was complete is broken too.
BreakFrozenWalk == unbroken' = FALSE /\ UNCHANGED <<figure, exact, complete>>

\* break_walk: something was read and not observed; a complete walk stays frozen.
BreakWalk ==
  /\ unbroken' = (unbroken /\ complete)
  /\ UNCHANGED <<figure, exact, complete>>

\* end_of_file: the walk is complete when it skipped nothing.
EndOfFile ==
  /\ complete' = (complete \/ unbroken)
  /\ UNCHANGED <<figure, exact, unbroken>>

PacketEnd(p) == IF p.dur > 0 THEN p.pts + p.dur ELSE p.pts
Overflows(p) == p.dur > 0 /\ p.pts + p.dur > MaxTick

\* Mutant: an end that does not fit saturates.
SaturatedFigure(t, p) ==
  IF p.pts = NoPts THEN figure[t]
  ELSE IF Overflows(p) THEN MaxTick
  ELSE IF figure[t] > PacketEnd(p) THEN figure[t] ELSE PacketEnd(p)

NewFigure(t, p) ==
  IF p.pts = NoPts THEN figure[t]
  ELSE IF Overflows(p) \/ figure[t] = Unrepresentable THEN Unrepresentable
  ELSE IF figure[t] > PacketEnd(p) THEN figure[t] ELSE PacketEnd(p)

\* observe: an end beyond MaxTick is no end, and leaves the walk incomplete.
\* breaks: the arm that follows also calls break_walk.
Observe(t, p, breaks) ==
  IF complete
  THEN UNCHANGED measured
  ELSE /\ figure' = [figure EXCEPT ![t] = NewFigure(t, p)]
       /\ exact' = [exact EXCEPT ![t] = @ /\ p.pts # NoPts /\ p.dur > 0]
       /\ unbroken' = (unbroken /\ ~breaks /\ ~(p.pts # NoPts /\ Overflows(p)))
       /\ UNCHANGED complete

-----------------------------------------------------------------------------
(* next_packet: entering the call *)

Answer(r) == call' = "idle" /\ result' = r

\* A latched panic is terminal, for the attachment queue too.
PullPanicked ==
  /\ call = "idle" /\ panicked /\ Answer("panic")
  /\ UNCHANGED <<input, pending, unconverted, eof, measured, history, bounds>>

\* Mutant: the queue owes nothing to the reader, so it is drained over a panic.
PullAttachmentAnyway ==
  /\ call = "idle" /\ pending # <<>>
  /\ handed' = Append(handed, Head(pending)) /\ pending' = Tail(pending)
  /\ Answer("attachment")
  /\ UNCHANGED <<input, unconverted, eof, measured, start, carried, delivered, bounds>>

\* The attachment queue drains before anything is read.
PullAttachment ==
  /\ call = "idle" /\ ~panicked /\ pending # <<>>
  /\ handed' = Append(handed, Head(pending)) /\ pending' = Tail(pending)
  /\ Answer("attachment")
  /\ UNCHANGED <<input, unconverted, eof, measured, start, carried, delivered, bounds>>

\* Mutant: reading does not wait for the queue.
PullEnterEarly ==
  /\ call = "idle" /\ ~panicked
  /\ call' = "walking"
  /\ UNCHANGED <<input, pending, unconverted, eof, measured, result, history, bounds>>

PullEnter ==
  /\ call = "idle" /\ ~panicked /\ pending = <<>>
  /\ call' = "walking"
  /\ UNCHANGED <<input, pending, unconverted, eof, measured, result, history, bounds>>

-----------------------------------------------------------------------------
(* next_packet: one turn of the loop *)

Walking == call = "walking"
Reads == Walking /\ unconverted = 0
AtItem(what) == latch = "none" /\ pos <= Len(file) /\ file[pos].what = what

\* The reader panics inside av_read_frame: whatever libavformat answered is not used.
ReadPanics ==
  /\ Reads /\ panicked' = TRUE /\ Answer("panic")
  /\ UNCHANGED <<file, pos, latch, pending, unconverted, eof, measured, history, bounds>>

\* Once the AVIOContext has seen the end it answers nothing else until the latch is cleared.
ReadEof ==
  /\ Reads
  /\ latch = "eof" \/ (latch = "none" /\ pos = Len(file) + 1)
  /\ latch' = "eof" /\ eof' = TRUE /\ EndOfFile /\ Answer("none")
  /\ UNCHANGED <<file, pos, panicked, pending, unconverted, history, bounds>>

\* Mutant: the damage is read again.
ReadDamagedStays ==
  /\ Reads /\ AtItem("damaged") /\ pos' = pos /\ BreakWalk
  /\ UNCHANGED <<file, latch, panicked, pending, unconverted, eof, call, result, history, bounds>>

\* AVERROR_INVALIDDATA: libavformat resyncs past it, so the loop reads again.
ReadDamaged ==
  /\ Reads /\ AtItem("damaged")
  /\ pos' = pos + 1 /\ BreakWalk
  /\ UNCHANGED <<file, latch, panicked, pending, unconverted, eof, call, result, history, bounds>>

\* Every other error repeats.
ReadFatal ==
  /\ Reads
  /\ latch = "error" \/ AtItem("fatal")
  /\ latch' = "error" /\ Answer("fatal")
  /\ UNCHANGED <<file, pos, panicked, pending, unconverted, eof, measured, history, bounds>>

\* The packet of this turn: the parked one when there is one, else the next one.
Takes(i) ==
  /\ Walking
  /\ IF unconverted # 0 THEN i = unconverted /\ pos' = pos
     ELSE AtItem("packet") /\ i = pos /\ pos' = pos + 1

\* No row describes its stream, or the row is of an unknown kind: passed by.
PassUnplaceable(i) ==
  /\ Takes(i)
  /\ file[i].stream \notin {t \in Track : Kind[t] # "unknown"}
  /\ unconverted' = 0 /\ BreakWalk
  /\ UNCHANGED <<file, latch, panicked, pending, eof, call, result, history, bounds>>

\* The container's own copy of an attachment: its packet left from the queue.
PassAttachment(i) ==
  /\ Takes(i) /\ file[i].stream \in Track /\ Kind[file[i].stream] = "attachment"
  /\ unconverted' = 0
  /\ UNCHANGED <<file, latch, panicked, pending, eof, measured, call, result, history, bounds>>

TakesTimed(i) == Takes(i) /\ file[i].stream \in Track /\ Kind[file[i].stream] = "timed"

\* Mutant: only what is delivered is observed.
PassEmptyUnobserved(i) ==
  /\ TakesTimed(i) /\ file[i].body = "empty" /\ unconverted' = 0
  /\ UNCHANGED <<file, latch, panicked, pending, eof, measured, call, result, history, bounds>>

\* No payload and no side data: observed, and the loop goes on.
PassEmpty(i) ==
  /\ TakesTimed(i) /\ file[i].body = "empty"
  /\ unconverted' = 0 /\ Observe(file[i].stream, file[i], FALSE)
  /\ UNCHANGED <<file, latch, panicked, pending, eof, call, result, history, bounds>>

Deliver(i) ==
  /\ TakesTimed(i) /\ file[i].body = "payload"
  /\ unconverted' = 0 /\ Observe(file[i].stream, file[i], FALSE)
  /\ delivered' = Append(delivered, i) /\ Answer("packet")
  /\ UNCHANGED <<file, latch, panicked, pending, eof, handed, start, carried, bounds>>

\* Mutant: a refused allocation drops the packet.
ParkDrops(i) ==
  /\ TakesTimed(i) /\ file[i].body # "empty" /\ allocs < MaxAllocs
  /\ unconverted' = 0 /\ Observe(file[i].stream, file[i], FALSE)
  /\ allocs' = allocs + 1 /\ Answer("alloc")
  /\ UNCHANGED <<file, latch, panicked, pending, eof, history, seeks>>

\* parks_in_demux: an allocation was refused, so the packet keeps its seat.
Park(i) ==
  /\ TakesTimed(i) /\ file[i].body # "empty" /\ allocs < MaxAllocs
  /\ unconverted' = i /\ Observe(file[i].stream, file[i], FALSE)
  /\ allocs' = allocs + 1 /\ Answer("alloc")
  /\ UNCHANGED <<file, latch, panicked, pending, eof, history, seeks>>

\* Mutant: every refusal parks.
RefuseParks(i) ==
  /\ TakesTimed(i) /\ file[i].body = "bad"
  /\ unconverted' = i /\ Observe(file[i].stream, file[i], TRUE)
  /\ Answer("refused")
  /\ UNCHANGED <<file, latch, panicked, pending, eof, history, bounds>>

\* The packet's own fault: it is refused for good, and breaks the walk.
Refuse(i) ==
  /\ TakesTimed(i) /\ file[i].body = "bad"
  /\ unconverted' = 0 /\ Observe(file[i].stream, file[i], TRUE)
  /\ Answer("refused")
  /\ UNCHANGED <<file, latch, panicked, pending, eof, history, bounds>>

-----------------------------------------------------------------------------
(* seek *)

\* Mutant: the end-of-file latch survives the seek.
SeekBeginsLatched ==
  /\ call = "idle" /\ seeks < MaxSeeks /\ seeks' = seeks + 1
  /\ BreakWalk /\ eof' = FALSE
  /\ UNCHANGED <<file, latch, pending, handed, allocs>>

\* Mutant: whatever is latched is cleared.
SeekBeginsClears ==
  /\ call = "idle" /\ seeks < MaxSeeks /\ seeks' = seeks + 1
  /\ BreakWalk /\ latch' = "none" /\ eof' = FALSE
  /\ UNCHANGED <<file, pending, handed, allocs>>

\* Before libavformat is asked: the walk is broken, and the latch cleared when it is
\* the end of file this session answered; a sticky error is left in place.
SeekBegins ==
  /\ call = "idle" /\ seeks < MaxSeeks /\ seeks' = seeks + 1
  /\ BreakWalk
  /\ latch' = IF eof THEN "none" ELSE latch
  /\ eof' = FALSE
  /\ UNCHANGED <<file, pending, handed, allocs>>

\* Mutant: the parked packet follows the session to its new place.
SeekOkKeepsParked(landing) ==
  /\ SeekBegins /\ ~panicked
  /\ pos' = landing /\ Answer("sought")
  /\ start' = landing /\ carried' = 0 /\ delivered' = <<>>
  /\ UNCHANGED <<panicked, unconverted>>

\* Where it lands is libavformat's: the parked packet belongs to the place it left.
SeekOk(landing) ==
  /\ SeekBegins /\ ~panicked
  /\ pos' = landing /\ unconverted' = 0 /\ Answer("sought")
  /\ start' = landing /\ carried' = 0 /\ delivered' = <<>>
  /\ UNCHANGED panicked

\* FFmpeg does not say where a failed seek leaves the file; the parked packet stays.
SeekFails(landing) ==
  /\ SeekBegins /\ ~panicked
  /\ pos' = landing /\ Answer("seekfailed")
  /\ start' = landing /\ carried' = unconverted /\ delivered' = <<>>
  /\ UNCHANGED <<panicked, unconverted>>

\* The reader panics during the seek, or had already.
SeekPanics ==
  /\ SeekBegins /\ panicked' = TRUE /\ Answer("panic")
  /\ UNCHANGED <<pos, unconverted, start, carried, delivered>>

-----------------------------------------------------------------------------
Pull == PullPanicked \/ PullAttachment \/ PullEnter

Turn ==
  \/ ReadEof \/ ReadDamaged \/ ReadFatal
  \/ \E i \in 1 .. Len(file) :
       \/ PassUnplaceable(i) \/ PassAttachment(i) \/ PassEmpty(i)
       \/ Deliver(i) \/ Park(i) \/ Refuse(i)

Seek ==
  \/ \E landing \in 1 .. Len(file) + 1 : SeekOk(landing) \/ SeekFails(landing)
  \/ SeekPanics

Next == Pull \/ Turn \/ ReadPanics \/ Seek

Spec == Init /\ [][Next]_vars

\* A call once made runs on, and the caller keeps pulling.  No seek is owed, and no panic.
FairSpec == Spec /\ WF_vars(Turn) /\ WF_vars(Pull)
-----------------------------------------------------------------------------
(* What the session promises *)

Timed(t) == {i \in DOMAIN file : file[i].what = "packet" /\ file[i].stream = t}
Deliverable(i) ==
  /\ file[i].what = "packet" /\ file[i].body = "payload"
  /\ file[i].stream \in Track /\ Kind[file[i].stream] = "timed"

(* No packet is lost: since the last seek (or the open) every packet of a  *)
(* timed track that libavformat has given up has been delivered, or is     *)
(* parked in the session, or the reader has panicked; and one parked over  *)
(* a failed seek is still parked or was delivered (unconverted).           *)
NothingLost ==
  ~panicked =>
    /\ \A i \in start .. pos - 1 : Deliverable(i) =>
         i = unconverted \/ \E k \in DOMAIN delivered : delivered[k] = i
    /\ (carried # 0 /\ Deliverable(carried)) =>
         carried = unconverted \/ \E k \in DOMAIN delivered : delivered[k] = carried

(* File order, each packet once: a packet delivered since the last seek    *)
(* comes after every one delivered before it, except the one parked over   *)
(* a failed seek, which is delivered first (next_packet re-attempts the    *)
(* parked packet before it reads another).                                 *)
FileOrder ==
  \A j, k \in DOMAIN delivered : j < k =>
    delivered[j] < delivered[k] \/ (j = 1 /\ delivered[j] = carried)

(* The attachment contract: attachments come out in table order, each one  *)
(* once in the life of the session, and all of them before anything is     *)
(* read from the file, whatever seeks come between (pending).              *)
AttachmentsFirst ==
  /\ handed \o pending = Attachments
  /\ (result \in {"packet", "refused", "alloc", "none", "fatal"} \/ delivered # <<>>) => pending = <<>>

(* End of file means the end: None is answered only with the whole file    *)
(* read and nothing parked or queued, also after a seek away from an       *)
(* earlier end, whose latch must not answer for the new position.          *)
EndIsTheEnd ==
  result = "none" => pos = Len(file) + 1 /\ unconverted = 0 /\ pending = <<>>

(* What the caller is given is the file: nothing lost, nothing twice or    *)
(* out of order, the attachments before everything, and no end before the  *)
(* end, whatever is refused, parked, sought or panicked in on the way.     *)
Delivery == NothingLost /\ FileOrder /\ AttachmentsFirst /\ EndIsTheEnd

(* A figure is never a number the file does not hold: it is the end of one *)
(* of the track's packets, before and after any seek (Measured::observe).  *)
FigureIsAnEnd ==
  \A t \in Track : figure[t] \notin {Unseen, Unrepresentable} =>
    /\ figure[t] <= MaxTick
    /\ \E i \in Timed(t) : file[i].pts # NoPts /\ figure[t] = PacketEnd(file[i])

(* A complete walk is honest: when measured_end says the walk covered the  *)
(* file, every item of the file was a packet of a described track that     *)
(* could be carried, each figure is the greatest end of its track's        *)
(* packets, and it is marked exact just when every end was known.          *)
WalkHonest ==
  /\ FigureIsAnEnd
  /\ complete =>
       /\ \A i \in DOMAIN file :
            /\ file[i].what = "packet" /\ file[i].stream \in Track
            /\ Kind[file[i].stream] # "unknown"
            /\ Kind[file[i].stream] = "timed" => file[i].body # "bad"
       /\ \A t \in Track : Kind[t] = "timed" =>
            LET placed == {i \in Timed(t) : file[i].pts # NoPts}
            IN /\ \A i \in placed : PacketEnd(file[i]) <= figure[t] /\ ~Overflows(file[i])
               /\ placed = {} => figure[t] = Unseen
               /\ placed # {} => \E i \in placed : figure[t] = PacketEnd(file[i])
               /\ exact[t] <=> \A i \in Timed(t) : file[i].pts # NoPts /\ file[i].dur > 0

(* The three latches, each of them for good: the figures of a complete     *)
(* walk change under no later seek or read; after a reader panic nothing   *)
(* more is handed out, not even what was queued or parked, and every call  *)
(* answers with it; and no seek erases a sticky I/O error, after which the *)
(* session delivers nothing more.                                          *)
FrozenOnceComplete == complete => UNCHANGED measured
NothingAfterPanic ==
  panicked => panicked' /\ UNCHANGED <<handed, delivered>>
              /\ (call' = "idle" => result' \in {result, "panic"})
ErrorIsSticky == latch = "error" => latch' = "error" /\ delivered' \in {delivered, <<>>}
LatchesHold == [][FrozenOnceComplete /\ NothingAfterPanic /\ ErrorIsSticky]_vars

(* Every next_packet call returns, and a caller that keeps pulling reaches *)
(* an end: the loop over packets it passes by ends, and no packet is       *)
(* attempted for ever once allocations succeed and the caller seeks no     *)
(* more.                                                                   *)
WalkEnds ==
  /\ call = "walking" ~> call = "idle"
  /\ <>[](result \in {"none", "fatal", "panic"})
=============================================================================
