----------------------------- MODULE DemuxOpen -----------------------------
(***************************************************************************)
(* Opening a demux session over a caller's reader (mediadecode-ffmpeg,     *)
(* demuxer.rs) through the guarded, metered reader of mediaio-ffmpeg       *)
(* (reader_guard.rs).                                                      *)
(*                                                                         *)
(* The open has three parts.  While libavformat probes, every read goes    *)
(* through the guard, which hands over at most Limit.probe bytes and turns *)
(* a panic of the caller's reader into an I/O error libavformat may        *)
(* swallow.  Then the container is admitted: the chapters, then the        *)
(* streams in order, are judged against the ceilings and nothing is        *)
(* allocated.  Then it is built, and the same checks run again over the    *)
(* same rows, interleaved with allocations any of which may be refused.    *)
(*                                                                         *)
(* Sizes are small numbers.  A stream is judged and built in five stages:  *)
(* its parameters, its three metadata values, its attachment payload.      *)
(***************************************************************************)
EXTENDS Integers, Sequences

CONSTANTS
  Containers,  \* those a reader may hold
  Padding,     \* AV_INPUT_BUFFER_PADDING_SIZE
  MaxAsk,      \* bound: the largest buffer libavformat asks to have filled
  Limit        \* DemuxLimits

NotTerminated == -1  \* a metadata value that runs past METADATA_VALUE_MAX_BYTES
Negative == -1       \* an extradata_size below zero

Chapters == [null : BOOLEAN, ruler : BOOLEAN, title : Int]
Streams ==
  [params : BOOLEAN, ruler : BOOLEAN, layout : {"sound", "opaque", "broken"},
   extradata : Int, side : Nat, map : Nat,
   role : {"media", "font", "cover"}, picture : Nat, sound : BOOLEAN,
   text : [1 .. 3 -> Int]]

ASSUME OpenAssumption ==
  /\ Containers \subseteq [chapters : Seq(Chapters), streams : Seq(Streams)]
  /\ \A f \in Containers :
       /\ \A i \in DOMAIN f.chapters : f.chapters[i].title >= NotTerminated
       /\ \A i \in DOMAIN f.streams :
            /\ f.streams[i].extradata >= Negative
            /\ \A k \in 1 .. 3 : f.streams[i].text[k] >= NotTerminated
  /\ Padding \in Nat /\ MaxAsk \in Nat
  /\ Limit \in [probe : Nat, chapters : Nat, title : Nat, text : Nat, parameters : Nat,
                allParameters : Nat, attachment : Nat, allAttachments : Nat]

VARIABLES
  container, \* the container behind the reader
  phase,     \* where open_reader_with_impl is
  row,       \* the chapter or stream being judged or built
  stage,     \* 0 its parameters, 1 .. 3 its metadata values, 4 its payload
  read,      \* ReadMeter.read
  tripped,   \* ReadMeter.tripped
  latched,   \* PanicLatch.latched
  charged,   \* the running totals of admit_chapters and admit_streams
  paid,      \* the bytes retained so far; text and title are also the totals the building charges
  reserved,  \* history: something sized by the container has been allocated
  queued,    \* rows of the attachments queued
  outcome,   \* the verdict of the open
  consumed   \* history: bytes the caller's reader has given up

guard == <<read, tripped, latched, consumed>>
ledger == <<charged, paid, reserved, queued>>
openVars == <<container, phase, row, stage, guard, ledger, outcome>>

Nothing == [title |-> 0, text |-> 0, parameters |-> 0, attachments |-> 0]

OpenInit ==
  /\ container \in Containers
  /\ phase = "probe" /\ row = 1 /\ stage = 0
  /\ read = 0 /\ tripped = FALSE /\ latched = FALSE /\ consumed = 0
  /\ charged = Nothing /\ paid = Nothing /\ reserved = FALSE /\ queued = <<>>
  /\ outcome = "none"

-----------------------------------------------------------------------------
(* Leaving the open *)

Concludes(verdict) == phase' = "done" /\ outcome' = verdict
Stays == UNCHANGED <<container, row, stage>>

\* The code asks a list of questions: each answers a verdict, or "none", and the
\* first verdict ends the open; no other state changes.
Fault(verdict, there) == IF there THEN verdict ELSE "none"

IsFirstFault(asked, i) == asked[i] # "none" /\ \A j \in 1 .. i - 1 : asked[j] = "none"

RefusesFirst(asked) ==
  /\ \E i \in DOMAIN asked : IsFirstFault(asked, i) /\ Concludes(asked[i])
  /\ Stays /\ UNCHANGED <<guard, ledger>>

Passes(asked) == \A i \in DOMAIN asked : asked[i] = "none"

\* An allocator that refuses is reported wherever it is asked; what was built is dropped.
AllocFails ==
  /\ Concludes("alloc") /\ Stays /\ UNCHANGED <<guard, ledger>>

-----------------------------------------------------------------------------
(* Probing: libavformat reads through the guard *)

Remaining == Limit.probe - read
Capped(want) == IF want < Remaining THEN want ELSE Remaining

\* Mutant: the whole buffer is read and the answer refused past the budget.
ReadsAnswerRefused(want) ==
  /\ want > 0
  /\ \E got \in 0 .. want :
       /\ consumed' = consumed + got
       /\ read' = IF got > Remaining THEN read ELSE read + got
       /\ tripped' = (tripped \/ got > Remaining)
  /\ UNCHANGED latched

\* Read: the request is capped and the reader may give fewer bytes, or fail.
ProbeReads(want) ==
  /\ want = 0 \/ Remaining > 0
  /\ \E got \in 0 .. Capped(want) : read' = read + got /\ consumed' = consumed + got
  /\ UNCHANGED <<tripped, latched>>

\* Read: nothing remains and something is asked for.
ReadRefused(want) ==
  /\ want > 0 /\ Remaining = 0
  /\ tripped' = TRUE
  /\ UNCHANGED <<read, latched, consumed>>

\* guard: the caller's reader panics in a read it is asked for, or in a seek.
ProbeReadPanics(want) ==
  /\ want = 0 \/ Remaining > 0
  /\ latched' = TRUE
  /\ UNCHANGED <<read, tripped, consumed>>

ProbeSeekPanics == latched' = TRUE /\ UNCHANGED <<read, tripped, consumed>>

\* libavformat calls the reader, and swallows what it answers or not.
Probing ==
  /\ phase = "probe"
  /\ \/ \E want \in 0 .. MaxAsk : ProbeReads(want) \/ ReadRefused(want) \/ ProbeReadPanics(want)
     \/ ProbeSeekPanics
  /\ Stays /\ UNCHANGED <<phase, ledger, outcome>>

\* avformat_open_input or avformat_find_stream_info fails.
ProbeFails ==
  /\ phase = "probe"
  /\ Concludes(IF latched THEN "panic" ELSE IF tripped THEN "probe" ELSE "ffmpeg")
  /\ Stays /\ UNCHANGED <<guard, ledger>>

\* PreProbeDurations::read is refused its reservation.
ProbeAllocFails == phase = "probe" /\ AllocFails

\* Mutant: a panic libavformat recovered from is forgotten.
ProbeEndsForgiving ==
  /\ phase = "probe"
  /\ \/ tripped /\ Concludes("probe")
     \/ ~tripped /\ phase' = "admit chapters" /\ UNCHANGED outcome
  /\ Stays /\ UNCHANGED <<guard, ledger>>

\* libavformat succeeds: a budget reached or a panic it recovered from still refuses.
ProbeEnds ==
  /\ phase = "probe"
  /\ \/ tripped /\ Concludes("probe")
     \/ ~tripped /\ latched /\ Concludes("panic")
     \/ ~tripped /\ ~latched /\ phase' = "admit chapters" /\ UNCHANGED outcome
  /\ Stays /\ UNCHANGED <<guard, ledger>>

-----------------------------------------------------------------------------
(* What is asked of the container *)

Stream == container.streams[row]
Chapter == container.chapters[row]

\* Mutant: a value that is not terminated is taken at its length.
TextFaultsUnbounded(value, spent, ceiling) == <<Fault("texts", spent + value > ceiling)>>

\* charge_metadata.
TextFaults(value, spent, ceiling) ==
  <<Fault("text", value = NotTerminated), Fault("texts", value > 0 /\ spent + value > ceiling)>>

ExtradataHeld(s) == IF s.extradata > 0 THEN s.extradata + Padding ELSE 0

\* ParameterFootprint: a font leaves its extradata to the carrier.
Retained(s) == s.side + s.map + (IF s.role = "font" THEN 0 ELSE ExtradataHeld(s))

\* CodecTicket::from_raw: asked by the admission and again by the ticket.
TicketFaults(s) ==
  <<Fault("layout", s.layout # "sound"),
    Fault("size", s.extradata = Negative \/ Retained(s) > Limit.parameters)>>

\* Mutant: the ceiling of one stream is asked after the ceiling of the container.
StreamFaultsTotalFirst(s) ==
  <<Fault("missing", ~s.params), Fault("ruler", ~s.ruler),
    Fault("total", charged.parameters + Retained(s) > Limit.allParameters)>>
  \o TicketFaults(s)

\* Mutant: the ruler of a stream is left to the building.
StreamFaultsNoRuler(s) ==
  <<Fault("missing", ~s.params)>> \o TicketFaults(s)
  \o <<Fault("total", charged.parameters + Retained(s) > Limit.allParameters)>>

\* admit_streams, up to the parameter budgets.
StreamFaults(s) ==
  <<Fault("missing", ~s.params), Fault("ruler", ~s.ruler)>> \o TicketFaults(s)
  \o <<Fault("total", charged.parameters + Retained(s) > Limit.allParameters)>>

\* The bytes the attachment of a row declares.
Payload(s) == IF s.role = "cover" THEN s.picture ELSE s.extradata

\* preflight_payload and md_flags_from_av_packet of the parked picture.
PictureFaults(s) == <<Fault("packet", s.role = "cover" /\ ~s.sound)>>

\* admit_streams and charge_attachment, for the rows that carry one.
PayloadFaults(s) ==
  PictureFaults(s)
  \o <<Fault("size", Payload(s) > Limit.attachment),
       Fault("total", charged.attachments + Payload(s) > Limit.allAttachments)>>

\* attached_pic_payload and extradata_payload ask about this one alone.
CarrierFaults(s) == PictureFaults(s) \o <<Fault("size", Payload(s) > Limit.attachment)>>

IsAttachment(s) == s.role # "media"

\* The stages of a row are over: a row that is no attachment has no last stage.
NextStage(last) ==
  IF stage = last
  THEN row' = row + 1 /\ stage' = 0
  ELSE row' = row /\ stage' = stage + 1

LastStage(s) == IF IsAttachment(s) THEN 4 ELSE 3

-----------------------------------------------------------------------------
(* Admission: nothing is allocated *)

ChaptersDone(next) ==
  /\ row > Len(container.chapters)
  /\ phase' = next /\ row' = 1
  /\ UNCHANGED <<container, stage, guard, ledger, outcome>>

ChapterCountFault == <<Fault("count", Len(container.chapters) > Limit.chapters)>>
ChapterFaults(spent) ==
  <<Fault("ruler", ~Chapter.ruler)>> \o TextFaults(Chapter.title, spent, Limit.title)

\* admit_chapters.
AdmitChapters ==
  /\ phase = "admit chapters"
  /\ \/ RefusesFirst(ChapterCountFault)
     \/ Passes(ChapterCountFault) /\ ChaptersDone("admit")
     \/ /\ Passes(ChapterCountFault) /\ row <= Len(container.chapters)
        /\ \/ ~Chapter.null /\ RefusesFirst(ChapterFaults(charged.title))
           \/ /\ Chapter.null \/ Passes(ChapterFaults(charged.title))
              /\ row' = row + 1
              /\ charged' = [charged EXCEPT !.title = IF Chapter.null THEN @ ELSE @ + Chapter.title]
              /\ UNCHANGED <<container, phase, stage, guard, paid, reserved, queued, outcome>>

Charge(budget, bytes) ==
  /\ charged' = [charged EXCEPT ![budget] = @ + bytes]
  /\ UNCHANGED <<container, phase, guard, paid, reserved, queued, outcome>>

Admitting(at) == phase = "admit" /\ row <= Len(container.streams) /\ stage \in at

\* Mutant: what is charged is the declared extradata, not what is retained.
AdmitParametersDeclared ==
  /\ Admitting({0})
  /\ \/ RefusesFirst(StreamFaults(Stream))
     \/ /\ Passes(StreamFaults(Stream))
        /\ Charge("parameters", Stream.side + Stream.map + Stream.extradata)
        /\ NextStage(LastStage(Stream))

AdmitParameters ==
  /\ Admitting({0})
  /\ \/ RefusesFirst(StreamFaults(Stream))
     \/ /\ Passes(StreamFaults(Stream))
        /\ Charge("parameters", Retained(Stream))
        /\ NextStage(LastStage(Stream))

AdmitText ==
  /\ Admitting(1 .. 3)
  /\ LET value == Stream.text[stage]
         faults == TextFaults(value, charged.text, Limit.text)
     IN \/ RefusesFirst(faults)
        \/ /\ Passes(faults)
           /\ Charge("text", value)
           /\ NextStage(LastStage(Stream))

AdmitPayload ==
  /\ Admitting({4})
  /\ \/ RefusesFirst(PayloadFaults(Stream))
     \/ /\ Passes(PayloadFaults(Stream))
        /\ Charge("attachments", Payload(Stream))
        /\ NextStage(LastStage(Stream))

Admitted ==
  /\ phase = "admit" /\ row > Len(container.streams)
  /\ phase' = "reserve" /\ row' = 1
  /\ UNCHANGED <<container, stage, guard, ledger, outcome>>

-----------------------------------------------------------------------------
(* Building: the checks again, and every allocation may be refused *)

\* A table of count rows is reserved fallibly; one of no rows allocates nothing.
Reserve(from, next, count) ==
  /\ phase = from
  /\ \/ count > 0 /\ AllocFails
     \/ /\ phase' = next /\ row' = 1 /\ reserved' = (reserved \/ count > 0)
        /\ UNCHANGED <<container, stage, guard, charged, paid, queued, outcome>>

\* The track table and the queue of attachments.
BuildBegins == Reserve("reserve", "build", Len(container.streams))

Building(at) == phase = "build" /\ row <= Len(container.streams) /\ stage \in at

Pay(budget, bytes) ==
  /\ paid' = [paid EXCEPT ![budget] = @ + bytes]
  /\ UNCHANGED <<container, phase, guard, charged, reserved, outcome>>

\* stream_timebase, then CodecTicket::mirror_with.
BuildTicket ==
  /\ Building({0})
  /\ LET faults == <<Fault("ruler", ~Stream.ruler), Fault("missing", ~Stream.params)>>
                   \o TicketFaults(Stream)
     IN \/ RefusesFirst(faults)
        \/ Passes(faults) /\ AllocFails
        \/ /\ Passes(faults)
           /\ Pay("parameters", Retained(Stream))
           /\ NextStage(LastStage(Stream))
           /\ UNCHANGED queued

\* retain_metadata: an absent value is not charged and allocates nothing.
BuildText ==
  /\ Building(1 .. 3)
  /\ LET value == Stream.text[stage]
         faults == TextFaults(value, paid.text, Limit.text)
     IN \/ RefusesFirst(faults)
        \/ Passes(faults) /\ value > 0 /\ AllocFails
        \/ /\ Passes(faults)
           /\ Pay("text", value)
           /\ NextStage(LastStage(Stream))
           /\ UNCHANGED queued

\* Mutant: a picture without bytes queues nothing.
BuildCarrierIfAny ==
  /\ Building({4})
  /\ \/ RefusesFirst(CarrierFaults(Stream))
     \/ Passes(CarrierFaults(Stream)) /\ AllocFails
     \/ /\ Passes(CarrierFaults(Stream))
        /\ Pay("attachments", Payload(Stream))
        /\ queued' = IF Payload(Stream) = 0 THEN queued ELSE Append(queued, row)
        /\ NextStage(LastStage(Stream))

\* The picture parked in the stream, or the extradata of a font.
BuildCarrier ==
  /\ Building({4})
  /\ \/ RefusesFirst(CarrierFaults(Stream))
     \/ Passes(CarrierFaults(Stream)) /\ AllocFails
     \/ /\ Passes(CarrierFaults(Stream))
        /\ Pay("attachments", Payload(Stream))
        /\ queued' = Append(queued, row)
        /\ NextStage(LastStage(Stream))

Built ==
  /\ phase = "build" /\ row > Len(container.streams)
  /\ phase' = "handles" /\ row' = 1
  /\ UNCHANGED <<container, stage, guard, ledger, outcome>>

\* One handle per row.
Handles == Reserve("handles", "build chapters", Len(container.streams))

BuildChapters ==
  /\ phase = "build chapters"
  /\ \/ RefusesFirst(ChapterCountFault)
     \/ Passes(ChapterCountFault) /\ Reserve("build chapters", "titles", Len(container.chapters))

BuildTitle ==
  /\ phase = "titles"
  /\ \/ ChaptersDone("measured")
     \/ /\ row <= Len(container.chapters)
        /\ \/ ~Chapter.null /\ RefusesFirst(ChapterFaults(paid.title))
           \/ ~Chapter.null /\ Passes(ChapterFaults(paid.title)) /\ Chapter.title > 0 /\ AllocFails
           \/ /\ Chapter.null \/ Passes(ChapterFaults(paid.title))
              /\ row' = row + 1
              /\ Pay("title", IF Chapter.null THEN 0 ELSE Chapter.title)
              /\ UNCHANGED <<stage, queued>>

\* Measured::new, and the session is open.
Opens ==
  /\ phase = "measured"
  /\ \/ Len(container.streams) > 0 /\ AllocFails
     \/ /\ Concludes("open") /\ Stays
        /\ UNCHANGED <<guard, ledger>>

Done == phase = "done" /\ UNCHANGED openVars

OpenNext ==
  \/ Probing \/ ProbeFails \/ ProbeAllocFails \/ ProbeEnds
  \/ AdmitChapters \/ AdmitParameters \/ AdmitText \/ AdmitPayload \/ Admitted
  \/ BuildBegins \/ BuildTicket \/ BuildText \/ BuildCarrier \/ Built
  \/ Handles \/ BuildChapters \/ BuildTitle \/ Opens
  \/ Done

OpenSpec == OpenInit /\ [][OpenNext]_openVars

-----------------------------------------------------------------------------
(* Properties *)

Refusals == {"missing", "ruler", "layout", "size", "total", "packet", "text", "texts", "count"}

\* While libavformat probes, the caller's reader gives up exactly the bytes
\* libavformat receives and never more than the budget; the meter trips only
\* when the budget is spent to the last byte (GuardedReader::read).
ProbeHonest ==
  /\ consumed = read
  /\ read <= Limit.probe
  /\ tripped => read = Limit.probe

\* A container that opened has no metadata value that runs on past the ceiling.
TextsTerminated ==
  outcome = "open" =>
    /\ \A i \in DOMAIN container.streams : \A k \in 1 .. 3 : container.streams[i].text[k] # NotTerminated
    /\ \A i \in DOMAIN container.chapters :
         container.chapters[i].null \/ container.chapters[i].title # NotTerminated

\* libavformat's own verdict is answered only when neither the budget nor a
\* panic of the reader can be behind it, and nothing of the container is judged
\* over a reader that panicked or ran out (open_reader_with_impl).
VerdictHonest ==
  /\ ProbeHonest
  /\ (outcome = "ffmpeg" \/ phase \notin {"probe", "done"} \/ outcome = "open" \/ outcome \in Refusals)
       => ~tripped /\ ~latched

\* A refusal by a total is answered only when the row is not at fault by itself:
\* structure before budget, and the ceiling of one before the ceiling of all.
SpecificFaultFirst ==
  (outcome = "total" /\ row \in DOMAIN container.streams) =>
    /\ Stream.ruler /\ Stream.layout = "sound"
    /\ stage = 0 => Retained(Stream) <= Limit.parameters
    /\ stage = 4 => Payload(Stream) <= Limit.attachment /\ (Stream.role = "cover" => Stream.sound)

\* Everything the container declares is judged before anything it declares is
\* paid for: a refusal that is a fact about the container finds nothing allocated,
\* although building asks the same questions again (from_input), and it names
\* the fault closest to the row; no value without an end is let through.
JudgedBeforePaid ==
  /\ outcome \in Refusals => ~reserved /\ paid = Nothing
  /\ SpecificFaultFirst
  /\ TextsTerminated

\* An open session queues every attachment row of the table, once, in table
\* order, whatever it holds: the queue DemuxSession starts from (build_tracks).
QueueMatchesTable ==
  outcome = "open" =>
    /\ \A i \in DOMAIN container.streams :
         container.streams[i].role # "media" <=> \E k \in DOMAIN queued : queued[k] = i
    /\ \A k \in DOMAIN queued : queued[k] \in DOMAIN container.streams
    /\ \A j, k \in DOMAIN queued : j < k => queued[j] < queued[k]

\* What is retained is within every ceiling at every step, and an open session
\* holds what it was charged for and what the table lists, neither more nor less.
ChargedIsPaid ==
  /\ paid.parameters <= Limit.allParameters /\ paid.text <= Limit.text
  /\ paid.attachments <= Limit.allAttachments /\ paid.title <= Limit.title
  /\ outcome = "open" => paid = charged
  /\ QueueMatchesTable

\* The budgets are asked twice, when the container is admitted and when each row
\* is built, and the two agree: a refusal is given before anything is paid, and
\* what is paid is what was admitted (demuxer.rs 3424-3560).
PaidAsJudged == JudgedBeforePaid /\ ChargedIsPaid
=============================================================================
