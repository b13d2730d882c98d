-------------------------- MODULE SoftwareDecoders --------------------------
(***************************************************************************)
(* The decoders of mediadecode-ffmpeg that have no hardware to choose:     *)
(* CarrierAudioStreamDecoder (audio.rs), CarrierSubtitleStreamDecoder      *)
(* (subtitle.rs) and CarrierImageDecoder (image.rs).                       *)
(*                                                                         *)
(* The three roads meet the same decoder and disagree on purpose.  Audio   *)
(* leaves every refusal of a packet to libavcodec, under a parked frame    *)
(* and past the end too.  Subtitles decode at once, through a call that    *)
(* knows no end of stream, so the session alone refuses.  Images are one   *)
(* call each and keep nothing but the decoder, which must not remember.    *)
(* What a conversion makes of a frame is FrameConversion's: it may refuse  *)
(* it, or run out of memory with the frame still in the scratch.           *)
(*                                                                         *)
(* The methods take &mut self and loop over nothing: a call is one step.   *)
(***************************************************************************)
EXTENDS LibavDecoder, FrameConversion

CONSTANTS
  Sources,    \* road -> what libavcodec may write on it
  MaxPackets  \* bound: packets the caller has

ASSUME SoftwareAssumption ==
  /\ Backends = {"sw"}
  /\ Refusals \subseteq {"budget"}
  /\ DOMAIN Sources = {"audio", "subtitle", "image"}
  /\ Sources["audio"] \subseteq Sound
  /\ Sources["subtitle"] \subseteq Cue
  /\ Sources["image"] \subseteq Still
  /\ MaxPackets \in Nat \ {0}

VARIABLES
  road,        \* which of the three was opened
  dec,         \* decoder and _callback_state
  parked,      \* the frame or cue in the scratch, while scratch_pending
  source,      \* what is written there, Unconverted while nothing is parked
  conversion,  \* what the last call's conversion came to, if it made one
  eof,         \* eof
  answer,      \* what the last call answered
  nextPacket,  \* the packet the caller offers next
  accepted,    \* history: packets accepted since the open or the last flush
  delivered,   \* history: frames handed over since then, by their packet
  discarded    \* history: cues that never were, frames no carrier can hold

seat == <<parked, source, eof>>
history == <<nextPacket, accepted, delivered, discarded>>
vars == <<road, dec, seat, answer, conversion, history>>

Init ==
  /\ road \in {"audio", "subtitle", "image"}
  /\ dec = OpenDecoder("sw")
  /\ parked = <<>> /\ source = Unconverted /\ eof = FALSE
  /\ conversion = Unconverted
  /\ answer = "none"
  /\ nextPacket = 1
  /\ accepted = <<>> /\ delivered = <<>> /\ discarded = {}

Answers(a) == answer' = a /\ conversion' = Unconverted /\ UNCHANGED road
Converted(c, a) == answer' = a /\ conversion' = c /\ UNCHANGED road

\* The session is as it was, whatever became of the decoder.
Leaves(a) == Answers(a) /\ UNCHANGED <<seat, history>>

Offered == nextPacket <= MaxPackets

Accepts ==
  /\ accepted' = Append(accepted, nextPacket)
  /\ nextPacket' = nextPacket + 1
  /\ Answers("accepted")

-----------------------------------------------------------------------------
(* Reading a decoder's errno.                                               *)

\* Mutant: the errno is classified before the refusal is collected.
RawErrno(e) == e.errno

\* software_exit: a refusal of the allocator's takes the errno's place.
Verdict(e) == IF "budget" \in e.after.latch THEN "budget" ELSE e.errno

\* frame_budget_declination_of consumes what it reads.
Collected(e) ==
  IF Verdict(e) = "budget" THEN [e.after EXCEPT !.latch = {}] ELSE e.after

\* receive_status and send_status of a committed session; "failed" is an error.
ReceiveStatus(verdict) ==
  CASE verdict = "again" /\ ~eof -> "needsInput"
    [] verdict \in {"again", "eof"} /\ (eof \/ verdict = "eof") -> "ended"
    [] OTHER -> "failed"

SendStatus(verdict) == IF verdict = "again" /\ ~eof THEN "mustDrain" ELSE "failed"

-----------------------------------------------------------------------------
(* What becomes of the frame in the scratch.                                *)

Free == parked' = <<>> /\ source' = Unconverted

\* What a conversion of what is written in s may come to.
Outcomes == [s \in UNION {Sources[r] : r \in DOMAIN Sources} |-> Conversions(s)]

Delivers(frame, c) ==
  /\ delivered' = Append(delivered, frame)
  /\ Free
  /\ Converted(c, "produced")
  /\ UNCHANGED discarded

\* Mutant: a frame whose carrier could not be allocated is not parked.
Drops(frame, c) ==
  /\ Free
  /\ Converted(c, "failed")
  /\ UNCHANGED <<delivered, discarded>>

\* parks_in_decode: only an allocation is worth another attempt.
Parks(frame, c) ==
  /\ parked' = <<frame>> /\ source' = c.source
  /\ Converted(c, "failed")
  /\ UNCHANGED <<delivered, discarded>>

LetsGo(frame, c) ==
  /\ discarded' = discarded \cup {frame}
  /\ Free
  /\ Converted(c, "failed")
  /\ UNCHANGED delivered

Converts(frame, s) ==
  /\ \E c \in Outcomes[s] :
       \/ c.verdict = "produced" /\ Delivers(frame, c)
       \/ c.verdict = "alloc" /\ Parks(frame, c)
       \/ c.verdict \notin {"produced", "alloc"} /\ LetsGo(frame, c)
  /\ UNCHANGED <<eof, nextPacket, accepted>>

-----------------------------------------------------------------------------
(* Audio.                                                                   *)

\* with_ffmpeg_audio_packet fails: libavcodec never sees the packet.
AudioUnbuilt == road = "audio" /\ Offered /\ Leaves("failed") /\ UNCHANGED dec

\* Nothing of the session refuses a packet, neither a parked frame nor the end.
AudioTakesPacket ==
  /\ road = "audio" /\ Offered
  /\ dec' \in Takes(dec, nextPacket)
  /\ Accepts
  /\ UNCHANGED <<seat, delivered, discarded>>

AudioRefusesPacket ==
  /\ road = "audio" /\ Offered
  /\ \E e \in SendErrors(dec) : dec' = Collected(e) /\ Leaves(SendStatus(Verdict(e)))

\* Mutant: the session takes the end for signalled whatever the decoder said.
EndDeclared == eof' = TRUE

EndKept == UNCHANGED eof

AudioTakesEnd ==
  /\ road = "audio"
  /\ dec' \in TakesEnd(dec)
  /\ eof' = TRUE
  /\ Answers("accepted")
  /\ UNCHANGED <<parked, source, history>>

\* The end is recorded only when the decoder took it.
AudioRefusesEnd ==
  /\ road = "audio"
  /\ \E e \in SendErrors(dec) : dec' = Collected(e) /\ Answers(SendStatus(Verdict(e)))
  /\ EndKept
  /\ UNCHANGED <<parked, source, history>>

\* The parked frame again, before the decoder is asked for another.
AudioConvertsParked ==
  /\ road = "audio" /\ parked # <<>>
  /\ Converts(Head(parked), source)
  /\ UNCHANGED dec

AudioReceives ==
  /\ road = "audio" /\ parked = <<>>
  /\ \/ /\ HasPicture(dec)
        /\ dec' = Yielded(dec)
        /\ \E s \in Sources["audio"] : Converts(NextPicture(dec), s)
     \/ \E e \in ReceiveErrors(dec) :
          dec' = Collected(e) /\ Leaves(ReceiveStatus(Verdict(e)))

-----------------------------------------------------------------------------
(* Subtitles.                                                               *)

\* Mutant: the held cue is looked at before the end.
HeldCueFirst ==
  IF parked # <<>> THEN Leaves("mustDrain") ELSE eof /\ Leaves("afterEof")

\* The end first: under a held cue too, a packet past it is a fault.
SubtitleGates ==
  IF eof THEN Leaves("afterEof") ELSE parked # <<>> /\ Leaves("mustDrain")

SubtitleRefuses ==
  /\ road = "subtitle" /\ Offered
  /\ SubtitleGates
  /\ UNCHANGED dec

\* avcodec_decode_subtitle2 answers on the spot: a cue, which waits in the
\* scratch for its conversion, or none.
SubtitleDecodes ==
  /\ road = "subtitle" /\ Offered
  /\ ~eof /\ parked = <<>>
  /\ \/ /\ parked' = <<nextPacket>> /\ source' \in Sources["subtitle"]
        /\ UNCHANGED discarded
     \/ /\ discarded' = discarded \cup {nextPacket}
        /\ UNCHANGED <<parked, source>>
  /\ Accepts
  /\ UNCHANGED <<dec, eof, delivered>>

SubtitleFails ==
  /\ road = "subtitle" /\ Offered
  /\ ~eof /\ parked = <<>>
  /\ Leaves("failed")
  /\ UNCHANGED dec

\* Nothing is forwarded: the end is the session's own, and may be restated.
SubtitleEnds ==
  /\ road = "subtitle"
  /\ eof' = TRUE
  /\ Answers("accepted")
  /\ UNCHANGED <<dec, parked, source, history>>

SubtitleReceives ==
  /\ road = "subtitle"
  /\ IF parked = <<>>
       THEN Leaves(IF eof THEN "ended" ELSE "needsInput")
       ELSE Converts(Head(parked), source)
  /\ UNCHANGED dec

-----------------------------------------------------------------------------
(* Both push sessions.                                                      *)

Flush ==
  /\ road # "image"
  /\ dec' = Flushed(dec)
  /\ Free /\ eof' = FALSE
  /\ Answers("none")
  /\ accepted' = <<>> /\ delivered' = <<>> /\ discarded' = {}
  /\ UNCHANGED nextPacket

-----------------------------------------------------------------------------
(* Images.  decode borrows its packet, so the history is that of one call,  *)
(* and the caller's packets come round again.                               *)

\* Mutant: the decoder is used as the last call left it.
AsItWas == dec

\* The flush before each picture: a call that failed half way left one inside.
Fresh == Flushed(dec)

Decodes(pictures) ==
  /\ accepted' = <<nextPacket>> /\ delivered' = pictures
  /\ nextPacket' = (nextPacket % MaxPackets) + 1
  /\ UNCHANGED <<seat, discarded>>

Undecoded(a) == Decodes(<<>>) /\ Answers(a)

\* No bytes, too many, trusted or corrupt: the decoder is not touched.
ImageRefused == road = "image" /\ Undecoded("failed") /\ UNCHANGED dec

\* The copy of the payload, send_packet or send_eof fails.  The decoder is left
\* with what it has been given.
ImageUnsent ==
  /\ road = "image"
  /\ \/ dec' = Fresh
     \/ \E e \in SendErrors(Fresh) : dec' = Collected(e)
     \/ \E d \in Takes(Fresh, nextPacket) : \E e \in SendErrors(d) : dec' = Collected(e)
  /\ Undecoded("failed")

\* The payload and, before any picture is asked for, the end.
Loaded == UNION {TakesEnd(d) : d \in Takes(Fresh, nextPacket)}

\* A flow signal here says that the payload is no image.
ImageUnread ==
  /\ road = "image"
  /\ \E d \in Loaded : \E e \in ReceiveErrors(d) :
       /\ dec' = Flushed(Collected(e))
       /\ Undecoded(IF Verdict(e) \in {"again", "eof"} THEN "noImage" ELSE "failed")

\* A picture, unless it is marked corrupt or no carrier can be made of it: the
\* caller still has the packet, so nothing is parked.
ImageRead ==
  /\ road = "image"
  /\ \E d \in Loaded :
       /\ HasPicture(d)
       /\ dec' = Flushed(Yielded(d))
       /\ \/ Undecoded("failed")
          \/ \E s \in Sources["image"] : \E c \in Outcomes[s] :
               IF c.verdict = "produced"
               THEN Decodes(<<NextPicture(d)>>) /\ Converted(c, "produced")
               ELSE Decodes(<<>>) /\ Converted(c, "failed")

-----------------------------------------------------------------------------
AudioStep ==
  AudioUnbuilt \/ AudioTakesPacket \/ AudioRefusesPacket \/ AudioTakesEnd \/ AudioRefusesEnd
    \/ AudioConvertsParked \/ AudioReceives
SubtitleStep ==
  SubtitleRefuses \/ SubtitleDecodes \/ SubtitleFails \/ SubtitleEnds \/ SubtitleReceives
ImageStep == ImageRefused \/ ImageUnsent \/ ImageUnread \/ ImageRead

Next == AudioStep \/ SubtitleStep \/ Flush \/ ImageStep

Spec == Init /\ [][Next]_vars

-----------------------------------------------------------------------------
(* Properties *)

Pushed == road # "image"

\* No frame is lost between libavcodec, the scratch and the caller: that of each
\* packet accepted since the last flush is delivered, parked, still inside, or
\* was given up by the decoder or by the conversion.
NothingLost ==
  Pushed =>
    Range(accepted) =
      Range(delivered) \cup discarded \cup Range(parked) \cup Range(dec.inside) \cup dec.dropped

\* Frames leave in the order of their packets, each once, through every retry.
InOrderOnce ==
  Pushed =>
    LET frames == delivered \o parked \o dec.inside
    IN  \A i, j \in DOMAIN frames : i < j => frames[i] < frames[j]

\* decode_impl: "one call's failure cannot become the next call's frame".  A call
\* gives the picture of the packet it was handed.
ImageOfThisPacket == ~Pushed /\ answer = "produced" => delivered = accepted

\* software_receive: no answer of the decoder's own is told while a refusal of
\* the allocator's waits, and none is left for the next picture.
RefusalFirst ==
  (answer \in {"needsInput", "ended", "mustDrain", "noImage"} \/ ~Pushed) => dec.latch = {}

\* Each packet's frame reaches the caller once and in its place, whatever fails,
\* and what was refused for want of budget is never told as anything else.
FramesKept == NothingLost /\ InOrderOnce /\ ImageOfThisPacket /\ RefusalFirst

\* What the caller is handed is what libavcodec wrote, and no more than that, on
\* the first attempt and on every retry of a frame that waited for memory.
CarriedHonest == conversion # Unconverted => Honest(conversion)

Rhythm == INSTANCE PushRhythm WITH
  Packets <- 1 .. MaxPackets,
  fed <- IF Pushed THEN Range(parked) \cup Range(dec.inside) ELSE {},
  over <- eof,
  fault <- FALSE,
  answer <- IF Pushed THEN answer ELSE "none"

\* Audio and subtitle sessions keep the push rhythm, although one leaves its
\* refusals to libavcodec and the other has to make them all: back pressure never
\* past the end, Ended only when nothing is left and never taken back but by
\* flush.
RhythmKept == Rhythm!RhythmSpec
=============================================================================
