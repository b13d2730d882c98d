---------------------------- MODULE LibavDecoder ----------------------------
(***************************************************************************)
(* EXTERNAL.  One libavcodec decoder context with the callback state its   *)
(* get_format and get_buffer2 callbacks write, modelled from how           *)
(* decoder/mod.rs of mediadecode-ffmpeg drives it: a packet is taken, or   *)
(* refused with EAGAIN while output must be drained first, or with EOF     *)
(* after the end was signalled, or with any other errno; a receive yields  *)
(* the pictures in order, EAGAIN, EOF or another errno.                    *)
(*                                                                         *)
(* A callback has no way to return a reason.  It leaves the refusal in a   *)
(* latch, and the decoder may report an errno for that picture or go on    *)
(* without it: "a stream that simply drains to EOF with nothing said at    *)
(* all" (decoder/mod.rs, hw_exit).                                         *)
(***************************************************************************)
EXTENDS Naturals, Sequences

CONSTANTS
  Backends,   \* the hardware backends
  Depth,      \* packets each of them holds before its output must be drained
  Refusals    \* the latches: "ceiling" (get_format), "budget" (get_buffer2)

ASSUME DecoderAssumption ==
  /\ Depth \in [Backends -> Nat \ {0}]
  /\ Refusals \subseteq {"ceiling", "budget"}

Errnos == {"again", "eof", "fail"}

Decoder ==
  [backend : Backends,
   fed     : Seq(Nat),          \* packets taken since it was opened or flushed
   inside  : Seq(Nat),          \* those whose picture has yet to come out
   dropped : SUBSET Nat,        \* those whose picture never will
   ended   : BOOLEAN,           \* it was told the end of the stream
   latch   : SUBSET Refusals]

OpenDecoder(b) ==
  [backend |-> b, fed |-> <<>>, inside |-> <<>>, dropped |-> {},
   ended |-> FALSE, latch |-> {}]

MustBeDrained(d) == Len(d.inside) >= Depth[d.backend]

\* The callbacks may or may not refuse something during a call.
Latched(d) == {d} \cup {[d EXCEPT !.latch = @ \cup {r}] : r \in Refusals}

\* A packet taken: its picture is on its way, or given up without an errno.
Takes(d, p) ==
  LET fed == [d EXCEPT !.fed = Append(@, p)]
  IN  IF d.ended \/ MustBeDrained(d)
        THEN {}
        ELSE {[fed EXCEPT !.inside = Append(@, p)]}
               \cup Latched([fed EXCEPT !.dropped = @ \cup {p}])

TakesEnd(d) ==
  IF d.ended \/ MustBeDrained(d) THEN {} ELSE {[d EXCEPT !.ended = TRUE]}

\* A refused packet or end: an errno, and the decoder afterwards.
SendErrors(d) ==
  IF d.ended THEN {[errno |-> "eof", after |-> d]}
  ELSE IF MustBeDrained(d) THEN {[errno |-> "again", after |-> d]}
  ELSE {[errno |-> "fail", after |-> x] : x \in Latched(d)}

HasPicture(d) == d.inside # <<>>
NextPicture(d) == Head(d.inside)
Yielded(d) == [d EXCEPT !.inside = Tail(@)]
PictureLost(d) == [Yielded(d) EXCEPT !.dropped = @ \cup {NextPicture(d)}]

\* A receive without a picture.  Past the end, once everything is out, most
\* decoders answer EOF; receive_status says some answer EAGAIN.
ReceiveErrors(d) ==
  {[errno |-> "fail", after |-> x] :
     x \in IF HasPicture(d) THEN Latched(PictureLost(d)) ELSE {}}
  \cup
  {[errno |-> e, after |-> d] :
     e \in IF HasPicture(d)
             THEN IF d.ended \/ MustBeDrained(d) THEN {} ELSE {"again"}
             ELSE IF d.ended THEN {"again", "eof"} ELSE {"again"}}

\* avcodec_flush_buffers drops what the codec holds.  The callback state is not
\* the codec's: its latches stay.
Flushed(d) ==
  [d EXCEPT !.fed = <<>>, !.inside = <<>>, !.dropped = {}, !.ended = FALSE]

=============================================================================
