--------------------------- MODULE FrameConversion ---------------------------
(***************************************************************************)
(* The conversions of mediaio-ffmpeg (convert/mod.rs): what becomes of a   *)
(* decoded still, audio frame or subtitle when it is carried out of the    *)
(* AVFrame or AVSubtitle libavcodec wrote.                                 *)
(*                                                                         *)
(* A conversion is a plan, the steps of the code in their order: a fact is *)
(* judged, an allocation is asked for, or something free is handed over.   *)
(* It ends at the first fault, or at the allocation that is refused.       *)
(*                                                                         *)
(* Bytes are addresses.  A source says what its producer wrote: planes at  *)
(* addresses, in buffers that may or may not hold them.  Which lane owns   *)
(* the bytes carried is PayloadCarriers' matter; both expose the same ones.*)
(* A video frame goes the still's road for its planes and the audio road   *)
(* for its side data.                                                      *)
(***************************************************************************)
EXTENDS Integers, Sequences, SequencesExt

CONSTANT Ceiling  \* FrameLimits, and the caps the file fixes for itself

CeilingNames ==
  {"pixels", "bytes", "stillSide", "entries", "side", "channels", "planes",
   "rects", "text", "allText", "bitmap", "allBitmaps", "palette", "size"}

ASSUME CeilingAssumption == Ceiling \in [CeilingNames -> Nat]

Null == -1          \* a null pointer, or the null slot of a table
Unterminated == -2  \* a string without a NUL within the cap

Total(sums) ==
  LET upTo[n \in 0 .. Len(sums)] == IF n = 0 THEN 0 ELSE upTo[n - 1] + sums[n]
  IN  upTo[Len(sums)]

-----------------------------------------------------------------------------
(* Plans                                                                    *)

Judge(fault, holds) == <<[is |-> "judge", fault |-> fault, holds |-> holds]>>
Buy(cost, item) == <<[is |-> "buy", holds |-> FALSE, cost |-> cost, item |-> item]>>
Give(item) == <<[is |-> "give", holds |-> FALSE, item |-> item]>>

\* A table or a string of the conversion's own: nothing of the source is in it.
Scratch == [part |-> "scratch", at |-> 0, bytes |-> <<>>]
Item(part, at, bytes) == [part |-> part, at |-> at, bytes |-> bytes]

Buys(plan) == {i \in DOMAIN plan : plan[i].is = "buy"}
Upto(plan, end) == SubSeq(plan, 1, end - 1)
Paid(steps) == Total([i \in DOMAIN steps |-> IF steps[i].is = "buy" THEN steps[i].cost ELSE 0])
Carried(steps) ==
  FlattenSeq([i \in DOMAIN steps |->
    IF steps[i].is = "judge" \/ steps[i].item = Scratch THEN <<>> ELSE <<steps[i].item>>])

Ends(plan, refused) == {i \in DOMAIN plan : plan[i].holds} \cup (DOMAIN plan \cap {refused})

\* Mutant: an entry of side data no memory was found for is passed over.
FollowsSkipping(plan, refused) ==
  LET skips == refused \in DOMAIN plan /\ plan[refused].item.part = "side"
      ends == Ends(plan, IF skips THEN 0 ELSE refused)
      end == IF ends = {} THEN Len(plan) + 1 ELSE Min(ends)
      took == [i \in 1 .. end - 1 |-> IF skips /\ i = refused THEN Give(Scratch)[1] ELSE plan[i]]
  IN  [verdict |-> CASE ends = {} -> "produced"
                     [] end = refused -> "alloc"
                     [] OTHER -> plan[end].fault,
       paid |-> Paid(took),
       carried |-> IF ends = {} THEN Carried(took) ELSE <<>>]

\* The plan followed until it ends; refused is the allocation declined, or 0.
Follows(plan, refused) ==
  LET ends == Ends(plan, refused)
      end == IF ends = {} THEN Len(plan) + 1 ELSE Min(ends)
      took == Upto(plan, end)
  IN  [verdict |-> CASE ends = {} -> "produced"
                     [] end = refused -> "alloc"
                     [] OTHER -> plan[end].fault,
       paid |-> Paid(took),
       carried |-> IF ends = {} THEN Carried(took) ELSE <<>>]

-----------------------------------------------------------------------------
(* Where bytes lie                                                          *)

Least(a, b) == IF a < b THEN a ELSE b
Positive(n) == IF n > 0 THEN n ELSE 0
Run(from, count) == [i \in 1 .. count |-> from + i - 1]

\* find_backing_buffer and find_audio_backing_buffer: one buffer holds it all.
Backed(s, at, extent) ==
  \E b \in s.buffers : b.start <= at /\ at + extent <= b.start + b.size

Pointer == Nat \cup {Null}
Backing == SUBSET [start : Nat, size : Nat]

-----------------------------------------------------------------------------
(* Side data: entry i of a source has side[i] bytes, or is Null             *)

SideData == Seq(Nat \cup {Null})

SideBytes(side) == Total([i \in DOMAIN side |-> Positive(side[i])])

\* collect_side_data stops at the first entry past either cap.
Admitted(side) ==
  LET head == SubSeq(side, 1, Least(Len(side), Ceiling.entries))
      fits == {i \in 0 .. Len(head) : SideBytes(SubSeq(head, 1, i)) <= Ceiling.side}
      past == {i \in DOMAIN head : head[i] > 0 /\ i \notin fits}
  IN  IF past = {} THEN head ELSE SubSeq(head, 1, Min(past) - 1)

\* The table, then a copy of every entry that has bytes.
CollectSide(side) ==
  IF side = <<>> THEN <<>>
  ELSE Buy(0, Scratch)
       \o FlattenSeq([i \in DOMAIN side |->
            CASE side[i] = Null -> <<>>
              [] side[i] = 0 -> Give(Item("side", i, <<>>))
              [] OTHER -> Buy(side[i], Item("side", i, <<>>))])

\* measure_image_side_data: a still is refused where a video frame is cut short.
MeasureSide(side) ==
  Judge("entries", Len(side) > Ceiling.entries)
  \o Judge("side", SideBytes(side) > Ceiling.stillSide)

-----------------------------------------------------------------------------
(* Stills                                                                   *)

\* What libavcodec may write: sizes of either sign, and two planes at most.
Still ==
  [medium : {"image"}, format : {"gray", "halved", "indexed", "opaque"},
   width : Int, height : Int, linesize : [1 .. 2 -> Int], at : [1 .. 2 -> Pointer],
   buffers : Backing, side : SideData,
   crop : [left : Nat, right : Nat, top : Nat, bottom : Nat]]

\* plane_geometry of the layouts the vocabulary tells apart: one plane, a second
\* one of half the size, indices with a palette.  Empty when there is none.
Geometry(format, w, h) ==
  LET plane(row, rows) == [row |-> row, rows |-> rows, flat |-> FALSE]
      palette == [row |-> Ceiling.palette, rows |-> 1, flat |-> TRUE]
  IN  IF w <= 0 \/ h <= 0 \/ format = "opaque" THEN <<>>
      ELSE CASE format = "gray" -> <<plane(w, h)>>
             [] format = "halved" -> <<plane(w, h), plane((w + 1) \div 2, (h + 1) \div 2)>>
             [] format = "indexed" -> <<plane(w, h), palette>>

Exported(geometry) == Total([i \in DOMAIN geometry |-> geometry[i].row * geometry[i].rows])

\* The distance between the rows of plane i; a palette is one flat run.
Pitch(s, g, i) == IF g.flat THEN g.row ELSE s.linesize[i]

\* Mutant: the padding between rows is left out of what is read.
ExtentTight(s, g, i) == g.row * g.rows

\* What a copy of the rows reads over: the last row has no padding.
Extent(s, g, i) == (g.rows - 1) * Pitch(s, g, i) + g.row

\* Mutant: a padded plane is carried as it lies.
RowsPadded(s, g, i) == Run(s.at[i], Extent(s, g, i))

\* Row by row, so that no byte between two rows is carried.
Rows(s, g, i) ==
  [n \in 1 .. g.row * g.rows |->
     s.at[i] + ((n - 1) \div g.row) * Pitch(s, g, i) + ((n - 1) % g.row)]

CopyPlane(s, g, i) ==
  Judge("pointer", s.at[i] = Null)
  \o Judge("unbacked", ~Backed(s, s.at[i], Extent(s, g, i)))
  \o Buy(g.row * g.rows, Item("plane", i, Rows(s, g, i)))

\* Mutant: each stride is judged when its plane is copied.
CopyPlanesAsTheyCome(s) ==
  LET geometry == Geometry(s.format, s.width, s.height)
  IN  Judge("pixels", s.width * s.height > Ceiling.pixels)
      \o Judge("format", geometry = <<>>)
      \o Judge("bytes", Exported(geometry) > Ceiling.bytes)
      \o FlattenSeq([i \in DOMAIN geometry |->
           LET g == geometry[i]
           IN  Judge("stride", ~g.flat /\ s.linesize[i] < g.row) \o CopyPlane(s, g, i)])

\* copy_out_planes.
CopyPlanes(s) ==
  LET geometry == Geometry(s.format, s.width, s.height)
  IN  Judge("pixels", s.width * s.height > Ceiling.pixels)
      \o Judge("format", geometry = <<>>)
      \o Judge("bytes", Exported(geometry) > Ceiling.bytes)
      \o FlattenSeq([i \in DOMAIN geometry |->
           Judge("stride", ~geometry[i].flat /\ s.linesize[i] < geometry[i].row)])
      \o FlattenSeq([i \in DOMAIN geometry |-> CopyPlane(s, geometry[i], i)])

\* build_visible_rect: a crop is a size_t of the frame's own choosing.  One that
\* overflows, or leaves nothing of the picture, is not told.
NoRect == <<>>

\* Mutant: the sums wrap round.
VisibleRectWrapping(s) ==
  LET across == (s.crop.left + s.crop.right) % (Ceiling.size + 1)
      down == (s.crop.top + s.crop.bottom) % (Ceiling.size + 1)
  IN  IF s.crop.left + s.crop.right + s.crop.top + s.crop.bottom = 0
           \/ across >= s.width \/ down >= s.height
      THEN NoRect ELSE <<s.crop.left, s.crop.top, s.width - across, s.height - down>>

VisibleRect(s) ==
  LET across == s.crop.left + s.crop.right
      down == s.crop.top + s.crop.bottom
  IN  IF across + down = 0 \/ across > Ceiling.size \/ down > Ceiling.size
           \/ across >= s.width \/ down >= s.height
      THEN NoRect ELSE <<s.crop.left, s.crop.top, s.width - across, s.height - down>>

\* av_frame_to_image_frame_as: the side data is judged before a plane is paid for,
\* and again before it is copied.
StillPlan(s) ==
  Judge("dimensions", s.width < 0 \/ s.height < 0)
  \o MeasureSide(s.side)
  \o CopyPlanes(s)
  \o Give(Item("rect", 0, VisibleRect(s)))
  \o MeasureSide(s.side)
  \o CollectSide(s.side)

-----------------------------------------------------------------------------
(* Audio                                                                    *)

\* channel_layout_description_from_raw_ptr: preflighted before libavutil is asked
\* to describe it; a custom map is copied too.
DescribeLayout(layout) ==
  Judge("layout", layout = "broken")
  \o (IF layout = "unspecified" THEN <<>> ELSE Buy(0, Scratch))
  \o (IF layout = "custom" THEN Buy(0, Scratch) ELSE <<>>)

AudioPlanes(s) == IF s.planar THEN s.channels ELSE 1

\* extended_data has a pointer for each plane there should be.
Sound ==
  {s \in [medium : {"audio"}, samples : Int, channels : Int, planar : BOOLEAN, width : Nat,
           layout : {"native", "custom", "unspecified", "broken"}, linesize : Int,
           at : Seq(Pointer), buffers : Backing, side : SideData] :
     AudioPlanes(s) <= Len(s.at)}

\* The bytes of a plane that hold samples; linesize only says what was allocated.
Valid(s) == s.samples * s.width * (IF s.planar THEN 1 ELSE s.channels)

\* Mutant: the whole allocation is carried.
SamplesPadded(s, i) == Run(s.at[i], s.linesize)

Samples(s, i) == Run(s.at[i], Valid(s))

\* judge_audio_counts.
JudgeCounts(s) ==
  Judge("samples", s.samples < 0)
  \o Judge("channels", s.channels < 0 \/ s.channels > Ceiling.channels)
  \o Judge("channels", s.channels = 0 /\ s.samples > 0)

\* The format, the planes and what was allocated, before anything of it is read.
JudgeExtent(s) ==
  Judge("format", s.width = 0)
  \o Judge("planes", AudioPlanes(s) > Ceiling.planes)
  \o Judge("stride", s.linesize < 0 \/ (s.samples > 0 /\ s.linesize = 0))
  \o Judge("stride", s.linesize < Valid(s))
  \o Judge("bytes", Valid(s) * AudioPlanes(s) > Ceiling.bytes)

\* A frame without samples has no planes to look at.
CopySamples(s) ==
  FlattenSeq([i \in 1 .. (IF s.samples = 0 THEN 0 ELSE AudioPlanes(s)) |->
    Judge("pointer", s.at[i] = Null)
    \o Judge("unbacked", ~Backed(s, s.at[i], s.linesize))
    \o Buy(Valid(s), Item("plane", i, Samples(s, i)))])

\* av_frame_to_audio_frame_as.
AudioPlan(s) ==
  JudgeCounts(s)
  \o DescribeLayout(s.layout)
  \o JudgeExtent(s)
  \o CopySamples(s)
  \o CollectSide(Admitted(s.side))

-----------------------------------------------------------------------------
(* Subtitles                                                                *)

Line == [kind : {"text"}, size : Nat \cup {Null, Unterminated}]
Bitmap == [kind : {"bitmap"}, at : Pointer, stride : Int, rows : Int, palette : Pointer]
Cue ==
  [medium : {"subtitle"}, table : Pointer, rects : Seq(Line \cup Bitmap \cup [kind : {"none"}])]

\* Lines are joined by a separator, which nothing precedes.
Joined(total, rect) ==
  IF rect.kind # "text" \/ rect.size < 0 THEN total
  ELSE total + rect.size + (IF total > 0 THEN 1 ELSE 0)

\* Mutant: the separators are not counted.
TextBytesBare(rects) ==
  Total([i \in DOMAIN rects |-> IF rects[i].kind = "text" THEN Positive(rects[i].size) ELSE 0])

TextBytes(rects) ==
  LET upTo[n \in 0 .. Len(rects)] == IF n = 0 THEN 0 ELSE Joined(upTo[n - 1], rects[n])
  IN  upTo[Len(rects)]

Drawn(r) == r.kind = "bitmap" /\ r.at # Null /\ r.stride > 0 /\ r.rows > 0
Area(r) == r.stride * r.rows
BitmapBytes(rects) ==
  Total([i \in DOMAIN rects |-> IF Drawn(rects[i]) THEN Area(rects[i]) ELSE 0])

TextRect(rects, i) ==
  LET size == rects[i].size
      total == TextBytes(SubSeq(rects, 1, i))
  IN  IF size = Null THEN <<>>
      ELSE Judge("text", size = Unterminated \/ size > Ceiling.text)
           \o Judge("texts", total > Ceiling.allText)
           \o (IF TextBytes(SubSeq(rects, 1, i - 1)) > 0 THEN Buy(1, Scratch) ELSE <<>>)
           \o (IF size > 0 THEN Buy(size, Item("text", i, <<>>)) ELSE Give(Item("text", i, <<>>)))

BitmapRect(rects, i) ==
  LET r == rects[i]
  IN  IF ~Drawn(r) THEN <<>>
      ELSE Judge("bitmap", Area(r) > Ceiling.bitmap)
           \o Judge("bitmaps", BitmapBytes(SubSeq(rects, 1, i)) > Ceiling.allBitmaps)
           \o Buy(Area(r), Item("bitmap", i, Run(r.at, Area(r))))
           \o (IF r.palette = Null THEN <<>>
               ELSE Buy(Ceiling.palette, Item("palette", i, Run(r.palette, Ceiling.palette))))

Shown(s) == SubSeq(s.rects, 1, Least(Len(s.rects), Ceiling.rects))
Spoken(s) == TextBytes(Shown(s)) > 0

\* av_subtitle_to_subtitle_frame_as: the lines are copied a second time into their
\* carrier.
SubtitlePlan(s) ==
  Judge("pointer", s.rects # <<>> /\ s.table = Null)
  \o (IF s.rects = <<>> THEN <<>> ELSE Buy(0, Scratch))
  \o FlattenSeq([i \in DOMAIN Shown(s) |->
       CASE Shown(s)[i].kind = "text" -> TextRect(Shown(s), i)
         [] Shown(s)[i].kind = "bitmap" -> BitmapRect(Shown(s), i)
         [] OTHER -> <<>>])
  \o (IF Spoken(s) THEN Buy(TextBytes(Shown(s)), Scratch) ELSE <<>>)

\* A cue with a line in it is a text; its pictures are not carried.
Payload(s, items) ==
  FlattenSeq([i \in DOMAIN items |->
    IF (items[i].part = "text") = Spoken(s) THEN <<items[i]>> ELSE <<>>])

-----------------------------------------------------------------------------
Plan(s) ==
  CASE s.medium = "image" -> StillPlan(s)
    [] s.medium = "audio" -> AudioPlan(s)
    [] s.medium = "subtitle" -> SubtitlePlan(s)

Unconverted == [verdict |-> "none"]

\* Whatever a conversion of s may come to, memory being what it is.
Conversions(s) ==
  {LET c == Follows(Plan(s), refused)
   IN  [source |-> s, verdict |-> c.verdict, paid |-> c.paid,
        carried |-> IF s.medium = "subtitle" THEN Payload(s, c.carried) ELSE c.carried] :
     refused \in {0} \cup Buys(Plan(s))}

-----------------------------------------------------------------------------
(* Properties of a conversion c                                             *)

Produced(c) == c.verdict = "produced"
Of(c, part) ==
  FlattenSeq([i \in DOMAIN c.carried |->
    IF c.carried[i].part = part THEN <<c.carried[i]>> ELSE <<>>])

\* Where row r, byte b of plane i of a picture lies.
Pixel(s, i, r, b) == s.at[i] + r * s.linesize[i] + b

\* Every byte exposed is one its producer wrote, in its place, inside a buffer
\* that holds it: rows are carried without what lies between them, samples
\* without what was allocated past them (convert/mod.rs 1709-1800, 2980-3020).
ExposesWritten(c) ==
  LET s == c.source
      planes == Of(c, "plane")
  IN  Produced(c) /\ s.medium # "subtitle" =>
        \A k \in DOMAIN planes :
          LET bytes == planes[k].bytes
              g == IF s.medium = "image" THEN Geometry(s.format, s.width, s.height)[k]
                   ELSE [row |-> Valid(s), rows |-> 1, flat |-> TRUE]
          IN  /\ planes[k].at = k
              /\ Len(bytes) = g.row * g.rows
              /\ \A n \in DOMAIN bytes : Backed(s, bytes[n], 1)
              /\ IF g.flat
                   THEN \A n \in DOMAIN bytes : bytes[n] = s.at[k] + n - 1
                   ELSE \A r \in 0 .. g.rows - 1, b \in 0 .. g.row - 1 :
                          bytes[r * g.row + b + 1] = Pixel(s, k, r, b)

\* What a frame carries is what its source holds, however short memory was when
\* it was tried: a still has all of its side data, a timed frame has it up to the
\* caps, a cue every line or every picture of the rectangles read.  Nothing is
\* left out because an allocation was refused (collect_side_data).
CarriesAll(c) ==
  LET s == c.source
      owed(side) == {i \in DOMAIN side : side[i] # Null}
      held(part) == {i.at : i \in Range(Of(c, part))}
  IN  Produced(c) =>
        CASE s.medium = "image" ->
               /\ held("side") = owed(s.side)
               /\ held("plane") = DOMAIN Geometry(s.format, s.width, s.height)
          [] s.medium = "audio" ->
               /\ held("side") = owed(Admitted(s.side))
               /\ SideBytes(SubSeq(s.side, 1, Len(Admitted(s.side)))) <= Ceiling.side
               /\ held("plane") = 1 .. (IF s.samples = 0 THEN 0 ELSE AudioPlanes(s))
          [] s.medium = "subtitle" ->
               IF Spoken(s)
               THEN held("text") = {i \in DOMAIN Shown(s) :
                                      Shown(s)[i].kind = "text" /\ Shown(s)[i].size # Null}
               ELSE held("bitmap") = {i \in DOMAIN Shown(s) : Drawn(Shown(s)[i])}

\* A frame refused for what it says of itself has cost nothing; what is paid
\* before any other end is within the ceilings (copy_out_planes, 1596-1660).
PaysWithin(c) ==
  LET s == c.source
      side == IF s.medium = "image" THEN Ceiling.stillSide ELSE Ceiling.side
  IN  /\ s.medium # "subtitle" =>
           /\ c.paid <= Ceiling.bytes + side
           /\ c.verdict \notin {"produced", "alloc", "pointer", "unbacked"} => c.paid = 0
      /\ s.medium = "subtitle" =>
           c.paid <= 2 * Ceiling.allText + Ceiling.allBitmaps + Ceiling.rects * Ceiling.palette

\* The text of a cue, separators and all, is within its cap.
TextWithin(c) ==
  LET lines == [i \in DOMAIN Of(c, "text") |-> Shown(c.source)[Of(c, "text")[i].at].size]
      spoken == {i \in DOMAIN lines : lines[i] > 0}
  IN  spoken # {} => SideBytes(lines) + Len(lines) - Min(spoken) <= Ceiling.allText

\* A visible rectangle told of a picture lies inside it and is not empty
\* (build_visible_rect).
RectInside(c) ==
  LET s == c.source
  IN  Produced(c) /\ s.medium = "image" =>
        \A k \in DOMAIN Of(c, "rect") :
          LET rect == Of(c, "rect")[k].bytes
          IN  rect # NoRect =>
                /\ rect[3] > 0 /\ rect[1] + rect[3] <= s.width
                /\ rect[4] > 0 /\ rect[2] + rect[4] <= s.height

\* A conversion exposes nothing its source did not write, leaves out nothing it
\* holds, pays for nothing it refuses and tells nothing that is not so.
Honest(c) ==
  /\ ExposesWritten(c) /\ CarriesAll(c)
  /\ PaysWithin(c) /\ TextWithin(c)
  /\ RectInside(c)
=============================================================================
