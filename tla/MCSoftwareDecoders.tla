------------------------ MODULE MCSoftwareDecoders ------------------------
(***************************************************************************)
(* Sources on both sides of every ceiling and of every fault a conversion  *)
(* judges, with buffers that hold a plane exactly, and one byte short.     *)
(***************************************************************************)
EXTENDS SoftwareDecoders

\* Room for a packet a failed call left behind beside the next one.
Deep == [b \in Backends |-> 3]

Ceilings ==
  [pixels |-> 12, bytes |-> 12, stillSide |-> 3, entries |-> 3, side |-> 3, channels |-> 3,
   planes |-> 2, rects |-> 3, text |-> 3, allText |-> 5, bitmap |-> 4, allBitmaps |-> 6,
   palette |-> 2, size |-> 15]

Buffer(start, size) == [start |-> start, size |-> size]

Gray ==
  [medium |-> "image", format |-> "gray", width |-> 2, height |-> 2,
   linesize |-> <<2, 0>>, at |-> <<1, Null>>, buffers |-> {Buffer(1, 4)}, side |-> <<>>,
   crop |-> [left |-> 0, right |-> 0, top |-> 0, bottom |-> 0]]
Padded == [Gray EXCEPT !.linesize = <<3, 0>>, !.buffers = {Buffer(0, 6)}]
Halved ==
  [Gray EXCEPT !.format = "halved", !.width = 3, !.linesize = <<4, 2>>, !.at = <<0, 8>>,
               !.buffers = {Buffer(0, 8), Buffer(8, 2)}, !.side = <<1, Null, 2>>]
Indexed ==
  [Gray EXCEPT !.format = "indexed", !.at = <<0, 5>>, !.buffers = {Buffer(0, 8)},
               !.side = <<0, 1>>]

Stills ==
  {Gray, Padded, [Padded EXCEPT !.buffers = {Buffer(1, 4)}],
   Halved, [Halved EXCEPT !.at = <<0, Null>>], [Halved EXCEPT !.linesize = <<4, 1>>],
   [Halved EXCEPT !.linesize = <<-4, 2>>], [Halved EXCEPT !.height = 3],
   [Halved EXCEPT !.buffers = {Buffer(0, 8), Buffer(8, 1)}],
   Indexed, [Indexed EXCEPT !.buffers = {Buffer(0, 6)}],
   [Gray EXCEPT !.format = "opaque"], [Gray EXCEPT !.height = 0], [Gray EXCEPT !.width = -1],
   [Gray EXCEPT !.width = 4, !.height = 4, !.linesize = <<4, 0>>],
   [Gray EXCEPT !.side = <<2, 2>>], [Gray EXCEPT !.side = <<0, 0, 0, 0>>],
   [Gray EXCEPT !.crop.left = 1], [Gray EXCEPT !.crop.left = 1, !.crop.right = 1],
   [Gray EXCEPT !.crop.left = 15, !.crop.right = 2], [Gray EXCEPT !.crop.bottom = 1]}

Planar ==
  [medium |-> "audio", samples |-> 2, channels |-> 2, planar |-> TRUE, width |-> 1,
   layout |-> "native", linesize |-> 3, at |-> <<0, 4, 8>>,
   buffers |-> {Buffer(0, 3), Buffer(4, 3)}, side |-> <<1, 2, 1>>]
Packed ==
  [Planar EXCEPT !.planar = FALSE, !.width = 2, !.linesize = 8, !.layout = "custom",
                 !.at = <<0, Null, Null>>, !.buffers = {Buffer(0, 8)}, !.side = <<>>]
Empty ==
  [Packed EXCEPT !.samples = 0, !.linesize = 0, !.at = <<Null, Null, Null>>, !.buffers = {},
                 !.layout = "unspecified"]

Sounds ==
  {Planar, [Planar EXCEPT !.at = <<0, Null, 8>>], [Planar EXCEPT !.buffers = {Buffer(0, 6)}],
   [Planar EXCEPT !.linesize = 1], [Planar EXCEPT !.channels = 3],
   [Planar EXCEPT !.samples = 7, !.linesize = 7], [Planar EXCEPT !.side = <<0, Null, 0, 1>>],
   Packed, [Packed EXCEPT !.channels = 4], [Packed EXCEPT !.layout = "broken"],
   [Packed EXCEPT !.width = 0], [Packed EXCEPT !.linesize = 0], [Packed EXCEPT !.channels = 0],
   [Packed EXCEPT !.samples = -1], Empty, [Empty EXCEPT !.linesize = -1],
   [Empty EXCEPT !.channels = 0, !.side = <<4>>]}

TextLine(n) == [kind |-> "text", size |-> n]
Picture(stride, rows) == [kind |-> "bitmap", at |-> 0, stride |-> stride, rows |-> rows, palette |-> 9]
Rects(rects) == [medium |-> "subtitle", table |-> 0, rects |-> rects]

Cues ==
  {Rects(<<>>), Rects(<<TextLine(2), TextLine(2)>>), Rects(<<TextLine(3), TextLine(2)>>),
   Rects(<<TextLine(0), TextLine(Null), TextLine(1)>>), Rects(<<TextLine(0), [kind |-> "none"]>>),
   Rects(<<TextLine(Unterminated)>>), Rects(<<TextLine(4)>>), Rects(<<TextLine(1), TextLine(1), TextLine(1), TextLine(1)>>),
   Rects(<<Picture(2, 1), [Picture(2, 2) EXCEPT !.palette = Null]>>),
   Rects(<<Picture(2, 2), Picture(3, 1)>>), Rects(<<Picture(3, 2)>>), Rects(<<Picture(2, 0), TextLine(2), Picture(1, 1)>>),
   [Rects(<<TextLine(1)>>) EXCEPT !.table = Null]}

SomeSources == [audio |-> Sounds, subtitle |-> Cues, image |-> Stills]
=============================================================================
