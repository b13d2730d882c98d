---------------------------- MODULE MCDemuxOpen ----------------------------
(***************************************************************************)
(* Containers of at most two streams and two chapters, every one of them a *)
(* variation of a plain stream by one or two of the facts the open judges, *)
(* at, below and above each ceiling.                                       *)
(***************************************************************************)
EXTENDS DemuxOpen

Ceilings ==
  [probe |-> 3, chapters |-> 2, title |-> 3, text |-> 3, parameters |-> 4,
   allParameters |-> 6, attachment |-> 3, allAttachments |-> 4]

Plain ==
  [params |-> TRUE, ruler |-> TRUE, layout |-> "sound", extradata |-> 2, side |-> 0, map |-> 0,
   role |-> "media", picture |-> 0, sound |-> TRUE, text |-> <<0, 0, 1>>]
Font == [Plain EXCEPT !.role = "font", !.text = <<1, 1, 0>>]
Cover == [Plain EXCEPT !.role = "cover", !.extradata = 0, !.picture = 2]

SomeStreams ==
  {Plain, [Plain EXCEPT !.params = FALSE], [Plain EXCEPT !.ruler = FALSE, !.side = 4],
   [Plain EXCEPT !.layout = "opaque"], [Plain EXCEPT !.layout = "broken", !.side = 4],
   [Plain EXCEPT !.extradata = Negative], [Plain EXCEPT !.extradata = 0, !.map = 4],
   [Plain EXCEPT !.side = 2], [Plain EXCEPT !.text = <<NotTerminated, 1, 1>>],
   [Plain EXCEPT !.text = <<1, 1, 1>>],
   Font, [Font EXCEPT !.extradata = 3, !.side = 3], [Font EXCEPT !.extradata = 4],
   [Font EXCEPT !.extradata = 0], [Font EXCEPT !.ruler = FALSE],
   Cover, [Cover EXCEPT !.sound = FALSE, !.picture = 4], [Cover EXCEPT !.picture = 4],
   [Cover EXCEPT !.picture = 0], [Cover EXCEPT !.extradata = 3, !.picture = 3]}

Title(n) == [null |-> FALSE, ruler |-> TRUE, title |-> n]
NoChapter == [null |-> TRUE, ruler |-> FALSE, title |-> 0]
SomeChapters ==
  {<<>>, <<Title(3)>>, <<NoChapter, Title(2)>>, <<Title(2), Title(2)>>,
   <<Title(1), Title(NotTerminated)>>, <<NoChapter, [Title(1) EXCEPT !.ruler = FALSE]>>,
   <<Title(0), Title(0), Title(0)>>}

SomeFiles ==
  {[chapters |-> <<>>, streams |-> <<a, b>>] : a, b \in SomeStreams}
    \cup {[chapters |-> c, streams |-> s] : c \in SomeChapters, s \in {<<>>, <<Cover>>, <<Font>>}}
=============================================================================
