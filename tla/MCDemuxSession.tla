--------------------------- MODULE MCDemuxSession ---------------------------
EXTENDS DemuxSession

\* Two timed tracks, an attachment and a track of unknown kind.
Rows == 0 .. 3
Kinds == [t \in Rows |-> CASE t = 2 -> "attachment" [] t = 3 -> "unknown" [] OTHER -> "timed"]
Queued == <<2>>

Pkt(t, p, d, b) == [what |-> "packet", stream |-> t, pts |-> p, dur |-> d, body |-> b]

\* Every kind of item the loop tells apart; stream 7 has no row.
Wire ==
  {Pkt(0, 1, 1, "payload"), Pkt(0, 3, 0, "payload"), Pkt(0, NoPts, 2, "payload"),
   Pkt(1, 3, 3, "payload"), Pkt(1, 2, 2, "empty"), Pkt(1, 1, 1, "bad"),
   Pkt(2, 0, 0, "payload"), Pkt(3, 0, 0, "payload"), Pkt(7, 0, 0, "payload"),
   [what |-> "damaged"], [what |-> "fatal"]}

\* All files of up to two items, and the files of three that mix what matters to the walk.
Longer == {Pkt(0, 1, 1, "payload"), Pkt(1, 3, 3, "payload"), Pkt(1, 2, 2, "payload"),
           Pkt(1, 1, 1, "bad"), [what |-> "damaged"]}
SomeFiles == UNION {[1 .. n -> Wire] : n \in 0 .. 2} \cup [1 .. 3 -> Longer]
=============================================================================
