-------------------------- MODULE MCWebCodecsAudio --------------------------
EXTENDS WebCodecsAudio

\* A packet that is whole or over its cap, an empty one, and another of the
\* first one's size, so that only their order can tell the two apart.
ThreeSizes ==
  [id \in 0 .. MaxPackets |-> CASE id = 0 -> {2, 3} [] id = 1 -> {0} [] OTHER -> {2}]
=============================================================================
