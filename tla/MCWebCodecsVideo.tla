-------------------------- MODULE MCWebCodecsVideo --------------------------
EXTENDS WebCodecsVideo

\* Packets of two sizes, the smaller one last: an account settled with another
\* packet's size shows.
TwoSizes == [id \in 0 .. MaxPackets |-> IF id = 2 THEN {1} ELSE {2}]
=============================================================================
