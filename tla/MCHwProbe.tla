----------------------------- MODULE MCHwProbe -----------------------------
EXTENDS HwProbe

\* Linux's probe order, with a third backend for a chain of two replays.
ThreeBackends == <<"vaapi", "cuda", "d3d11va">>

\* A shallow codec makes a replay drain it; a deep one does not.
Depths == [b \in Backends |-> IF b = "cuda" THEN 1 ELSE 2]
\* The first three fill the history to its cap; the fourth is over it alone.
Sizes == <<1, 1, 1, 4>>
=============================================================================
