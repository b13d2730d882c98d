--------------------------- MODULE MCVideoStream ---------------------------
EXTENDS FfmpegVideoStream

\* The hardware gives a picture back late, software at once.
HwDeep == [b \in Backends |-> IF b = "hw" THEN 2 ELSE 1]
\* The other way round.
SwDeep == [b \in Backends |-> IF b = "sw" THEN 2 ELSE 1]
=============================================================================
