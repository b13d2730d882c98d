---------------------------- MODULE MCResampler ----------------------------
EXTENDS Resampler

\* No timestamp, one that does not fit, an ordinary one and one near the end.
MCStamps == {NoStamp, OutOfRange, 2, MaxTick - 5}
=============================================================================
