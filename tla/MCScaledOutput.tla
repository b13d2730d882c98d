--------------------------- MODULE MCScaledOutput ---------------------------
(* A stream of two shapes, one of which a request may exceed; requests in and *)
(* out of proportion; ratios that are square, unspecified, or too large once  *)
(* corrected.                                                                 *)
EXTENDS ScaledOutput

TwoShapes == {<<4, 2>>, <<2, 2>>}
FourSizes == {<<2, 1>>, <<2, 2>>, <<1, 2>>, <<0, 1>>}
SomeRatios == {<<1, 1>>, <<2, 1>>, <<0, 1>>}
=============================================================================
