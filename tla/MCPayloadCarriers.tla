-------------------------- MODULE MCPayloadCarriers --------------------------
(* Small packets for TLC.  A caller's has room behind its bytes, or ends past *)
(* its buffer; libavformat's has its padding, has none, is over the budget,   *)
(* or has no body.                                                            *)
EXTENDS PayloadCarriers, TLC

Shape(size, off, len) == [size |-> size, off |-> off, len |-> len]
OfCallers == {Shape(2, 0, 1), Shape(1, 1, 1)}
OfFiles == {Shape(2, 0, 1), Shape(1, 0, 1), Shape(4, 0, 3), Shape(1, 0, 0)}

\* Which handle holds a reference makes no difference.
AnyHandle == Permutations(Handles)
=============================================================================
