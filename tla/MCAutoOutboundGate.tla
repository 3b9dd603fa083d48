------------------------- MODULE MCAutoOutboundGate -------------------------
(* Instances of AutoOutboundGate for TLC.                                  *)
EXTENDS AutoOutboundGate, TLC

MCOneTarget == <<"email">>

Symmetry == Permutations(Callers)
=============================================================================
