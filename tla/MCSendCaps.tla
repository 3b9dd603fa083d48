----------------------------- MODULE MCSendCaps -----------------------------
(* Instances of SendCaps for TLC.                                          *)
EXTENDS SendCaps, TLC

Symmetry == Permutations(Callers)
=============================================================================
