---------------------------- MODULE MCThreadLock ----------------------------
(* Instances of ThreadLock for TLC.                                        *)
EXTENDS ThreadLock, TLC

Symmetry == Permutations(Jobs)
=============================================================================
