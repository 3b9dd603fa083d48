---------------------------- MODULE MCKillSwitch ----------------------------
(* Two people whose commands meet, and a gate or a status that asks.       *)
EXTENDS KillSwitch, TLC

PeopleAlike == Permutations(People)
=============================================================================
