------------------------------ MODULE Campaign ------------------------------
(***************************************************************************)
(* What an outbound run promises about the mails of a batch, whatever the  *)
(* graph behind it does: accounts are taken in order and never come back   *)
(* to, an account's mails climb through the stages, and nothing follows a  *)
(* reply that stopped the account.  OutboundGraph implements it.           *)
(***************************************************************************)
EXTENDS Integers

CONSTANTS NumAccounts, MaxStages

VARIABLES
  account,      \* account being worked on, 0 before the first
  lastStage,    \* highest stage mailed to it, 0 for none
  mails,        \* number of mails sent
  stopped,      \* a reply stopped its sequence
  over          \* the run has ended

vars == <<account, lastStage, mails, stopped, over>>

Init == account = 0 /\ lastStage = 0 /\ mails = 0 /\ stopped = FALSE /\ over = FALSE

NextAccount ==
  /\ ~over
  /\ account < NumAccounts
  /\ account' = account + 1
  /\ lastStage' = 0 /\ stopped' = FALSE
  /\ UNCHANGED <<mails, over>>

(* One mail, of a higher stage.  The run may fail in the very step that    *)
(* sends.                                                                  *)
SendStage ==
  /\ ~over /\ ~stopped /\ account > 0
  /\ lastStage' \in lastStage + 1 .. MaxStages
  /\ mails' = mails + 1
  /\ over' \in BOOLEAN
  /\ UNCHANGED <<account, stopped>>

StopOnReply ==
  /\ ~over /\ account > 0
  /\ stopped' = TRUE
  /\ UNCHANGED <<account, lastStage, mails, over>>

Finish ==
  /\ ~over
  /\ over' = TRUE
  /\ UNCHANGED <<account, lastStage, mails, stopped>>

Next == NextAccount \/ SendStage \/ StopOnReply \/ Finish

Spec == Init /\ [][Next]_vars
=============================================================================
