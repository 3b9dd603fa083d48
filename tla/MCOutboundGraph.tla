-------------------------- MODULE MCOutboundGraph --------------------------
(* Instances of OutboundGraph for TLC.                                     *)
EXTENDS OutboundGraph

(* Account 1 has two contacts, account 2 one with the same address as the  *)
(* first account's primary contact, and account 3, if there is one, none.  *)
MCContacts == <<[account |-> 2, email |-> "shared"],
                [account |-> 1, email |-> "shared"],
                [account |-> 1, email |-> "other"]>>
=============================================================================
