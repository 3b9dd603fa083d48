------------------------- MODULE OutboundGraphProofs -------------------------
(***************************************************************************)
(* Theorems about OutboundGraph, for every batch, list of contacts, number *)
(* of stages and retries, and every set of answers of the approval tool.   *)
(***************************************************************************)
EXTENDS OutboundGraph, SequenceTheorems, WellFoundedInduction, TLAPS

(* The primary contact of an account is one of its contacts.               *)
LEMMA PrimaryContactOwn ==
  ASSUME NEW a \in Account
  PROVE  /\ PrimaryContact(a) \in ContactId \cup {None}
         /\ PrimaryContact(a) # None => Contacts[PrimaryContact(a)].account = a
<1> DEFINE own == {c \in ContactId : Contacts[c].account = a}
<1>1. CASE own = {}
  BY <1>1 DEF PrimaryContact, None
<1>2. CASE own # {}
  <2>1. own \subseteq Nat
    BY OutboundAssumption DEF OutboundAssumption, ContactId
  <2>2. \E c \in own : \A d \in own : ~(<<d, c>> \in OpToRel(<, Nat))
    BY <1>2, <2>1, NatLessThanWellFounded, WFMin
  <2>3. \A c, d \in Nat : d < c => <<d, c>> \in OpToRel(<, Nat)
    BY DEF OpToRel
  <2>4. \E c \in own : \A d \in own : c <= d
    <3> HIDE DEF own
    <3>1. PICK c \in own : \A d \in own : ~(<<d, c>> \in OpToRel(<, Nat))
      BY <2>2
    <3>2. \A d \in own : ~(d < c)
      BY <2>1, <2>3, <3>1
    <3> QED BY <2>1, <3>2
  <2>5. PrimaryContact(a) \in own
    BY <1>2, <2>4 DEF PrimaryContact
  <2> QED BY <2>5
<1> QED BY <1>1, <1>2
-----------------------------------------------------------------------------
(* What the nodes may take for granted when the graph reaches them.        *)
Researched == {"personaliser", "approval_gate", "sender", "reply_monitor", "router"}
Working == Researched \cup {"researcher", "enrichment_retry"}

GraphInv ==
  /\ node \in Nodes \ {"account_selector"} => current \in Account
  /\ node = "account_selector" => current < NumAccounts
  /\ contact # None => Contacts[contact].account = current
  /\ node \in Researched => enrichment = current
  /\ node \in {"approval_gate", "sender"} =>
       draft = [account |-> current, contact |-> contact, stage |-> stage,
                research |-> current]
  /\ node = "sender" => draft \in approved

(* Every superstep, and every answer of a prospect, keeps it.              *)
LEMMA GraphInvInductive ==
  ASSUME TypeOK, GraphInv, [Next]_vars
  PROVE  GraphInv'
<1> USE OutboundAssumption
    DEF OutboundAssumption, TypeOK, ControlOK, RecordOK, HistoryOK, GraphInv, Nodes, Researched, Account, None,
        Superstep, control, record, history
<1>1. CASE AccountSelector
  <2>1. current + 1 \in Account
    BY <1>1 DEF AccountSelector
  <2> QED BY <1>1, <2>1, PrimaryContactOwn DEF AccountSelector
<1>2. CASE ResearchSucceeds BY <1>2 DEF ResearchSucceeds, AfterResearcher
<1>3. CASE ResearchFails BY <1>3 DEF ResearchFails, AfterResearcher
<1>4. CASE EnrichmentRetry BY <1>4 DEF EnrichmentRetry
<1>5. CASE Personaliser BY <1>5 DEF Personaliser
<1>6. CASE PersonaliserRaises BY <1>6 DEF PersonaliserRaises, Raise
<1>7. CASE ApprovalGate BY <1>7 DEF ApprovalGate, AfterApprovalGate
<1>8. CASE ApprovalGateRaises BY <1>8 DEF ApprovalGateRaises, Raise
<1>9. CASE SenderDelivers BY <1>9 DEF SenderDelivers, Mail, Row
<1>10. CASE SenderSkips \/ SenderRefused BY <1>10 DEF SenderSkips, SenderRefused
<1>11. CASE SenderRaises BY <1>11 DEF SenderRaises, Raise, Mail, Row
<1>12. CASE ReplyMonitor BY <1>12 DEF ReplyMonitor
<1>13. CASE ReplyMonitorRaises BY <1>13 DEF ReplyMonitorRaises, Raise
<1>14. CASE Router BY <1>14 DEF Router, AfterRouter, StopSequence, NextStage, LastStage
<1>15. CASE NotifySales BY <1>15 DEF NotifySales
<1>16. CASE UnsubscribeHandler BY <1>16 DEF UnsubscribeHandler, Row
<1>17. CASE MemoryUpdater BY <1>17 DEF MemoryUpdater, AfterMemoryUpdater
<1>18. CASE RecursionError BY <1>18 DEF RecursionError
<1>19. CASE Answer BY <1>19 DEF Answer
<1>20. CASE UNCHANGED vars BY <1>20 DEF vars, control, record, history
<1> QED
  BY <1>1, <1>2, <1>3, <1>4, <1>5, <1>6, <1>7, <1>8, <1>9, <1>10, <1>11, <1>12, <1>13,
     <1>14, <1>15, <1>16, <1>17, <1>18, <1>19, <1>20 DEF Next, GraphStep

(* The constants of the size of the run are natural numbers.               *)
LEMMA Sizes ==
  /\ NumAccounts \in Nat \ {0} /\ MaxStages \in Nat \ {0}
  /\ MaxRetries \in Nat /\ RecursionLimit \in Nat
  BY OutboundAssumption DEF OutboundAssumption

(* The control state of the run keeps its type, action by action.          *)
LEMMA ControlInductive ==
  ASSUME TypeOK, GraphInv, [Next]_vars
  PROVE  ControlOK'
<1> USE Sizes
    DEF TypeOK, GraphInv, Nodes, Terminal, Account, None,
        Superstep, control, record, history, Intents, NoReply, Stage
<1>1. CASE AccountSelector
  <2>1. current + 1 \in Account
    BY <1>1 DEF AccountSelector, ControlOK
  <2>2. PrimaryContact(current + 1) \in ContactId \cup {None}
    BY <2>1, PrimaryContactOwn
  <2>3. ~(current + 1 > NumAccounts)
    BY <2>1
  <2>4. /\ current' = current + 1 /\ contact' = PrimaryContact(current + 1)
        /\ stage' = 1 /\ retries' = 0 /\ enrichment' = None /\ draft' = NoDraft
        /\ approval' = "none" /\ reply' = NoReply
    BY <1>1, <2>3 DEF AccountSelector
  <2>6. error' \in BOOLEAN /\ continue' \in BOOLEAN
    BY <1>1, <2>3 DEF AccountSelector
  <2>5. steps' \in 0..RecursionLimit /\ node' \in Nodes
    BY <1>1 DEF AccountSelector, ControlOK
  <2> QED BY <2>1, <2>2, <2>4, <2>5, <2>6 DEF ControlOK, NoDraft
<1>2. CASE ResearchSucceeds BY <1>2 DEF ResearchSucceeds, AfterResearcher, ControlOK
<1>3. CASE ResearchFails BY <1>3 DEF ResearchFails, AfterResearcher, ControlOK
<1>4. CASE EnrichmentRetry
  <2>1. retries' \in 0..MaxRetries
    BY <1>4 DEF EnrichmentRetry, ControlOK
  <2>2. error' \in BOOLEAN /\ continue' \in BOOLEAN
    BY <1>4 DEF EnrichmentRetry, ControlOK
  <2>3. steps' \in 0..RecursionLimit /\ node' \in Nodes
    BY <1>4 DEF EnrichmentRetry, ControlOK
  <2> QED BY <1>4, <2>1, <2>2, <2>3 DEF EnrichmentRetry, ControlOK
<1>5. CASE Personaliser
  <2>1. draft' \in Drafts
    BY <1>5 DEF Personaliser, Drafts, Researched, ControlOK
  <2> QED BY <1>5, <2>1 DEF Personaliser, ControlOK
<1>6. CASE PersonaliserRaises BY <1>6 DEF PersonaliserRaises, Raise, ControlOK
<1>7. CASE ApprovalGate
  BY <1>7 DEF ApprovalGate, AfterApprovalGate, ControlOK
<1>8. CASE ApprovalGateRaises BY <1>8 DEF ApprovalGateRaises, Raise, ControlOK
<1>9. CASE SenderDelivers BY <1>9 DEF SenderDelivers, ControlOK
<1>10. CASE SenderSkips \/ SenderRefused
  <2>1. error' = TRUE /\ node' \in Nodes /\ steps' \in 0..RecursionLimit
    BY <1>10 DEF SenderSkips, SenderRefused, ControlOK
  <2>2. UNCHANGED <<current, retries, contact, stage, enrichment, draft, approval,
                    reply, continue>>
    BY <1>10 DEF SenderSkips, SenderRefused
  <2> QED BY <2>1, <2>2 DEF ControlOK
<1>11. CASE SenderRaises BY <1>11 DEF SenderRaises, Raise, ControlOK
<1>12. CASE ReplyMonitor
  <2>1. reply' \in Intents \cup {NoReply}
    BY <1>12 DEF ReplyMonitor, ControlOK, RecordOK, Emails
  <2> QED BY <1>12, <2>1 DEF ReplyMonitor, ControlOK
<1>13. CASE ReplyMonitorRaises BY <1>13 DEF ReplyMonitorRaises, Raise, ControlOK
<1>14. CASE Router
  <2>1. stage' \in Stage /\ reply' \in Intents \cup {NoReply}
    BY <1>14 DEF Router, StopSequence, NextStage, LastStage, ControlOK
  <2>2. continue' \in BOOLEAN
    BY <1>14 DEF Router, StopSequence, NextStage, LastStage
  <2>3. node' \in Nodes
    BY <1>14 DEF Router, AfterRouter
  <2>4. steps' \in 0..RecursionLimit
    BY <1>14 DEF Router, ControlOK
  <2> QED BY <1>14, <2>1, <2>2, <2>3, <2>4 DEF Router, ControlOK
<1>15. CASE NotifySales BY <1>15 DEF NotifySales, ControlOK
<1>16. CASE UnsubscribeHandler
  <2>1. continue' \in BOOLEAN
    BY <1>16 DEF UnsubscribeHandler
  <2>2. steps' \in 0..RecursionLimit /\ node' \in Nodes
    BY <1>16 DEF UnsubscribeHandler, ControlOK
  <2>3. UNCHANGED <<current, retries, contact, stage, enrichment, draft, approval,
                    reply, error>>
    BY <1>16 DEF UnsubscribeHandler
  <2> QED BY <2>1, <2>2, <2>3 DEF ControlOK
<1>17. CASE MemoryUpdater
  <2>1. node' \in Nodes \cup Terminal
    BY <1>17 DEF MemoryUpdater, AfterMemoryUpdater
  <2>2. error' \in BOOLEAN /\ continue' \in BOOLEAN
    BY <1>17 DEF MemoryUpdater
  <2>3. /\ contact' = None /\ enrichment' = None /\ draft' = NoDraft
        /\ approval' = "none" /\ reply' = NoReply
        /\ steps' \in 0..RecursionLimit /\ UNCHANGED <<current, retries, stage>>
    BY <1>17 DEF MemoryUpdater, ControlOK
  <2> QED BY <2>1, <2>2, <2>3 DEF ControlOK, NoDraft
<1>18. CASE RecursionError BY <1>18 DEF RecursionError, ControlOK
<1>19. CASE Answer BY <1>19 DEF Answer, ControlOK
<1>20. CASE UNCHANGED vars BY <1>20 DEF vars, ControlOK
<1> QED
  BY <1>1, <1>2, <1>3, <1>4, <1>5, <1>6, <1>7, <1>8, <1>9, <1>10, <1>11, <1>12, <1>13,
     <1>14, <1>15, <1>16, <1>17, <1>18, <1>19, <1>20 DEF Next, GraphStep

(* The history variables keep their types.                                 *)
LEMMA HistoryInductive ==
  ASSUME TypeOK, GraphInv, [Next]_vars
  PROVE  HistoryOK'
<1> USE DEF TypeOK, GraphInv, HistoryOK, Nodes, Account, Superstep, control, record, history
<1>4. CASE EnrichmentRetry
  <2>1. current \in Account
    BY <1>4 DEF EnrichmentRetry
  <2>2. gaveUp' \in {gaveUp, gaveUp \cup {current}} /\ UNCHANGED <<approved, halted>>
    BY <1>4 DEF EnrichmentRetry
  <2> HIDE DEF Account
  <2> QED BY <2>1, <2>2
<1>7. CASE ApprovalGate
  BY <1>7 DEF ApprovalGate, ControlOK, Drafts, NoDraft, Researched, None, Stage
<1>12. CASE ReplyMonitor BY <1>12 DEF ReplyMonitor
<1>14. CASE Router BY <1>14 DEF Router, StopSequence, NextStage, LastStage
<1>15. CASE UNCHANGED history BY <1>15
<1> QED
  BY <1>4, <1>7, <1>12, <1>14, <1>15
  DEF Next, GraphStep, AccountSelector, ResearchSucceeds, ResearchFails, Personaliser,
      PersonaliserRaises, ApprovalGateRaises, SenderDelivers, SenderSkips, SenderRefused,
      SenderRaises, ReplyMonitorRaises, NotifySales, UnsubscribeHandler, MemoryUpdater, RecursionError,
      Answer, Raise, vars

(* What sender appends to the records is well formed.                      *)
LEMMA MailTyped ==
  ASSUME TypeOK, GraphInv, node = "sender", contact # None
  PROVE  /\ Mail \in Mails
         /\ \A status \in {"draft", "sent", "unsubscribed"} : Row(status) \in Rows
  BY DEF TypeOK, ControlOK, GraphInv, Mail, Mails, Row, Rows, Drafts, Nodes, Researched, None

(* The message list, the rows, the outbox and the inbox keep their types.  *)
LEMMA RecordInductive ==
  ASSUME TypeOK, GraphInv, [Next]_vars
  PROVE  RecordOK'
<1> USE DEF TypeOK, RecordOK, Superstep, control, record, history
<1>9. CASE SenderDelivers
  <2>1. /\ Mail \in Mails /\ Row("draft") \in Rows /\ Row("sent") \in Rows
        /\ outbox' = Append(outbox, Mail) /\ messages' = Append(messages, Row("sent"))
        /\ rows' = rows \cup {Row("draft")} /\ UNCHANGED <<unconfirmed, inbox>>
    BY <1>9, MailTyped DEF SenderDelivers
  <2> QED BY <2>1
<1>11. CASE SenderRaises \/ SenderRefused
  <2>1. Mail \in Mails /\ Row("draft") \in Rows
    BY <1>11, MailTyped DEF SenderRaises, SenderRefused, Raise
  <2>2. /\ \/ UNCHANGED <<outbox, unconfirmed>>
           \/ outbox' = Append(outbox, Mail) /\ unconfirmed' = unconfirmed \cup {Len(outbox) + 1}
        /\ rows' \in {rows, rows \cup {Row("draft")}}
        /\ UNCHANGED <<messages, inbox>>
    BY <1>11 DEF SenderRaises, SenderRefused, LeavesUnconfirmed, Raise
  <2>3. outbox' \in Seq(Mails) /\ unconfirmed' \subseteq DOMAIN outbox'
    <3>1. CASE UNCHANGED <<outbox, unconfirmed>>
      BY <3>1
    <3>2. CASE outbox' = Append(outbox, Mail) /\ unconfirmed' = unconfirmed \cup {Len(outbox) + 1}
      <4>1. /\ outbox' \in Seq(Mails) /\ Len(outbox) \in Nat
            /\ DOMAIN outbox = 1..Len(outbox) /\ DOMAIN outbox' = 1..(Len(outbox) + 1)
        BY <2>1, <3>2
      <4>2. unconfirmed \subseteq DOMAIN outbox
        OBVIOUS
      <4> QED BY <3>2, <4>1, <4>2
    <3> QED BY <2>2, <3>1, <3>2
  <2>4. rows' \subseteq Rows
    BY <2>1, <2>2
  <2> QED BY <2>2, <2>3, <2>4
<1>16. CASE UnsubscribeHandler
  BY <1>16 DEF UnsubscribeHandler, Rows
<1>19. CASE Answer
  <2>1. UNCHANGED record /\ \E e, i : i \in Intents /\ inbox' = [inbox EXCEPT ![e] = i]
    BY <1>19 DEF Answer
  <2>2. inbox' \in [Emails -> Intents \cup {NoReply}]
    BY <2>1
  <2> QED BY <2>1, <2>2
<1>20. CASE UNCHANGED <<record, inbox>> BY <1>20
<1> QED
  BY <1>9, <1>11, <1>16, <1>19, <1>20
  DEF Next, GraphStep, AccountSelector, ResearchSucceeds, ResearchFails, EnrichmentRetry,
      Personaliser, PersonaliserRaises, ApprovalGate, ApprovalGateRaises, SenderSkips,
      SenderRefused, ReplyMonitor, ReplyMonitorRaises, Router, NotifySales, MemoryUpdater,
      RecursionError, Raise, vars

GraphTypes == TypeOK /\ GraphInv

(* Types and GraphInv together hold in every run.                          *)
LEMMA GraphTypesHold == Spec => []GraphTypes
<1>1. Init => GraphTypes
  <2> SUFFICES ASSUME Init PROVE GraphTypes
    OBVIOUS
  <2> USE Sizes DEF Init
  <2>1. ControlOK
    <3>1. error \in BOOLEAN /\ continue \in BOOLEAN
      OBVIOUS
    <3>2. /\ node \in Nodes \cup Terminal
          /\ current \in Account \cup {None} /\ enrichment \in Account \cup {None}
          /\ contact \in ContactId \cup {None} /\ stage \in Stage
          /\ retries \in 0..MaxRetries /\ steps \in 0..RecursionLimit
          /\ draft \in Drafts \cup {NoDraft}
          /\ approval \in ApprovalResults \cup {"none"}
          /\ reply \in Intents \cup {NoReply}
      BY DEF Nodes, Stage
    <3> QED BY <3>1, <3>2 DEF ControlOK
  <2>2. RecordOK /\ HistoryOK
    BY DEF RecordOK, HistoryOK
  <2>3. GraphInv
    BY DEF GraphInv, Researched, None
  <2> QED BY <2>1, <2>2, <2>3 DEF GraphTypes, TypeOK
<1>2. GraphTypes /\ [Next]_vars => GraphTypes'
  BY GraphInvInductive, ControlInductive, RecordInductive, HistoryInductive
  DEF GraphTypes, TypeOK
<1> QED BY <1>1, <1>2, PTL DEF Spec

(* The type invariant of OutboundGraph.                                    *)
THEOREM TypeCorrect == Spec => []TypeOK
<1>1. GraphTypes => TypeOK
  BY DEF GraphTypes
<1> QED BY <1>1, GraphTypesHold, PTL
-----------------------------------------------------------------------------
(* How a step can change what the mail properties speak of: only sender    *)
(* mails, and only for the contact and stage the run is at.                *)
Sends ==
  /\ node = "sender" /\ contact # None
  /\ outbox' = Append(outbox, Mail)
  /\ node' \in {"reply_monitor", "crashed"}
  /\ UNCHANGED <<current, stage, approved, halted>>

(* Every step sends in this way or mails nothing.                          *)
LEMMA OutboxSteps ==
  ASSUME [Next]_vars
  PROVE  UNCHANGED outbox \/ Sends
<1> USE DEF Superstep, Raise, record, history, control
<1>1. CASE SenderDelivers BY <1>1 DEF SenderDelivers, Sends
<1>2. CASE SenderRaises \/ SenderRefused
  BY <1>2 DEF SenderRaises, SenderRefused, LeavesUnconfirmed, Sends
<1>3. CASE UNCHANGED outbox BY <1>3
<1> QED
  BY <1>1, <1>2, <1>3
  DEF Next, GraphStep, AccountSelector, ResearchSucceeds, ResearchFails, EnrichmentRetry,
      Personaliser, PersonaliserRaises, ApprovalGate, ApprovalGateRaises, SenderSkips,
      SenderRefused, ReplyMonitor, ReplyMonitorRaises, Router, NotifySales, UnsubscribeHandler,
      MemoryUpdater, RecursionError, Answer, vars

(* An approval is never taken back.                                        *)
LEMMA ApprovedGrows ==
  ASSUME [Next]_vars
  PROVE  approved \subseteq approved'
<1> USE DEF Superstep, Raise, record, history, control
<1>1. CASE ApprovalGate BY <1>1 DEF ApprovalGate
<1>2. CASE UNCHANGED approved BY <1>2
<1> QED
  BY <1>1, <1>2
  DEF Next, GraphStep, AccountSelector, ResearchSucceeds, ResearchFails, EnrichmentRetry,
      Personaliser, PersonaliserRaises, ApprovalGateRaises, SenderDelivers, SenderSkips,
      SenderRefused, SenderRaises, ReplyMonitor, ReplyMonitorRaises, Router, NotifySales,
      UnsubscribeHandler, MemoryUpdater, RecursionError, Answer, vars

(* A mail that left earlier keeps its place; a new one is last.            *)
LEMMA SendsAppends ==
  ASSUME TypeOK, Sends
  PROVE  /\ Len(outbox') = Len(outbox) + 1
         /\ outbox'[Len(outbox')] = Mail
         /\ \A i \in DOMAIN outbox' :
              i = Len(outbox') \/ (i \in DOMAIN outbox /\ outbox'[i] = outbox[i])
  BY DEF TypeOK, RecordOK, Sends

(* Whatever the batch, the contacts and the approval tool: every mail is   *)
(* word for word an approved draft, written for this account, contact and  *)
(* stage from this account's own research.                                 *)
THEOREM MailsWereApproved == Spec => []MailMatchesApprovedDraft
<1>1. Init => MailMatchesApprovedDraft
  BY DEF Init, MailMatchesApprovedDraft
<1>2. GraphTypes /\ MailMatchesApprovedDraft /\ [Next]_vars => MailMatchesApprovedDraft'
  <2> SUFFICES ASSUME GraphTypes, MailMatchesApprovedDraft, [Next]_vars
               PROVE  MailMatchesApprovedDraft'
    OBVIOUS
  <2>1. approved \subseteq approved'
    BY ApprovedGrows
  <2>2. CASE UNCHANGED outbox
    BY <2>1, <2>2 DEF MailMatchesApprovedDraft
  <2>3. CASE Sends
    <3>1. /\ Mail.draft \in approved
          /\ Mail.draft = [account |-> Mail.account, contact |-> Mail.contact,
                           stage |-> Mail.stage, research |-> Mail.account]
          /\ Contacts[Mail.contact].account = Mail.account
      BY <2>3 DEF Sends, Mail, GraphTypes, GraphInv
    <3> HIDE DEF Mail
    <3> QED
      BY <2>1, <2>3, <3>1, SendsAppends DEF MailMatchesApprovedDraft, GraphTypes
  <2> QED BY <2>2, <2>3, OutboxSteps
<1> QED BY <1>1, <1>2, GraphTypesHold, PTL DEF Spec
-----------------------------------------------------------------------------
(* A reply that stops an account is final: the run is done with it, or on  *)
(* its way from router to memory_updater.                                  *)
HaltInv ==
  /\ \A a \in halted : a <= current
  /\ node \in Working => current \notin halted

(* Every step keeps it: the router leads a stopped account out of the      *)
(* sequence, and account_selector never goes back.                         *)
LEMMA HaltInvInductive ==
  ASSUME GraphTypes, HaltInv, [Next]_vars
  PROVE  HaltInv'
<1> USE Sizes
    DEF GraphTypes, TypeOK, ControlOK, HistoryOK, GraphInv, HaltInv, Working, Researched,
        Nodes, Terminal, Account, None, Superstep, Raise, control, record, history
<1>1. CASE AccountSelector
  <2>1. current' = current + 1 /\ halted' = halted
    BY <1>1 DEF AccountSelector
  <2> QED BY <2>1
<1>2. CASE Router
  <2>1. CASE StopSequence
    <3>1. /\ node' \in {"notify_sales", "unsubscribe_handler", "memory_updater"}
          /\ halted' = halted \cup {current} /\ current' = current
      BY <1>2, <2>1 DEF Router, StopSequence, AfterRouter
    <3>2. current \in Int
      OBVIOUS
    <3>3. \A a \in halted' : a <= current'
      <4>1. \A a \in halted : a <= current
        OBVIOUS
      <4>2. current <= current
        BY <3>2
      <4> QED BY <3>1, <4>1, <4>2
    <3>4. node' \notin Working
      BY <3>1
    <3> HIDE DEF Working
    <3> QED BY <3>3, <3>4 DEF HaltInv
  <2>2. CASE NextStage \/ LastStage
    <3>1. /\ node' \in {"personaliser", "memory_updater", "notify_sales",
                        "unsubscribe_handler"}
          /\ UNCHANGED <<halted, current>>
      BY <1>2, <2>2 DEF Router, NextStage, LastStage, AfterRouter
    <3> QED BY <1>2, <3>1 DEF Router
  <2> QED BY <1>2, <2>1, <2>2 DEF Router
<1>3. CASE MemoryUpdater
  BY <1>3 DEF MemoryUpdater, AfterMemoryUpdater
<1>4. CASE ResearchSucceeds \/ ResearchFails \/ EnrichmentRetry
  BY <1>4 DEF ResearchSucceeds, ResearchFails, EnrichmentRetry, AfterResearcher
<1>5. CASE Personaliser \/ PersonaliserRaises \/ ApprovalGate \/ ApprovalGateRaises
  BY <1>5 DEF Personaliser, PersonaliserRaises, ApprovalGate, ApprovalGateRaises,
              AfterApprovalGate
<1>6. CASE \/ SenderDelivers \/ SenderSkips \/ SenderRefused \/ SenderRaises
           \/ ReplyMonitor \/ ReplyMonitorRaises
  BY <1>6 DEF SenderDelivers, SenderSkips, SenderRefused, SenderRaises, ReplyMonitor,
              ReplyMonitorRaises
<1>7. CASE NotifySales \/ UnsubscribeHandler \/ RecursionError
  BY <1>7 DEF NotifySales, UnsubscribeHandler, RecursionError
<1>8. CASE Answer BY <1>8 DEF Answer
<1>9. CASE UNCHANGED vars BY <1>9 DEF vars
<1> QED
  BY <1>1, <1>2, <1>3, <1>4, <1>5, <1>6, <1>7, <1>8, <1>9 DEF Next, GraphStep

(* ... so it holds in every run.                                           *)
LEMMA HaltInvHolds == Spec => []HaltInv
<1>1. Init => HaltInv
  BY DEF Init, HaltInv, Working, Researched
<1>2. GraphTypes /\ HaltInv /\ [Next]_vars => HaltInv'
  BY HaltInvInductive
<1> QED BY <1>1, <1>2, GraphTypesHold, PTL DEF Spec

(* Whatever replies arrive and when: once the router has acted on one that *)
(* stops the account, sender mails nothing more for it.                    *)
THEOREM RepliesAreFinal == Spec => NoMailAfterReply
<1>1. HaltInv /\ [Next]_vars => [outbox' # outbox => current \notin halted]_vars
  BY OutboxSteps DEF HaltInv, Sends, Working, Researched
<1> QED BY <1>1, HaltInvHolds, PTL DEF Spec, NoMailAfterReply
-----------------------------------------------------------------------------
(* How far the mails of the current account have come when node runs.      *)
MailedBelow(s) ==
  \A i \in DOMAIN outbox : outbox[i].account = current => outbox[i].stage < s

(* Where each mail of the batch stands relative to the run.                *)
OrderInv ==
  /\ \A i \in DOMAIN outbox : outbox[i].account <= current
  /\ node \in Working \ {"reply_monitor", "router"} => MailedBelow(stage)
  /\ node \in {"reply_monitor", "router"} => MailedBelow(stage + 1)
  /\ node \in {"researcher", "enrichment_retry"} => MailedBelow(1)
  /\ MailsInOrder

(* Accounts and stages of mails are integers.                              *)
LEMMA MailsTyped ==
  ASSUME GraphTypes
  PROVE  \A i \in DOMAIN outbox : outbox[i].account \in Int /\ outbox[i].stage \in Int
<1>1. \A i \in DOMAIN outbox : outbox[i] \in Mails
  BY DEF GraphTypes, TypeOK, RecordOK
<1>2. \A m \in Mails : m.account \in Int /\ m.stage \in Int
  BY Sizes DEF Mails, Account, Stage
<1> QED BY <1>1, <1>2

(* The new mail is of the current account, at a stage above all its others.*)
LEMMA SendsKeepsOrder ==
  ASSUME GraphTypes, OrderInv, Sends
  PROVE  OrderInv'
<1>1. /\ node' \in {"reply_monitor", "crashed"} /\ current' = current /\ stage' = stage
      /\ Mail.account = current /\ Mail.stage = stage
      /\ current \in Int /\ stage \in Int
  BY Sizes DEF Sends, Mail, GraphTypes, TypeOK, ControlOK, Account, Stage, None
<1>2. \A i \in DOMAIN outbox : outbox[i].account \in Int /\ outbox[i].stage \in Int
  BY MailsTyped
<1>3. \A i \in DOMAIN outbox : /\ outbox[i].account <= current
                               /\ outbox[i].account = current => outbox[i].stage < stage
  BY DEF Sends, OrderInv, MailedBelow, Working, Researched
<1>4. /\ Len(outbox) \in Nat /\ DOMAIN outbox = 1..Len(outbox)
      /\ DOMAIN outbox' = 1..Len(outbox')
      /\ Len(outbox') = Len(outbox) + 1
      /\ outbox'[Len(outbox')] = Mail
      /\ \A i \in DOMAIN outbox' :
           i = Len(outbox') \/ (i \in DOMAIN outbox /\ outbox'[i] = outbox[i])
  BY SendsAppends DEF GraphTypes, TypeOK, RecordOK, Sends
<1> HIDE DEF Mail
<1>5. \A i \in DOMAIN outbox' : /\ outbox'[i].account <= current
                                /\ outbox'[i].account = current => outbox'[i].stage < stage + 1
  BY <1>1, <1>2, <1>3, <1>4
<1>6. MailsInOrder'
  <2> SUFFICES ASSUME NEW i \in DOMAIN outbox', NEW j \in DOMAIN outbox', i < j
               PROVE  Before(outbox'[i], outbox'[j])
    BY DEF MailsInOrder
  <2>1. i \in DOMAIN outbox /\ outbox'[i] = outbox[i]
    BY <1>4
  <2>2. CASE j = Len(outbox')
    <3>1. outbox'[j].account = current /\ outbox'[j].stage = stage
      BY <1>1, <1>4, <2>2
    <3>2. /\ outbox[i].account \in Int /\ outbox[i].account <= current
          /\ outbox[i].account = current => outbox[i].stage < stage
      BY <1>2, <1>3, <2>1
    <3>3. \/ outbox[i].account < current
          \/ outbox[i].account = current /\ outbox[i].stage < stage
      BY <1>1, <3>2
    <3> QED BY <2>1, <3>1, <3>3 DEF Before
  <2>3. CASE j \in DOMAIN outbox /\ outbox'[j] = outbox[j]
    BY <2>1, <2>3 DEF OrderInv, MailsInOrder
  <2> QED BY <1>4, <2>2, <2>3
<1>7. \A i \in DOMAIN outbox' : outbox'[i].account <= current'
  BY <1>1, <1>5
<1>8. \A i \in DOMAIN outbox' : outbox'[i].account = current' => outbox'[i].stage < stage' + 1
  BY <1>1, <1>5
<1>9. node' \notin Working \ {"reply_monitor", "router"}
  BY <1>1 DEF Working, Researched
<1> QED
  BY <1>6, <1>7, <1>8, <1>9 DEF OrderInv, MailedBelow, Working, Researched

(* A step that mails nothing moves the account or the stage forward only.  *)
LEMMA OrderInvInductive ==
  ASSUME GraphTypes, OrderInv, [Next]_vars
  PROVE  OrderInv'
<1>1. CASE Sends BY <1>1, SendsKeepsOrder
<1>2. CASE UNCHANGED outbox
  <2>1. MailsInOrder'
    BY <1>2 DEF OrderInv, MailsInOrder
  <2>2. \A i \in DOMAIN outbox : outbox[i].account \in Int /\ outbox[i].stage \in Int
    BY MailsTyped
  <2>3. current \in Int /\ stage \in Int
    BY Sizes DEF GraphTypes, TypeOK, ControlOK, Account, Stage, None
  <2> USE <1>2, <2>1, <2>2, <2>3
      DEF GraphTypes, GraphInv, OrderInv, MailedBelow, Working, Researched,
          Nodes, Terminal, Superstep, Raise, control, record, history
  <2>4. CASE AccountSelector
    <3>1. current' = current + 1 /\ node' = "researcher"
      BY <2>4, Sizes DEF AccountSelector
    <3> QED BY <3>1
  <2>5. CASE Router
    <3>1. \/ stage' = stage + 1
          \/ node' \in {"notify_sales", "unsubscribe_handler", "memory_updater"}
      BY <2>5 DEF Router, StopSequence, NextStage, LastStage, AfterRouter
    <3>2. node' \in {"personaliser", "notify_sales", "unsubscribe_handler", "memory_updater"}
      BY <2>5 DEF Router, AfterRouter
    <3>3. current' = current /\ MailedBelow(stage + 1)
      BY <2>5 DEF Router
    <3> QED BY <3>1, <3>2, <3>3
  <2>6. CASE MemoryUpdater
    BY <2>6 DEF MemoryUpdater, AfterMemoryUpdater
  <2>7. CASE ResearchSucceeds \/ ResearchFails \/ EnrichmentRetry
    BY <2>7 DEF ResearchSucceeds, ResearchFails, EnrichmentRetry, AfterResearcher
  <2>8. CASE Personaliser \/ PersonaliserRaises \/ ApprovalGate \/ ApprovalGateRaises
    BY <2>8 DEF Personaliser, PersonaliserRaises, ApprovalGate, ApprovalGateRaises,
                AfterApprovalGate
  <2>9. CASE SenderDelivers \/ SenderSkips \/ SenderRefused \/ SenderRaises
    BY <2>9 DEF SenderDelivers, SenderSkips, SenderRefused, SenderRaises
  <2>10. CASE ReplyMonitor \/ ReplyMonitorRaises
    BY <2>10 DEF ReplyMonitor, ReplyMonitorRaises
  <2>11. CASE NotifySales \/ UnsubscribeHandler \/ RecursionError
    BY <2>11 DEF NotifySales, UnsubscribeHandler, RecursionError
  <2>12. CASE Answer BY <2>12 DEF Answer
  <2>13. CASE UNCHANGED vars BY <2>13 DEF vars
  <2> QED
    BY <2>4, <2>5, <2>6, <2>7, <2>8, <2>9, <2>10, <2>11, <2>12, <2>13 DEF Next, GraphStep
<1> QED BY <1>1, <1>2, OutboxSteps

(* ... so it holds in every run.                                           *)
LEMMA OrderInvHolds == Spec => []OrderInv
<1>1. Init => OrderInv
  BY DEF Init, OrderInv, MailsInOrder, MailedBelow
<1>2. GraphTypes /\ OrderInv /\ [Next]_vars => OrderInv'
  BY OrderInvInductive
<1> QED BY <1>1, <1>2, GraphTypesHold, PTL DEF Spec

(* No stage is ever mailed twice, none out of order, and no account is     *)
(* come back to, in a batch of any size.                                   *)
THEOREM MailsAreOrdered == Spec => []MailsInOrder
<1>1. OrderInv => MailsInOrder
  BY DEF OrderInv
<1> QED BY <1>1, OrderInvHolds, PTL
-----------------------------------------------------------------------------
(* What a step does to the records of a mail: nothing, or sender lists the *)
(* mail with its row, or the mail leaves unconfirmed, or a row's status    *)
(* changes.                                                                *)
Lists ==
  /\ Sends /\ node' = "reply_monitor"
  /\ messages' = Append(messages, Row("sent"))
  /\ rows' = rows \cup {Row("draft")}
  /\ UNCHANGED unconfirmed

Loses ==
  /\ Sends
  /\ unconfirmed' = unconfirmed \cup {Len(outbox) + 1}
  /\ UNCHANGED messages
  /\ UNCHANGED rows \/ (node' = "crashed" /\ rows' = rows \cup {Row("draft")})

Marks ==
  /\ UNCHANGED <<messages, outbox, unconfirmed>> /\ node # "crashed" /\ node' # "crashed"
  /\ \A r \in rows : \E q \in rows' : SameMail(q, r)
  /\ \A q \in rows' : \E r \in rows : SameMail(q, r)

Keeps == UNCHANGED record /\ (node = "crashed" => node' = "crashed")

(* These are all the steps there are.                                      *)
LEMMA RecordSteps ==
  ASSUME GraphTypes, [Next]_vars
  PROVE  Lists \/ Loses \/ Marks \/ Keeps
<1> USE DEF Superstep, Raise, record, history, control
<1>1. CASE SenderDelivers BY <1>1 DEF SenderDelivers, Sends, Lists
<1>2. CASE SenderRaises \/ SenderRefused
  BY <1>2 DEF SenderRaises, SenderRefused, LeavesUnconfirmed, Sends, Loses, Keeps
<1>3. CASE UnsubscribeHandler
  <2> DEFINE own == {r \in rows : r.contact = contact}
             marked == (rows \ own) \cup {[r EXCEPT !.status = "unsubscribed"] : r \in own}
  <2>1. /\ UNCHANGED <<messages, outbox, unconfirmed>> /\ node # "crashed" /\ node' # "crashed"
        /\ rows' \in {rows, marked}
    BY <1>3 DEF UnsubscribeHandler
  <2>2. \A r \in rows : r \in Rows
    BY DEF GraphTypes, TypeOK, RecordOK
  <2>3. ASSUME NEW r \in Rows
        PROVE  SameMail(r, r) /\ SameMail([r EXCEPT !.status = "unsubscribed"], r)
    BY DEF SameMail, Rows
  <2>4. \A r \in rows : \E q \in marked : SameMail(q, r)
    <3> SUFFICES ASSUME NEW r \in rows PROVE \E q \in marked : SameMail(q, r)
      OBVIOUS
    <3>1. CASE r \in own
      <4>1. [r EXCEPT !.status = "unsubscribed"] \in marked
        BY <3>1
      <4> QED BY <2>2, <2>3, <4>1
    <3>2. CASE r \notin own
      <4>1. r \in marked
        BY <3>2
      <4> QED BY <2>2, <2>3, <4>1
    <3> QED BY <3>1, <3>2
  <2>5. \A q \in marked : \E r \in rows : SameMail(q, r)
    <3> SUFFICES ASSUME NEW q \in marked PROVE \E r \in rows : SameMail(q, r)
      OBVIOUS
    <3>1. CASE q \in rows
      BY <2>2, <2>3, <3>1
    <3>2. CASE q \notin rows
      <4>1. PICK r \in own : q = [r EXCEPT !.status = "unsubscribed"]
        BY <3>2
      <4> QED BY <2>2, <2>3, <4>1
    <3> QED BY <3>1, <3>2
  <2> HIDE DEF marked
  <2> QED BY <2>1, <2>2, <2>3, <2>4, <2>5 DEF Marks
<1>4. CASE UNCHANGED record /\ node # "crashed"
  BY <1>4 DEF Keeps
<1>5. CASE UNCHANGED <<record, node>>
  BY <1>5 DEF Keeps
<1> QED
  BY <1>1, <1>2, <1>3, <1>4, <1>5
  DEF Next, GraphStep, AccountSelector, ResearchSucceeds, ResearchFails, EnrichmentRetry,
      Personaliser, PersonaliserRaises, ApprovalGate, ApprovalGateRaises, SenderSkips,
      ReplyMonitor, ReplyMonitorRaises, Router, NotifySales, MemoryUpdater,
      RecursionError, Answer, vars, Nodes

(* The two parts of MessagesMatchOutbox.                                   *)
Matching ==
  /\ \A i \in DOMAIN outbox : i \notin unconfirmed <=> \E k \in DOMAIN messages : messages[k] = Entry(outbox[i])
  /\ \A k \in DOMAIN messages : \E i \in DOMAIN outbox : messages[k] = Entry(outbox[i])
  /\ \A k \in DOMAIN messages : \E r \in rows : SameMail(r, messages[k])
  /\ \A j, k \in DOMAIN messages : j < k => Before(messages[j], messages[k])
  /\ \A r \in rows : \E i \in DOMAIN outbox : SameMail(r, outbox[i])
  /\ node = "crashed" \/ \A r \in rows : \E k \in DOMAIN messages : SameMail(r, messages[k])

Noted ==
  node \in Nodes \ {"account_selector"} =>
    \A i \in unconfirmed : outbox[i].account = current => error

(* The new mail comes after all others, so it is a mail of its own, and    *)
(* every mail and every entry that was there keeps its place.              *)
LEMMA SendsIsNew ==
  ASSUME GraphTypes, OrderInv, Sends
  PROVE  /\ Len(outbox') \in DOMAIN outbox' /\ Len(outbox') = Len(outbox) + 1
         /\ Len(outbox') \notin DOMAIN outbox /\ outbox'[Len(outbox')] = Mail
         /\ \A i \in DOMAIN outbox : i \in DOMAIN outbox' /\ outbox'[i] = outbox[i]
         /\ \A i \in DOMAIN outbox' : i = Len(outbox') \/ i \in DOMAIN outbox
         /\ \A i \in DOMAIN outbox : Before(outbox[i], Mail) /\ Entry(outbox[i]) # Entry(Mail)
<1>1. /\ outbox \in Seq(Mails) /\ Len(outbox) \in Nat /\ DOMAIN outbox = 1..Len(outbox)
      /\ Len(outbox') = Len(outbox) + 1 /\ DOMAIN outbox' = 1..Len(outbox')
      /\ outbox'[Len(outbox')] = Mail
      /\ \A i \in DOMAIN outbox' :
           i = Len(outbox') \/ (i \in DOMAIN outbox /\ outbox'[i] = outbox[i])
  BY SendsAppends DEF GraphTypes, TypeOK, RecordOK, Sends
<1>2. \A i \in DOMAIN outbox : i \in DOMAIN outbox' /\ i < Len(outbox')
  BY <1>1
<1>3. MailsInOrder'
  BY SendsKeepsOrder DEF OrderInv
<1>4. Len(outbox') \in DOMAIN outbox' /\ Len(outbox') \notin DOMAIN outbox
  BY <1>1
<1>5. ASSUME NEW i \in DOMAIN outbox
      PROVE  i \in DOMAIN outbox' /\ outbox'[i] = outbox[i] /\ Before(outbox[i], Mail)
  BY <1>1, <1>2, <1>3, <1>4 DEF MailsInOrder
<1>6. ASSUME NEW i \in DOMAIN outbox PROVE Entry(outbox[i]) # Entry(Mail)
  <2>1. Before(outbox[i], Mail) /\ outbox[i].account \in Int /\ outbox[i].stage \in Int
    BY <1>5, MailsTyped
  <2>2. \A x, y : Entry(x) = Entry(y) => x.account = y.account /\ x.stage = y.stage
    BY DEF Entry
  <2>3. ~Before(outbox[i], outbox[i])
    BY <2>1 DEF Before
  <2> HIDE DEF Mail
  <2> QED BY <2>1, <2>2, <2>3 DEF Before
<1> QED BY <1>1, <1>4, <1>5, <1>6

(* sender lists a mail in the step it leaves in, or never does.            *)
LEMMA MatchInductive ==
  ASSUME GraphTypes, OrderInv, Matching, [Next]_vars
  PROVE  Matching'
<1>1. /\ messages \in Seq(Rows) /\ Len(messages) \in Nat /\ DOMAIN messages = 1..Len(messages)
      /\ unconfirmed \subseteq DOMAIN outbox
  BY DEF GraphTypes, TypeOK, RecordOK
<1>2. /\ \A i \in DOMAIN outbox : i \notin unconfirmed <=> \E k \in DOMAIN messages : messages[k] = Entry(outbox[i])
      /\ \A k \in DOMAIN messages : \E i \in DOMAIN outbox : messages[k] = Entry(outbox[i])
      /\ \A k \in DOMAIN messages : \E r \in rows : SameMail(r, messages[k])
      /\ \A j, k \in DOMAIN messages : j < k => Before(messages[j], messages[k])
      /\ \A r \in rows : \E i \in DOMAIN outbox : SameMail(r, outbox[i])
      /\ node = "crashed" \/ \A r \in rows : \E k \in DOMAIN messages : SameMail(r, messages[k])
  BY DEF Matching
<1>3. ASSUME Sends
      PROVE  /\ SameMail(Row("draft"), Mail) /\ SameMail(Row("draft"), Row("sent"))
             /\ Row("sent") = Entry(Mail) /\ node # "crashed"
             /\ \A x : Before(x, Mail) => Before(Entry(x), Entry(Mail))
  BY <1>3 DEF Sends, SameMail, Row, Mail, Entry, Before
<1>4. ASSUME Sends, rows' \in {rows, rows \cup {Row("draft")}}
      PROVE  \A r \in rows' : \E i \in DOMAIN outbox' : SameMail(r, outbox'[i])
  <2> SUFFICES ASSUME NEW r \in rows' PROVE \E i \in DOMAIN outbox' : SameMail(r, outbox'[i])
    OBVIOUS
  <2>1. CASE r \in rows
    BY <1>2, <1>4, <2>1, SendsIsNew
  <2>2. CASE r = Row("draft")
    BY <1>3, <1>4, <2>2, SendsIsNew
  <2> QED BY <1>4, <2>1, <2>2
<1>5. CASE Lists
  <2>1. /\ Sends /\ rows' = rows \cup {Row("draft")} /\ unconfirmed' = unconfirmed
        /\ node' # "crashed"
    BY <1>5 DEF Lists
  <2>2. /\ Len(messages') \in DOMAIN messages' /\ messages'[Len(messages')] = Entry(Mail)
        /\ \A k \in DOMAIN messages : k \in DOMAIN messages' /\ messages'[k] = messages[k]
        /\ \A k \in DOMAIN messages' : k = Len(messages') \/ (k \in DOMAIN messages /\ k < Len(messages'))
        /\ \A k \in DOMAIN messages' : ~(Len(messages') < k)
    BY <1>1, <1>3, <1>5 DEF Lists
  <2>3. ASSUME NEW i \in DOMAIN outbox'
        PROVE  i \notin unconfirmed' <=> \E k \in DOMAIN messages' : messages'[k] = Entry(outbox'[i])
    <3>1. CASE i = Len(outbox')
      <4>1. i \notin unconfirmed
        BY <1>1, <2>1, <3>1, SendsIsNew
      <4>2. outbox'[i] = Mail
        BY <2>1, <3>1, SendsIsNew
      <4> QED BY <2>1, <2>2, <4>1, <4>2
    <3>2. CASE i \in DOMAIN outbox
      <4>1. outbox'[i] = outbox[i] /\ Entry(outbox[i]) # Entry(Mail)
        BY <2>1, <3>2, SendsIsNew
      <4>2. (\E k \in DOMAIN messages' : messages'[k] = Entry(outbox[i]))
              <=> \E k \in DOMAIN messages : messages[k] = Entry(outbox[i])
        BY <2>2, <4>1
      <4> QED BY <1>2, <2>1, <3>2, <4>1, <4>2
    <3> QED BY <2>1, <3>1, <3>2, SendsIsNew
  <2>4. ASSUME NEW k \in DOMAIN messages'
        PROVE  /\ \E i \in DOMAIN outbox' : messages'[k] = Entry(outbox'[i])
               /\ \E r \in rows' : SameMail(r, messages'[k])
    <3>1. rows \subseteq rows' /\ Row("draft") \in rows'
      BY <2>1
    <3>2. CASE k = Len(messages')
      <4>1. \E i \in DOMAIN outbox' : messages'[k] = Entry(outbox'[i])
        BY <2>1, <2>2, <3>2, SendsIsNew
      <4> QED BY <1>3, <2>1, <2>2, <3>1, <3>2, <4>1
    <3>3. CASE k \in DOMAIN messages
      <4>1. PICK i \in DOMAIN outbox : messages[k] = Entry(outbox[i])
        BY <1>2, <3>3
      <4>2. i \in DOMAIN outbox' /\ outbox'[i] = outbox[i]
        BY <2>1, SendsIsNew
      <4> QED BY <1>2, <2>2, <3>1, <3>3, <4>1, <4>2
    <3> QED BY <2>2, <3>2, <3>3
  <2>5. ASSUME NEW j \in DOMAIN messages', NEW k \in DOMAIN messages', j < k
        PROVE  Before(messages'[j], messages'[k])
    <3>1. j \in DOMAIN messages /\ messages'[j] = messages[j]
      BY <2>2, <2>5
    <3>2. CASE k = Len(messages')
      <4>1. PICK i \in DOMAIN outbox : messages[j] = Entry(outbox[i])
        BY <1>2, <3>1
      <4>2. Before(Entry(outbox[i]), Entry(Mail))
        BY <1>3, <2>1, SendsIsNew
      <4> QED BY <2>2, <3>1, <3>2, <4>1, <4>2
    <3>3. CASE k \in DOMAIN messages
      BY <1>2, <2>2, <2>5, <3>1, <3>3
    <3> QED BY <2>2, <3>2, <3>3
  <2>6. \A r \in rows' : \E i \in DOMAIN outbox' : SameMail(r, outbox'[i])
    BY <1>4, <2>1
  <2>7. ASSUME NEW r \in rows' PROVE \E k \in DOMAIN messages' : SameMail(r, messages'[k])
    <3>1. CASE r \in rows
      BY <1>2, <1>3, <2>1, <2>2, <3>1
    <3>2. CASE r = Row("draft")
      BY <1>3, <2>1, <2>2, <3>2
    <3> QED BY <2>1, <3>1, <3>2
  <2> QED BY <2>3, <2>4, <2>5, <2>6, <2>7 DEF Matching
<1>6. CASE Loses
  <2>1. /\ Sends /\ messages' = messages /\ unconfirmed' = unconfirmed \cup {Len(outbox) + 1}
        /\ rows' = rows \/ (node' = "crashed" /\ rows' = rows \cup {Row("draft")})
    BY <1>6 DEF Loses
  <2>2. ASSUME NEW i \in DOMAIN outbox'
        PROVE  i \notin unconfirmed' <=> \E k \in DOMAIN messages : messages[k] = Entry(outbox'[i])
    <3>1. CASE i = Len(outbox')
      <4>1. i \in unconfirmed' /\ outbox'[i] = Mail
        BY <2>1, <3>1, SendsIsNew
      <4>2. \A k \in DOMAIN messages : messages[k] # Entry(Mail)
        BY <1>2, <2>1, SendsIsNew
      <4> QED BY <4>1, <4>2
    <3>2. CASE i \in DOMAIN outbox
      <4>1. outbox'[i] = outbox[i] /\ i # Len(outbox) + 1
        BY <2>1, <3>2, SendsIsNew
      <4> QED BY <1>2, <2>1, <3>2, <4>1
    <3> QED BY <2>1, <3>1, <3>2, SendsIsNew
  <2>3. ASSUME NEW k \in DOMAIN messages
        PROVE  \E i \in DOMAIN outbox' : messages[k] = Entry(outbox'[i])
    <3>1. PICK i \in DOMAIN outbox : messages[k] = Entry(outbox[i])
      BY <1>2
    <3> QED BY <2>1, <3>1, SendsIsNew
  <2>4. \A k \in DOMAIN messages : \E r \in rows' : SameMail(r, messages[k])
    BY <1>2, <2>1
  <2>5. \A r \in rows' : \E i \in DOMAIN outbox' : SameMail(r, outbox'[i])
    BY <1>4, <2>1
  <2>6. node' = "crashed" \/ \A r \in rows' : \E k \in DOMAIN messages : SameMail(r, messages[k])
    BY <1>2, <1>3, <2>1
  <2> QED BY <1>2, <2>1, <2>2, <2>3, <2>4, <2>5, <2>6 DEF Matching
<1>7. CASE Marks
  <2>1. /\ messages' = messages /\ outbox' = outbox /\ unconfirmed' = unconfirmed
        /\ node # "crashed" /\ node' # "crashed"
        /\ \A r \in rows : \E q \in rows' : SameMail(q, r)
        /\ \A q \in rows' : \E r \in rows : SameMail(q, r)
    BY <1>7 DEF Marks
  <2>2. \A x, y, z : SameMail(x, y) /\ SameMail(y, z) => SameMail(x, z)
    BY DEF SameMail
  <2>3. \A k \in DOMAIN messages : \E r \in rows' : SameMail(r, messages[k])
    BY <1>2, <2>1, <2>2
  <2>4. \A r \in rows' : \E i \in DOMAIN outbox : SameMail(r, outbox[i])
    BY <1>2, <2>1, <2>2
  <2>5. \A r \in rows' : \E k \in DOMAIN messages : SameMail(r, messages[k])
    BY <1>2, <2>1, <2>2
  <2> QED BY <1>2, <2>1, <2>3, <2>4, <2>5 DEF Matching
<1>8. CASE Keeps
  <2>1. UNCHANGED <<messages, rows, outbox, unconfirmed>> /\ (node = "crashed" => node' = "crashed")
    BY <1>8 DEF Keeps, record
  <2> QED BY <1>2, <2>1 DEF Matching
<1> QED BY <1>5, <1>6, <1>7, <1>8, RecordSteps

(* Only sender leaves a mail unconfirmed, with an error; the nodes that    *)
(* clear the error come before the account's mails or after them.          *)
LEMMA NotedInductive ==
  ASSUME GraphTypes, OrderInv, Noted, [Next]_vars
  PROVE  Noted'
<1>1. /\ unconfirmed \subseteq DOMAIN outbox /\ current \in Int
      /\ \A i \in DOMAIN outbox : outbox[i].account <= current
      /\ \A i \in DOMAIN outbox : outbox[i].account \in Int /\ outbox[i].stage \in Int
  BY MailsTyped, Sizes
  DEF OrderInv, GraphTypes, TypeOK, RecordOK, ControlOK, Account, None
<1>2. \A i \in unconfirmed : i \in DOMAIN outbox /\ outbox[i].account \in Int
  BY <1>1
<1> USE DEF Superstep, Raise, record, history, control, Noted
<1>3. CASE AccountSelector
  <2>1. current' = current + 1 /\ UNCHANGED <<outbox, unconfirmed>>
    BY <1>3, Sizes DEF AccountSelector, GraphTypes, GraphInv, TypeOK, ControlOK, Account, None
  <2>2. \A i \in unconfirmed : outbox[i].account # current + 1
    BY <1>1, <1>2
  <2> QED BY <2>1, <2>2
<1>4. CASE EnrichmentRetry
  <2>1. node = "enrichment_retry" /\ UNCHANGED <<current, outbox, unconfirmed>>
    BY <1>4 DEF EnrichmentRetry
  <2>2. \A i \in DOMAIN outbox : outbox[i] \in Mails
    BY DEF GraphTypes, TypeOK, RecordOK
  <2>3. \A m \in Mails : ~(m.stage < 1)
    BY Sizes DEF Mails, Stage
  <2>4. \A i \in unconfirmed : outbox[i].account # current
    BY <1>2, <2>1, <2>2, <2>3 DEF OrderInv, MailedBelow
  <2> QED BY <2>1, <2>4
<1>5. CASE SenderDelivers
  <2>1. Sends /\ UNCHANGED <<unconfirmed, error, current>> /\ node = "sender"
    BY <1>5 DEF SenderDelivers, Sends
  <2>2. \A i \in unconfirmed : outbox'[i] = outbox[i]
    BY <1>2, <2>1, SendsIsNew
  <2> QED BY <2>1, <2>2 DEF Nodes
<1>6. CASE ResearchFails \/ SenderSkips \/ SenderRefused
  BY <1>6 DEF ResearchFails, SenderSkips, SenderRefused
<1>7. CASE \/ PersonaliserRaises \/ ApprovalGateRaises \/ SenderRaises \/ ReplyMonitorRaises
           \/ RecursionError
  BY <1>7 DEF PersonaliserRaises, ApprovalGateRaises, SenderRaises, ReplyMonitorRaises,
              RecursionError, Nodes
<1>8. CASE MemoryUpdater
  BY <1>8 DEF MemoryUpdater, AfterMemoryUpdater, Nodes
<1>9. CASE UNCHANGED <<current, error, outbox, unconfirmed>> /\ node \in Nodes \ {"account_selector"}
  BY <1>9
<1>10. CASE UNCHANGED <<node, current, error, outbox, unconfirmed>>
  BY <1>10
<1> QED
  BY <1>3, <1>4, <1>5, <1>6, <1>7, <1>8, <1>9, <1>10
  DEF Next, GraphStep, ResearchSucceeds, Personaliser, ApprovalGate, ReplyMonitor, Router,
      NotifySales, UnsubscribeHandler, Answer, vars, Nodes

(* Whatever fails and whenever, a delivery answered with an error          *)
(* included: mails, messages and rows agree, unconfirmed mails apart, and  *)
(* those are noted as an error while the run is at their account.          *)
THEOREM RecordsAgree == Spec => []MessagesMatchOutbox
<1>1. Init => Matching /\ Noted
  BY DEF Init, Matching, Noted
<1>2. GraphTypes /\ OrderInv /\ Matching /\ Noted /\ [Next]_vars => Matching' /\ Noted'
  BY MatchInductive, NotedInductive
<1>3. Matching /\ Noted => MessagesMatchOutbox
  BY DEF Matching, Noted, MessagesMatchOutbox
<1> QED BY <1>1, <1>2, <1>3, GraphTypesHold, OrderInvHolds, PTL DEF Spec
-----------------------------------------------------------------------------
(* Rounds of drafting, approval, sending, waiting and routing an account   *)
(* goes through: router moves to the last stage but never drafts it.       *)
Rounds == IF MaxStages = 1 THEN 1 ELSE MaxStages - 1

(* Supersteps the account may still take when node runs.                   *)
StepsLeft ==
  CASE node = "researcher" -> 2 * (MaxRetries - retries) + 1 + 5 * Rounds + 2
    [] node = "enrichment_retry" -> 2 * (MaxRetries - retries) + 5 * Rounds + 2
    [] node = "personaliser" -> 5 * (Rounds - stage) + 5 + 2
    [] node = "approval_gate" -> 5 * (Rounds - stage) + 4 + 2
    [] node = "sender" -> 5 * (Rounds - stage) + 3 + 2
    [] node = "reply_monitor" -> 5 * (Rounds - stage) + 2 + 2
    [] node = "router" -> 5 * (Rounds - stage) + 1 + 2
    [] node \in {"notify_sales", "unsubscribe_handler"} -> 2
    [] node = "memory_updater" -> 1
    [] OTHER -> 0

(* Where the run is in the walk through its batch: it goes on while there   *)
(* are accounts, and its supersteps fit the accounts it has come to.       *)
WalkInv ==
  /\ node \in {"researcher", "enrichment_retry"} => stage = 1
  /\ node \in Researched => stage <= Rounds
  /\ node = "END" => current = NumAccounts \/ approval \in {"pending", "error"}
  /\ gaveUp = {} => steps + StepsLeft <= current * StepsPerAccount

(* What the provers need to know of products with StepsPerAccount.         *)
LEMMA RoundSizes ==
  /\ Rounds \in Nat /\ 1 <= Rounds /\ (MaxStages = 1 \/ Rounds = MaxStages - 1)
  /\ StepsPerAccount = 2 * MaxRetries + 4 + 5 * Rounds
  /\ StepsPerAccount \in Nat
  /\ \A k \in Int : (k + 1) * StepsPerAccount = k * StepsPerAccount + StepsPerAccount
  /\ \A k \in Int : k * StepsPerAccount \in Int
<1>1. Rounds \in Nat /\ 1 <= Rounds /\ (MaxStages = 1 \/ Rounds = MaxStages - 1)
  BY Sizes DEF Rounds
<1>2. StepsPerAccount = 2 * MaxRetries + 4 + 5 * Rounds
  BY Sizes, <1>1 DEF StepsPerAccount, Rounds
<1>3. StepsPerAccount \in Nat
  BY Sizes, <1>1, <1>2
<1>4. \A s \in Nat, k \in Int : (k + 1) * s = k * s + s /\ k * s \in Int
  OBVIOUS
<1> QED BY <1>1, <1>2, <1>3, <1>4

(* What every step but account_selector's does to the walk.                *)
LEMMA WalkInductive ==
  ASSUME GraphTypes, WalkInv, [Next]_vars
  PROVE  WalkInv'
<1> DEFINE budget == current * StepsPerAccount
<1>1. /\ current \in Account \cup {None} /\ stage \in Nat /\ steps \in Nat /\ retries \in 0..MaxRetries
      /\ MaxRetries \in Nat /\ NumAccounts \in Nat
      /\ current \in Int /\ budget \in Int
  BY Sizes, RoundSizes DEF GraphTypes, TypeOK, ControlOK, Account, None, Stage
<1>2. gaveUp = {} => steps + StepsLeft <= budget
  BY DEF WalkInv
<1> USE DEF Superstep, Raise, record, history, control, Researched
<1>3. CASE AccountSelector
  <2>1. /\ node = "account_selector" /\ node' = "researcher" /\ current' = current + 1
        /\ retries' = 0 /\ stage' = 1 /\ steps' = steps + 1 /\ gaveUp' = gaveUp
    BY <1>1, <1>3 DEF AccountSelector, GraphTypes, GraphInv
  <2>2. gaveUp = {} => steps <= budget
    BY <1>1, <1>2, <2>1 DEF StepsLeft
  <2>3. current' * StepsPerAccount = budget + 2 * MaxRetries + 4 + 5 * Rounds
    BY <1>1, <2>1, RoundSizes
  <2>4. StepsLeft' = 2 * MaxRetries + 1 + 5 * Rounds + 2
    BY <1>1, <2>1 DEF StepsLeft
  <2> HIDE DEF budget
  <2>5. gaveUp' = {} => steps' + StepsLeft' <= current' * StepsPerAccount
    BY <1>1, <2>1, <2>2, <2>3, <2>4, RoundSizes
  <2> QED BY <2>1, <2>5 DEF WalkInv
<1>4. ASSUME current' = current,
             gaveUp' = {} => gaveUp = {} /\ steps' + StepsLeft' <= steps + StepsLeft,
             node' \in {"researcher", "enrichment_retry"} => stage' = 1,
             node' \in Researched => stage' <= Rounds,
             node' = "END" => current = NumAccounts \/ approval' \in {"pending", "error"},
             StepsLeft \in Int, StepsLeft' \in Int, steps' \in Int
      PROVE  WalkInv'
  <2>1. ASSUME gaveUp' = {} PROVE steps' + StepsLeft' <= budget
    <3>1. PICK left \in Int : left = StepsLeft
      BY <1>4
    <3>2. PICK next \in Int : next = StepsLeft'
      BY <1>4
    <3>3. steps + left <= budget /\ steps' + next <= steps + left
      BY <1>2, <1>4, <2>1, <3>1, <3>2
    <3>4. \A a, b, c \in Int : a <= b /\ c <= a => c <= b
      OBVIOUS
    <3>5. steps + left \in Int /\ steps' + next \in Int /\ budget \in Int
      BY <1>1, <1>4
    <3> HIDE DEF budget
    <3>6. steps' + next <= budget
      BY <3>3, <3>4, <3>5
    <3> QED BY <3>2, <3>6
  <2> QED BY <1>4, <2>1 DEF WalkInv
<1> HIDE DEF budget
<1>5. CASE ResearchSucceeds
  <2>1. /\ node = "researcher" /\ node' = "personaliser"
        /\ steps' = steps + 1 /\ UNCHANGED <<current, stage, retries, gaveUp, approval>>
    BY <1>1, <1>5 DEF ResearchSucceeds, AfterResearcher, GraphTypes, GraphInv, Nodes, Account, None
  <2>2. stage = 1
    BY <2>1 DEF WalkInv
  <2> QED BY <1>1, <1>4, <2>1, <2>2, RoundSizes DEF StepsLeft
<1>6. CASE ResearchFails
  <2>1. /\ node = "researcher" /\ node' = "enrichment_retry"
        /\ steps' = steps + 1 /\ UNCHANGED <<current, stage, retries, gaveUp, approval>>
    BY <1>6 DEF ResearchFails, AfterResearcher
  <2>2. stage = 1
    BY <2>1 DEF WalkInv
  <2> QED BY <1>1, <1>4, <2>1, <2>2, RoundSizes DEF StepsLeft
<1>7. CASE EnrichmentRetry
  <2>1. /\ node = "enrichment_retry" /\ node' = "researcher"
        /\ steps' = steps + 1 /\ UNCHANGED <<current, stage, approval>>
        /\ \/ gaveUp' # {}
           \/ gaveUp' = gaveUp /\ retries' = retries + 1
    BY <1>7 DEF EnrichmentRetry
  <2>2. stage = 1
    BY <2>1 DEF WalkInv
  <2>3. retries' \in Int
    BY <1>1, <1>7 DEF EnrichmentRetry
  <2> QED BY <1>1, <1>4, <2>1, <2>2, <2>3, RoundSizes DEF StepsLeft
<1>8. ASSUME \/ node = "personaliser" /\ node' = "approval_gate"
             \/ node = "approval_gate" /\ node' = "sender"
             \/ node = "sender" /\ node' = "reply_monitor"
             \/ node = "reply_monitor" /\ node' = "router",
             steps' = steps + 1, UNCHANGED <<current, stage, gaveUp>>
      PROVE  WalkInv'
  <2>1. stage <= Rounds
    BY <1>8 DEF WalkInv
  <2> QED BY <1>1, <1>4, <1>8, <2>1, RoundSizes DEF StepsLeft
<1>9. ASSUME node \in Nodes, node' = "crashed", steps' \in {steps, steps + 1},
             steps' = steps \/ node \in Researched, UNCHANGED <<current, gaveUp>>
      PROVE  WalkInv'
  <2>1. node \in Researched => stage <= Rounds
    BY DEF WalkInv
  <2>2. /\ StepsLeft \in Int /\ StepsLeft >= 0
        /\ node \in Researched => StepsLeft >= 1
    BY <1>1, <1>9, <2>1, RoundSizes DEF StepsLeft, Nodes
  <2>3. StepsLeft' = 0
    BY <1>9 DEF StepsLeft
  <2>4. steps' + StepsLeft' <= steps + StepsLeft
    <3>1. PICK left \in Int : left = StepsLeft /\ left >= 0 /\ (node \in Researched => left >= 1)
      BY <2>2
    <3>2. steps' + 0 <= steps + left
      <4>1. CASE steps' = steps
        BY <1>1, <3>1, <4>1
      <4>2. CASE steps' = steps + 1 /\ node \in Researched
        BY <1>1, <3>1, <4>2
      <4> QED BY <1>9, <4>1, <4>2
    <3> QED BY <2>3, <3>1, <3>2
  <2>5. steps' \in Int /\ StepsLeft' \in Int /\ StepsLeft \in Int
    BY <1>1, <1>9, <2>2, <2>3
  <2>6. node' = "crashed" /\ gaveUp' = gaveUp /\ current' = current
    BY <1>9
  <2> QED BY <1>4, <2>4, <2>5, <2>6
<1>10. CASE Personaliser BY <1>8, <1>10 DEF Personaliser
<1>11. CASE ApprovalGate
  <2>1. CASE node' = "sender" BY <1>8, <1>11, <2>1 DEF ApprovalGate
  <2>2. CASE node' # "sender"
    <3>1. /\ node = "approval_gate" /\ node' = "END" /\ approval' \in {"pending", "error"}
          /\ steps' = steps + 1 /\ UNCHANGED <<current, stage, gaveUp>>
      BY <1>11, <2>2, OutboundAssumption
      DEF ApprovalGate, AfterApprovalGate, OutboundAssumption
    <3>2. stage <= Rounds
      BY <3>1 DEF WalkInv
    <3> QED BY <1>1, <1>4, <3>1, <3>2, RoundSizes DEF StepsLeft
  <2> QED BY <2>1, <2>2
<1>12. CASE SenderDelivers \/ SenderSkips \/ SenderRefused
  BY <1>8, <1>12 DEF SenderDelivers, SenderSkips, SenderRefused
<1>13. CASE ReplyMonitor BY <1>8, <1>13 DEF ReplyMonitor
<1>14. CASE PersonaliserRaises \/ ApprovalGateRaises \/ SenderRaises \/ ReplyMonitorRaises
            \/ RecursionError
  BY <1>9, <1>14 DEF PersonaliserRaises, ApprovalGateRaises, SenderRaises,
     ReplyMonitorRaises, RecursionError, Nodes
<1>15. CASE Router
  <2>1. /\ node = "router" /\ steps' = steps + 1 /\ UNCHANGED <<current, gaveUp>>
        /\ \/ node' = "personaliser" /\ stage' = stage + 1 /\ stage' < MaxStages
           \/ node' \in {"notify_sales", "unsubscribe_handler", "memory_updater"}
    BY <1>15, Sizes DEF Router, StopSequence, NextStage, LastStage, AfterRouter
  <2>2. stage <= Rounds
    BY <2>1 DEF WalkInv
  <2>3. CASE node' = "personaliser"
    <3>1. stage' = stage + 1 /\ stage' <= Rounds
      BY <1>1, <2>1, <2>3, Sizes, RoundSizes
    <3> QED BY <1>1, <1>4, <2>1, <2>2, <2>3, <3>1, RoundSizes DEF StepsLeft
  <2>4. CASE node' # "personaliser"
    BY <1>1, <1>4, <2>1, <2>2, <2>4, RoundSizes DEF StepsLeft
  <2> QED BY <2>3, <2>4
<1>16. CASE NotifySales \/ UnsubscribeHandler
  BY <1>1, <1>4, <1>16 DEF NotifySales, UnsubscribeHandler, StepsLeft
<1>17. CASE MemoryUpdater
  <2>1. /\ node = "memory_updater" /\ steps' = steps + 1 /\ UNCHANGED <<current, gaveUp>>
        /\ node' \in {"account_selector", "END"}
        /\ node' = "END" => ~(current < NumAccounts)
    BY <1>17 DEF MemoryUpdater, AfterMemoryUpdater
  <2>2. node' = "END" => current = NumAccounts
    BY <1>1, <2>1 DEF Account, None
  <2> QED BY <1>1, <1>4, <2>1, <2>2 DEF StepsLeft
<1>18. ASSUME UNCHANGED <<control, steps, gaveUp>> PROVE WalkInv'
  BY <1>18 DEF WalkInv, StepsLeft
<1>19. CASE Answer BY <1>18, <1>19 DEF Answer
<1>20. CASE UNCHANGED vars BY <1>18, <1>20 DEF vars
<1> QED
  BY <1>3, <1>5, <1>6, <1>7, <1>10, <1>11, <1>12, <1>13, <1>14, <1>15, <1>16, <1>17,
     <1>19, <1>20 DEF Next, GraphStep

(* A run that ends normally has come to its last account, and every run    *)
(* takes a bounded number of supersteps for the accounts it has come to,   *)
(* for every batch, number of stages and retries, unless it gave up.       *)
THEOREM WalkIsBounded == Spec => []BatchIsWalked
<1>1. Init => WalkInv
  <2> SUFFICES ASSUME Init PROVE WalkInv
    OBVIOUS
  <2>1. StepsLeft = 0 /\ steps = 0 /\ 0 * StepsPerAccount = 0
    BY RoundSizes DEF Init, StepsLeft
  <2> QED BY <2>1 DEF Init, WalkInv, Researched, None
<1>2. GraphTypes /\ WalkInv /\ [Next]_vars => WalkInv'
  BY WalkInductive
<1>3. GraphTypes /\ WalkInv => BatchIsWalked
  <2> SUFFICES ASSUME GraphTypes, WalkInv PROVE BatchIsWalked
    OBVIOUS
  <2>1. /\ stage \in Nat /\ steps \in Nat /\ retries \in 0..MaxRetries /\ MaxRetries \in Nat
        /\ current * StepsPerAccount \in Int
    BY Sizes, RoundSizes DEF GraphTypes, TypeOK, ControlOK, Account, None, Stage
  <2>5. node \in Researched => stage <= Rounds
    BY DEF WalkInv
  <2>2. StepsLeft \in Int /\ StepsLeft >= 0
    BY <2>1, <2>5, RoundSizes DEF StepsLeft, Researched
  <2>3. gaveUp = {} => steps + StepsLeft <= current * StepsPerAccount
    BY DEF WalkInv
  <2>4. gaveUp = {} => steps <= current * StepsPerAccount
    BY <2>1, <2>2, <2>3
  <2> QED BY <2>4 DEF BatchIsWalked, WalkInv
<1> QED BY <1>1, <1>2, <1>3, GraphTypesHold, PTL DEF Spec
-----------------------------------------------------------------------------
(* The refinement, step by step: what each superstep is to the campaign.   *)
(* account_selector begins a new account, which nothing was mailed to.     *)
LEMMA NewAccountStep ==
  ASSUME GraphTypes, HaltInv, OrderInv, AccountSelector
  PROVE  Campaign!NextAccount
<1>1. /\ current < NumAccounts /\ current' = current + 1 /\ node = "account_selector"
      /\ node' = "researcher" /\ UNCHANGED <<outbox, halted>>
      /\ current \in Int
  BY Sizes DEF AccountSelector, Superstep, GraphTypes, GraphInv, TypeOK, ControlOK,
               Account, None, record, history
<1>2. LastStageMailed' = 0
  <2>1. CASE outbox = <<>>
    BY <1>1, <2>1 DEF LastStageMailed
  <2>2. CASE outbox # <<>>
    <3>1. Len(outbox) \in DOMAIN outbox
      BY <2>2 DEF GraphTypes, TypeOK, RecordOK
    <3>2. outbox[Len(outbox)].account \in Int /\ outbox[Len(outbox)].account <= current
      BY <3>1, MailsTyped DEF OrderInv
    <3> QED BY <1>1, <3>2 DEF LastStageMailed
  <2> QED BY <2>1, <2>2
<1>3. current' \notin halted'
  BY <1>1 DEF HaltInv
<1> QED BY <1>1, <1>2, <1>3 DEF Campaign!NextAccount, Terminal

(* A mail is the campaign's next stage for the account, even if the run    *)
(* crashes in the same superstep.                                          *)
LEMMA SendStep ==
  ASSUME GraphTypes, HaltInv, OrderInv, Sends
  PROVE  Campaign!SendStage
<1>1. /\ node = "sender" /\ node' \in {"reply_monitor", "crashed"}
      /\ current \in Account /\ stage \in Stage /\ current \notin halted
      /\ UNCHANGED <<current, halted>>
  BY DEF Sends, GraphTypes, GraphInv, TypeOK, ControlOK, HaltInv, Working, Researched, Nodes
<1>2. LastStageMailed' = stage
  <2>1. Len(outbox') = Len(outbox) + 1 /\ outbox'[Len(outbox')] = Mail /\ Len(outbox) \in Nat
    BY SendsAppends DEF GraphTypes, TypeOK, RecordOK
  <2>2. outbox' # <<>>
    BY <2>1
  <2>3. Mail.account = current /\ Mail.stage = stage
    BY DEF Mail
  <2> QED BY <1>1, <2>1, <2>2, <2>3 DEF LastStageMailed
<1>3. LastStageMailed \in Int /\ LastStageMailed < stage
  <2>1. CASE outbox # <<>> /\ outbox[Len(outbox)].account = current
    <3>1. Len(outbox) \in DOMAIN outbox
      BY <2>1 DEF GraphTypes, TypeOK, RecordOK
    <3>2. outbox[Len(outbox)].stage \in Int /\ outbox[Len(outbox)].stage < stage
      BY <1>1, <2>1, <3>1, MailsTyped DEF OrderInv, MailedBelow, Working, Researched
    <3> QED BY <2>1, <3>2 DEF LastStageMailed
  <2>2. CASE ~(outbox # <<>> /\ outbox[Len(outbox)].account = current)
    BY <1>1, <2>2, Sizes DEF LastStageMailed, Stage
  <2> QED BY <2>1, <2>2
<1>4. LastStageMailed' \in LastStageMailed + 1 .. MaxStages
  BY <1>1, <1>2, <1>3, Sizes DEF Stage
<1>5. Len(outbox)' = Len(outbox) + 1
  BY SendsAppends DEF GraphTypes
<1> QED BY <1>1, <1>4, <1>5, Sizes DEF Campaign!SendStage, Terminal, Account

(* A step that neither moves on nor mails can only stop the account or end *)
(* the run.                                                                *)
LEMMA QuietStep ==
  ASSUME GraphTypes, Next, ~AccountSelector, UNCHANGED outbox
  PROVE  /\ UNCHANGED LastStageMailed
         /\ UNCHANGED current
         /\ \/ UNCHANGED <<halted, node>>
            \/ node \notin Terminal /\ UNCHANGED halted
            \/ /\ node = "router" /\ node' \notin Terminal
               /\ halted' = halted \cup {current}
<1> USE DEF Superstep, Raise, record, history, control
<1>1. UNCHANGED current
  BY DEF Next, GraphStep, ResearchSucceeds, ResearchFails, EnrichmentRetry, Personaliser,
         PersonaliserRaises, ApprovalGate, ApprovalGateRaises, SenderDelivers, SenderSkips,
         SenderRefused, SenderRaises, ReplyMonitor, ReplyMonitorRaises, Router, NotifySales,
         UnsubscribeHandler, MemoryUpdater, RecursionError, Answer
<1>2. UNCHANGED LastStageMailed
  BY <1>1 DEF LastStageMailed
<1>3. CASE Router
  <2>1. node = "router" /\ node' \notin Terminal
    BY <1>3 DEF Router, AfterRouter, Terminal
  <2>2. halted' \in {halted, halted \cup {current}}
    BY <1>3 DEF Router, StopSequence, NextStage, LastStage
  <2> QED BY <1>1, <1>2, <2>1, <2>2 DEF Terminal
<1>4. CASE ~Router
  <2>1. UNCHANGED halted
    BY <1>4
    DEF Next, GraphStep, ResearchSucceeds, ResearchFails, EnrichmentRetry, Personaliser,
        PersonaliserRaises, ApprovalGate, ApprovalGateRaises, SenderDelivers, SenderSkips,
        SenderRefused, SenderRaises, ReplyMonitor, ReplyMonitorRaises, NotifySales, UnsubscribeHandler,
        MemoryUpdater, RecursionError, Answer
  <2>2. node \in Nodes \/ UNCHANGED node
    BY <1>4
    DEF Next, GraphStep, Nodes, ResearchSucceeds, ResearchFails, EnrichmentRetry,
        Personaliser, PersonaliserRaises, ApprovalGate, ApprovalGateRaises, SenderDelivers,
        SenderSkips, SenderRefused, SenderRaises, ReplyMonitor, ReplyMonitorRaises, NotifySales,
        UnsubscribeHandler, MemoryUpdater, RecursionError, Answer
  <2> QED BY <1>1, <1>2, <2>1, <2>2 DEF Nodes, Terminal
<1> QED BY <1>3, <1>4

(* The graph implements the campaign for every batch: each superstep is a  *)
(* step of Campaign, or leaves what Campaign speaks of as it is.           *)
THEOREM GraphImplementsCampaign == Spec => ImplementsCampaign
<1>1. Init => Campaign!Init
  BY DEF Init, Campaign!Init, LastStageMailed, Terminal, None
<1>2. GraphTypes /\ HaltInv /\ OrderInv /\ [Next]_vars => [Campaign!Next]_Campaign!vars
  <2> SUFFICES ASSUME GraphTypes, HaltInv, OrderInv, [Next]_vars
               PROVE  [Campaign!Next]_Campaign!vars
    OBVIOUS
  <2>1. CASE UNCHANGED vars
    BY <2>1 DEF vars, control, record, history, LastStageMailed, Campaign!vars
  <2>2. CASE AccountSelector
    BY <2>2, NewAccountStep DEF Campaign!Next
  <2>3. CASE Sends
    BY <2>3, SendStep DEF Campaign!Next
  <2>4. CASE Next /\ ~AccountSelector /\ UNCHANGED outbox
    <3>1. CASE UNCHANGED <<halted, node>>
      BY <2>4, <3>1, QuietStep DEF Campaign!vars
    <3>2. CASE node \notin Terminal /\ UNCHANGED halted
      <4>1. CASE node' \in Terminal
        BY <2>4, <3>2, <4>1, QuietStep DEF Campaign!Next, Campaign!Finish
      <4>2. CASE node' \notin Terminal
        BY <2>4, <3>2, <4>2, QuietStep DEF Campaign!vars
      <4> QED BY <4>1, <4>2
    <3>3. CASE node = "router" /\ node' \notin Terminal /\ halted' = halted \cup {current}
      <4>1. current > 0 /\ node \notin Terminal
        BY <3>3, Sizes DEF GraphTypes, GraphInv, Nodes, Terminal, Account
      <4> QED BY <2>4, <3>3, <4>1, QuietStep DEF Campaign!Next, Campaign!StopOnReply
    <3> QED BY <2>4, <3>1, <3>2, <3>3, QuietStep
  <2> QED BY <2>1, <2>2, <2>3, <2>4, OutboxSteps
<1> QED
  BY <1>1, <1>2, GraphTypesHold, HaltInvHolds, OrderInvHolds, PTL
  DEF Spec, ImplementsCampaign, Campaign!Spec
=============================================================================
