--------------------------- MODULE OutboundGraph ---------------------------
(***************************************************************************)
(* The outbound LangGraph pipeline (src/agent/graph.py and the nodes it    *)
(* wires): one run of the graph over a batch of accounts.  One action is   *)
(* one superstep: the node's whole body followed by the conditional edge   *)
(* that picks the next node.  A node that lets an exception escape ends    *)
(* the run in "crashed".                                                   *)
(*                                                                         *)
(* Accounts are named by their position in state["accounts"], so the       *)
(* search by id that account_selector and _after_memory_updater make is    *)
(* the identity (ids are distinct).  Email text, prompts, templates and    *)
(* channels are left out: a draft is the account, contact, stage and       *)
(* research it was written from.                                           *)
(*                                                                         *)
(* Outside src/: the n8n mailbox (outbox, inbox), the Slack tool's answer, *)
(* and LangGraph's limit on supersteps.  An answer of n8n below 400 is     *)
(* taken to mean that the mail left, one of 400 or more means nothing.     *)
(* The reply classifier is assumed right whenever its answer parses.       *)
(***************************************************************************)
EXTENDS Integers, Sequences, FiniteSets

CONSTANTS
  NumAccounts,      \* len(state["accounts"])
  Contacts,         \* state["contacts"]: sequence of [account, email]
  MaxStages,        \* state["max_stages"]
  MaxRetries,       \* MAX_ENRICHMENT_RETRIES
  RecursionLimit,   \* supersteps LangGraph allows one run
  ApprovalResults   \* statuses the approval tool in use can return

Account == 1..NumAccounts
ContactId == 1..Len(Contacts)
Stage == 1..MaxStages
None == 0           \* Python's None for current_account, current_contact, enrichment

Intents == {"positive", "negative", "neutral", "unsubscribe"}
NoReply == "none"
Terminal == {"END", "crashed"}
Nodes == {"account_selector", "researcher", "enrichment_retry", "personaliser",
          "approval_gate", "sender", "reply_monitor", "router", "notify_sales",
          "unsubscribe_handler", "memory_updater"}

Emails == {Contacts[c].email : c \in ContactId}
Drafts == [account : Account, contact : ContactId \cup {None}, stage : Stage,
           research : Account \cup {None}]
NoDraft == [account |-> None, contact |-> None, stage |-> None, research |-> None]
Mails == [account : Account, contact : ContactId, stage : Stage, draft : Drafts]
Rows == [account : Account, contact : ContactId, stage : Stage,
         status : {"draft", "sent", "unsubscribed"}]

ASSUME OutboundAssumption ==
  /\ NumAccounts \in Nat \ {0}
  /\ MaxStages \in Nat \ {0}
  /\ MaxRetries \in Nat
  /\ RecursionLimit \in Nat \ {0}
  /\ Contacts \in Seq([account : Account, email : STRING])
  /\ ApprovalResults \subseteq {"approved", "pending", "error"}

VARIABLES
  node,             \* the node the next superstep runs, or how the run ended
  current,          \* current_account
  retries,          \* current_account.metadata["enrichment_retries"]
  contact,          \* current_contact
  stage,            \* current_stage
  enrichment,       \* account the enrichment was gathered for
  draft,            \* draft_email
  approval,         \* approval_status ("none" for None)
  reply,            \* reply_analysis.intent
  error,            \* bool(state["error"])
  continue,         \* should_continue
  messages,         \* sent_messages, each with status "sent"
  rows,             \* message rows in PostgreSQL
  outbox,           \* mails n8n has sent, in order
  unconfirmed,      \* history: mails (positions in outbox) that left although
                    \* sender's POST was not answered well, or its row failed
  inbox,            \* latest reply n8n holds for an address
  steps,            \* supersteps used
  approved,         \* history: drafts the approval tool approved
  halted,           \* history: accounts a reply told the router to stop
  gaveUp            \* history: accounts enrichment_retry gave up on

control == <<node, current, retries, contact, stage, enrichment, draft,
             approval, reply, error, continue>>
record == <<messages, rows, outbox, unconfirmed>>
history == <<approved, halted, gaveUp>>
vars == <<control, record, inbox, steps, history>>
-----------------------------------------------------------------------------
(* The first contact in the list that belongs to account a.                *)
PrimaryContact(a) ==
  LET own == {c \in ContactId : Contacts[c].account = a}
  IN  IF own = {} THEN None
      ELSE CHOOSE c \in own : \A d \in own : c <= d

(* _after_researcher *)
AfterResearcher(err, enr) ==
  IF err /\ enr = None THEN "enrichment_retry" ELSE "personaliser"

(* Mutant: only an error keeps a draft from being sent.                    *)
AfterApprovalGate_PendingPasses(status) == IF status # "error" THEN "sender" ELSE "END"

(* _after_approval_gate *)
AfterApprovalGate(status) == IF status = "approved" THEN "sender" ELSE "END"

(* Mutant: the edge forgets should_continue.                               *)
AfterRouter_StageOnly(rep, st, cont) ==
  CASE rep = "positive" -> "notify_sales"
    [] rep = "unsubscribe" -> "unsubscribe_handler"
    [] OTHER -> IF st < MaxStages THEN "personaliser" ELSE "memory_updater"

(* _after_router, on the state router has just returned *)
AfterRouter(rep, st, cont) ==
  CASE rep = "positive" -> "notify_sales"
    [] rep = "unsubscribe" -> "unsubscribe_handler"
    [] OTHER -> IF st < MaxStages /\ cont THEN "personaliser" ELSE "memory_updater"

(* Mutant: the last account is not looked for.                             *)
AfterMemoryUpdater_OneShort(cur) ==
  IF cur + 1 < NumAccounts THEN "account_selector" ELSE "END"

(* _after_memory_updater *)
AfterMemoryUpdater(cur) == IF cur < NumAccounts THEN "account_selector" ELSE "END"

(* LangGraph starts node n if the run has supersteps left.                 *)
Superstep(n) ==
  /\ node = n
  /\ steps < RecursionLimit
  /\ steps' = steps + 1

(* An exception leaves node n: the node's update is lost, the run ends.    *)
Raise(n) ==
  /\ Superstep(n)
  /\ node' = "crashed"
  /\ UNCHANGED <<current, retries, contact, stage, enrichment, draft, approval,
                 reply, error, continue, inbox, history>>
-----------------------------------------------------------------------------
(* create_demo_state: the state a run is started with.                     *)
Init ==
  /\ node = "account_selector"
  /\ current = None /\ contact = None /\ enrichment = None
  /\ draft = NoDraft /\ approval = "none" /\ reply = NoReply
  /\ retries = 0 /\ stage = 1 /\ error = FALSE /\ continue = TRUE
  /\ messages = <<>> /\ rows = {} /\ outbox = <<>> /\ unconfirmed = {}
  /\ inbox = [e \in Emails |-> NoReply]
  /\ steps = 0
  /\ approved = {} /\ halted = {} /\ gaveUp = {}

(* account_selector: the early returns (no accounts, list exhausted) change *)
(* only should_continue; _after_memory_updater never comes back to them.   *)
AccountSelector ==
  /\ Superstep("account_selector")
  /\ node' = "researcher"
  /\ LET next == current + 1 IN
       IF next > NumAccounts
       THEN /\ continue' = FALSE
            /\ UNCHANGED <<current, retries, contact, stage, enrichment, draft,
                           approval, reply, error>>
       ELSE /\ current' = next
            /\ retries' = 0
            /\ contact' = PrimaryContact(next)
            /\ stage' = 1
            /\ enrichment' = None /\ draft' = NoDraft /\ approval' = "none"
            /\ reply' = NoReply /\ error' = FALSE /\ continue' = TRUE
  /\ UNCHANGED <<record, inbox, history>>

(* researcher: every exception of the tools or the model is caught, so the *)
(* node either returns an enrichment or an error.                          *)
ResearchSucceeds ==
  /\ Superstep("researcher")
  /\ enrichment' = current
  /\ node' = AfterResearcher(error, current)
  /\ UNCHANGED <<current, retries, contact, stage, draft, approval, reply, error,
                 continue, record, inbox, history>>

ResearchFails ==
  /\ Superstep("researcher")
  /\ enrichment' = None
  /\ error' = TRUE
  /\ node' = AfterResearcher(TRUE, None)
  /\ UNCHANGED <<current, retries, contact, stage, draft, approval, reply,
                 continue, record, inbox, history>>

(* Mutant: the attempt is compared before it is counted.                   *)
EnrichmentRetry_CountsLate ==
  /\ Superstep("enrichment_retry")
  /\ node' = "researcher"
  /\ enrichment' = None
  /\ IF retries > MaxRetries
     THEN /\ error' = TRUE /\ continue' = FALSE
          /\ gaveUp' = gaveUp \cup {current}
          /\ UNCHANGED retries
     ELSE /\ error' = FALSE /\ retries' = retries + 1
          /\ UNCHANGED <<continue, gaveUp>>
  /\ UNCHANGED <<current, contact, stage, draft, approval, reply, record, inbox,
                 approved, halted>>

(* enrichment_retry: counts the attempt, or past MaxRetries sets an error  *)
(* and should_continue = False.  Either way the edge leads to researcher.  *)
EnrichmentRetry ==
  /\ Superstep("enrichment_retry")
  /\ node' = "researcher"
  /\ enrichment' = None
  /\ IF retries + 1 > MaxRetries
     THEN /\ error' = TRUE /\ continue' = FALSE
          /\ gaveUp' = gaveUp \cup {current}
          /\ UNCHANGED retries
     ELSE /\ error' = FALSE /\ retries' = retries + 1
          /\ UNCHANGED <<continue, gaveUp>>
  /\ UNCHANGED <<current, contact, stage, draft, approval, reply, record, inbox,
                 approved, halted>>

Personaliser ==
  /\ Superstep("personaliser")
  /\ draft' = [account |-> current, contact |-> contact, stage |-> stage,
               research |-> enrichment]
  /\ node' = "approval_gate"
  /\ UNCHANGED <<current, retries, contact, stage, enrichment, approval, reply,
                 error, continue, record, inbox, history>>

PersonaliserRaises == Raise("personaliser") /\ UNCHANGED record

(* approval_gate: the draft is there whenever the node runs; the tool      *)
(* answers with a status of ApprovalResults.                               *)
ApprovalGate ==
  /\ Superstep("approval_gate")
  /\ \E status \in ApprovalResults :
       /\ approval' = status
       /\ node' = AfterApprovalGate(status)
       /\ approved' = IF status = "approved" THEN approved \cup {draft} ELSE approved
  /\ UNCHANGED <<current, retries, contact, stage, enrichment, draft, reply, error,
                 continue, record, inbox, halted, gaveUp>>

ApprovalGateRaises == Raise("approval_gate") /\ UNCHANGED record
-----------------------------------------------------------------------------
Mail == [account |-> current, contact |-> contact, stage |-> stage, draft |-> draft]
Row(status) == [account |-> current, contact |-> contact, stage |-> stage,
                status |-> status]

(* sender: the POST to n8n is answered below 400, then the row commits.    *)
SenderDelivers ==
  /\ Superstep("sender")
  /\ contact # None
  /\ outbox' = Append(outbox, Mail)
  /\ rows' = rows \cup {Row("draft")}      \* save_message's default status
  /\ messages' = Append(messages, Row("sent"))
  /\ node' = "reply_monitor"
  /\ UNCHANGED <<current, retries, contact, stage, enrichment, draft, approval,
                 reply, error, continue, unconfirmed, inbox, history>>

(* sender: there is no contact to mail; the graph goes on.                 *)
SenderSkips ==
  /\ Superstep("sender")
  /\ contact = None
  /\ error' = TRUE
  /\ node' = "reply_monitor"
  /\ UNCHANGED <<current, retries, contact, stage, enrichment, draft, approval,
                 reply, continue, record, inbox, history>>

(* The mail leaves, but its POST is not answered well or its row fails.    *)
LeavesUnconfirmed ==
  /\ outbox' = Append(outbox, Mail)
  /\ unconfirmed' = unconfirmed \cup {Len(outbox) + 1}

(* Mutant: the node goes on after an answer of 400 or more.                *)
SenderRefused_GoesOn ==
  /\ Superstep("sender")
  /\ contact # None
  /\ LeavesUnconfirmed \/ UNCHANGED <<outbox, unconfirmed>>
  /\ error' = TRUE
  /\ rows' = rows \cup {Row("draft")}
  /\ messages' = Append(messages, Row("sent"))
  /\ node' = "reply_monitor"
  /\ UNCHANGED <<current, retries, contact, stage, enrichment, draft, approval,
                 reply, continue, inbox, history>>

(* sender: n8n answers with 400 or more, a gateway's 504 after delivery    *)
(* included; nothing is recorded and the graph goes on.                    *)
SenderRefused ==
  /\ Superstep("sender")
  /\ contact # None
  /\ LeavesUnconfirmed \/ UNCHANGED <<outbox, unconfirmed>>
  /\ error' = TRUE
  /\ node' = "reply_monitor"
  /\ UNCHANGED <<current, retries, contact, stage, enrichment, draft, approval,
                 reply, continue, messages, rows, inbox, history>>

(* sender: the POST raises, by a timeout before or after delivery, or      *)
(* save_message does, before or after its commit.                          *)
SenderRaises ==
  /\ Raise("sender")
  /\ contact # None
  /\ UNCHANGED messages
  /\ \/ UNCHANGED <<outbox, unconfirmed, rows>>
     \/ LeavesUnconfirmed /\ rows' \in {rows, rows \cup {Row("draft")}}

(* reply_monitor: asks n8n for a reply from this address and classifies    *)
(* it; a classification that does not parse becomes neutral.               *)
ReplyMonitor ==
  /\ Superstep("reply_monitor")
  /\ node' = "router"
  /\ \/ UNCHANGED reply              \* no contact, non-200 or no reply text
     \/ /\ contact # None
        /\ inbox[Contacts[contact].email] # NoReply
        /\ reply' \in {inbox[Contacts[contact].email], "neutral"}
  /\ UNCHANGED <<current, retries, contact, stage, enrichment, draft, approval,
                 error, continue, record, inbox, history>>

ReplyMonitorRaises ==
  /\ Raise("reply_monitor")
  /\ contact # None
  /\ UNCHANGED record

(* router: a positive, unsubscribe or negative reply ends the sequence.    *)
StopSequence ==
  /\ reply \in {"positive", "unsubscribe", "negative"}
  /\ continue' = FALSE
  /\ halted' = halted \cup {current}
  /\ UNCHANGED <<stage, reply>>

(* Mutant: current_stage is not written back.                              *)
NextStage_NotWritten ==
  /\ reply \in {NoReply, "neutral"}
  /\ stage < MaxStages
  /\ continue' = TRUE /\ reply' = NoReply
  /\ UNCHANGED <<stage, halted>>

(* router: no reply or a neutral one, and stages left.                     *)
NextStage ==
  /\ reply \in {NoReply, "neutral"}
  /\ stage < MaxStages
  /\ continue' = TRUE /\ stage' = stage + 1 /\ reply' = NoReply
  /\ UNCHANGED halted

(* router: all stages exhausted.                                           *)
LastStage ==
  /\ reply \in {NoReply, "neutral"}
  /\ stage >= MaxStages
  /\ continue' = FALSE
  /\ UNCHANGED <<stage, reply, halted>>

(* The node, with the conditional edge evaluated on what it returns.       *)
Router ==
  /\ Superstep("router")
  /\ StopSequence \/ NextStage \/ LastStage
  /\ node' = AfterRouter(reply', stage', continue')
  /\ UNCHANGED <<current, retries, contact, enrichment, draft, approval, error,
                 record, inbox, approved, gaveUp>>

(* notify_sales: Slack and HubSpot errors are swallowed, no state changes. *)
NotifySales ==
  /\ Superstep("notify_sales")
  /\ node' = "memory_updater"
  /\ UNCHANGED <<current, retries, contact, stage, enrichment, draft, approval,
                 reply, error, continue, record, inbox, history>>

(* unsubscribe_handler: one transaction marks this contact's messages of   *)
(* the run; a database error rolls it back and is swallowed.               *)
UnsubscribeHandler ==
  /\ Superstep("unsubscribe_handler")
  /\ node' = "memory_updater"
  /\ continue' = FALSE
  /\ LET own == {r \in rows : r.contact = contact} IN
       rows' \in {rows, (rows \ own) \cup {[r EXCEPT !.status = "unsubscribed"] : r \in own}}
  /\ UNCHANGED <<current, retries, contact, stage, enrichment, draft, approval,
                 reply, error, messages, outbox, unconfirmed, inbox, history>>

(* memory_updater: stores the learnings (best effort) and clears the       *)
(* per-account keys, keeping current_account for the routing.              *)
MemoryUpdater ==
  /\ Superstep("memory_updater")
  /\ contact' = None /\ enrichment' = None /\ draft' = NoDraft
  /\ approval' = "none" /\ reply' = NoReply /\ error' = FALSE /\ continue' = TRUE
  /\ node' = AfterMemoryUpdater(current)
  /\ UNCHANGED <<current, retries, stage, record, inbox, history>>

(* GraphRecursionError: the run needs a superstep it no longer has.        *)
RecursionError ==
  /\ node \in Nodes
  /\ steps = RecursionLimit
  /\ node' = "crashed"
  /\ UNCHANGED <<current, retries, contact, stage, enrichment, draft, approval,
                 reply, error, continue, record, inbox, steps, history>>

(* A person who got a mail answers it, at any time.  Only a neutral answer *)
(* is ever followed by another one (bound).                                *)
Answer ==
  \E m \in 1..Len(outbox), i \in Intents :
    LET e == Contacts[outbox[m].contact].email IN
      /\ node \notin Terminal
      /\ inbox[e] \in {NoReply, "neutral"}
      /\ inbox[e] # i
      /\ inbox' = [inbox EXCEPT ![e] = i]
      /\ UNCHANGED <<control, record, steps, history>>

GraphStep ==
  \/ AccountSelector \/ ResearchSucceeds \/ ResearchFails \/ EnrichmentRetry
  \/ Personaliser \/ PersonaliserRaises \/ ApprovalGate \/ ApprovalGateRaises
  \/ SenderDelivers \/ SenderSkips \/ SenderRefused \/ SenderRaises
  \/ ReplyMonitor \/ ReplyMonitorRaises \/ Router
  \/ NotifySales \/ UnsubscribeHandler \/ MemoryUpdater \/ RecursionError

Next == GraphStep \/ Answer

Spec == Init /\ [][Next]_vars
-----------------------------------------------------------------------------
(* The type invariant, in three parts: what the graph keeps in its state,  *)
(* what it leaves behind, and the history the properties need.             *)
ControlOK ==
  /\ node \in Nodes \cup Terminal
  /\ current \in Account \cup {None} /\ enrichment \in Account \cup {None}
  /\ contact \in ContactId \cup {None} /\ stage \in Stage
  /\ retries \in 0..MaxRetries
  /\ draft \in Drafts \cup {NoDraft}
  /\ approval \in ApprovalResults \cup {"none"}
  /\ reply \in Intents \cup {NoReply}
  /\ error \in BOOLEAN /\ continue \in BOOLEAN
  /\ steps \in 0..RecursionLimit

RecordOK ==
  /\ messages \in Seq(Rows) /\ rows \subseteq Rows /\ outbox \in Seq(Mails)
  /\ unconfirmed \subseteq DOMAIN outbox
  /\ inbox \in [Emails -> Intents \cup {NoReply}]

HistoryOK ==
  /\ approved \subseteq Drafts
  /\ halted \subseteq Account /\ gaveUp \subseteq Account

(* The state stays within its types.                                       *)
TypeOK == ControlOK /\ RecordOK /\ HistoryOK

(* Every mail that left was written for this account, contact and stage    *)
(* from this account's own research, went to a contact of the account, and *)
(* is word for word the draft the approval tool approved: no stale draft,  *)
(* contact, enrichment or approval of an earlier account or stage leaks    *)
(* through the shared state into sender's POST.                            *)
MailMatchesApprovedDraft ==
  \A i \in DOMAIN outbox :
    LET m == outbox[i] IN
      /\ m.draft \in approved
      /\ m.draft = [account |-> m.account, contact |-> m.contact,
                    stage |-> m.stage, research |-> m.account]
      /\ Contacts[m.contact].account = m.account

(* x is of an earlier account of the batch than y, or of an earlier stage. *)
Before(x, y) ==
  \/ x.account < y.account
  \/ x.account = y.account /\ x.stage < y.stage

(* Mails leave in batch order and, within an account, by rising stage: no  *)
(* stage is mailed twice and no account is come back to.                   *)
MailsInOrder ==
  \A i, j \in DOMAIN outbox : i < j => Before(outbox[i], outbox[j])

SameMail(x, y) == x.account = y.account /\ x.contact = y.contact /\ x.stage = y.stage
Entry(m) == [account |-> m.account, contact |-> m.contact, stage |-> m.stage,
             status |-> "sent"]

(* A mail that left is in sent_messages or is one that n8n or PostgreSQL   *)
(* did not confirm, never both.  Nothing else is listed, nothing twice,    *)
(* and what is listed has its row.  A row stands for a mail that left, and *)
(* unless the run crashed for a listed one.  An unconfirmed mail is noted  *)
(* as an error until the run is done with its account.                     *)
MessagesMatchOutbox ==
  /\ \A i \in DOMAIN outbox :
       i \notin unconfirmed <=> \E k \in DOMAIN messages : messages[k] = Entry(outbox[i])
  /\ \A k \in DOMAIN messages :
       /\ \E i \in DOMAIN outbox : messages[k] = Entry(outbox[i])
       /\ \E r \in rows : SameMail(r, messages[k])
  /\ \A j, k \in DOMAIN messages : j < k => Before(messages[j], messages[k])
  /\ \A r \in rows :
       /\ \E i \in DOMAIN outbox : SameMail(r, outbox[i])
       /\ node = "crashed" \/ \E k \in DOMAIN messages : SameMail(r, messages[k])
  /\ node \in Nodes \ {"account_selector"} =>
       \A i \in unconfirmed : outbox[i].account = current => error

(* Supersteps one account can take when enrichment_retry does not give up. *)
StepsPerAccount ==
  1 + (2 * MaxRetries + 1) + 5 * (IF MaxStages = 1 THEN 1 ELSE MaxStages - 1) + 2

(* A run walks through its batch: one that ends normally has come to the   *)
(* last account, unless a draft was left unapproved; and it is bounded by  *)
(* the accounts it has come to, unless enrichment_retry gave up: that loop *)
(* alone can exhaust LangGraph's superstep limit.                          *)
BatchIsWalked ==
  /\ node = "END" => current = NumAccounts \/ approval \in {"pending", "error"}
  /\ gaveUp = {} => steps <= current * StepsPerAccount

(* Once the router has acted on a positive, negative or unsubscribe reply, *)
(* nothing more is mailed for that account.                                *)
NoMailAfterReply == [][outbox' # outbox => current \notin halted]_vars

(* router's "All stages exhausted": an account that leaves the sequence    *)
(* without a reply that stops it has had its last stage drafted.           *)
LastStageReached ==
  node = "memory_updater" /\ current \notin halted => draft.stage = MaxStages
-----------------------------------------------------------------------------
(* The batch as a whole implements the campaign it stands for: its last    *)
(* mail, if it went to the current account, is the stage reached.          *)
LastStageMailed ==
  IF outbox # <<>> /\ outbox[Len(outbox)].account = current
  THEN outbox[Len(outbox)].stage ELSE 0

Campaign == INSTANCE Campaign WITH
  account <- current, lastStage <- LastStageMailed, mails <- Len(outbox),
  stopped <- current \in halted, over <- node \in Terminal

(* Every run is a run of the campaign: accounts in order, rising stages,   *)
(* nothing after a reply that stops the account.                           *)
ImplementsCampaign == Campaign!Spec
=============================================================================
