---------------------------- MODULE Qualification ----------------------------
(***************************************************************************)
(* The qualification pipeline (src/agent/qualification_graph.py and the    *)
(* nodes it wires), run over a batch by handle_qualification_batch of      *)
(* src/worker/handlers.py.  One action is one superstep: the node's whole  *)
(* body and the edge after it.  Every value a node computes is abstracted  *)
(* to the account it was computed for, so a value that outlives its        *)
(* account shows; contacts, which can be another account's, are kept.      *)
(*                                                                         *)
(* Keys no node or edge reads (error, should_continue, the enrichment) are *)
(* left out.  Of ranked_contacts the three best matter, as a set.  The     *)
(* gate is module AutoOutboundGate; here it triggers or not.               *)
(*                                                                         *)
(* Outside src/: LangGraph's limit on supersteps, and BullMQ, which        *)
(* delivers the job again when its worker has died.                        *)
(***************************************************************************)
EXTENDS Integers, Sequences, FiniteSets, SequencesExt

CONSTANTS
  Accounts,         \* account ids
  None,             \* Python's None, and an empty list
  Similar,          \* pairs with one domain or similar names; an account given
                    \* by its id has neither
  Contacts,         \* contact ids
  Owner,            \* contact.account_id
  Batches,          \* batches a job can carry
  RecursionLimit,   \* supersteps LangGraph allows one run
  MaxStalls         \* deliveries BullMQ repeats after a stall

ASSUME QualificationAssumption ==
  /\ None \notin Accounts \cup Contacts
  /\ Similar \subseteq Accounts \X Accounts
  /\ IsFiniteSet(Contacts) /\ Owner \in [Contacts -> Accounts]
  /\ Batches \subseteq Seq(Accounts)
  /\ RecursionLimit \in Nat \ {0} /\ MaxStalls \in Nat

Source == Accounts \cup {None}
Verdicts == {"pursue_now", "nurture", "disqualify", "human_review_required"}
Terminal == {"END", "crashed"}
Nodes == {"data_ingester", "entity_resolver", "select_next_account", "icp_scorer",
          "signal_detector", "contact_ranker", "pain_inferrer",
          "value_prop_matcher", "action_recommender", "brief_builder",
          "brief_reviewer", "crm_writer", "zoho_writer", "task_creator",
          "auto_outbound_gate", "draft_email_generator"}

Scores == [account : Source, disqualified : BOOLEAN, signals : Source]
NoScore == [account |-> None, disqualified |-> FALSE, signals |-> None]
Named == SUBSET (Contacts \cup {None})
Rankings == [account : Source, contacts : Named]
NoRanking == [account |-> None, contacts |-> {}]
(* The best first contact is one of contacts.                              *)
Actions == [account : Source, verdict : Verdicts \cup {"none"}, contacts : Named]
NoAction == [account |-> None, verdict |-> "none", contacts |-> {}]
(* Of a brief: the accounts its parts were computed for, and the contacts  *)
(* it recommends.                                                          *)
Briefs == [account : Source, basis : SUBSET Accounts, contacts : Named]
NoBrief == [account |-> None, basis |-> {}, contacts |-> {}]

VARIABLES
  node,        \* the node the next superstep runs, or how the run ended
  batch,       \* the accounts the job's payload stands for
  accounts,    \* state["accounts"]
  contacts,    \* state["contacts"]
  current,     \* current_account
  score,       \* account_score, with the signals it was computed from
  signals, pains, props,  \* account they were found for
  ranked,      \* ranked_contacts[:3], and the account they were ranked for
  action,      \* action_recommendation
  brief,       \* seller_brief
  approval,    \* approval_status
  triggered,   \* auto_outbound_triggered
  drafts,      \* draft_emails
  written,     \* what was written about an account, by which delivery
  mentioned,   \* contacts that what was written names
  reviews,     \* accounts posted to Slack for review, by which delivery
  steps,       \* supersteps used
  delivery     \* how often the job has been redelivered

values == <<score, signals, pains, props, ranked, action, brief>>
input == <<batch, accounts, contacts>>
state == <<input, current, values, approval, triggered, drafts>>
writing == <<written, mentioned>>
world == <<writing, reviews>>
vars == <<node, state, world, steps, delivery>>
-----------------------------------------------------------------------------
Position(a) == CHOOSE i \in DOMAIN accounts :
                 accounts[i] = a /\ \A j \in 1..i-1 : accounts[j] # a

(* Mutant: the last account is not looked for.                             *)
AfterDraftEmail_OneShort ==
  IF current # None /\ Position(current) + 1 < Len(accounts)
  THEN "select_next_account" ELSE "END"

(* _after_draft_email                                                      *)
AfterDraftEmail ==
  IF current # None /\ Position(current) < Len(accounts)
  THEN "select_next_account" ELSE "END"

(* _after_auto_outbound                                                    *)
AfterAutoOutbound(trig) ==
  IF trig \/ action.verdict = "pursue_now" THEN "draft_email_generator"
  ELSE AfterDraftEmail

(* _after_icp_scorer                                                       *)
AfterIcpScorer(sc) == IF sc.disqualified THEN "action_recommender" ELSE "signal_detector"

(* Mutant: the edge lets everything through to writeback.                  *)
AfterBriefReviewer_Always(status) == "crm_writer"

(* _after_brief_reviewer                                                   *)
AfterBriefReviewer(status) == IF status = "pending_review" THEN "END" ELSE "crm_writer"

Superstep(n) ==
  /\ node = n
  /\ steps < RecursionLimit
  /\ steps' = steps + 1
  /\ UNCHANGED delivery

(* handle_qualification_batch                                              *)
Init ==
  /\ batch \in Batches
  /\ node = "data_ingester" /\ steps = 0
  /\ accounts = <<>> /\ contacts = {} /\ current = None
  /\ score = NoScore /\ signals = None /\ pains = None /\ props = None
  /\ ranked = NoRanking /\ action = NoAction /\ brief = NoBrief
  /\ approval = "none" /\ triggered = FALSE /\ drafts = {}
  /\ written = {} /\ mentioned = {} /\ reviews = {}
  /\ delivery = 0
-----------------------------------------------------------------------------
(* data_ingester: the batch, and whatever contacts the upload, the CRM and *)
(* Apollo give for it (each of them may fail and is then left out).        *)
DataIngester ==
  /\ Superstep("data_ingester")
  /\ node' = "entity_resolver"
  /\ accounts' = batch
  /\ contacts' \in IF batch = <<>> THEN {{}}
                   ELSE SUBSET {c \in Contacts : Owner[c] \in Range(batch)}
  /\ UNCHANGED <<batch, current, values, approval, triggered, drafts, world>>

(* deduplicate_accounts: an account survives unless it is similar to one   *)
(* that survived before it.  The one set of positions this describes.      *)
Deduplicated(seq) ==
  {kept \in SUBSET DOMAIN seq :
     \A i \in DOMAIN seq :
       i \in kept <=> ~\E k \in kept : k < i /\ <<seq[k], seq[i]>> \in Similar}

(* entity_resolver: the survivors, in their order.  Contacts with one      *)
(* e-mail address are merged; here addresses differ.                       *)
EntityResolver ==
  /\ Superstep("entity_resolver")
  /\ node' = "select_next_account"
  /\ \E kept \in Deduplicated(accounts) : \E at \in [1..Cardinality(kept) -> kept] :
       /\ \A i, j \in DOMAIN at : i < j => at[i] < at[j]
       /\ accounts' = [i \in DOMAIN at |-> accounts[at[i]]]
  /\ UNCHANGED <<batch, contacts, current, values, approval, triggered, drafts, world>>

(* Mutant: the values a disqualified account skips are not cleared.        *)
SelectNextAccount_KeepsValues ==
  /\ Superstep("select_next_account")
  /\ node' = "icp_scorer"
  /\ LET next == IF current = None THEN 1 ELSE Position(current) + 1 IN
       IF next > Len(accounts)
       THEN UNCHANGED <<current, values>>
       ELSE /\ current' = accounts[next]
            /\ score' = NoScore /\ action' = NoAction /\ brief' = NoBrief
            /\ UNCHANGED <<signals, pains, props, ranked>>
  /\ UNCHANGED <<input, approval, triggered, drafts, world>>

(* select_next_account: also without any account the edge goes on.         *)
SelectNextAccount ==
  /\ Superstep("select_next_account")
  /\ node' = "icp_scorer"
  /\ LET next == IF current = None THEN 1 ELSE Position(current) + 1 IN
       IF next > Len(accounts)
       THEN UNCHANGED <<current, values>>
       ELSE /\ current' = accounts[next]
            /\ score' = NoScore /\ signals' = None /\ pains' = None /\ props' = None
            /\ ranked' = NoRanking /\ action' = NoAction /\ brief' = NoBrief
  /\ UNCHANGED <<input, approval, triggered, drafts, world>>
-----------------------------------------------------------------------------
(* An intelligence node: without a current account it returns at once.     *)
Analyse(n) ==
  /\ Superstep(n)
  /\ UNCHANGED <<input, current, approval, triggered, drafts, world>>

IcpScorer ==
  /\ Analyse("icp_scorer")
  /\ IF current = None THEN UNCHANGED score
     ELSE \E d \in BOOLEAN :
            score' = [account |-> current, disqualified |-> d,
                      signals |-> IF d THEN None ELSE signals]
  /\ node' = AfterIcpScorer(score')
  /\ UNCHANGED <<signals, pains, props, ranked, action, brief>>

(* The tools, the model and the parsing may fail: an empty list.           *)
SignalDetector ==
  /\ Analyse("signal_detector")
  /\ signals' \in IF current = None THEN {signals} ELSE {current, None}
  /\ node' = "contact_ranker"
  /\ UNCHANGED <<score, pains, props, ranked, action, brief>>

(* contact_ranker: the model ranks the contacts of the whole batch, and may*)
(* name one that is not there (None).                                      *)
ContactRanker ==
  /\ Analyse("contact_ranker")
  /\ IF current = None THEN UNCHANGED ranked
     ELSE \E top \in SUBSET (contacts \cup {None}) :
            /\ Cardinality(top) <= 3
            /\ contacts = {} => top = {}
            /\ ranked' = [account |-> current, contacts |-> top]
  /\ node' = "pain_inferrer"
  /\ UNCHANGED <<score, signals, pains, props, action, brief>>

PainInferrer ==
  /\ Analyse("pain_inferrer")
  /\ pains' \in IF current = None THEN {pains} ELSE {current, None}
  /\ node' = "value_prop_matcher"
  /\ UNCHANGED <<score, signals, props, ranked, action, brief>>

ValuePropMatcher ==
  /\ Analyse("value_prop_matcher")
  /\ props' \in IF current = None THEN {props} ELSE {current, None}
  /\ node' = "action_recommender"
  /\ UNCHANGED <<score, signals, pains, ranked, action, brief>>

(* recommend_action: pursue_now takes a relevant contact and a confident   *)
(* pain hypothesis.                                                        *)
Recommended ==
  IF score = NoScore THEN {"human_review_required"}
  ELSE IF score.disqualified THEN {"disqualify"}
  ELSE Verdicts \ (IF ranked.contacts = {} \/ pains = None THEN {"pursue_now"} ELSE {})

ActionRecommender ==
  /\ Analyse("action_recommender")
  /\ IF current = None THEN UNCHANGED action
     ELSE \E verdict \in Recommended :
            action' = [account |-> current, verdict |-> verdict,
                       contacts |-> IF verdict = "disqualify" THEN {} ELSE ranked.contacts]
  /\ node' = "brief_builder"
  /\ UNCHANGED <<score, signals, pains, props, ranked, brief>>

(* brief_builder: no brief when the model's call fails.                    *)
BriefBuilder ==
  /\ Analyse("brief_builder")
  /\ brief' \in
       IF current = None THEN {brief}
       ELSE {NoBrief,
             [account |-> current,
              basis |-> {score.account, score.signals, signals, ranked.account,
                        pains, props, action.account} \ {None},
              contacts |-> ranked.contacts]}
  /\ node' = "brief_reviewer"
  /\ UNCHANGED <<score, signals, pains, props, ranked, action>>
-----------------------------------------------------------------------------
(* brief_reviewer: recommend_action never asks for a manager's approval.   *)
AutoApprove ==
  /\ Superstep("brief_reviewer")
  /\ action.verdict = "pursue_now"
  /\ approval' = "auto_approved"
  /\ node' = AfterBriefReviewer(approval')
  /\ UNCHANGED <<input, current, values, triggered, drafts, world>>

(* Mutant: the answer's status is returned.                                *)
AskReview_Answer ==
  /\ Superstep("brief_reviewer")
  /\ action.verdict # "pursue_now"
  /\ approval' \in {"pending_review", "error"}
  /\ node' = AfterBriefReviewer(approval')
  /\ reviews' \in {reviews, reviews \cup {[account |-> current, delivery |-> delivery]}}
  /\ UNCHANGED <<input, current, values, triggered, drafts, writing>>

(* brief_reviewer: Slack has the request, or answered with an error that   *)
(* is not looked at.                                                       *)
AskReview ==
  /\ Superstep("brief_reviewer")
  /\ action.verdict # "pursue_now"
  /\ approval' = "pending_review"
  /\ node' = AfterBriefReviewer(approval')
  /\ reviews' \in {reviews, reviews \cup {[account |-> current, delivery |-> delivery]}}
  /\ UNCHANGED <<input, current, values, triggered, drafts, writing>>

(* brief_reviewer: Slack or the rate limiter raises, perhaps after Slack   *)
(* has posted the request.                                                 *)
ReviewRaises ==
  /\ Superstep("brief_reviewer")
  /\ action.verdict # "pursue_now"
  /\ node' = "crashed"
  /\ reviews' \in {reviews, reviews \cup {[account |-> current, delivery |-> delivery]}}
  /\ UNCHANGED <<state, writing>>

(* What a writer leaves behind about the current account, by some of its   *)
(* best effort calls or none: the accounts whose values it rests on and    *)
(* the contacts it names.                                                  *)
Basis == ({score.account, score.signals, action.account} \cup brief.basis) \ {None}

MayWrite(named) ==
  \/ UNCHANGED writing
  \/ /\ written' = written \cup {[account |-> current, delivery |-> delivery,
                                  basis |-> Basis]}
     /\ mentioned' = mentioned \cup (named \ {None})

(* crm_writer: HubSpot, then the score and the whole brief in PostgreSQL.  *)
CrmWriter ==
  /\ Superstep("crm_writer")
  /\ node' = "zoho_writer"
  /\ IF current = None THEN UNCHANGED writing
     ELSE MayWrite(brief.contacts)
  /\ UNCHANGED <<state, reviews>>

(* zoho_writer: the scores, the brief with its top contacts, and a task    *)
(* that names the best first contact.                                      *)
ZohoWriter ==
  /\ Superstep("zoho_writer")
  /\ node' = "task_creator"
  /\ IF current = None THEN UNCHANGED writing
     ELSE MayWrite(brief.contacts \cup action.contacts)
  /\ UNCHANGED <<state, reviews>>

(* task_creator: a HubSpot task that names the best first contact.         *)
TaskCreator ==
  /\ Superstep("task_creator")
  /\ node' = "auto_outbound_gate"
  /\ IF current = None \/ action.verdict \notin {"pursue_now", "human_review_required"}
     THEN UNCHANGED writing
     ELSE MayWrite(action.contacts)
  /\ UNCHANGED <<state, reviews>>

(* auto_outbound_gate: asks for pursue_now, and may trigger.               *)
Gate ==
  /\ Superstep("auto_outbound_gate")
  /\ triggered' \in IF action.verdict = "pursue_now" THEN BOOLEAN ELSE {FALSE}
  /\ node' = AfterAutoOutbound(triggered')
  /\ UNCHANGED <<input, current, values, approval, drafts, world>>

(* draft_email_generator: a draft for each ranked contact that has an      *)
(* address, if the model answers.                                          *)
DraftEmailGenerator ==
  /\ Superstep("draft_email_generator")
  /\ drafts' \in IF current = None \/ action.verdict # "pursue_now" THEN {{}}
                 ELSE SUBSET [account : {current}, contact : ranked.contacts \ {None}]
  /\ node' = AfterDraftEmail
  /\ UNCHANGED <<input, current, values, approval, triggered, world>>

(* GraphRecursionError                                                     *)
RecursionError ==
  /\ node \in Nodes
  /\ steps = RecursionLimit
  /\ node' = "crashed"
  /\ UNCHANGED <<state, world, steps, delivery>>

(* The worker dies before the job is reported done, in the middle of the   *)
(* run or after its last superstep: BullMQ delivers the job again, and the *)
(* handler starts a thread of its own for it.                              *)
Redeliver ==
  /\ delivery < MaxStalls
  /\ delivery' = delivery + 1
  /\ node' = "data_ingester" /\ steps' = 0
  /\ accounts' = <<>> /\ contacts' = {} /\ current' = None
  /\ score' = NoScore /\ signals' = None /\ pains' = None /\ props' = None
  /\ ranked' = NoRanking /\ action' = NoAction /\ brief' = NoBrief
  /\ approval' = "none" /\ triggered' = FALSE /\ drafts' = {}
  /\ UNCHANGED <<batch, world>>

GraphStep ==
  \/ DataIngester \/ EntityResolver \/ SelectNextAccount
  \/ IcpScorer \/ SignalDetector \/ ContactRanker \/ PainInferrer
  \/ ValuePropMatcher \/ ActionRecommender \/ BriefBuilder
  \/ AutoApprove \/ AskReview \/ ReviewRaises
  \/ CrmWriter \/ ZohoWriter \/ TaskCreator \/ Gate \/ DraftEmailGenerator
  \/ RecursionError

Next == GraphStep \/ Redeliver

Spec == Init /\ [][Next]_vars
-----------------------------------------------------------------------------
TypeOK ==
  /\ node \in Nodes \cup Terminal
  /\ batch \in Batches /\ accounts \in Seq(Accounts) /\ contacts \subseteq Contacts
  /\ current \in Source
  /\ score \in Scores /\ signals \in Source /\ pains \in Source /\ props \in Source
  /\ ranked \in Rankings /\ ranked.contacts \subseteq contacts \cup {None}
  /\ action \in Actions /\ brief \in Briefs
  /\ approval \in {"none", "auto_approved", "pending_review"}
  /\ triggered \in BOOLEAN
  /\ drafts \subseteq [account : Accounts, contact : Contacts]
  /\ written \subseteq [account : Accounts, delivery : 0..MaxStalls,
                        basis : SUBSET Accounts]
  /\ mentioned \subseteq Contacts
  /\ reviews \subseteq [account : Source, delivery : 0..MaxStalls]
  /\ steps \in 0..RecursionLimit /\ delivery \in 0..MaxStalls

(* What is written about an account, by HubSpot, Zoho, PostgreSQL or a     *)
(* task, rests on the score, signals, ranking, pains, value propositions   *)
(* and recommendation of that account's own turn, whichever nodes were     *)
(* skipped or failed for it and for the accounts before it.  The contacts  *)
(* it names are contacts of accounts of the batch: not only of this one,   *)
(* for the ranking is one of the batch's contacts.                         *)
WrittenFromOwnTurn ==
  /\ \A w \in written : w.basis \subseteq {w.account}
  /\ \A c \in mentioned : Owner[c] \in Range(batch)

(* A delivery that has asked a person to review an account writes nothing  *)
(* more, about it or about any account after it.  (A delivery of the same  *)
(* job after it may: the model can recommend otherwise.)                   *)
NothingWrittenUnderReview ==
  [][written' # written => ~\E r \in reviews : r.delivery = delivery]_vars

(* Supersteps of one account, from select_next_account on.                 *)
StepsPerAccount == 14

(* With distinct ids, a delivery comes to crm_writer at most once for each *)
(* account, so that what it writes is repeated by a redelivery only; it    *)
(* takes two supersteps for the batch and at most fourteen for each        *)
(* account it has come to; and if it ends normally it has come to its last *)
(* account, unless it waits for a review.                                  *)
EachAccountOnce ==
  /\ node = "crm_writer" =>
       ~\E w \in written : w.account = current /\ w.delivery = delivery
  /\ steps <= 2 + StepsPerAccount * (IF current = None THEN 1 ELSE Position(current))
  /\ node = "END" => approval = "pending_review" \/ current = Last(accounts)

(* "for top contacts of the current account": a draft is addressed to a    *)
(* contact of the account it is about.                                     *)
DraftsGoToOwnContacts == \A d \in drafts : Owner[d.contact] = d.account
=============================================================================
