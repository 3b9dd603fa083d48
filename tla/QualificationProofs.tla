------------------------- MODULE QualificationProofs -------------------------
(***************************************************************************)
(* Theorems about Qualification, for all batches, contacts and similarity  *)
(* of accounts, every recursion limit and every number of redeliveries.    *)
(***************************************************************************)
EXTENDS Qualification, FiniteSetTheorems, WellFoundedInduction, TLAPS

(* Induction on numbers, without an operator for what is proved.           *)
LEMMA LeastElement ==
  ASSUME NEW T \in SUBSET Nat, T # {}
  PROVE  \E m \in T : \A k \in T : m <= k
<1> DEFINE R == OpToRel(<, Nat)
<1>1. IsWellFoundedOn(R, Nat)
  BY NatLessThanWellFounded
<1>2. \A x, y \in Nat : x < y => <<x, y>> \in R
  BY Zenon DEF OpToRel
<1> HIDE DEF R
<1>3. PICK m \in T : \A k \in T : <<k, m>> \notin R
  BY <1>1, WFMin
<1>4. \A k \in T : ~(k < m)
  BY <1>2, <1>3, Zenon
<1> QED BY <1>4

(* Every account of the batch has a position.                              *)
LEMMA PositionIsFirst ==
  ASSUME accounts \in Seq(Accounts), NEW i \in DOMAIN accounts
  PROVE  /\ Position(accounts[i]) \in 1..Len(accounts)
         /\ accounts[Position(accounts[i])] = accounts[i]
<1> DEFINE T == {j \in DOMAIN accounts : accounts[j] = accounts[i]}
<1>1. T \in SUBSET Nat /\ i \in T
  OBVIOUS
<1>2. PICK m \in T : \A k \in T : m <= k
  BY <1>1, LeastElement
<1>3. \A j \in 1..m-1 : accounts[j] # accounts[i]
  BY <1>1, <1>2
<1> QED BY <1>2, <1>3 DEF Position

(* Before the batch is resolved no account is current; then it is one of   *)
(* the batch.                                                              *)
Starting == {"data_ingester", "entity_resolver"}

CurrentInBatch ==
  /\ node \in Starting => current = None
  /\ current # None => \E i \in DOMAIN accounts : accounts[i] = current
  /\ node = "data_ingester" => ranked = NoRanking

TypeInv == TypeOK /\ CurrentInBatch

(* The sequence of the survivors is a sequence of accounts.                *)
LEMMA SurvivorsType ==
  ASSUME accounts \in Seq(Accounts), EntityResolver
  PROVE  accounts' \in Seq(Accounts)
<1>1. PICK kept \in Deduplicated(accounts) : \E at \in [1..Cardinality(kept) -> kept] :
             accounts' = [i \in DOMAIN at |-> accounts[at[i]]]
  BY DEF EntityResolver
<1>2. PICK at \in [1..Cardinality(kept) -> kept] :
             accounts' = [i \in DOMAIN at |-> accounts[at[i]]]
  BY <1>1
<1>3. kept \in SUBSET DOMAIN accounts /\ DOMAIN accounts = 1..Len(accounts)
  BY DEF Deduplicated
<1>4. Cardinality(kept) \in Nat
  <2>1. IsFiniteSet(1..Len(accounts))
    BY FS_Interval
  <2>2. IsFiniteSet(kept)
    BY <1>3, <2>1, FS_Subset
  <2> QED BY <2>2, FS_CardinalityType
<1>5. ASSUME NEW i \in 1..Cardinality(kept) PROVE accounts[at[i]] \in Accounts
  <2>1. at[i] \in kept
    BY <1>2
  <2>2. at[i] \in DOMAIN accounts
    BY <1>3, <2>1, Zenon
  <2> QED BY <2>2
<1> QED BY <1>2, <1>4, <1>5

(* What select_next_account clears values to are values.                   *)
LEMMA NothingType ==
  /\ NoScore \in Scores /\ NoAction \in Actions /\ NoBrief \in Briefs
  /\ NoRanking \in Rankings /\ NoRanking.contacts = {}
BY DEF NoScore, Scores, NoAction, Actions, NoBrief, Briefs, NoRanking, Rankings, Named, Source

(* Each node keeps the types, the current account an account of the batch. *)
LEMMA TypeInductive ==
  ASSUME QualificationAssumption, TypeInv, [Next]_vars
  PROVE  TypeInv'
<1> USE NothingType DEF TypeInv, TypeOK, CurrentInBatch, Superstep, Nodes, Terminal, Starting, Source
<1>1. Basis \subseteq Accounts
  BY DEF Basis, Scores, Actions, Briefs
<1>2. ASSUME NEW named \in Named, MayWrite(named), current # None
      PROVE  /\ written' \subseteq [account : Accounts, delivery : 0..MaxStalls,
                                    basis : SUBSET Accounts]
             /\ mentioned' \subseteq Contacts
  BY <1>1, <1>2 DEF MayWrite, writing, Named
<1>27. /\ brief.contacts \in Named /\ action.contacts \in Named
       /\ brief.contacts \cup action.contacts \in Named
  BY DEF Briefs, Actions, Named
<1>3. AfterDraftEmail \in {"select_next_account", "END"}
  BY DEF AfterDraftEmail
<1>4. CASE DataIngester
  BY <1>4 DEF DataIngester, values, world, writing, QualificationAssumption
<1>5. CASE EntityResolver
  <2>1. /\ node' = "select_next_account" /\ node = "entity_resolver"
        /\ steps < RecursionLimit /\ steps' = steps + 1 /\ delivery' = delivery
        /\ UNCHANGED <<batch, contacts, current, values, approval, triggered, drafts, world>>
    BY <1>5 DEF EntityResolver
  <2>2. accounts' \in Seq(Accounts)
    BY <1>5, SurvivorsType
  <2> QED BY <2>1, <2>2 DEF values, world, writing
<1>6. CASE SelectNextAccount
  <2>1. node' = "icp_scorer" /\ UNCHANGED <<input, approval, triggered, drafts, world>>
    BY <1>6 DEF SelectNextAccount
  <2>2. CASE UNCHANGED <<current, values>>
    BY <1>6, <2>1, <2>2 DEF SelectNextAccount, values, input, world, writing
  <2>3. ASSUME NEW next, next = IF current = None THEN 1 ELSE Position(current) + 1,
               ~(next > Len(accounts)), current' = accounts[next],
               score' = NoScore, signals' = None, pains' = None, props' = None,
               ranked' = NoRanking, action' = NoAction, brief' = NoBrief
        PROVE  TypeInv'
    <3>1. next \in DOMAIN accounts
      BY <2>3, PositionIsFirst
    <3>2. current' \in Accounts
      BY <2>3, <3>1
    <3> QED
      BY <1>6, <2>1, <2>3, <3>1, <3>2, NothingType
         DEF SelectNextAccount, input, world, writing
  <2> QED BY <1>6, <2>2, <2>3 DEF SelectNextAccount
<1>7. CASE IcpScorer
  BY <1>7 DEF IcpScorer, Analyse, input, world, writing, AfterIcpScorer, Scores
<1>8. CASE SignalDetector
  BY <1>8 DEF SignalDetector, Analyse, input, world, writing
<1>9. CASE ContactRanker
  <2>1. ranked' \in Rankings /\ ranked'.contacts \subseteq contacts \cup {None}
    BY <1>9 DEF ContactRanker, Rankings, Named
  <2> QED BY <1>9, <2>1 DEF ContactRanker, Analyse, input, world, writing
<1>10. CASE PainInferrer
  BY <1>10 DEF PainInferrer, Analyse, input, world, writing
<1>11. CASE ValuePropMatcher
  BY <1>11 DEF ValuePropMatcher, Analyse, input, world, writing
<1>12. CASE ActionRecommender
  <2>1. action' \in Actions
    BY <1>12 DEF ActionRecommender, Recommended, Verdicts, Actions, Rankings, Named
  <2> QED BY <1>12, <2>1 DEF ActionRecommender, Analyse, input, world, writing
<1>13. CASE BriefBuilder
  <2>1. {score.account, score.signals, signals, ranked.account, pains, props,
         action.account} \ {None} \subseteq Accounts
    BY DEF Scores, Actions, Rankings
  <2>2. ranked.contacts \in Named
    BY DEF Rankings
  <2>3. brief' \in Briefs
    BY <1>13, <2>1, <2>2 DEF BriefBuilder, Briefs
  <2> QED BY <1>13, <2>3 DEF BriefBuilder, Analyse, input, world, writing
<1>14. CASE AutoApprove
  BY <1>14 DEF AutoApprove, input, values, world, writing, AfterBriefReviewer
<1>15. CASE AskReview
  BY <1>15 DEF AskReview, input, values, writing, AfterBriefReviewer
<1>16. CASE ReviewRaises
  BY <1>16 DEF ReviewRaises, state, input, values, writing
<1>17. CASE CrmWriter
  BY <1>2, <1>27, <1>17 DEF CrmWriter, state, input, values, writing
<1>18. CASE ZohoWriter
  BY <1>2, <1>27, <1>18 DEF ZohoWriter, state, input, values, writing
<1>19. CASE TaskCreator
  BY <1>2, <1>27, <1>19 DEF TaskCreator, state, input, values, writing
<1>20. CASE Gate
  <2>1. triggered' \in BOOLEAN
    BY <1>20 DEF Gate
  <2>2. node' \in {"draft_email_generator", "select_next_account", "END"}
    BY <1>3, <1>20 DEF Gate, AfterAutoOutbound
  <2> QED BY <1>20, <2>1, <2>2 DEF Gate, input, values, world, writing
<1>21. CASE DraftEmailGenerator
  <2>1. drafts' \subseteq [account : Accounts, contact : Contacts]
    BY <1>21 DEF DraftEmailGenerator
  <2> QED BY <1>3, <1>21, <2>1 DEF DraftEmailGenerator, input, values, world, writing
<1>22. CASE RecursionError
  BY <1>22 DEF RecursionError, state, input, values, world, writing
<1>23. CASE Redeliver
  <2>1. accounts' \in Seq(Accounts)
    BY <1>23 DEF Redeliver
  <2>2. /\ delivery < MaxStalls /\ delivery' = delivery + 1
        /\ node' = "data_ingester" /\ steps' = 0 /\ contacts' = {} /\ current' = None
        /\ score' = NoScore /\ signals' = None /\ pains' = None /\ props' = None
        /\ ranked' = NoRanking /\ action' = NoAction /\ brief' = NoBrief
        /\ approval' = "none" /\ triggered' = FALSE /\ drafts' = {}
        /\ UNCHANGED <<batch, written, mentioned, reviews>>
    BY <1>23 DEF Redeliver, world, writing
  <2> QED
    <3>1. CurrentInBatch'
      BY <2>2
    <3>2. steps' \in 0..RecursionLimit /\ delivery' \in 0..MaxStalls
      BY <2>2 DEF QualificationAssumption
    <3>3. /\ node' \in Nodes /\ contacts' \subseteq Contacts
          /\ ranked' \in Rankings /\ ranked'.contacts \subseteq contacts' \cup {None}
          /\ drafts' \subseteq [account : Accounts, contact : Contacts]
      BY <2>2
    <3> QED BY <2>1, <2>2, <3>1, <3>2, <3>3, NothingType
<1>24. CASE UNCHANGED vars
  BY <1>24 DEF vars, state, input, values, world, writing
<1> QED
  BY <1>4, <1>5, <1>6, <1>7, <1>8, <1>9, <1>10, <1>11, <1>12, <1>13, <1>14,
     <1>15, <1>16, <1>17, <1>18, <1>19, <1>20, <1>21, <1>22, <1>23, <1>24
     DEF Next, GraphStep

(* A delivery begins with typed, empty values.                             *)
LEMMA InitialTypes ==
  ASSUME Init
  PROVE  TypeInv
<1>1. accounts \in Seq(Accounts)
  BY DEF Init
<1>2. /\ batch \in Batches /\ node = "data_ingester" /\ steps = 0 /\ contacts = {}
      /\ current = None /\ score = NoScore /\ signals = None /\ pains = None
      /\ props = None /\ ranked = NoRanking /\ action = NoAction /\ brief = NoBrief
      /\ approval = "none" /\ triggered = FALSE /\ drafts = {}
      /\ written = {} /\ mentioned = {} /\ reviews = {} /\ delivery = 0
  BY DEF Init
<1>3. CurrentInBatch
  BY <1>2 DEF CurrentInBatch
<1>4. steps \in 0..RecursionLimit /\ delivery \in 0..MaxStalls
  BY <1>2, QualificationAssumption DEF QualificationAssumption
<1>5. /\ node \in Nodes /\ contacts \subseteq Contacts
      /\ ranked.contacts \subseteq contacts \cup {None} /\ mentioned \subseteq Contacts
      /\ drafts \subseteq [account : Accounts, contact : Contacts]
      /\ written \subseteq [account : Accounts, delivery : 0..MaxStalls,
                           basis : SUBSET Accounts]
      /\ reviews \subseteq [account : Source, delivery : 0..MaxStalls]
  BY <1>2, NothingType DEF Nodes
<1> QED
  BY <1>1, <1>2, <1>3, <1>4, <1>5, NothingType DEF TypeInv, TypeOK, Source

(* The state keeps its types: no value of a contact, an account or a       *)
(* verdict is one the batch does not have.                                 *)
THEOREM TypeCorrect == Spec => []TypeOK
<1>1. Init => TypeInv
  BY InitialTypes
<1>2. TypeInv /\ [Next]_vars => TypeInv'
  BY TypeInductive, QualificationAssumption
<1>3. TypeInv => TypeOK
  BY DEF TypeInv
<1> QED BY <1>1, <1>2, <1>3, PTL DEF Spec
-----------------------------------------------------------------------------
(* A review is asked for by a delivery that has come, and ends its run.    *)
ReviewEndsRun ==
  /\ delivery \in Nat
  /\ \A r \in reviews : /\ r.delivery \in 0..delivery
                        /\ r.delivery = delivery => node \in Terminal

LEMMA ReviewEndsRunInductive ==
  ASSUME ReviewEndsRun, [Next]_vars
  PROVE  ReviewEndsRun'
<1> USE DEF ReviewEndsRun, Superstep, Terminal, Nodes
<1>1. ASSUME node \in Nodes, UNCHANGED <<delivery, reviews>>
      PROVE  ReviewEndsRun'
  BY <1>1
<1>2. CASE DataIngester BY <1>1, <1>2 DEF DataIngester, world, writing
<1>3. CASE EntityResolver BY <1>1, <1>3 DEF EntityResolver, world, writing
<1>4. CASE SelectNextAccount BY <1>1, <1>4 DEF SelectNextAccount, world, writing
<1>5. CASE \/ IcpScorer \/ SignalDetector \/ ContactRanker \/ PainInferrer
           \/ ValuePropMatcher \/ ActionRecommender \/ BriefBuilder
  BY <1>1, <1>5 DEF IcpScorer, SignalDetector, ContactRanker, PainInferrer,
       ValuePropMatcher, ActionRecommender, BriefBuilder, Analyse, world, writing
<1>6. CASE AutoApprove BY <1>1, <1>6 DEF AutoApprove, world, writing
<1>7. CASE AskReview
  <2>1. node' = "END" /\ delivery' = delivery
    BY <1>7 DEF AskReview, AfterBriefReviewer
  <2> QED BY <1>7, <2>1 DEF AskReview
<1>8. CASE ReviewRaises BY <1>8 DEF ReviewRaises
<1>9. CASE CrmWriter \/ ZohoWriter \/ TaskCreator
  BY <1>1, <1>9 DEF CrmWriter, ZohoWriter, TaskCreator
<1>10. CASE Gate BY <1>1, <1>10 DEF Gate, world, writing
<1>11. CASE DraftEmailGenerator BY <1>1, <1>11 DEF DraftEmailGenerator, world, writing
<1>12. CASE RecursionError BY <1>1, <1>12 DEF RecursionError, world, writing
<1>13. CASE Redeliver BY <1>13 DEF Redeliver, world, writing
<1>14. CASE UNCHANGED vars BY <1>14 DEF vars, world, writing
<1> QED
  BY <1>2, <1>3, <1>4, <1>5, <1>6, <1>7, <1>8, <1>9, <1>10, <1>11, <1>12,
     <1>13, <1>14 DEF Next, GraphStep

(* The edge after brief_reviewer keeps everything under review away from   *)
(* the three writers, for every recommendation and every failure.          *)
THEOREM ReviewGatesWriting == Spec => NothingWrittenUnderReview
<1> DEFINE Silent == written' # written => ~\E r \in reviews : r.delivery = delivery
<1>1. Init => ReviewEndsRun
  BY DEF Init, ReviewEndsRun
<1>2. ReviewEndsRun /\ [Next]_vars => ReviewEndsRun'
  BY ReviewEndsRunInductive
<1>3. ReviewEndsRun /\ [Next]_vars => [Silent]_vars
  <2> SUFFICES ASSUME ReviewEndsRun, Next, written' # written
               PROVE  node \notin Terminal
    BY DEF ReviewEndsRun
  <2>1. CrmWriter \/ ZohoWriter \/ TaskCreator
    BY DEF Next, GraphStep, DataIngester, EntityResolver, SelectNextAccount,
           IcpScorer, SignalDetector, ContactRanker, PainInferrer,
           ValuePropMatcher, ActionRecommender, BriefBuilder, Analyse, AutoApprove,
           AskReview, ReviewRaises, Gate, DraftEmailGenerator, RecursionError,
           Redeliver, world, writing
  <2> QED
    BY <2>1 DEF CrmWriter, ZohoWriter, TaskCreator, Superstep, Terminal
<1> QED BY <1>1, <1>2, <1>3, PTL DEF Spec, NothingWrittenUnderReview
-----------------------------------------------------------------------------
(* No value in the state is left from another account, and every contact   *)
(* is of an account of the batch.                                          *)
ValuesAreCurrent ==
  Basis \cup ({signals, pains, props, ranked.account} \ {None}) \subseteq {current}

OfBatch == {c \in Contacts : Owner[c] \in Range(batch)}

ContactsOfBatch ==
  /\ contacts \subseteq OfBatch /\ mentioned \subseteq OfBatch
  /\ ranked.contacts \cup action.contacts \cup brief.contacts \subseteq OfBatch \cup {None}

WrittenFromCurrent == \A w \in written : w.basis \subseteq {w.account}

OwnInv == ValuesAreCurrent /\ WrittenFromCurrent

(* What select_next_account clears values to has no account.               *)
LEMMA NothingFields ==
  /\ NoScore.account = None /\ NoScore.signals = None
  /\ NoAction.account = None /\ NoAction.contacts = {}
  /\ NoBrief.basis = {} /\ NoBrief.contacts = {}
  /\ NoRanking.account = None /\ NoRanking.contacts = {}
BY DEF NoScore, NoAction, NoBrief, NoRanking

LEMMA OwnInvInductive ==
  ASSUME OwnInv, [Next]_vars
  PROVE  OwnInv'
<1> USE DEF OwnInv, ValuesAreCurrent, Basis
<1>1. ASSUME UNCHANGED <<current, values, written>> PROVE OwnInv'
  BY <1>1 DEF values, WrittenFromCurrent
<1>2. ASSUME UNCHANGED written,
             score' = NoScore, signals' = None, pains' = None, props' = None,
             ranked' = NoRanking, action' = NoAction, brief' = NoBrief
      PROVE  OwnInv'
  BY <1>2, NothingFields DEF WrittenFromCurrent
<1>3. ASSUME UNCHANGED <<current, values>>,
             \/ UNCHANGED written
             \/ written' = written \cup {[account |-> current, delivery |-> delivery,
                                          basis |-> Basis]}
      PROVE  OwnInv'
  <2>1. ValuesAreCurrent'
    BY <1>3 DEF values
  <2>2. ASSUME NEW w \in written' PROVE w.basis \subseteq {w.account}
    BY <1>3, <2>2 DEF WrittenFromCurrent
  <2> QED BY <2>1, <2>2 DEF WrittenFromCurrent
<1>4. CASE DataIngester BY <1>1, <1>4 DEF DataIngester, world, writing, values
<1>5. CASE EntityResolver BY <1>1, <1>5 DEF EntityResolver, world, writing, values
<1>6. CASE SelectNextAccount
  BY <1>1, <1>2, <1>6 DEF SelectNextAccount, world, writing
<1>7. CASE \/ IcpScorer \/ SignalDetector \/ ContactRanker \/ PainInferrer
           \/ ValuePropMatcher \/ ActionRecommender \/ BriefBuilder
  <2>1. UNCHANGED <<current, written>>
    BY <1>7 DEF IcpScorer, SignalDetector, ContactRanker, PainInferrer,
         ValuePropMatcher, ActionRecommender, BriefBuilder, Analyse, world, writing
  <2>2. ASSUME ValuesAreCurrent' PROVE OwnInv'
    BY <2>1, <2>2 DEF WrittenFromCurrent
  <2>3. CASE IcpScorer BY <2>1, <2>2, <2>3 DEF IcpScorer
  <2>4. CASE SignalDetector BY <2>1, <2>2, <2>4 DEF SignalDetector
  <2>5. CASE ContactRanker
    <3>1. UNCHANGED <<score, signals, pains, props, action, brief>>
      BY <2>5 DEF ContactRanker
    <3>2. ranked'.account \in {ranked.account, current}
      BY <2>5 DEF ContactRanker
    <3> QED BY <2>1, <2>2, <3>1, <3>2
  <2>6. CASE PainInferrer BY <2>1, <2>2, <2>6 DEF PainInferrer
  <2>7. CASE ValuePropMatcher BY <2>1, <2>2, <2>7 DEF ValuePropMatcher
  <2>8. CASE ActionRecommender
    <3>1. UNCHANGED <<score, signals, pains, props, ranked, brief>>
      BY <2>8 DEF ActionRecommender
    <3>2. action'.account \in {action.account, current}
      BY <2>8 DEF ActionRecommender
    <3> QED BY <2>1, <2>2, <3>1, <3>2
  <2>9. CASE BriefBuilder
    <3>1. UNCHANGED <<score, signals, pains, props, ranked, action>>
      BY <2>9 DEF BriefBuilder
    <3>2. brief'.basis \subseteq {current}
      BY <2>9, NothingFields DEF BriefBuilder
    <3> QED BY <2>1, <2>2, <3>1, <3>2
  <2> QED BY <1>7, <2>3, <2>4, <2>5, <2>6, <2>7, <2>8, <2>9
<1>8. CASE AutoApprove BY <1>1, <1>8 DEF AutoApprove, world, writing
<1>9. CASE AskReview BY <1>1, <1>9 DEF AskReview, writing
<1>10. CASE ReviewRaises BY <1>1, <1>10 DEF ReviewRaises, state, writing
<1>11. CASE CrmWriter BY <1>3, <1>11 DEF CrmWriter, MayWrite, state, writing
<1>12. CASE ZohoWriter BY <1>3, <1>12 DEF ZohoWriter, MayWrite, state, writing
<1>13. CASE TaskCreator BY <1>3, <1>13 DEF TaskCreator, MayWrite, state, writing
<1>14. CASE Gate BY <1>1, <1>14 DEF Gate, world, writing
<1>15. CASE DraftEmailGenerator BY <1>1, <1>15 DEF DraftEmailGenerator, world, writing
<1>16. CASE RecursionError BY <1>1, <1>16 DEF RecursionError, state, world, writing
<1>17. CASE Redeliver BY <1>2, <1>17 DEF Redeliver, world, writing
<1>18. CASE UNCHANGED vars BY <1>1, <1>18 DEF vars, state, world, writing
<1> QED
  BY <1>4, <1>5, <1>6, <1>7, <1>8, <1>9, <1>10, <1>11, <1>12, <1>13, <1>14,
     <1>15, <1>16, <1>17, <1>18 DEF Next, GraphStep

(* data_ingester finds contacts of the batch only; the others copy them.   *)
LEMMA ContactsOfBatchInductive ==
  ASSUME ContactsOfBatch, [Next]_vars
  PROVE  ContactsOfBatch'
<1> USE DEF ContactsOfBatch
<1>1. OfBatch' = OfBatch
  <2>1. batch' = batch
    BY DEF Next, GraphStep, vars, state, input, values, world, writing,
       DataIngester, EntityResolver, SelectNextAccount, Analyse, IcpScorer,
       SignalDetector, ContactRanker, PainInferrer, ValuePropMatcher,
       ActionRecommender, BriefBuilder, AutoApprove, AskReview, ReviewRaises,
       CrmWriter, ZohoWriter, TaskCreator, Gate, DraftEmailGenerator,
       RecursionError, Redeliver
  <2> QED BY <2>1 DEF OfBatch
<1>2. ASSUME UNCHANGED <<contacts, ranked, action, brief, mentioned>>
      PROVE  ContactsOfBatch'
  BY <1>1, <1>2
<1>3. ASSUME NEW named, named \subseteq OfBatch \cup {None}, MayWrite(named),
             UNCHANGED <<contacts, ranked, action, brief>>
      PROVE  ContactsOfBatch'
  BY <1>1, <1>3 DEF MayWrite, writing
<1>4. CASE DataIngester
  <2>1. contacts' \subseteq OfBatch
    BY <1>4 DEF DataIngester, OfBatch
  <2> QED BY <1>1, <1>4, <2>1 DEF DataIngester, values, world, writing
<1>5. CASE EntityResolver
  BY <1>2, <1>5 DEF EntityResolver, values, world, writing
<1>6. CASE SelectNextAccount
  <2>1. UNCHANGED <<contacts, mentioned>>
    BY <1>6 DEF SelectNextAccount, input, world, writing
  <2>2. \/ UNCHANGED <<ranked, action, brief>>
        \/ ranked' = NoRanking /\ action' = NoAction /\ brief' = NoBrief
    BY <1>6 DEF SelectNextAccount, values
  <2> QED BY <1>1, <2>1, <2>2, NothingFields
<1>7. CASE \/ IcpScorer \/ SignalDetector \/ PainInferrer \/ ValuePropMatcher
  BY <1>2, <1>7 DEF IcpScorer, SignalDetector, PainInferrer, ValuePropMatcher,
     Analyse, input, world, writing
<1>8. CASE ContactRanker
  <2>1. UNCHANGED <<contacts, action, brief, mentioned>>
    BY <1>8 DEF ContactRanker, Analyse, input, world, writing
  <2>2. \/ UNCHANGED ranked
        \/ ranked'.contacts \subseteq contacts \cup {None}
    BY <1>8 DEF ContactRanker
  <2> QED BY <1>1, <2>1, <2>2
<1>9. CASE ActionRecommender
  <2>1. UNCHANGED <<contacts, ranked, brief, mentioned>>
    BY <1>9 DEF ActionRecommender, Analyse, input, world, writing
  <2>2. \/ UNCHANGED action
        \/ action'.contacts \subseteq ranked.contacts
    BY <1>9 DEF ActionRecommender
  <2> QED BY <1>1, <2>1, <2>2
<1>10. CASE BriefBuilder
  <2>1. UNCHANGED <<contacts, ranked, action, mentioned>>
    BY <1>10 DEF BriefBuilder, Analyse, input, world, writing
  <2>2. \/ UNCHANGED brief
        \/ brief'.contacts \subseteq ranked.contacts
    BY <1>10, NothingFields DEF BriefBuilder
  <2> QED BY <1>1, <2>1, <2>2
<1>11. CASE AutoApprove
  BY <1>2, <1>11 DEF AutoApprove, input, values, world, writing
<1>12. CASE AskReview
  BY <1>2, <1>12 DEF AskReview, input, values, writing
<1>13. CASE ReviewRaises
  BY <1>2, <1>13 DEF ReviewRaises, state, input, values, writing
<1>14. CASE CrmWriter \/ ZohoWriter \/ TaskCreator
  <2>1. UNCHANGED <<contacts, ranked, action, brief>>
    BY <1>14 DEF CrmWriter, ZohoWriter, TaskCreator, state, input, values
  <2>2. \/ UNCHANGED mentioned \/ MayWrite(brief.contacts)
        \/ MayWrite(brief.contacts \cup action.contacts) \/ MayWrite(action.contacts)
    BY <1>14 DEF CrmWriter, ZohoWriter, TaskCreator, writing
  <2> QED BY <1>2, <1>3, <2>1, <2>2
<1>15. CASE Gate
  BY <1>2, <1>15 DEF Gate, input, values, world, writing
<1>16. CASE DraftEmailGenerator
  BY <1>2, <1>16 DEF DraftEmailGenerator, input, values, world, writing
<1>17. CASE RecursionError
  BY <1>2, <1>17 DEF RecursionError, state, input, values, world, writing
<1>18. CASE Redeliver
  <2>1. /\ contacts' = {} /\ ranked' = NoRanking /\ action' = NoAction
        /\ brief' = NoBrief /\ mentioned' = mentioned
    BY <1>18 DEF Redeliver, world, writing
  <2> QED BY <1>1, <2>1, NothingFields
<1>19. CASE UNCHANGED vars
  BY <1>2, <1>19 DEF vars, state, input, values, world, writing
<1> QED
  BY <1>4, <1>5, <1>6, <1>7, <1>8, <1>9, <1>10, <1>11, <1>12, <1>13, <1>14,
     <1>15, <1>16, <1>17, <1>18, <1>19 DEF Next, GraphStep

(* What is written about an account rests on that account's own turn, for  *)
(* every batch and whichever nodes fail, are skipped or run again, and     *)
(* names contacts of the batch.                                            *)
THEOREM WritingIsOwn == Spec => []WrittenFromOwnTurn
<1>1. Init => OwnInv /\ ContactsOfBatch
  <2> SUFFICES ASSUME Init PROVE OwnInv /\ ContactsOfBatch
    OBVIOUS
  <2>1. /\ score = NoScore /\ signals = None /\ pains = None /\ props = None
        /\ ranked = NoRanking /\ action = NoAction /\ brief = NoBrief
        /\ contacts = {} /\ written = {} /\ mentioned = {}
    BY DEF Init
  <2> QED
    BY <2>1, NothingFields DEF OwnInv, ValuesAreCurrent, Basis, WrittenFromCurrent,
       ContactsOfBatch
<1>2. OwnInv /\ ContactsOfBatch /\ [Next]_vars => (OwnInv /\ ContactsOfBatch)'
  BY OwnInvInductive, ContactsOfBatchInductive
<1>3. OwnInv /\ ContactsOfBatch => WrittenFromOwnTurn
  BY DEF OwnInv, WrittenFromCurrent, ContactsOfBatch, OfBatch, WrittenFromOwnTurn
<1> QED BY <1>1, <1>2, <1>3, PTL DEF Spec
-----------------------------------------------------------------------------
(* The ids of a batch are ids of different accounts.                       *)
DistinctIds == \A b \in Batches : \A i, j \in DOMAIN b : b[i] = b[j] => i = j

(* Nodes after the review, and the supersteps an account has taken when it *)
(* comes to a node.                                                        *)
Writing == {"crm_writer", "zoho_writer", "task_creator", "auto_outbound_gate",
            "draft_email_generator"}

Taken(n) ==
  CASE n = "icp_scorer" -> 1 [] n = "signal_detector" -> 2
    [] n = "contact_ranker" -> 3 [] n = "pain_inferrer" -> 4
    [] n = "value_prop_matcher" -> 5 [] n = "action_recommender" -> 6
    [] n = "brief_builder" -> 7 [] n = "brief_reviewer" -> 8
    [] n = "crm_writer" -> 9 [] n = "zoho_writer" -> 10
    [] n = "task_creator" -> 11 [] n = "auto_outbound_gate" -> 12
    [] n = "draft_email_generator" -> 13 [] OTHER -> 14

(* How many accounts a delivery has come to.                               *)
Place == IF current = None THEN 0 ELSE Position(current)

(* Only an empty batch comes to a node without a current account, and it   *)
(* does not come past the review.                                          *)
NoneBeforeReview ==
  /\ node = "data_ingester" => steps = 0
  /\ node = "entity_resolver" => steps = 1
  /\ current = None =>
       /\ action.verdict = "none"
       /\ node \notin Writing
       /\ node \in Starting \cup {"select_next_account", "crashed"} \/ accounts = <<>>

(* The loop goes on while there is a next account, and ends at the last.   *)
LoopAdvances ==
  /\ node = "select_next_account" =>
       IF current = None THEN steps = 2 ELSE Place < Len(accounts)
  /\ node \notin Starting =>
       steps <= 2 + 14 * (IF current = None THEN 0 ELSE Place - 1) + Taken(node)
  /\ node = "END" =>
       \/ approval = "pending_review"
       \/ current # None /\ Place = Len(accounts)

(* What this delivery has written is about the accounts it has come to;    *)
(* about the current one it is only written from crm_writer on.            *)
WrittenSoFar ==
  \A w \in written :
    /\ w.delivery <= delivery
    /\ w.delivery = delivery =>
         \E i \in 1..Place : /\ i \in DOMAIN accounts /\ accounts[i] = w.account
                             /\ i = Place => Taken(node) >= 10

(* The search for the current account finds where the loop is.             *)
DistinctAccounts ==
  \A i, j \in DOMAIN accounts : accounts[i] = accounts[j] => i = j

OnceInv ==
  /\ TypeInv /\ DistinctAccounts
  /\ NoneBeforeReview /\ LoopAdvances /\ WrittenSoFar

(* The values of Taken, for provers that evaluate no CASE.                 *)
LEMMA TakenValues ==
  /\ Taken("icp_scorer") = 1 /\ Taken("signal_detector") = 2
  /\ Taken("contact_ranker") = 3 /\ Taken("pain_inferrer") = 4
  /\ Taken("value_prop_matcher") = 5 /\ Taken("action_recommender") = 6
  /\ Taken("brief_builder") = 7 /\ Taken("brief_reviewer") = 8
  /\ Taken("crm_writer") = 9 /\ Taken("zoho_writer") = 10
  /\ Taken("task_creator") = 11 /\ Taken("auto_outbound_gate") = 12
  /\ Taken("draft_email_generator") = 13 /\ Taken("select_next_account") = 14
  /\ Taken("END") = 14 /\ Taken("crashed") = 14
  /\ Taken("data_ingester") = 14 /\ Taken("entity_resolver") = 14
BY DEF Taken

(* The current account is at its place, and at no other.                   *)
LEMMA PlaceOfCurrent ==
  ASSUME TypeInv, DistinctAccounts
  PROVE  /\ Place \in 0..Len(accounts) /\ (Place = 0 <=> current = None)
         /\ current # None => /\ Place = Position(current)
                              /\ Place \in DOMAIN accounts /\ accounts[Place] = current
         /\ \A i \in DOMAIN accounts : Position(accounts[i]) = i
<1>1. accounts \in Seq(Accounts) /\ None \notin Accounts
  BY QualificationAssumption DEF TypeInv, TypeOK, QualificationAssumption
<1>2. \A i \in DOMAIN accounts : /\ Position(accounts[i]) \in 1..Len(accounts)
                                 /\ accounts[Position(accounts[i])] = accounts[i]
  BY <1>1, PositionIsFirst
<1>3. \A i \in DOMAIN accounts : Position(accounts[i]) = i
  BY <1>1, <1>2 DEF DistinctAccounts
<1>4. current # None => \E i \in DOMAIN accounts : accounts[i] = current
  BY DEF TypeInv, CurrentInBatch
<1> QED BY <1>1, <1>2, <1>3, <1>4 DEF Place

(* A superstep within one account: it may write about the current one once *)
(* it has come past the review, and may end it.                            *)
LEMMA OnceWithin ==
  ASSUME OnceInv, TypeInv', node \in Nodes \ (Starting \cup {"select_next_account"}),
         node' \notin Starting, Taken(node) \in Nat, Taken(node') \in Nat,
         Taken(node) < Taken(node'),
         UNCHANGED <<accounts, current, delivery>>, steps' = steps + 1,
         current = None => action'.verdict = "none" /\ node' \notin Writing,
         \A w \in written' :
           \/ w \in written
           \/ /\ w.account = current /\ w.delivery = delivery
              /\ current # None /\ Taken(node') >= 10,
         node' = "select_next_account" => current # None /\ Place < Len(accounts),
         node' = "END" => \/ approval' = "pending_review"
                          \/ current # None /\ Place = Len(accounts)
  PROVE  OnceInv'
<1>1. Place' = Place
  BY DEF Place, Position
<1>2. /\ Place \in 0..Len(accounts)
      /\ current # None => Place >= 1 /\ Place \in DOMAIN accounts /\ accounts[Place] = current
  BY PlaceOfCurrent DEF OnceInv
<1>3. steps \in Nat /\ delivery \in Nat
  BY QualificationAssumption DEF OnceInv, TypeInv, TypeOK, QualificationAssumption
<1>4. DistinctAccounts'
  BY DEF OnceInv, DistinctAccounts
<1>5. NoneBeforeReview'
  BY DEF OnceInv, NoneBeforeReview, Starting, Nodes
<1>6. LoopAdvances'
  <2>1. node \notin Starting
    OBVIOUS
  <2>2. steps <= 2 + 14 * (IF current = None THEN 0 ELSE Place - 1) + Taken(node)
    BY <2>1 DEF OnceInv, LoopAdvances
  <2>3. steps' <= 2 + 14 * (IF current' = None THEN 0 ELSE Place' - 1) + Taken(node')
    BY <1>1, <1>2, <1>3, <2>2
  <2> QED BY <1>1, <2>3 DEF LoopAdvances, Taken
<1>7. WrittenSoFar'
  <2> SUFFICES ASSUME NEW w \in written', w.delivery = delivery
               PROVE  \E i \in 1..Place : /\ i \in DOMAIN accounts /\ accounts[i] = w.account
                                          /\ i = Place => Taken(node') >= 10
    BY <1>1, <1>3 DEF OnceInv, WrittenSoFar
  <2>1. CASE w \in written
    BY <1>1, <2>1 DEF OnceInv, WrittenSoFar
  <2>2. CASE w \notin written
    BY <1>2, <2>2
  <2> QED BY <2>1, <2>2
<1> QED BY <1>4, <1>5, <1>6, <1>7 DEF OnceInv

(* The survivors of different accounts are different, and some survive.    *)
LEMMA SurvivorsDistinct ==
  ASSUME accounts \in Seq(Accounts), DistinctAccounts, EntityResolver
  PROVE  DistinctAccounts'
<1>1. PICK kept \in Deduplicated(accounts) : \E at \in [1..Cardinality(kept) -> kept] :
             /\ \A i, j \in DOMAIN at : i < j => at[i] < at[j]
             /\ accounts' = [i \in DOMAIN at |-> accounts[at[i]]]
  BY DEF EntityResolver
<1>2. PICK at \in [1..Cardinality(kept) -> kept] :
             /\ \A i, j \in DOMAIN at : i < j => at[i] < at[j]
             /\ accounts' = [i \in DOMAIN at |-> accounts[at[i]]]
  BY <1>1
<1>3. kept \in SUBSET DOMAIN accounts /\ DOMAIN accounts = 1..Len(accounts)
  BY DEF Deduplicated
<1> SUFFICES ASSUME NEW i \in DOMAIN at, NEW j \in DOMAIN at, accounts[at[i]] = accounts[at[j]]
             PROVE  i = j
  BY <1>2 DEF DistinctAccounts
<1>4. at[i] \in kept /\ at[j] \in kept /\ i \in Int /\ j \in Int
  <2>1. DOMAIN at = 1..Cardinality(kept)
    BY <1>2
  <2> QED BY <1>2, <2>1
<1>5. at[i] = at[j]
  BY <1>3, <1>4 DEF DistinctAccounts
<1>6. at[i] \in Int /\ at[j] \in Int
  BY <1>3, <1>4
<1> QED BY <1>2, <1>4, <1>5, <1>6

(* Each node keeps its place in the loop and writes for that place only.   *)
LEMMA OnceInductive ==
  ASSUME DistinctIds, OnceInv, [Next]_vars
  PROVE  OnceInv'
<1> USE DEF Superstep
<1> USE TakenValues
<1>1. TypeInv /\ TypeInv'
  BY TypeInductive, QualificationAssumption DEF OnceInv
<1>2. /\ accounts \in Seq(Accounts) /\ node \in Nodes \cup Terminal
      /\ steps \in Nat /\ delivery \in Nat
  BY <1>1, QualificationAssumption DEF TypeInv, TypeOK, QualificationAssumption
<1>3. /\ Place \in 0..Len(accounts) /\ (Place = 0 <=> current = None)
      /\ current # None => /\ Place = Position(current)
                           /\ Place \in DOMAIN accounts /\ accounts[Place] = current
      /\ \A i \in DOMAIN accounts : Position(accounts[i]) = i
  BY <1>1, PlaceOfCurrent DEF OnceInv
<1>4. ASSUME UNCHANGED <<accounts, current>>
      PROVE  Place' = Place /\ DistinctAccounts'
  BY <1>4 DEF OnceInv, Place, Position, DistinctAccounts
<1>5. current = None => action.verdict = "none"
  BY DEF OnceInv, NoneBeforeReview
<1>6. ASSUME node \in Writing
      PROVE  /\ current # None
             /\ AfterDraftEmail = "select_next_account" => Place < Len(accounts)
             /\ AfterDraftEmail = "END" => Place = Len(accounts)
             /\ AfterDraftEmail \in {"select_next_account", "END"}
  <2>1. current # None
    BY <1>6 DEF OnceInv, NoneBeforeReview
  <2> QED BY <1>2, <1>3, <2>1 DEF AfterDraftEmail
<1>7. ASSUME NEW named, MayWrite(named), node' \in {"zoho_writer", "task_creator", "auto_outbound_gate"}
      PROVE  \A w \in written' : \/ w \in written
                                 \/ /\ w.account = current /\ w.delivery = delivery
                                    /\ Taken(node') >= 10
  BY <1>7 DEF MayWrite, writing
<1>8. ASSUME current = None, UNCHANGED <<current, written, delivery>>
      PROVE  WrittenSoFar' /\ Place' = 0
  BY <1>2, <1>3, <1>8 DEF OnceInv, WrittenSoFar, Place
<1>23. CASE DataIngester
  <2>1. /\ node = "data_ingester" /\ node' = "entity_resolver" /\ accounts' = batch
        /\ steps' = steps + 1 /\ UNCHANGED <<current, action, written, delivery>>
    BY <1>23 DEF DataIngester, values, world, writing
  <2>2. current = None /\ steps = 0
    BY <1>1, <2>1 DEF TypeInv, CurrentInBatch, Starting, OnceInv, NoneBeforeReview
  <2>3. DistinctAccounts'
    BY <1>1, <2>1 DEF DistinctIds, DistinctAccounts, TypeInv, TypeOK
  <2>4. NoneBeforeReview' /\ LoopAdvances'
    BY <1>5, <2>1, <2>2 DEF NoneBeforeReview, LoopAdvances, Starting, Writing
  <2> QED BY <1>1, <1>2, <1>8, <2>1, <2>2, <2>3, <2>4 DEF OnceInv
<1>9. CASE EntityResolver
  <2>1. /\ node = "entity_resolver" /\ node' = "select_next_account"
        /\ steps' = steps + 1 /\ UNCHANGED <<current, action, written, delivery>>
    BY <1>9 DEF EntityResolver, values, world, writing
  <2>2. current = None /\ steps = 1
    BY <1>1, <2>1 DEF TypeInv, CurrentInBatch, Starting, OnceInv, NoneBeforeReview
  <2>3. DistinctAccounts'
    BY <1>2, <1>9, SurvivorsDistinct DEF OnceInv
  <2>4. NoneBeforeReview' /\ LoopAdvances'
    BY <1>5, <2>1, <2>2 DEF NoneBeforeReview, LoopAdvances, Starting, Writing
  <2> QED BY <1>1, <1>2, <1>8, <2>1, <2>2, <2>3, <2>4 DEF OnceInv
<1>10. CASE SelectNextAccount
  <2> DEFINE next == IF current = None THEN 1 ELSE Position(current) + 1
  <2>1. /\ node = "select_next_account" /\ node' = "icp_scorer"
        /\ steps' = steps + 1 /\ UNCHANGED <<accounts, written, delivery>>
        /\ IF next > Len(accounts) THEN UNCHANGED <<current, values>>
           ELSE current' = accounts[next] /\ action' = NoAction
    BY <1>10 DEF SelectNextAccount, input, world, writing
  <2>2. next = Place + 1
    BY <1>3
  <2>3. IF current = None THEN steps = 2 ELSE Place < Len(accounts)
    BY <2>1 DEF OnceInv, LoopAdvances
  <2>4. steps <= 2 + 14 * Place
    BY <1>2, <1>3, <2>1, <2>3 DEF OnceInv, LoopAdvances, Starting
  <2> HIDE DEF next
  <2>5. CASE next > Len(accounts)
    <3>1. current = None /\ current' = None /\ action' = action /\ accounts = <<>>
      BY <1>2, <1>3, <2>1, <2>2, <2>3, <2>5 DEF values
    <3>2. Place' = Place /\ DistinctAccounts'
      BY <1>4, <2>1, <3>1
    <3>3. NoneBeforeReview' /\ LoopAdvances'
      BY <1>5, <2>1, <2>3, <3>1 DEF NoneBeforeReview, LoopAdvances, Starting, Writing
    <3> QED BY <1>1, <1>2, <1>8, <2>1, <3>1, <3>2, <3>3 DEF OnceInv
  <2>6. CASE ~(next > Len(accounts))
    <3>1. next \in DOMAIN accounts /\ current' = accounts[next] /\ current' # None
      <4>1. next \in DOMAIN accounts
        BY <1>2, <1>3, <2>2, <2>6
      <4>2. accounts[next] \in Accounts
        BY <1>2, <4>1
      <4> QED BY <2>1, <2>6, <4>1, <4>2, QualificationAssumption DEF QualificationAssumption
    <3>2. Place' = next
      <4>1. Place' = Position(accounts[next])
        BY <2>1, <3>1 DEF Place, Position
      <4> QED BY <1>3, <3>1, <4>1
    <3>3. DistinctAccounts'
      BY <2>1 DEF OnceInv, DistinctAccounts
    <3>4. NoneBeforeReview'
      BY <2>1, <3>1 DEF NoneBeforeReview
    <3>5. LoopAdvances'
      BY <1>2, <1>3, <2>1, <2>2, <2>4, <3>1, <3>2 DEF LoopAdvances
    <3>6. WrittenSoFar'
      BY <1>3, <2>1, <2>2, <3>2 DEF OnceInv, WrittenSoFar
    <3> QED BY <1>1, <3>3, <3>4, <3>5, <3>6 DEF OnceInv
  <2> QED BY <2>5, <2>6
<1>11. CASE \/ IcpScorer \/ SignalDetector \/ ContactRanker \/ PainInferrer
            \/ ValuePropMatcher \/ ActionRecommender \/ BriefBuilder
  <2>1. UNCHANGED <<accounts, current, delivery, written>> /\ steps' = steps + 1
    BY <1>11 DEF IcpScorer, SignalDetector, ContactRanker, PainInferrer,
         ValuePropMatcher, ActionRecommender, BriefBuilder, Analyse, input, world, writing
  <2>2. current = None => action' = action
    BY <1>11 DEF IcpScorer, SignalDetector, ContactRanker, PainInferrer,
         ValuePropMatcher, ActionRecommender, BriefBuilder
  <2>3. /\ node \in Nodes \ (Starting \cup {"select_next_account"})
        /\ node' \notin Starting \cup Writing \cup Terminal \cup {"select_next_account"}
        /\ Taken(node) \in Nat /\ Taken(node') \in Nat /\ Taken(node) < Taken(node')
    BY <1>11 DEF IcpScorer, SignalDetector, ContactRanker, PainInferrer, AfterIcpScorer,
         ValuePropMatcher, ActionRecommender, BriefBuilder, Analyse,
         Nodes, Starting, Writing, Terminal
  <2> QED BY <1>1, <1>5, <2>1, <2>2, <2>3, OnceWithin DEF Terminal
<1>12. CASE AutoApprove
  <2>1. /\ node = "brief_reviewer" /\ node' = "crm_writer" /\ steps' = steps + 1
        /\ UNCHANGED <<accounts, current, action, written, delivery>>
        /\ action.verdict = "pursue_now"
    BY <1>12 DEF AutoApprove, AfterBriefReviewer, input, values, world, writing
  <2> QED BY <1>1, <1>5, <2>1, OnceWithin DEF Nodes, Starting
<1>13. CASE AskReview
  <2>1. /\ node = "brief_reviewer" /\ node' = "END" /\ approval' = "pending_review"
        /\ steps' = steps + 1 /\ UNCHANGED <<accounts, current, action, written, delivery>>
    BY <1>13 DEF AskReview, AfterBriefReviewer, input, values, writing
  <2> QED BY <1>1, <1>5, <2>1, OnceWithin DEF Nodes, Starting, Writing
<1>14. CASE ReviewRaises
  <2>1. /\ node = "brief_reviewer" /\ node' = "crashed"
        /\ steps' = steps + 1 /\ UNCHANGED <<accounts, current, action, written, delivery>>
    BY <1>14 DEF ReviewRaises, state, input, values, writing
  <2> QED BY <1>1, <1>5, <2>1, OnceWithin DEF Nodes, Starting, Writing
<1>15. CASE CrmWriter
  <2>1. /\ node = "crm_writer" /\ node' = "zoho_writer" /\ steps' = steps + 1
        /\ UNCHANGED <<accounts, current, delivery>>
        /\ (written' = written \/ MayWrite(brief.contacts))
    BY <1>15 DEF CrmWriter, state, input, writing
  <2>2. current # None
    BY <1>6, <2>1 DEF Writing
  <2> QED BY <1>1, <1>7, <2>1, <2>2, OnceWithin DEF Nodes, Starting
<1>16. CASE ZohoWriter
  <2>1. /\ node = "zoho_writer" /\ node' = "task_creator" /\ steps' = steps + 1
        /\ UNCHANGED <<accounts, current, delivery>>
        /\ (written' = written \/ MayWrite(brief.contacts \cup action.contacts))
    BY <1>16 DEF ZohoWriter, state, input, writing
  <2>2. current # None
    BY <1>6, <2>1 DEF Writing
  <2> QED BY <1>1, <1>7, <2>1, <2>2, OnceWithin DEF Nodes, Starting
<1>17. CASE TaskCreator
  <2>1. /\ node = "task_creator" /\ node' = "auto_outbound_gate" /\ steps' = steps + 1
        /\ UNCHANGED <<accounts, current, delivery>>
        /\ (written' = written \/ MayWrite(action.contacts))
    BY <1>17 DEF TaskCreator, state, input, writing
  <2>2. current # None
    BY <1>6, <2>1 DEF Writing
  <2> QED BY <1>1, <1>7, <2>1, <2>2, OnceWithin DEF Nodes, Starting
<1>18. CASE Gate
  <2>1. /\ node = "auto_outbound_gate" /\ steps' = steps + 1
        /\ node' \in {"draft_email_generator", AfterDraftEmail}
        /\ UNCHANGED <<accounts, current, written, delivery>>
    BY <1>18 DEF Gate, AfterAutoOutbound, input, world, writing
  <2>2. node \in Writing
    BY <2>1 DEF Writing
  <2> QED BY <1>1, <1>6, <2>1, <2>2, OnceWithin DEF Nodes, Starting
<1>19. CASE DraftEmailGenerator
  <2>1. /\ node = "draft_email_generator" /\ steps' = steps + 1
        /\ node' = AfterDraftEmail
        /\ UNCHANGED <<accounts, current, written, delivery>>
    BY <1>19 DEF DraftEmailGenerator, input, world, writing
  <2>2. node \in Writing
    BY <2>1 DEF Writing
  <2> QED BY <1>1, <1>6, <2>1, <2>2, OnceWithin DEF Nodes, Starting
<1>20. CASE RecursionError
  <2>1. /\ node \in Nodes /\ node' = "crashed"
        /\ UNCHANGED <<accounts, current, action, written, steps, delivery>>
    BY <1>20 DEF RecursionError, state, input, values, world, writing
  <2>2. Place' = Place /\ DistinctAccounts'
    BY <1>4, <2>1
  <2>3. NoneBeforeReview'
    BY <1>5, <2>1 DEF NoneBeforeReview, Writing
  <2>4. LoopAdvances'
    <3>1. CASE node \in Starting
      BY <1>2, <1>3, <2>1, <2>2, <3>1 DEF OnceInv, NoneBeforeReview, LoopAdvances, Starting,
         TypeInv, CurrentInBatch
    <3>2. CASE node \notin Starting
      <4>1. Taken(node) <= 14 /\ Taken(node) \in Nat
        BY <2>1 DEF Nodes
      <4>2. steps <= 2 + 14 * (IF current = None THEN 0 ELSE Place - 1) + Taken(node)
        BY <3>2 DEF OnceInv, LoopAdvances
      <4>3. steps \in Int /\ (IF current = None THEN 0 ELSE Place - 1) \in Int
        BY <1>2, <1>3
      <4>4. steps <= 2 + 14 * (IF current = None THEN 0 ELSE Place - 1) + 14
        BY <4>1, <4>2, <4>3
      <4> QED BY <2>1, <2>2, <4>4 DEF LoopAdvances
    <3> QED BY <3>1, <3>2
  <2>5. WrittenSoFar'
    BY <2>1, <2>2 DEF OnceInv, WrittenSoFar
  <2> QED BY <1>1, <2>2, <2>3, <2>4, <2>5 DEF OnceInv
<1>21. CASE Redeliver
  <2>1. /\ node' = "data_ingester" /\ steps' = 0 /\ delivery' = delivery + 1
        /\ current' = None /\ action' = NoAction /\ written' = written
    BY <1>21 DEF Redeliver, world, writing
  <2>2. DistinctAccounts'
    BY <1>21 DEF Redeliver, DistinctAccounts
  <2>3. NoneBeforeReview' /\ LoopAdvances'
    BY <2>1 DEF NoneBeforeReview, LoopAdvances, Starting, Writing, NoAction
  <2>4. WrittenSoFar'
    <3>1. \A w \in written : w.delivery \in Int
      BY <1>1 DEF TypeInv, TypeOK
    <3>2. \A w \in written : w.delivery <= delivery
      BY DEF OnceInv, WrittenSoFar
    <3>3. \A w \in written' : w.delivery <= delivery' /\ w.delivery # delivery'
      BY <1>2, <2>1, <3>1, <3>2
    <3> QED BY <3>3 DEF WrittenSoFar
  <2> QED BY <1>1, <2>2, <2>3, <2>4 DEF OnceInv
<1>22. CASE UNCHANGED vars
  <2>1. UNCHANGED <<node, accounts, current, action, approval, written, steps, delivery>>
    BY <1>22 DEF vars, state, input, values, world, writing
  <2>2. Place' = Place /\ DistinctAccounts'
    BY <1>4, <2>1
  <2> QED
    BY <1>1, <2>1, <2>2 DEF OnceInv, NoneBeforeReview, LoopAdvances, WrittenSoFar
<1> QED
  BY <1>23, <1>9, <1>10, <1>11, <1>12, <1>13, <1>14, <1>15, <1>16, <1>17, <1>18,
     <1>19, <1>20, <1>21, <1>22 DEF Next, GraphStep

(* With distinct ids a delivery writes about an account at one visit of    *)
(* crm_writer, keeps within its supersteps, and ends at the last account.  *)
THEOREM OncePerAccount ==
  ASSUME DistinctIds
  PROVE  Spec => []EachAccountOnce
<1>1. Init => OnceInv
  <2> SUFFICES ASSUME Init PROVE OnceInv
    OBVIOUS
  <2>1. TypeInv
    BY InitialTypes
  <2>2. DistinctAccounts /\ NoneBeforeReview /\ LoopAdvances /\ WrittenSoFar
    BY DEF Init, DistinctAccounts, NoneBeforeReview, LoopAdvances, WrittenSoFar,
           Starting, Writing, NoAction
  <2> QED BY <2>1, <2>2 DEF OnceInv
<1>2. OnceInv /\ [Next]_vars => OnceInv'
  BY OnceInductive
<1>3. OnceInv => EachAccountOnce
  <2> SUFFICES ASSUME OnceInv PROVE EachAccountOnce
    OBVIOUS
  <2>1. /\ accounts \in Seq(Accounts) /\ node \in Nodes \cup Terminal
        /\ steps \in Nat /\ delivery \in Nat
    BY QualificationAssumption DEF OnceInv, TypeInv, TypeOK, QualificationAssumption
  <2>2. /\ Place \in 0..Len(accounts) /\ (Place = 0 <=> current = None)
        /\ current # None => /\ Place = Position(current)
                             /\ Place \in DOMAIN accounts /\ accounts[Place] = current
        /\ \A i \in DOMAIN accounts : Position(accounts[i]) = i
    BY PlaceOfCurrent DEF OnceInv
  <2>3. ASSUME NEW w \in written, node = "crm_writer", w.account = current,
               w.delivery = delivery
        PROVE  FALSE
    <3>1. PICK i \in 1..Place : /\ i \in DOMAIN accounts /\ accounts[i] = w.account
                                /\ i = Place => Taken(node) >= 10
      BY <2>3 DEF OnceInv, WrittenSoFar
    <3>2. current # None
      BY <2>3 DEF OnceInv, NoneBeforeReview, Writing
    <3>3. i = Place
      BY <2>2, <2>3, <3>1, <3>2 DEF OnceInv, DistinctAccounts
    <3> QED BY <2>3, <3>1, <3>3, TakenValues
  <2>4. steps <= 2 + StepsPerAccount * (IF current = None THEN 1 ELSE Position(current))
    <3>1. CASE node \in Starting
      BY <2>1, <2>2, <3>1 DEF OnceInv, TypeInv, CurrentInBatch, NoneBeforeReview, Starting,
         StepsPerAccount
    <3>2. CASE node \notin Starting
      <4>1. Taken(node) <= 14 /\ Taken(node) \in Nat
        BY <2>1, TakenValues DEF Nodes, Terminal
      <4>2. steps <= 2 + 14 * (IF current = None THEN 0 ELSE Place - 1) + Taken(node)
        BY <3>2 DEF OnceInv, LoopAdvances
      <4> QED BY <2>1, <2>2, <4>1, <4>2 DEF StepsPerAccount
    <3> QED BY <3>1, <3>2
  <2>5. node = "END" => approval = "pending_review" \/ current = Last(accounts)
    BY <2>1, <2>2 DEF OnceInv, LoopAdvances, Last
  <2> QED BY <2>3, <2>4, <2>5 DEF EachAccountOnce
<1> QED BY <1>1, <1>2, <1>3, PTL DEF Spec
=============================================================================
