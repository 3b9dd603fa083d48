----------------------------- MODULE Evaluation -----------------------------
(***************************************************************************)
(* Accounts that are scored one after the other: by the nodes icp_scorer   *)
(* and action_recommender of the qualification graph, or by run_evaluation *)
(* of evaluation/evaluator.py, which compares the recommendation with a    *)
(* label and computes the metrics of evaluation/metrics.py.                *)
(*                                                                         *)
(* Outside src/: the language model that scores the pain of an account.    *)
(***************************************************************************)
EXTENDS Scoring

CONSTANTS
  Accounts,       \* what may be known of an account: records
  MaxScored,      \* bound: accounts scored in a run
  TopAccounts,    \* k of the three precisions, <<5, 10, 15>>
  TopContacts     \* k of the contact ranking, 3

Words == {"positive", "negative", "both", "neither"}
Labels == {"pursue_now", "nurture", "disqualify", "human_review"}

(* What may be known: the facts the rules look at, what the model answers, *)
(* what the test data says in its place, and the label and contacts there. *)
Facts ==
  [industry : {"target", "unknown", "other"}, geography : {"target", "unknown", "other"},
   employees : Nat \cup {None}, revenue : Nat \cup {None}, customer : BOOLEAN,
   signals : Seq(Words), dated : Seq([age : Nat \cup {None}, reliability : 0..10]),
   answer : [pain : Int, confidence : Int], pain : 0..100, timing : 0..100,
   relevance : Int, topPain : Nat, label : Labels, expects : BOOLEAN,
   ranked : Seq([relevance : Int, expected : BOOLEAN])]

ASSUME EvaluationAssumption ==
  /\ Accounts \subseteq Facts
  /\ MaxScored \in Nat /\ TopContacts \in Nat
  /\ TopAccounts \in Seq(Nat \ {0}) /\ Len(TopAccounts) = 3

VARIABLES
  via,       \* "graph" or "evaluation"
  results    \* what was found for each account, in the order of the batch

vars == <<via, results>>

Init == via \in {"graph", "evaluation"} /\ results = <<>>

(* The scores of account a.                                                *)
Scores(a, fit, pain, timing, overall, confidence) ==
  [fit |-> fit, pain |-> pain, timing |-> timing, overall |-> overall,
   confidence |-> confidence, disqualified |-> CheckDisqualify(a),
   relevance |-> a.relevance, topPain |-> a.topPain]

(* Mutant: the answer is believed.                                         *)
Clip_Not(x) == x

Clip(x) == IF x < 0 THEN 0 ELSE Least(100, x)

(* icp_scorer: an account that is disqualified has only zeros.  The model  *)
(* answers what it likes; its score is clipped, its confidence is not.     *)
IcpScorer(a, answer, painConfidence) ==
  LET fit == IcpFit(a)
      pain == Clip(answer)
      timing == TimingScore(a.dated)
      icp == IcpConfidence(a)
      when == TimingConfidence(a.dated)
      confidence == Round(35 * icp.n * when.d + 35 * painConfidence * icp.d * when.d
                            + 30 * when.n * icp.d, 10 * icp.d * when.d)
  IN  IF CheckDisqualify(a) THEN Scores(a, 0, 0, 0, 0, 950)
      ELSE Scores(a, fit, pain, timing, Round(35 * fit + 35 * pain + 30 * timing, 100),
                  confidence)

(* run_evaluation takes pain and timing from the test data, or 50.         *)
EvaluatedScore(a) ==
  LET icp == IcpConfidence(a)
  IN  Scores(a, IcpFit(a), a.pain, a.timing,
             (35 * IcpFit(a) + 30 * a.pain + 35 * a.timing) \div 100,
             (10 * icp.n) \div icp.d)

(* contact_ranking_precision: is the expected contact, if there is one,    *)
(* among the top k of what is ranked?                                      *)
ContactPrecision(a) ==
  LET relevance == [i \in DOMAIN a.ranked |-> a.ranked[i].relevance]
      top == Largest(relevance, DOMAIN a.ranked, TopContacts)
  IN  IF a.expects /\ \E i \in top : a.ranked[i].expected THEN 1 ELSE 0

Record(a, s) ==
  results' = Append(results, [account |-> a, score |-> s, action |-> RecommendAction(s),
               confidence |-> ActionConfidence(s), contact |-> ContactPrecision(a)])

(* icp_scorer, then action_recommender.  What the model does not answer as *)
(* a number, or at all, stays 50 and 0.3.                                  *)
Qualify ==
  /\ via = "graph" /\ Len(results) < MaxScored
  /\ \E a \in Accounts :
       \E pain \in {a.answer.pain, 50}, confidence \in {a.answer.confidence, 30} :
         Record(a, IcpScorer(a, pain, confidence))
  /\ UNCHANGED via

(* One account of the loop of run_evaluation.                              *)
Evaluate ==
  /\ via = "evaluation" /\ Len(results) < MaxScored
  /\ \E a \in Accounts : Record(a, EvaluatedScore(a))
  /\ UNCHANGED via

Next == Qualify \/ Evaluate

Spec == Init /\ [][Next]_vars
-----------------------------------------------------------------------------
(* The metrics of a report, as counts or in ten-thousandths.               *)
Rate(n, d) == IF d = 0 THEN 0 ELSE Round(10000 * n, d)

(* The results that are correct, and those whose label is in good.         *)
Correct(rs) == {i \in DOMAIN rs : rs[i].action = rs[i].account.label}
Labelled(rs, good) == {i \in DOMAIN rs : rs[i].account.label \in good}

(* precision_at_k: of the k accounts of highest priority, those in good.   *)
PrecisionAtK(rs, good, k) ==
  LET priority == [i \in DOMAIN rs |-> rs[i].score.overall]
  IN  Rate(Cardinality(Labelled(rs, good) \cap Largest(priority, DOMAIN rs, k)), k)

(* per_action_accuracy: correct ones of each label.                        *)
PerAction(rs) == [l \in Labels |-> Cardinality(Correct(rs) \cap Labelled(rs, {l}))]

(* Mutant: a confidence at an edge is in no bin.                           *)
Bin_Open(r) == IF r.confidence % 200 = 0 THEN 5 ELSE r.confidence \div 200

(* confidence_calibration: five bins, the last one closed.                 *)
Bin(r) == Least(r.confidence \div 200, 4)
Binned(rs, b) == {i \in DOMAIN rs : Bin(rs[i]) = b}
BinCounts(rs) == [b \in 0..4 |-> Cardinality(Binned(rs, b))]
BinCorrect(rs) == [b \in 0..4 |-> Cardinality(Correct(rs) \cap Binned(rs, b))]

(* Results of accounts with an expected contact, and where it was found.   *)
Expecting(rs) == {i \in DOMAIN rs : rs[i].account.expects}
Found(rs) == {i \in Expecting(rs) : rs[i].contact = 1}

(* The five metrics compare_versions looks at.                             *)
Scalars(rs) ==
  <<Rate(Cardinality(Correct(rs)), Len(rs)),
    PrecisionAtK(rs, {"pursue_now"}, TopAccounts[1]),
    PrecisionAtK(rs, {"pursue_now"}, TopAccounts[2]),
    PrecisionAtK(rs, {"pursue_now", "nurture"}, TopAccounts[3]),
    Rate(Cardinality(Found(rs)), Cardinality(Expecting(rs)))>>

(* compare_versions: more than half of them are higher.                    *)
OverallImproved(rs, qs) ==
  2 * Cardinality({m \in 1..5 : Scalars(qs)[m] > Scalars(rs)[m]}) > 5
-----------------------------------------------------------------------------
TypeOK ==
  /\ via \in {"graph", "evaluation"}
  /\ \A i \in DOMAIN results :
       /\ results[i].account \in Accounts
       /\ {results[i].score.fit, results[i].score.pain, results[i].score.timing,
           results[i].score.overall} \subseteq 0..100
       /\ via = "evaluation" =>
            {results[i].score.confidence, results[i].confidence} \subseteq 0..1000
       /\ results[i].action \in
            {"pursue_now", "nurture", "disqualify", "human_review_required"}

Order(x, y, words) ==
  \E i, j \in DOMAIN words : i <= j /\ words[i] = x /\ words[j] = y

(* y is known to be at least as near to the middle of the range as x is,   *)
(* on the same side, or y is within it and x is unknown.                   *)
Nearer(x, y, r) ==
  \/ x = y
  \/ x = None /\ y # None /\ Within(y, r)
  \/ x # None /\ y # None /\ x <= y /\ 2 * y <= r.min + r.max
  \/ x # None /\ y # None /\ x >= y /\ 2 * y >= r.min + r.max

(* One signal is fresher than the other, or there is a fresh one more.  An *)
(* old signal more, or an old one that grows older among fresh ones, is    *)
(* not in it: the first can lower the timing score, the second raise it.   *)
Fresher(x, y) ==
  \/ x = y
  \/ Len(x) = 1 /\ Len(y) = 1 /\ None \notin {x[1].age, y[1].age} /\ x[1].age >= y[1].age
  \/ \E s \in Range(y) : y = Append(x, s) /\ s.age # None /\ s.age <= Fresh

(* Account b has at least the evidence account a has, in every dimension.  *)
AtLeast(a, b) ==
  /\ Order(a.industry, b.industry, <<"other", "unknown", "target">>)
  /\ Nearer(a.employees, b.employees, Size)
  /\ Nearer(a.revenue, b.revenue, Revenue)
  /\ Order(a.geography, b.geography, <<"other", "unknown", "target">>)
  /\ Len(a.signals) <= Len(b.signals)
  /\ \A i \in DOMAIN b.signals :
       Order(IF i \in DOMAIN a.signals THEN a.signals[i] ELSE "neither", b.signals[i],
             <<"negative", "both", "neither", "positive">>)
  /\ b.customer => a.customer
  /\ Fresher(a.dated, b.dated)
  /\ a.timing <= b.timing /\ a.relevance <= b.relevance /\ a.topPain <= b.topPain

(* The rules disqualify only what lies below the profile, so that nothing   *)
(* nearer to the profile is disqualified.                                  *)
RulesBelowProfile ==
  /\ "employee_count_below_20" \in DisqualifyRules => DisqualifyBelow <= Size.min
  /\ "pre_revenue" \in DisqualifyRules => Revenue.min > 0

(* Within a batch, an account with at least the evidence of another one,   *)
(* and a pain score at least as high unless the graph has zeroed it, gets  *)
(* scores at least as high, and is pursued if the other one is, unless the *)
(* confidence is too low: each new piece of evidence weighs the same       *)
(* there, however uncertain it is.                                         *)
RankingFollowsEvidence ==
  \A i, j \in DOMAIN results :
    LET r == results[i]
        s == results[j]
    IN  /\ AtLeast(r.account, s.account)
        /\ \/ r.score.pain <= s.score.pain
           \/ via = "graph" /\ s.score.disqualified
        =>
          /\ s.score.disqualified => r.score.disqualified
          /\ r.score.fit <= s.score.fit
          /\ r.score.overall <= s.score.overall
          /\ (via = "graph" => r.score.timing <= s.score.timing)
          /\ (r.action = "pursue_now" =>
                s.action = "pursue_now" \/ s.score.confidence < Thresholds.confidence)

(* From none to all, in ten-thousandths.                                   *)
Metric == 0..10000

(* Three ways to count the correct recommendations agree, no metric is     *)
(* above one, and of two reports at most one improves on the other.        *)
ReportIsConsistent ==
  via = "evaluation" =>
    /\ SumFunction(PerAction(results)) = Cardinality(Correct(results))
    /\ SumFunction(BinCorrect(results)) = Cardinality(Correct(results))
    /\ SumFunction(BinCounts(results)) = Len(results)
    /\ \A m \in 1..5 : Scalars(results)[m] \in Metric
    /\ \A n \in 0..Len(results) :
         LET before == SubSeq(results, 1, n)
         IN  ~(OverallImproved(before, results) /\ OverallImproved(results, before))
=============================================================================
