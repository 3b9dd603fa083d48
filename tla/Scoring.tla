------------------------------ MODULE Scoring ------------------------------
(***************************************************************************)
(* The rules that score an account and choose what to do with it:          *)
(* scoring/icp_rules.py, scoring/timing_rules.py, scoring/action_rules.py  *)
(* under the constants of src/config.                                      *)
(*                                                                         *)
(* Scores are percentages; confidences, reliabilities and weights are      *)
(* integers too, in the unit their comment names.  Where the code rounds a *)
(* floating-point sum, the exact sum is rounded here: the two differ, by   *)
(* one, only where the exact sum is at a point of rounding.                *)
(***************************************************************************)
EXTENDS Integers, Sequences, FiniteSets, Functions

CONSTANTS
  Size, Revenue,             \* DEFAULT_ICP: [min, max] of each
  DisqualifyBelow,           \* employees, 20
  DisqualifyRules,           \* those of the campaign's ICP that have code
  Fresh, Stale, Expired,     \* SIGNAL_DECAY, in days
  TopSignals,                \* signals that count for timing, 5
  Thresholds                 \* ACTION_THRESHOLDS; confidences in thousandths

None == 0 - 1000             \* an attribute or a date nobody knows

ASSUME ScoringAssumption ==
  /\ Size \in [min : Nat, max : Nat] /\ Size.min <= Size.max
  /\ Revenue \in [min : Nat, max : Nat] /\ Revenue.min <= Revenue.max
  /\ DisqualifyBelow \in Nat
  /\ DisqualifyRules \subseteq {"employee_count_below_20", "pre_revenue", "existing_customer"}
  /\ {Fresh, Stale, Expired} \subseteq Nat /\ Fresh < Stale /\ Stale < Expired
  /\ TopSignals \in Nat \ {0}
  /\ Thresholds \in [priority : 0..100, relevance : 0..100, pain : 0..1000, fit : 0..100,
                     timing : 0..100, weakPain : 0..1000, weakFit : 0..100, confidence : 0..1000]

Least(a, b) == IF a < b THEN a ELSE b
Within(a, r) == r.min <= a /\ a <= r.max
Abs(a) == IF a < 0 THEN 0 - a ELSE a

(* round(n / d), halves to the even neighbour.                             *)
Round(n, d) ==
  LET q == n \div d
      r == 2 * (n % d)
  IN IF r < d \/ (r = d /\ q % 2 = 0) THEN q ELSE q + 1

(* sorted(items, key=key, reverse=True)[:k], as the indices it takes: a     *)
(* greater key comes first, and equal keys keep their order.               *)
Before(key, i, j) == key[i] > key[j] \/ (key[i] = key[j] /\ i < j)
Largest(key, items, k) ==
  {i \in items : Cardinality({j \in items : Before(key, j, i)}) < k}
-----------------------------------------------------------------------------
(* icp_rules.py: points of each dimension.                                 *)
ScoreIndustry(a) ==
  CASE a.industry = "unknown" -> 50 [] a.industry = "target" -> 100 [] a.industry = "other" -> 10

(* int(100 - 40 * distance from the middle, as a part of the range)        *)
SweetSpot(c, r) ==
  IF r.min = r.max THEN 100
  ELSE (100 * (r.max - r.min) - 20 * Abs(2 * c - r.min - r.max)) \div (r.max - r.min)

ScoreCompanySize(a) ==
  CASE a.employees = None -> 50
    [] Within(a.employees, Size) -> SweetSpot(a.employees, Size)
    [] a.employees # None /\ a.employees < Size.min -> (40 * a.employees) \div Size.min
    [] a.employees > Size.max -> (40 * Size.max) \div a.employees

ScoreRevenue(a) ==
  CASE a.revenue = None -> 50
    [] Within(a.revenue, Revenue) -> SweetSpot(a.revenue, Revenue)
    [] a.revenue # None /\ ~Within(a.revenue, Revenue) -> 15

ScoreGeography(a) ==
  CASE a.geography = "unknown" -> 50 [] a.geography = "target" -> 100 [] a.geography = "other" -> 20

(* What one metadata signal makes of the points so far; a text can match   *)
(* both lists (one that is no string does).                                *)
AfterPositive(s, x) == IF s \in {"positive", "both"} THEN Least(100, x + 15) ELSE x
AfterNegative(s, x) ==
  IF s \in {"negative", "both"} THEN (IF x < 25 THEN 0 ELSE x - 25) ELSE x
ScoreMetadataSignals(a) ==
  LET score[n \in 0..Len(a.signals)] ==
        IF n = 0 THEN 50
        ELSE AfterNegative(a.signals[n], AfterPositive(a.signals[n], score[n - 1]))
  IN  score[Len(a.signals)]

CheckDisqualify(a) ==
  \/ /\ "employee_count_below_20" \in DisqualifyRules
     /\ a.employees # None /\ a.employees < DisqualifyBelow
  \/ "pre_revenue" \in DisqualifyRules /\ a.revenue # None /\ a.revenue <= 0
  \/ "existing_customer" \in DisqualifyRules /\ a.customer

(* score_icp_fit under ICP_WEIGHTS, in hundredths; the weights nothing     *)
(* measures count as neutral.                                              *)
IcpFit(a) ==
  IF CheckDisqualify(a) THEN 0
  ELSE Round(15 * ScoreIndustry(a) + 10 * ScoreCompanySize(a) + 10 * ScoreRevenue(a)
               + 5 * ScoreGeography(a) + 35 * ScoreMetadataSignals(a) + 25 * 50, 100)

(* The evidence found: one piece for each dimension that is known, and for *)
(* each match of a signal; and its confidence, in hundredths.              *)
EvidenceOf(a) ==
  {e \in {<<"industry", 0>>, <<"employees", 0>>, <<"revenue", 0>>, <<"geography", 0>>} :
     \/ e[1] = "industry" /\ a.industry # "unknown"
     \/ e[1] = "employees" /\ a.employees # None
     \/ e[1] = "revenue" /\ a.revenue # None
     \/ e[1] = "geography" /\ a.geography # "unknown"}
  \cup {e \in {"positive", "negative"} \X DOMAIN a.signals : a.signals[e[2]] \in {e[1], "both"}}

Confidence(a) ==
  [e \in EvidenceOf(a) |->
     CASE e[1] = "industry" -> IF a.industry = "target" THEN 95 ELSE 90
       [] e[1] = "employees" -> IF Within(a.employees, Size) THEN 95 ELSE 90
       [] e[1] = "revenue" -> 85
       [] e[1] = "geography" -> IF a.geography = "target" THEN 95 ELSE 85
       [] e[1] \in {"positive", "negative"} -> 80]

(* Their mean, as a fraction.                                              *)
IcpConfidence(a) ==
  IF CheckDisqualify(a) THEN [n |-> 95, d |-> 1]
  ELSE IF EvidenceOf(a) = {} THEN [n |-> 30, d |-> 1]
  ELSE [n |-> SumFunction(Confidence(a)), d |-> Cardinality(EvidenceOf(a))]
-----------------------------------------------------------------------------
(* timing_rules.py.  A signal has an age in days, or None, and a           *)
(* reliability in tenths.  Unit is a recency of 1.                         *)
Unit == 10 * (Stale - Fresh) * (Expired - Stale)

Recency(s) ==
  CASE s.age = None -> (3 * Unit) \div 10
    [] s.age # None /\ s.age <= Fresh -> Unit
    [] Fresh < s.age /\ s.age <= Stale ->
         (3 * Unit + (7 * Unit * (Stale - s.age)) \div (Stale - Fresh)) \div 10
    [] Stale < s.age /\ s.age <= Expired ->
         (3 * Unit * (Expired - s.age)) \div (10 * (Expired - Stale))
    [] s.age > Expired -> 0

Weight(s) == Recency(s) * (IF s.reliability < 3 THEN 3 ELSE s.reliability)

(* The signals that are not expired, and the heaviest of them.             *)
Scored(signals) == {i \in DOMAIN signals : Recency(signals[i]) > 0}
Weights(signals) == [i \in DOMAIN signals |-> Weight(signals[i])]
Top(signals) == Largest(Weights(signals), Scored(signals), TopSignals)

TimingScore(signals) ==
  LET total == Unit * SumFunctionOnSet(Weights(signals), Top(signals))
      sum == SumFunctionOnSet([i \in DOMAIN signals |-> Weight(signals[i]) * Recency(signals[i])],
                              Top(signals))
  IN  CASE signals = <<>> -> 30
        [] signals # <<>> /\ Scored(signals) = {} -> 20
        [] Scored(signals) # {} ->
             Least(100, Round(80 * sum + 20 * total, total)
                          + Least(15, 3 * Cardinality(Scored(signals))))

(* min(1, 0.3 + 0.1 for each signal + 0.3 of the mean reliability)         *)
TimingConfidence(signals) ==
  LET d == Cardinality(Top(signals))
      n == d * (30 + 10 * Cardinality(Scored(signals)))
             + 3 * SumFunctionOnSet([i \in DOMAIN signals |-> signals[i].reliability], Top(signals))
  IN  IF Scored(signals) = {} THEN [n |-> 20, d |-> 1]
      ELSE [n |-> Least(100 * d, n), d |-> d]
-----------------------------------------------------------------------------
(* Mutant: weak fit is asked for first.                                    *)
RecommendAction_FitFirst(s) ==
  LET weakTiming == s.timing < Thresholds.timing
      weakPain == s.topPain < Thresholds.weakPain
      pursue == /\ s.overall >= Thresholds.priority
                /\ s.relevance >= Thresholds.relevance
                /\ s.topPain >= Thresholds.pain
  IN  CASE s.disqualified -> "disqualify"
        [] ~s.disqualified /\ s.confidence < Thresholds.confidence -> "human_review_required"
        [] OTHER ->
             IF s.fit >= Thresholds.fit /\ (weakTiming \/ weakPain) THEN "nurture"
             ELSE IF pursue THEN "pursue_now"
             ELSE IF s.fit < Thresholds.weakFit THEN "disqualify"
             ELSE "human_review_required"

(* recommend_action for a score with the relevance of the top contact (0   *)
(* if there is none) and the confidence of the top pain hypothesis.        *)
RecommendAction(s) ==
  LET weakTiming == s.timing < Thresholds.timing
      weakPain == s.topPain < Thresholds.weakPain
      pursue == /\ s.overall >= Thresholds.priority
                /\ s.relevance >= Thresholds.relevance
                /\ s.topPain >= Thresholds.pain
  IN  CASE s.disqualified -> "disqualify"
        [] ~s.disqualified /\ s.confidence < Thresholds.confidence -> "human_review_required"
        [] OTHER ->
             IF pursue THEN "pursue_now"
             ELSE IF s.fit >= Thresholds.fit /\ (weakTiming \/ weakPain) THEN "nurture"
             ELSE IF s.fit < Thresholds.weakFit THEN "disqualify"
             ELSE "human_review_required"

(* The confidence it gives its recommendation.                             *)
ActionConfidence(s) ==
  LET action == RecommendAction(s)
  IN  CASE s.disqualified -> 950
        [] action = "pursue_now" -> Least(s.confidence, s.topPain)
        [] action = "nurture" -> (8 * s.confidence) \div 10
        [] action = "human_review_required" /\ s.confidence >= Thresholds.confidence ->
             (7 * s.confidence) \div 10
        [] OTHER -> s.confidence
=============================================================================
