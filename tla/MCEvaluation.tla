---------------------------- MODULE MCEvaluation ----------------------------
(* Batches of two accounts, each a strong or a weak one with one attribute *)
(* changed, or with other metadata signals, or other dated signals.        *)
EXTENDS Evaluation

Strong ==
  [industry |-> "target", employees |-> 1000, revenue |-> 100, geography |-> "target",
   signals |-> <<"positive">>, customer |-> FALSE, dated |-> <<[age |-> 2, reliability |-> 6]>>,
   pain |-> 80, timing |-> 60, answer |-> [pain |-> 80, confidence |-> 70],
   relevance |-> 70, topPain |-> 600, label |-> "pursue_now", expects |-> TRUE,
   ranked |-> <<[relevance |-> 60, expected |-> TRUE], [relevance |-> 70, expected |-> FALSE]>>]

Weak ==
  [Strong EXCEPT !.industry = "unknown", !.employees = None, !.signals = <<"negative">>,
     !.timing = 40, !.answer = [pain |-> 20, confidence |-> 40], !.relevance = 60,
     !.topPain = 400, !.label = "disqualify", !.ranked = <<[relevance |-> 60, expected |-> TRUE]>>]

(* Its fit is weak, its timing too, and its pain is clear.                 *)
Eager ==
  [Weak EXCEPT !.dated = <<>>, !.answer = [pain |-> 100, confidence |-> 90],
     !.relevance = 80, !.topPain = 800, !.pain = 100]

Dated == [age : {None, 0, 3, 5, 11, 13}, reliability : {1, 9}]
Heavy == [age |-> 4, reliability |-> 9]

MCAccounts == UNION {
  {Strong, Weak, Eager},
  {[a EXCEPT !.industry = x, !.geography = y] :
     a \in {Strong, Weak, Eager}, x \in {"target", "unknown", "other"}, y \in {"target", "unknown", "other"}},
  {[a EXCEPT !.employees = x] :
     a \in {Strong, Weak}, x \in {10, 20, 49, 50, 2525, 5000, 9000}},
  {[a EXCEPT !.revenue = x] : a \in {Strong, Weak}, x \in {None, 0, 4, 5, 250, 500, 600}},
  {[Strong EXCEPT !.signals = <<>>], [Weak EXCEPT !.signals = <<>>],
   [Strong EXCEPT !.customer = TRUE], [Strong EXCEPT !.customer = TRUE, !.pain = 40]},
  {[Strong EXCEPT !.signals = <<"positive", "positive", x, y>>] : x, y \in Words},
  {[Strong EXCEPT !.dated = <<>>]},
  {[Strong EXCEPT !.dated = <<x>>] : x \in Dated},
  {[Strong EXCEPT !.dated = <<Heavy, x>>] : x \in Dated},
  {[Strong EXCEPT !.dated = <<x, Heavy, [age |-> 1, reliability |-> 1]>>] : x \in Dated},
  {[a EXCEPT !.answer.pain = x] : a \in {Strong, Weak}, x \in {0 - 5, 45, 130}},
  {[Weak EXCEPT !.answer.confidence = x] : x \in {0, 300}},
  {[a EXCEPT !.label = x] :
     a \in {Strong, Weak}, x \in {"pursue_now", "nurture", "disqualify", "human_review"}},
  {[Weak EXCEPT !.topPain = x, !.relevance = 80] : x \in {0, 800}},
  {[Weak EXCEPT !.ranked = <<>>], [Weak EXCEPT !.expects = FALSE]},
  {[Strong EXCEPT !.timing = x] : x \in {0, 50, 100}}}

MCThresholds ==
  [priority |-> 60, relevance |-> 70, pain |-> 500, fit |-> 50, timing |-> 50,
   weakPain |-> 500, weakFit |-> 30, confidence |-> 500]
MCTopAccounts == <<1, 2, 3>>
MCSize == [min |-> 50, max |-> 5000]
MCRevenue == [min |-> 5, max |-> 500]

(* The constants of src/config satisfy the hypothesis of RankingHolds.     *)
ASSUME MCProfile == RulesBelowProfile
=============================================================================
