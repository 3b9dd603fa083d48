------------------------ MODULE AutoOutboundGateProofs ------------------------
(***************************************************************************)
(* Theorems about the send caps, for every finite set of callers, every    *)
(* set of accounts, every positive limit and every calendar; and about the *)
(* gates that call them, for every list of targets.                        *)
(***************************************************************************)
EXTENDS AutoOutboundGate, FiniteSetTheorems, WellFoundedInduction, TLAPS

(* A week is named by a day of the calendar.                               *)
LEMMA WeekInDay == ASSUME NEW d \in Day PROVE Week(d) \in Day
<1>1. LET monday == (d \div WeekLength) * WeekLength IN monday \in 0..d
  BY SendCapsAssumption DEF SendCapsAssumption, Day
<1> QED BY <1>1, SendCapsAssumption DEF SendCapsAssumption, Week, Day

(* A daily key of an account or of the workspace carries that day.         *)
LEMMA DailyKeys ==
  ASSUME NEW s \in Accounts \cup {Workspace}, NEW d \in Day
  PROVE  /\ Key(s, "daily", d) \in Keys
         /\ Key(s, "daily", d) = [scope |-> s, window |-> "daily", date |-> d]
  BY DEF Key, Keys

(* The weekly key is a key of Redis.                                       *)
LEMMA WeeklyKeys ==
  ASSUME NEW d \in Day
  PROVE  /\ Key(Workspace, "weekly", d) \in Keys
         /\ Key(Workspace, "weekly", d).window = "weekly"
  BY WeekInDay DEF Key, Keys

(* No cap is zero.                                                         *)
LEMMA LimitPositive == \A k \in Keys : Limit(k) \in Nat \ {0}
  BY SendCapsAssumption DEF SendCapsAssumption, Limit
-----------------------------------------------------------------------------
DailyWorkspaceKeys == {k \in Keys : k.scope = Workspace /\ k.window = "daily"}
WeeklyKeySet == {k \in Keys : k.window = "weekly"}

(* A returning call gives up its keys, and touches no other call.          *)
LEMMA ReturnTypes ==
  ASSUME CapsTypeOK, NEW c \in Callers, NEW o \in Outcomes, Return(c, o),
         day' \in Day, count' \in [Keys -> Nat], until' \in [Keys -> Nat],
         sent' \in [Day -> Nat]
  PROVE  CapsTypeOK'
  BY DEF CapsTypeOK, Return, Outcomes, Ended

(* The pipeline leaves counters and expiries natural numbers.              *)
LEMMA ApplyTypes ==
  ASSUME CapsTypeOK, NEW c \in Callers, Apply(c)
  PROVE  count' \in [Keys -> Nat] /\ until' \in [Keys -> Nat]
<1>1. \A k \in Keys : day + Life(k) \in Nat
  BY SendCapsAssumption DEF SendCapsAssumption, CapsTypeOK, Day, Life
<1> QED BY <1>1 DEF CapsTypeOK, Apply

(* Every step of a call, and midnight, keep the types.                     *)
LEMMA CapsTypeInductive == CapsTypeOK /\ [CapsNext]_caps => CapsTypeOK'
<1> SUFFICES ASSUME CapsTypeOK, [CapsNext]_caps PROVE CapsTypeOK'
  OBVIOUS
<1> USE DEF redis
<1>1. ASSUME NEW c \in Callers, Step(c) PROVE CapsTypeOK'
  <2>1. CASE ReadDaily(c)
    <3> DEFINE k == Key(Workspace, "daily", day)
    <3>1. k \in DailyWorkspaceKeys /\ k # NoKey
      <4>1. k \in Keys /\ k = [scope |-> Workspace, window |-> "daily", date |-> day]
        BY DailyKeys DEF CapsTypeOK
      <4> QED BY <4>1 DEF DailyWorkspaceKeys, NoKey
    <3>2. CASE Return(c, "refused")
      BY <2>1, <3>2, ReturnTypes DEF ReadDaily, Outcomes, CapsTypeOK
    <3>3. CASE dayKey' = [dayKey EXCEPT ![c] = k] /\ pc' = [pc EXCEPT ![c] = "weekly"]
               /\ UNCHANGED <<account, weekKey>>
      <4> HIDE DEF k
      <4> QED BY <2>1, <3>1, <3>3 DEF ReadDaily, CapsTypeOK, Ended, Outcomes, DailyWorkspaceKeys
    <3> QED BY <2>1, <3>2, <3>3 DEF ReadDaily
  <2>2. CASE ReadWeekly(c)
    <3> DEFINE k == Key(Workspace, "weekly", day)
    <3>1. k \in WeeklyKeySet /\ k # NoKey
      BY WeeklyKeys DEF CapsTypeOK, WeeklyKeySet, NoKey
    <3>2. CASE Return(c, "refused")
      BY <2>2, <3>2, ReturnTypes DEF ReadWeekly, Outcomes, CapsTypeOK
    <3>3. CASE /\ weekKey' = [weekKey EXCEPT ![c] = k]
               /\ pc' = [pc EXCEPT ![c] = IF account[c] = NoAccount THEN "charge" ELSE "account"]
               /\ UNCHANGED <<account, dayKey>>
      <4> HIDE DEF k
      <4> QED BY <2>2, <3>1, <3>3 DEF ReadWeekly, CapsTypeOK, Ended, Outcomes, WeeklyKeySet
    <3> QED BY <2>2, <3>2, <3>3 DEF ReadWeekly
  <2>3. CASE ReadAccount(c)
    <3>1. CASE Return(c, "refused")
      BY <2>3, <3>1, ReturnTypes DEF ReadAccount, Outcomes, CapsTypeOK
    <3>2. CASE pc' = [pc EXCEPT ![c] = "charge"] /\ UNCHANGED <<account, dayKey, weekKey>>
      BY <2>3, <3>2 DEF ReadAccount, CapsTypeOK, Ended, Outcomes
    <3> QED BY <2>3, <3>1, <3>2 DEF ReadAccount
  <2>4. CASE ReadRaises(c)
    BY <2>4, ReturnTypes DEF ReadRaises, Outcomes, CapsTypeOK
  <2>5. CASE Charge(c)
    <3>1. sent' \in [Day -> Nat] /\ day' \in Day
      BY <2>5 DEF Charge, CapsTypeOK
    <3> QED BY <2>5, <3>1, ApplyTypes, ReturnTypes DEF Charge, Outcomes
  <2>6. CASE ChargeRaises(c)
    <3>1. count' \in [Keys -> Nat] /\ until' \in [Keys -> Nat]
      BY <2>6, ApplyTypes DEF ChargeRaises, CapsTypeOK
    <3> QED BY <2>6, <3>1, ReturnTypes DEF ChargeRaises, Outcomes, CapsTypeOK
  <2> QED BY <1>1, <2>1, <2>2, <2>3, <2>4, <2>5, <2>6 DEF Step
<1>2. ASSUME NEW c \in Callers, NEW a \in Accounts \cup {NoAccount}, Call(c, a) PROVE CapsTypeOK'
  BY <1>2 DEF Call, CapsTypeOK, Ended, Outcomes
<1>3. CASE Midnight
  <2>1. day' \in Day
    BY <1>3, SendCapsAssumption DEF SendCapsAssumption, Midnight, CapsTypeOK, Day
  <2>2. count' \in [Keys -> Nat] /\ until' \in [Keys -> Nat]
    BY <1>3 DEF Midnight, CapsTypeOK
  <2> QED BY <1>3, <2>1, <2>2 DEF Midnight, CapsTypeOK
<1>4. CASE UNCHANGED caps BY <1>4 DEF caps, CapsTypeOK
<1> QED BY <1>1, <1>2, <1>3, <1>4 DEF CapsNext

(* The type invariant of SendCaps: in particular, a call past a check holds*)
(* the very key it was checked against until it is charged.                *)
THEOREM CapsTypeCorrect == CapsSpec => []CapsTypeOK
<1>1. CapsInit => CapsTypeOK
  <2>1. 0 \in Day
    BY SendCapsAssumption DEF SendCapsAssumption, Day
  <2> QED BY <2>1 DEF CapsInit, CapsTypeOK, Ended
<1> QED BY <1>1, CapsTypeInductive, PTL DEF CapsSpec
-----------------------------------------------------------------------------
(* No call holds the daily key of a day to come, and no such counter has   *)
(* been touched: what lets the account key be charged under a date its     *)
(* check did not see.                                                      *)
HeldKeysPast == \A c \in Callers : dayKey[c] # NoKey => dayKey[c].date <= day
FutureEmpty == \A k \in Keys : k.window = "daily" /\ k.date > day => count[k] = 0

CapInv == CapsTypeOK /\ HeldKeysPast /\ FutureEmpty /\ OvershootBounded

Bound(k) == count[k] + Cardinality(Pending(k)) <= Limit(k) + Cardinality(Callers) - 1

(* There are never more pending calls on a key than callers.               *)
LEMMA PendingFinite ==
  \A k : IsFiniteSet(Pending(k)) /\ Cardinality(Pending(k)) \in Nat
         /\ Cardinality(Pending(k)) <= Cardinality(Callers)
<1>1. \A k : Pending(k) \subseteq Callers
  BY DEF Pending
<1> QED
  BY <1>1, SendCapsAssumption, FS_Subset, FS_CardinalityType DEF SendCapsAssumption

(* The number of callers is a natural number.                              *)
LEMMA CallersCounted == Cardinality(Callers) \in Nat
  BY SendCapsAssumption, FS_CardinalityType DEF SendCapsAssumption

(* What a step may do to key k: shrink the calls pending on it and its     *)
(* counter, find the counter below its limit, or charge it for one call.   *)
LEMMA BoundShrinks ==
  ASSUME NEW k \in Keys, CapsTypeOK, CapsTypeOK', Bound(k),
         Pending(k)' \subseteq Pending(k), count'[k] <= count[k]
  PROVE  Bound(k)'
<1>1. Cardinality(Pending(k)') <= Cardinality(Pending(k)) /\ Cardinality(Pending(k)') \in Nat
  BY PendingFinite, FS_Subset, FS_CardinalityType
<1> QED
  BY <1>1, PendingFinite, CallersCounted, LimitPositive DEF Bound, CapsTypeOK

(* A counter below its limit leaves room for every caller.                 *)
LEMMA BoundBelowLimit ==
  ASSUME NEW k \in Keys, CapsTypeOK', count'[k] < Limit(k)
  PROVE  Bound(k)'
<1>1. Pending(k)' \subseteq Callers
  BY DEF Pending
<1>2. Cardinality(Pending(k)') <= Cardinality(Callers) /\ Cardinality(Pending(k)') \in Nat
  BY <1>1, SendCapsAssumption, FS_Subset, FS_CardinalityType DEF SendCapsAssumption
<1> QED
  BY <1>2, CallersCounted, LimitPositive DEF Bound, CapsTypeOK

(* Charging a key turns one pending call on it into one unit.              *)
LEMMA BoundCharged ==
  ASSUME NEW k \in Keys, CapsTypeOK, CapsTypeOK', Bound(k), NEW c \in Pending(k),
         Pending(k)' \subseteq Pending(k) \ {c}, count'[k] = count[k] + 1
  PROVE  Bound(k)'
<1>1. IsFiniteSet(Pending(k) \ {c})
      /\ Cardinality(Pending(k) \ {c}) = Cardinality(Pending(k)) - 1
  BY PendingFinite, FS_RemoveElement
<1>2. Cardinality(Pending(k)') <= Cardinality(Pending(k)) - 1 /\ Cardinality(Pending(k)') \in Nat
  BY <1>1, FS_Subset, FS_CardinalityType
<1> QED
  BY <1>2, PendingFinite, CallersCounted, LimitPositive DEF Bound, CapsTypeOK

(* A call that returns without charging anything.                          *)
LEMMA ReturnKeepsBound ==
  ASSUME NEW k \in Keys, CapsTypeOK, CapsTypeOK', Bound(k), NEW c \in Callers,
         NEW o \in Outcomes, Return(c, o), UNCHANGED <<day, count>>
  PROVE  Bound(k)'
<1>1. Pending(k)' \subseteq Pending(k)
  BY DEF Return, Pending, CapsTypeOK, Outcomes
<1> QED BY <1>1, BoundShrinks DEF CapsTypeOK

(* The pipeline charges each key for one of the calls pending on it.       *)
LEMMA ChargeKeepsBound ==
  ASSUME NEW k \in Keys, CapsTypeOK, CapsTypeOK', Bound(k), NEW c \in Callers,
         NEW o \in Outcomes, pc[c] = "charge", Return(c, o), Apply(c), day' = day
  PROVE  Bound(k)'
<1>1. Pending(k)' \subseteq Pending(k) \ {c}
  BY DEF Return, Pending, CapsTypeOK, Outcomes
<1>2. CASE k \in Charged(c)
  <2>1. c \in Pending(k)
    BY <1>2 DEF Charged, Pending
  <2>2. count'[k] = count[k] + 1
    BY <1>2 DEF Apply
  <2> QED BY <1>1, <2>1, <2>2, BoundCharged
<1>3. CASE k \notin Charged(c)
  BY <1>1, <1>3, BoundShrinks DEF Apply, CapsTypeOK
<1> QED BY <1>2, <1>3

(* Every step keeps the bound on every key: a call joins the pending ones  *)
(* only on a key below its limit.                                          *)
LEMMA OvershootInductive ==
  ASSUME CapInv, [CapsNext]_caps, CapsTypeOK'
  PROVE  OvershootBounded'
<1> SUFFICES ASSUME NEW k \in Keys PROVE Bound(k)'
  BY DEF OvershootBounded, Bound
<1>0. Bound(k) /\ CapsTypeOK
  BY DEF CapInv, OvershootBounded, Bound
<1> USE DEF redis
<1>1. ASSUME NEW c \in Callers, Step(c) PROVE Bound(k)'
  <2>1. CASE ReadDaily(c)
    <3> DEFINE r == Key(Workspace, "daily", day)
    <3>1. CASE Return(c, "refused")
      BY <2>1, <3>1, <1>0, ReturnKeepsBound DEF ReadDaily, Outcomes
    <3>2. CASE /\ ~Reaches(r) /\ dayKey' = [dayKey EXCEPT ![c] = r]
               /\ pc' = [pc EXCEPT ![c] = "weekly"] /\ UNCHANGED <<account, weekKey>>
      <4>1. CASE k = r
        <5>1. count'[k] < Limit(k)
          BY <2>1, <3>2, <4>1, <1>0, LimitPositive DEF ReadDaily, Reaches, CapsTypeOK
        <5> QED BY <5>1, BoundBelowLimit
      <4>2. CASE k # r
        <5>1. Pending(k)' \subseteq Pending(k)
          BY <2>1, <3>2, <4>2, <1>0 DEF ReadDaily, Pending, CapsTypeOK
        <5> QED BY <2>1, <5>1, <1>0, BoundShrinks DEF ReadDaily, CapsTypeOK
      <4> QED BY <4>1, <4>2
    <3> QED BY <2>1, <3>1, <3>2 DEF ReadDaily
  <2>2. CASE ReadWeekly(c)
    <3> DEFINE r == Key(Workspace, "weekly", day)
    <3>1. CASE Return(c, "refused")
      BY <2>2, <3>1, <1>0, ReturnKeepsBound DEF ReadWeekly, Outcomes
    <3>2. CASE /\ ~Reaches(r) /\ weekKey' = [weekKey EXCEPT ![c] = r]
               /\ pc' = [pc EXCEPT ![c] = IF account[c] = NoAccount THEN "charge" ELSE "account"]
               /\ UNCHANGED <<account, dayKey>>
      <4>1. CASE k = r
        <5>1. count'[k] < Limit(k)
          BY <2>2, <3>2, <4>1, <1>0, LimitPositive DEF ReadWeekly, Reaches, CapsTypeOK
        <5> QED BY <5>1, BoundBelowLimit
      <4>2. CASE k # r
        <5>1. k # Key(NoAccount, "daily", day)
          BY SendCapsAssumption DEF SendCapsAssumption, Key, Keys, Workspace
        <5>2. Pending(k)' \subseteq Pending(k)
          BY <2>2, <3>2, <4>2, <5>1, <1>0 DEF ReadWeekly, Pending, CapsTypeOK
        <5> QED BY <2>2, <5>2, <1>0, BoundShrinks DEF ReadWeekly, CapsTypeOK
      <4> QED BY <4>1, <4>2
    <3> QED BY <2>2, <3>1, <3>2 DEF ReadWeekly
  <2>3. CASE ReadAccount(c)
    <3> DEFINE r == Key(account[c], "daily", day)
    <3>1. CASE Return(c, "refused")
      BY <2>3, <3>1, <1>0, ReturnKeepsBound DEF ReadAccount, Outcomes
    <3>2. CASE /\ ~Reaches(r) /\ pc' = [pc EXCEPT ![c] = "charge"]
               /\ UNCHANGED <<account, dayKey, weekKey>>
      <4>1. CASE k = r
        <5>1. count'[k] < Limit(k)
          BY <2>3, <3>2, <4>1, <1>0, LimitPositive DEF ReadAccount, Reaches, CapsTypeOK
        <5> QED BY <5>1, BoundBelowLimit
      <4>2. CASE k # r
        <5>1. Pending(k)' \subseteq Pending(k)
          BY <2>3, <3>2, <4>2, <1>0 DEF ReadAccount, Pending, CapsTypeOK
        <5> QED BY <2>3, <5>1, <1>0, BoundShrinks DEF ReadAccount, CapsTypeOK
      <4> QED BY <4>1, <4>2
    <3> QED BY <2>3, <3>1, <3>2 DEF ReadAccount
  <2>4. CASE ReadRaises(c)
    BY <2>4, <1>0, ReturnKeepsBound DEF ReadRaises, Outcomes
  <2>5. CASE Charge(c)
    BY <2>5, <1>0, ChargeKeepsBound DEF Charge, Outcomes
  <2>6. CASE ChargeRaises(c)
    <3>1. CASE Apply(c)
      BY <2>6, <3>1, <1>0, ChargeKeepsBound DEF ChargeRaises, Outcomes
    <3>2. CASE UNCHANGED redis
      BY <2>6, <3>2, <1>0, ReturnKeepsBound DEF ChargeRaises, Outcomes
    <3> QED BY <2>6, <3>1, <3>2 DEF ChargeRaises
  <2> QED BY <1>1, <2>1, <2>2, <2>3, <2>4, <2>5, <2>6 DEF Step
<1>2. ASSUME NEW c \in Callers, NEW a \in Accounts \cup {NoAccount}, Call(c, a)
      PROVE  Bound(k)'
  <2>1. Pending(k)' \subseteq Pending(k)
    BY <1>2, <1>0 DEF Call, Pending, CapsTypeOK
  <2> QED BY <1>2, <2>1, <1>0, BoundShrinks DEF Call, CapsTypeOK
<1>3. CASE Midnight
  <2>1. count'[k] <= count[k] /\ (count[k] = 0 => count'[k] = 0)
    BY <1>3, <1>0 DEF Midnight, CapsTypeOK
  <2>2. CASE k.window = "daily" /\ k.date = day + 1
    <3>1. count'[k] < Limit(k)
      BY <1>0, <2>1, <2>2, LimitPositive DEF CapInv, FutureEmpty, CapsTypeOK, Day
    <3> QED BY <3>1, BoundBelowLimit
  <2>3. CASE ~(k.window = "daily" /\ k.date = day + 1)
    <3>1. Pending(k)' \subseteq Pending(k)
      BY <1>3, <2>3, <1>0 DEF Midnight, Pending, Key, CapsTypeOK
    <3> QED BY <2>1, <3>1, <1>0, BoundShrinks
  <2> QED BY <2>2, <2>3
<1>4. CASE UNCHANGED caps
  <2>1. Pending(k)' \subseteq Pending(k) /\ count'[k] <= count[k]
    BY <1>4, <1>0 DEF caps, Pending, Key, CapsTypeOK
  <2> QED BY <2>1, <1>0, BoundShrinks
<1> QED BY <1>1, <1>2, <1>3, <1>4 DEF CapsNext

(* Every step keeps the dates of the keys in the past.                     *)
LEMMA DatesInductive ==
  ASSUME CapInv, [CapsNext]_caps, CapsTypeOK'
  PROVE  HeldKeysPast' /\ FutureEmpty'
<1> USE DEF CapInv, redis
<1>1. ASSUME NEW c \in Callers, Step(c) PROVE HeldKeysPast' /\ FutureEmpty'
  <2>1. day' = day
    BY <1>1 DEF Step, ReadDaily, ReadWeekly, ReadAccount, ReadRaises, Charge, ChargeRaises
  <2>2. HeldKeysPast'
    <3>1. Key(Workspace, "daily", day).date <= day
      BY DEF Key, CapsTypeOK, Day
    <3>2. CASE dayKey' = [dayKey EXCEPT ![c] = NoKey]
      BY <2>1, <3>2 DEF HeldKeysPast, CapsTypeOK
    <3>3. CASE dayKey' = [dayKey EXCEPT ![c] = Key(Workspace, "daily", day)]
      BY <2>1, <3>1, <3>3 DEF HeldKeysPast, CapsTypeOK
    <3>4. CASE dayKey' = dayKey
      BY <2>1, <3>4 DEF HeldKeysPast, CapsTypeOK
    <3> QED
      BY <1>1, <3>2, <3>3, <3>4
      DEF Step, ReadDaily, ReadWeekly, ReadAccount, ReadRaises, Charge, ChargeRaises, Return
  <2>3. FutureEmpty'
    <3>1. CASE UNCHANGED count
      BY <2>1, <3>1 DEF FutureEmpty
    <3>2. CASE pc[c] = "charge" /\ Apply(c)
      <4>1. \A k \in Charged(c) : k.window = "daily" => k.date <= day
        BY <3>2 DEF Charged, HeldKeysPast, CapsTypeOK, Key, Day
      <4> QED BY <2>1, <3>2, <4>1 DEF FutureEmpty, Apply, Keys, CapsTypeOK, Day
    <3> QED
      BY <1>1, <3>1, <3>2
      DEF Step, ReadDaily, ReadWeekly, ReadAccount, ReadRaises, Charge, ChargeRaises
  <2> QED BY <2>2, <2>3
<1>2. ASSUME NEW c \in Callers, NEW a \in Accounts \cup {NoAccount}, Call(c, a)
      PROVE  HeldKeysPast' /\ FutureEmpty'
  BY <1>2 DEF Call, HeldKeysPast, FutureEmpty
<1>3. CASE Midnight
  <2>1. day' = day + 1 /\ day \in Int /\ UNCHANGED dayKey
    BY <1>3 DEF Midnight, CapsTypeOK, Day
  <2>2. \A k \in Keys : k.date \in Int
    BY DEF Keys, Day
  <2>3. \A k \in Keys : count[k] = 0 => count'[k] = 0
    BY <1>3 DEF Midnight
  <2>4. \A c \in Callers : dayKey[c] # NoKey => dayKey[c] \in Keys
    BY DEF CapsTypeOK
  <2> QED BY <2>1, <2>2, <2>3, <2>4 DEF HeldKeysPast, FutureEmpty
<1>4. CASE UNCHANGED caps
  BY <1>4 DEF caps, HeldKeysPast, FutureEmpty
<1> QED BY <1>1, <1>2, <1>3, <1>4 DEF CapsNext

(* The inductive invariant holds in every run.                             *)
LEMMA CapInvHolds == CapsSpec => []CapInv
<1>1. CapsInit /\ CapsTypeOK => CapInv
  <2> SUFFICES ASSUME CapsInit, CapsTypeOK PROVE CapInv
    OBVIOUS
  <2>1. HeldKeysPast /\ FutureEmpty
    BY DEF CapsInit, HeldKeysPast, FutureEmpty
  <2>2. ASSUME NEW k \in Keys PROVE Bound(k)
    <3>1. Pending(k) = {}
      BY DEF CapsInit, Pending
    <3>2. Cardinality(Callers) # 0
      BY SendCapsAssumption, FS_EmptySet DEF SendCapsAssumption
    <3> QED BY <3>1, <3>2, CallersCounted, LimitPositive, FS_EmptySet DEF CapsInit, Bound
  <2> QED BY <2>1, <2>2 DEF CapInv, OvershootBounded, Bound
<1>2. CapInv /\ [CapsNext]_caps /\ CapsTypeOK' => CapInv'
  BY OvershootInductive, DatesInductive DEF CapInv
<1> QED BY <1>1, <1>2, CapsTypeCorrect, PTL DEF CapsSpec

(* Every cap of the workspace and of its accounts is exceeded by fewer     *)
(* units than there are callers, however many callers, accounts and days   *)
(* there are.                                                              *)
THEOREM CapsNearlyHold == CapsSpec => []OvershootBounded
<1>1. CapInv => OvershootBounded
  BY DEF CapInv
<1> QED BY <1>1, CapInvHolds, PTL
-----------------------------------------------------------------------------
(* A day lies within WeekLength days of the start of its week.             *)
LEMMA WeekSpan ==
  ASSUME NEW d \in Day
  PROVE  Week(d) <= d /\ d < Week(d) + WeekLength
<1>1. LET monday == (d \div WeekLength) * WeekLength
      IN  monday \in Int /\ monday <= d /\ d < monday + WeekLength
  BY SendCapsAssumption DEF SendCapsAssumption, Day
<1> QED BY <1>1, SendCapsAssumption DEF SendCapsAssumption, Week, Day

(* A counter in use lives for its TTL from the first day of its window on. *)
HeldWeeksPast == \A c \in Callers : weekKey[c] # NoKey => weekKey[c].date <= day
Lives == \A k \in Keys : count[k] # 0 => until[k] >= k.date + Life(k)

LifeInv == CapsTypeOK /\ HeldKeysPast /\ FutureEmpty /\ HeldWeeksPast /\ Lives

(* Every TTL is a natural number of days.                                  *)
LEMMA LifeNat == \A k : Life(k) \in Nat
  BY SendCapsAssumption DEF SendCapsAssumption, Life

(* Every step keeps the remaining life of the counters in use.             *)
LEMMA LifeInductive ==
  ASSUME LifeInv, [CapsNext]_caps, CapsTypeOK'
  PROVE  HeldWeeksPast' /\ Lives'
<1> USE DEF LifeInv, redis
<1>0. \A k \in Keys : k.date \in Int
  BY DEF Keys, Day
<1>1. ASSUME NEW c \in Callers, Step(c) PROVE HeldWeeksPast' /\ Lives'
  <2>1. day' = day
    BY <1>1 DEF Step, ReadDaily, ReadWeekly, ReadAccount, ReadRaises, Charge, ChargeRaises
  <2>2. HeldWeeksPast'
    <3>1. Key(Workspace, "weekly", day).date <= day
      BY WeekSpan DEF Key, CapsTypeOK
    <3>2. CASE weekKey' = [weekKey EXCEPT ![c] = NoKey]
      BY <2>1, <3>2 DEF HeldWeeksPast, CapsTypeOK
    <3>3. CASE weekKey' = [weekKey EXCEPT ![c] = Key(Workspace, "weekly", day)]
      BY <2>1, <3>1, <3>3 DEF HeldWeeksPast, CapsTypeOK
    <3>4. CASE weekKey' = weekKey
      BY <2>1, <3>4 DEF HeldWeeksPast, CapsTypeOK
    <3> QED
      BY <1>1, <3>2, <3>3, <3>4
      DEF Step, ReadDaily, ReadWeekly, ReadAccount, ReadRaises, Charge, ChargeRaises, Return
  <2>3. Lives'
    <3>1. CASE UNCHANGED redis
      BY <3>1 DEF Lives
    <3>2. CASE pc[c] = "charge" /\ Apply(c)
      <4>1. \A k \in Charged(c) : k.date <= day
        BY <3>2 DEF Charged, HeldKeysPast, HeldWeeksPast, CapsTypeOK, Key, Day
      <4>2. ASSUME NEW k \in Keys, count'[k] # 0 PROVE until'[k] >= k.date + Life(k)
        <5>1. CASE k \in Charged(c)
          BY <1>0, <3>2, <4>1, <5>1, LifeNat DEF Apply, CapsTypeOK, Day
        <5>2. CASE k \notin Charged(c)
          BY <3>2, <4>2, <5>2 DEF Apply, Lives
        <5> QED BY <5>1, <5>2
      <4> QED BY <4>2 DEF Lives, Life
    <3> QED
      BY <1>1, <3>1, <3>2
      DEF Step, ReadDaily, ReadWeekly, ReadAccount, ReadRaises, Charge, ChargeRaises
  <2> QED BY <2>2, <2>3
<1>2. ASSUME NEW c \in Callers, NEW a \in Accounts \cup {NoAccount}, Call(c, a)
      PROVE  HeldWeeksPast' /\ Lives'
  BY <1>2 DEF Call, HeldWeeksPast, Lives, Life
<1>3. CASE Midnight
  <2>1. day' = day + 1 /\ day \in Int /\ UNCHANGED weekKey
    BY <1>3 DEF Midnight, CapsTypeOK, Day
  <2>2. \A k \in Keys : count'[k] # 0 => count[k] # 0 /\ until'[k] = until[k]
    BY <1>3 DEF Midnight
  <2>3. \A c \in Callers : weekKey[c] # NoKey => weekKey[c] \in Keys
    BY DEF CapsTypeOK
  <2> QED BY <1>0, <2>1, <2>2, <2>3 DEF HeldWeeksPast, Lives, Life
<1>4. CASE UNCHANGED caps
  BY <1>4 DEF caps, HeldWeeksPast, Lives, Life
<1> QED BY <1>1, <1>2, <1>3, <1>4 DEF CapsNext

(* Midnight drops no counter of a window that is still open.               *)
LEMMA NextDayKeepsOpenWindows ==
  ASSUME LifeInv, Midnight, NEW k \in Keys, Current(k)'
  PROVE  count'[k] = count[k]
<1> USE DEF LifeInv
<1>1. day' = day + 1 /\ day \in Nat /\ day' \in Day
  BY SendCapsAssumption DEF SendCapsAssumption, Midnight, CapsTypeOK, Day
<1>2. CASE k.window = "daily"
  <2>1. count[k] = 0
    BY <1>1, <1>2 DEF Current, FutureEmpty
  <2> QED BY <2>1 DEF Midnight
<1>3. CASE k.window = "weekly"
  <2>1. k.date = Week(day')
    BY <1>3 DEF Current
  <2>2. day + 1 < k.date + WeekLength /\ k.date \in Int
    BY <1>1, <2>1, WeekSpan, WeekInDay DEF Day
  <2>3. CASE count[k] # 0
    <3>1. until[k] > day + 1
      BY <1>1, <1>3, <2>2, <2>3, SendCapsAssumption DEF SendCapsAssumption, Lives, Life, CapsTypeOK
    <3> QED BY <3>1 DEF Midnight
  <2>4. CASE count[k] = 0
    BY <2>4 DEF Midnight
  <2> QED BY <2>3, <2>4
<1> QED BY <1>2, <1>3 DEF Keys

(* The TTLs of send_caps outlast the windows they count, for every length  *)
(* of the week and wherever New Year falls in it.                          *)
THEOREM CountersOutlive == CapsSpec => CountersOutliveWindow
<1> DEFINE Kept == \A k \in Keys : Current(k)' => count'[k] >= count[k]
<1>1. CapsInit /\ CapsTypeOK => LifeInv
  BY DEF CapsInit, LifeInv, HeldKeysPast, FutureEmpty, HeldWeeksPast, Lives
<1>2. CapInv /\ LifeInv /\ [CapsNext]_caps /\ CapsTypeOK' => LifeInv'
  BY LifeInductive, DatesInductive DEF LifeInv, CapInv
<1>3. LifeInv /\ CapsTypeOK' /\ [CapsNext]_caps => [Kept]_caps
  <2> SUFFICES ASSUME LifeInv, CapsTypeOK', CapsNext, NEW k \in Keys, Current(k)'
               PROVE  count'[k] >= count[k]
    BY DEF caps
  <2> USE DEF LifeInv, CapsTypeOK, redis
  <2>1. CASE Midnight
    BY <2>1, NextDayKeepsOpenWindows
  <2>2. ASSUME NEW c \in Callers, Step(c) PROVE count'[k] >= count[k]
    BY <2>2
    DEF Step, ReadDaily, ReadWeekly, ReadAccount, ReadRaises, Charge, ChargeRaises, Apply
  <2>3. ASSUME NEW c \in Callers, NEW a \in Accounts \cup {NoAccount}, Call(c, a)
        PROVE  count'[k] >= count[k]
    BY <2>3 DEF Call
  <2> QED BY <2>1, <2>2, <2>3 DEF CapsNext
<1> QED BY <1>1, <1>2, <1>3, CapsTypeCorrect, CapInvHolds, PTL DEF CapsSpec, CountersOutliveWindow
-----------------------------------------------------------------------------
(* A set of natural numbers has a least element.                           *)
LEMMA LeastElement ==
  ASSUME NEW T \in SUBSET Nat, T # {}
  PROVE  \E m \in T : \A k \in T : m <= k
<1> DEFINE R == OpToRel(<, Nat)
<1>1. IsWellFoundedOn(R, Nat)
  BY NatLessThanWellFounded
<1>2. \A x, y \in Nat : x < y => <<x, y>> \in R
  BY Zenon DEF OpToRel
<1> HIDE DEF R
<1>3. PICK m \in T : \A k \in T : <<k, m>> \notin R
  BY <1>1, WFMin
<1>4. \A k \in T : ~(k < m)
  BY <1>2, <1>3, Zenon
<1> QED BY <1>4

(* Induction over the subsets of a finite set: if some of them are bad,    *)
(* one is bad that has only good subsets of its own size less one.         *)
LEMMA SmallestSubset ==
  ASSUME NEW D, IsFiniteSet(D), NEW Bad \in SUBSET SUBSET D, Bad # {}
  PROVE  \E s \in Bad : \A x \in s : s \ {x} \notin Bad
<1>1. \A s \in SUBSET D : IsFiniteSet(s) /\ Cardinality(s) \in Nat
  BY FS_Subset, FS_CardinalityType
<1> DEFINE N == {Cardinality(s) : s \in Bad}
<1>2. N \in SUBSET Nat /\ N # {}
  BY <1>1
<1>3. PICK m \in N : \A k \in N : m <= k
  BY <1>2, LeastElement
<1>4. PICK s \in Bad : m = Cardinality(s)
  OBVIOUS
<1>5. ASSUME NEW x \in s PROVE s \ {x} \notin Bad
  <2>1. Cardinality(s \ {x}) = m - 1 /\ m \in Nat
    BY <1>1, <1>4, FS_RemoveElement
  <2> QED BY <1>3, <2>1
<1> QED BY <1>4, <1>5

(* What SumFunction computes on the way: g[s] is the sum of f over s, of   *)
(* the values taken in the order in which CHOOSE names the elements of s.  *)
First(s) == CHOOSE x \in s : TRUE
Plus(f, g, s) == IF s = {} THEN 0 ELSE f[First(s)] + g[s \ {First(s)}]
Summing(f, D, g) == g = [s \in SUBSET D |-> Plus(f, g, s)]

(* The element it adds first is one of them.                               *)
LEMMA FirstIn == ASSUME NEW s, s # {} PROVE First(s) \in s
  BY DEF First

(* Some function sums f: the sums of the subsets with at most n elements   *)
(* give those of the subsets with one more.                                *)
LEMMA SummingExists ==
  ASSUME NEW D, IsFiniteSet(D), NEW f
  PROVE  \E g : Summing(f, D, g)
<1> DEFINE Upto(n) == {s \in SUBSET D : Cardinality(s) <= n}
           Sums(n, g) == g = [s \in Upto(n) |-> Plus(f, g, s)]
           Without == {n \in Nat : ~\E g : Sums(n, g)}
<1>1. \A s \in SUBSET D : IsFiniteSet(s) /\ Cardinality(s) \in Nat
  BY FS_Subset, FS_CardinalityType
<1>2. \A s \in SUBSET D : s # {} => /\ s \ {First(s)} \in SUBSET D
                                    /\ Cardinality(s \ {First(s)}) = Cardinality(s) - 1
  BY <1>1, FirstIn, FS_RemoveElement
<1>3. 0 \notin Without
  <2> DEFINE g == [s \in Upto(0) |-> 0]
  <2>1. \A s \in Upto(0) : s = {}
    BY <1>1, FS_EmptySet
  <2>2. \A s \in Upto(0) : Plus(f, g, s) = 0
    BY <2>1 DEF Plus
  <2>3. Sums(0, g)
    BY <2>2
  <2> QED BY <2>3
<1>4. ASSUME NEW n \in Nat, n \notin Without PROVE n + 1 \notin Without
  <2>1. PICK h : Sums(n, h)
    BY <1>4
  <2> DEFINE g == [s \in Upto(n + 1) |-> Plus(f, h, s)]
  <2>2. \A s \in Upto(n) : s \in Upto(n + 1) /\ g[s] = h[s]
    <3>1. \A s \in Upto(n) : h[s] = Plus(f, h, s)
      BY <2>1
    <3>2. \A s \in Upto(n) : s \in Upto(n + 1)
      BY <1>1
    <3> QED BY <3>1, <3>2
  <2>3. ASSUME NEW s \in Upto(n + 1) PROVE Plus(f, h, s) = Plus(f, g, s)
    <3>1. CASE s = {} BY <3>1 DEF Plus
    <3>2. CASE s # {}
      <4> DEFINE r == s \ {First(s)}
      <4>0. /\ Cardinality(s) \in Nat /\ Cardinality(s) <= n + 1
            /\ r \in SUBSET D /\ Cardinality(r) = Cardinality(s) - 1
        BY <1>1, <1>2, <3>2
      <4>1. r \in Upto(n)
        BY <4>0
      <4>2. g[s \ {First(s)}] = h[s \ {First(s)}]
        BY <2>2, <4>1
      <4> QED BY <4>2 DEF Plus
    <3> QED BY <3>1, <3>2
  <2>4. Sums(n + 1, g)
    BY <2>3
  <2> QED BY <2>4
<1>5. Without = {}
  <2> SUFFICES ASSUME Without # {} PROVE FALSE
    OBVIOUS
  <2>1. Without \in SUBSET Nat
    OBVIOUS
  <2> HIDE DEF Without
  <2>2. PICK m \in Without : \A k \in Without : m <= k
    BY <2>1, LeastElement
  <2>3. m \in Nat /\ m # 0
    BY <1>3, <2>1, <2>2
  <2>4. m - 1 \in Nat /\ m - 1 \notin Without
    BY <2>2, <2>3
  <2>5. (m - 1) + 1 \notin Without
    BY <1>4, <2>4
  <2> QED BY <2>2, <2>3, <2>5
<1>6. Cardinality(D) \in Nat
  BY FS_CardinalityType
<1>7. PICK g : Sums(Cardinality(D), g)
  BY <1>5, <1>6
<1>8. Upto(Cardinality(D)) = SUBSET D
  BY FS_Subset
<1> QED BY <1>7, <1>8 DEF Summing

(* The sum of a function is what its partial sums come to.                 *)
LEMMA SumIsLast ==
  ASSUME NEW f, IsFiniteSet(DOMAIN f)
  PROVE  \E g : Summing(f, DOMAIN f, g) /\ SumFunction(f) = g[DOMAIN f]
<1> DEFINE it == CHOOSE g : Summing(f, DOMAIN f, g)
<1>1. Summing(f, DOMAIN f, it)
  BY SummingExists
<1>2. SumFunction(f) = it[DOMAIN f]
  BY Zenon DEF SumFunction, SumFunctionOnSet, FoldFunctionOnSet, MapThenFoldSet, Summing,
     Plus, First
<1> QED BY <1>1, <1>2

(* The sum of natural numbers is a natural number.                         *)
LEMMA SumType ==
  ASSUME NEW D, IsFiniteSet(D), NEW f \in [D -> Nat]
  PROVE  SumFunction(f) \in Nat
<1>1. DOMAIN f = D
  OBVIOUS
<1>2. PICK g : Summing(f, D, g) /\ SumFunction(f) = g[D]
  BY <1>1, SumIsLast
<1> DEFINE Bad == {s \in SUBSET D : g[s] \notin Nat}
<1>3. \A s \in SUBSET D : g[s] = Plus(f, g, s)
  BY <1>2 DEF Summing
<1>4. ASSUME NEW s \in Bad, \A x \in s : s \ {x} \notin Bad PROVE FALSE
  <2>1. g[s] = Plus(f, g, s) /\ s \in SUBSET D
    BY <1>3
  <2>2. s # {}
    BY <2>1 DEF Plus
  <2>3. First(s) \in s /\ s \ {First(s)} \in SUBSET D
    BY <2>2, FirstIn
  <2>4. f[First(s)] \in Nat /\ g[s \ {First(s)}] \in Nat
    BY <1>4, <2>1, <2>3
  <2> QED BY <2>1, <2>2, <2>4 DEF Plus
<1>5. Bad = {}
  <2>1. Bad \in SUBSET SUBSET D
    OBVIOUS
  <2> HIDE DEF Bad
  <2> QED BY <1>4, <2>1, SmallestSubset
<1> QED BY <1>2, <1>5

(* One more for one argument is one more in the sum.                       *)
LEMMA SumIncrement ==
  ASSUME NEW D, IsFiniteSet(D), NEW f \in [D -> Nat], NEW a \in D
  PROVE  SumFunction([f EXCEPT ![a] = @ + 1]) = SumFunction(f) + 1
<1> DEFINE e == [f EXCEPT ![a] = @ + 1]
<1>1. /\ e \in [D -> Nat] /\ DOMAIN f = D /\ DOMAIN e = D
      /\ \A x \in D : e[x] = IF x = a THEN f[x] + 1 ELSE f[x]
  OBVIOUS
<1> HIDE DEF e
<1>2. PICK g : Summing(f, D, g) /\ SumFunction(f) = g[D]
  BY <1>1, SumIsLast
<1>3. PICK h : Summing(e, D, h) /\ SumFunction(e) = h[D]
  BY <1>1, SumIsLast
<1>4. \A s \in SUBSET D : g[s] = Plus(f, g, s) /\ h[s] = Plus(e, h, s)
  BY <1>2, <1>3 DEF Summing
<1> DEFINE More(s) == g[s] \in Nat /\ h[s] = IF a \in s THEN g[s] + 1 ELSE g[s]
           Bad == {s \in SUBSET D : ~More(s)}
<1>5. ASSUME NEW s \in Bad, \A x \in s : s \ {x} \notin Bad PROVE FALSE
  <2>1. s \in SUBSET D /\ ~More(s)
    OBVIOUS
  <2>2. CASE s = {}
    BY <1>4, <2>1, <2>2 DEF Plus
  <2>3. CASE s # {}
    <3> DEFINE x == First(s)
               r == s \ {x}
    <3>1. x \in s /\ x \in D /\ r \in SUBSET D /\ r \notin Bad
      BY <1>5, <2>1, <2>3, FirstIn
    <3>2. More(r)
      BY <3>1
    <3>3. g[s] = f[x] + g[r] /\ h[s] = e[x] + h[r]
      BY <1>4, <2>1, <2>3 DEF Plus
    <3>4. x = a => a \notin r
      OBVIOUS
    <3>5. x # a => (a \in r <=> a \in s)
      OBVIOUS
    <3>6. f[x] \in Nat /\ e[x] = IF x = a THEN f[x] + 1 ELSE f[x]
      BY <1>1, <3>1
    <3> HIDE DEF x, r
    <3>7. More(s)
      BY <3>1, <3>2, <3>3, <3>4, <3>5, <3>6
    <3> QED BY <2>1, <3>7
  <2> QED BY <2>2, <2>3
<1>6. Bad = {}
  <2>1. Bad \in SUBSET SUBSET D
    OBVIOUS
  <2> HIDE DEF Bad
  <2> QED BY <1>5, <2>1, SmallestSubset
<1>7. More(D)
  BY <1>6
<1> QED BY <1>2, <1>3, <1>7 DEF e

(* Counters that start at zero sum to zero.                                *)
LEMMA SumOfNothing ==
  ASSUME NEW D, IsFiniteSet(D)
  PROVE  SumFunction([x \in D |-> 0]) = 0
<1> DEFINE f == [x \in D |-> 0]
<1>1. f \in [D -> Nat] /\ DOMAIN f = D /\ \A x \in D : f[x] = 0
  OBVIOUS
<1> HIDE DEF f
<1>2. PICK g : Summing(f, D, g) /\ SumFunction(f) = g[D]
  BY <1>1, SumIsLast
<1> DEFINE Bad == {s \in SUBSET D : g[s] # 0}
<1>3. \A s \in SUBSET D : g[s] = Plus(f, g, s)
  BY <1>2 DEF Summing
<1>4. ASSUME NEW s \in Bad, \A x \in s : s \ {x} \notin Bad PROVE FALSE
  <2>1. g[s] = Plus(f, g, s) /\ s \in SUBSET D /\ g[s] # 0
    BY <1>3
  <2>2. s # {}
    BY <2>1 DEF Plus
  <2>3. First(s) \in s /\ s \ {First(s)} \in SUBSET D
    BY <2>1, <2>2, FirstIn
  <2>4. f[First(s)] = 0 /\ g[s \ {First(s)}] = 0
    BY <1>1, <1>4, <2>1, <2>3
  <2> QED BY <2>1, <2>2, <2>4 DEF Plus
<1>5. Bad = {}
  <2>1. Bad \in SUBSET SUBSET D
    OBVIOUS
  <2> HIDE DEF Bad
  <2> QED BY <1>4, <2>1, SmallestSubset
<1> QED BY <1>2, <1>5 DEF f
-----------------------------------------------------------------------------
(* The types of the send caps survive each of their steps.                 *)
LEMMA CapsTypes ==
  ASSUME CapsTypeOK, CapsNext \/ UNCHANGED caps
  PROVE  CapsTypeOK'
  BY CapsTypeInductive

(* Where a step of check_and_increment leaves its own call, and the rest.  *)
LEMMA CapsStep ==
  ASSUME CapsTypeOK, NEW g \in Callers, Step(g)
  PROVE  /\ CapsTypeOK' /\ day \in Day
         /\ pc'[g] \in {"weekly", "account", "charge"} \cup Outcomes
         /\ \A h \in Callers \ {g} : pc'[h] = pc[h]
         /\ pc'[g] = "granted" => sent' = [sent EXCEPT ![day] = @ + 1]
         /\ pc'[g] # "granted" => sent' = sent
<1>1. CapsTypeOK'
  BY CapsTypes DEF CapsNext
<1>2. PICK o : /\ pc' = [pc EXCEPT ![g] = o]
               /\ o \in {"weekly", "account", "charge"} \cup Outcomes
               /\ o = "granted" => sent' = [sent EXCEPT ![day] = @ + 1]
               /\ o # "granted" => sent' = sent
  BY DEF Step, ReadDaily, ReadWeekly, ReadAccount,
     ReadRaises, Charge, ChargeRaises, Return,
     Outcomes
<1> QED BY <1>1, <1>2 DEF CapsTypeOK

(* The calendar is finite.                                                 *)
LEMMA DaysFinite == IsFiniteSet(Day)
<1>1. LastDay \in Int
  BY SendCapsAssumption DEF SendCapsAssumption
<1> QED BY <1>1, FS_Interval DEF Day

(* A gate that has passed its last blocklist begins a call.                *)
LEMMA CapsCall ==
  ASSUME CapsTypeOK, NEW g \in Callers, NEW a \in Accounts, Call(g, a)
  PROVE  /\ CapsTypeOK' /\ sent' = sent
         /\ pc' = [pc EXCEPT ![g] = "daily"]
<1>1. CapsTypeOK'
  BY CapsTypes DEF CapsNext
<1> QED BY <1>1 DEF Call

(* A gate that asks something else leaves the send caps alone.             *)
LEMMA CapsQuiet ==
  ASSUME CapsTypeOK, UNCHANGED caps
  PROVE  CapsTypeOK' /\ pc' = pc /\ sent' = sent /\ day' = day
  BY CapsTypes DEF caps

(* Targets is a list of guardrails, and none of them is another phase.     *)
LEMMA TargetsAre ==
  /\ Target \subseteq {"email", "domain", "company"}
  /\ Targets[1] \in Target
  /\ Len(Targets) \in Nat /\ DOMAIN Targets = 1..Len(Targets)
  /\ \A i \in DOMAIN Targets : Targets[i] \in Target
  /\ \A i \in DOMAIN Targets : i < Len(Targets) => i + 1 \in DOMAIN Targets
  BY GateAssumption DEF GateAssumption, Target, Range
-----------------------------------------------------------------------------
(* The part of TypeOK that is about the gates alone, and what ties each of *)
(* them to its call of check_and_increment.                                *)
GateTypes ==
  /\ gate \in [Callers -> {"idle"} \cup Answers \cup Asking]
  /\ target \in [Callers -> Accounts \cup {NoAccount}]
  /\ lacks \in [Callers -> Lacks]
  /\ globalPause \in BOOLEAN /\ wsPause \in BOOLEAN
  /\ blocked \subseteq Accounts \X Target
  /\ jobs \in [Accounts -> Nat] /\ drafts \in [Accounts -> Nat]
  /\ draftOnly \in BOOLEAN
  /\ seenClear \in [Callers -> SUBSET Guardrails]
  /\ \A g \in Callers : gate[g] \in Asking => target[g] \in Accounts

(* A gate waits for the caps exactly while its call is under way.          *)
Waits == \A g \in Callers : gate[g] = "caps" <=> pc[g] \notin Ended

(* The type invariant in three parts, now and after a step.                *)
LEMMA TypeParts ==
  /\ TypeOK <=> GateTypes /\ CapsTypeOK /\ Waits
  /\ TypeOK' <=> GateTypes' /\ CapsTypeOK' /\ Waits'
  BY DEF TypeOK, GateTypes, Waits

(* An answer, and a round trip that finds its guardrail clear.             *)
LEMMA AnswerTypes ==
  ASSUME GateTypes, NEW g \in Callers, NEW answer \in Answers, Answer(g, answer),
         UNCHANGED <<flags, draftOnly>>,
         jobs' \in [Accounts -> Nat], drafts' \in [Accounts -> Nat]
  PROVE  GateTypes' /\ gate' = [gate EXCEPT ![g] = answer]
  BY TargetsAre DEF GateTypes, Answer, Goto, Answers, Asking, Lacks, flags

LEMMA ContinueTypes ==
  ASSUME GateTypes, NEW g \in Callers, gate[g] \in Asking, NEW next \in Asking,
         Continue(g, next), UNCHANGED <<flags, out, draftOnly>>
  PROVE  GateTypes' /\ gate' = [gate EXCEPT ![g] = next]
  BY DEF GateTypes, Continue, Goto, flags, out

(* A question of one round trip to Redis keeps the types, however it ends. *)
LEMMA AskTypes ==
  ASSUME TypeOK, NEW g \in Callers, NEW at \in Asking \ {"caps"}, NEW stopped,
         NEW next \in Asking \ {"caps"}, Ask(g, at, stopped, next)
  PROVE  TypeOK'
<1>1. GateTypes /\ CapsTypeOK /\ Waits
  BY TypeParts
<1>2. CapsTypeOK' /\ pc' = pc
  BY <1>1, CapsQuiet DEF Ask
<1>3. PICK l \in (Asking \cup Answers) \ {"caps"} :
           GateTypes' /\ gate' = [gate EXCEPT ![g] = l]
  <2>1. CASE Answer(g, "skipped")
    <3>1. GateTypes' /\ gate' = [gate EXCEPT ![g] = "skipped"]
      BY <1>1, <2>1, AnswerTypes DEF Ask, Answers, GateTypes, out
    <3> QED BY <3>1 DEF Answers
  <2>2. CASE Continue(g, next)
    <3>1. GateTypes' /\ gate' = [gate EXCEPT ![g] = next]
      BY <1>1, <2>2, ContinueTypes DEF Ask
    <3> QED BY <3>1
  <2> QED BY <2>1, <2>2 DEF Ask
<1>4. Waits'
  <2>1. gate[g] # "caps" /\ gate'[g] # "caps"
    BY <1>1, <1>3 DEF Ask, GateTypes, Answers
  <2>2. \A h \in Callers : h # g => gate'[h] = gate[h]
    BY <1>1, <1>3 DEF GateTypes
  <2> QED BY <1>1, <1>2, <2>1, <2>2 DEF Waits, Ended, Outcomes
<1> QED BY <1>2, <1>3, <1>4, TypeParts

(* So does every step of a gate, of a person and of the clock.             *)
LEMMA TypeInductive == TypeOK /\ [Next]_vars => TypeOK'
<1> SUFFICES ASSUME TypeOK, [Next]_vars PROVE TypeOK'
  OBVIOUS
<1>1. GateTypes /\ CapsTypeOK /\ Waits
  BY TypeParts
<1>2. ASSUME NEW g \in Callers, GateStep(g) PROVE TypeOK'
  <2>1. CASE Start(g)
    <3>1. CapsTypeOK' /\ pc' = pc
      BY <1>1, <2>1, CapsQuiet DEF Start
    <3>2. PICK l \in Answers \cup {"global"} :
               GateTypes' /\ gate' = [gate EXCEPT ![g] = l]
      <4>1. CASE Answer(g, "skipped")
        <5>1. GateTypes' /\ gate' = [gate EXCEPT ![g] = "skipped"]
          BY <1>1, <2>1, <4>1, AnswerTypes DEF Start, Answers, GateTypes, out
        <5> QED BY <5>1 DEF Answers
      <4>2. CASE ~Answer(g, "skipped")
        <5>1. PICK a \in Accounts, l \in Lacks :
                /\ Goto(g, "global")
                /\ target' = [target EXCEPT ![g] = a]
                /\ lacks' = [lacks EXCEPT ![g] = l]
                /\ seenClear' = [seenClear EXCEPT ![g] = Clear(a, globalPause, wsPause, blocked)]
                /\ UNCHANGED <<flags, out, draftOnly, caps>>
          BY <2>1, <4>2 DEF Start
        <5>2. Clear(a, globalPause, wsPause, blocked) \in SUBSET Guardrails
          BY DEF Clear
        <5>3. gate' = [gate EXCEPT ![g] = "global"]
          BY <5>1 DEF Goto
        <5>4. GateTypes'
          BY <1>1, <5>1, <5>2, <5>3 DEF GateTypes, Asking, flags, out
        <5> QED BY <5>3, <5>4
      <4> QED BY <4>1, <4>2
    <3>3. gate[g] # "caps" /\ gate'[g] # "caps"
      BY <1>1, <2>1, <3>2 DEF Start, GateTypes, Answers
    <3>4. \A h \in Callers : h # g => gate'[h] = gate[h]
      BY <1>1, <3>2 DEF GateTypes
    <3>5. Waits'
      BY <1>1, <3>1, <3>3, <3>4 DEF Waits, Ended, Outcomes
    <3> QED BY <3>1, <3>2, <3>5, TypeParts
  <2>2. CASE AskGlobal(g)
    BY <2>2, AskTypes DEF AskGlobal, Asking
  <2>3. CASE AskWorkspace(g)
    <3>1. Targets[1] \in Asking \ {"caps"}
      BY TargetsAre DEF Asking
    <3> QED BY <2>3, <3>1, AskTypes DEF AskWorkspace, Asking
  <2>4. CASE AskBlocklist(g)
    <3>1. PICK i \in DOMAIN Targets :
            IF i < Len(Targets)
            THEN Ask(g, Targets[i], <<target[g], Targets[i]>> \in blocked, Targets[i + 1])
            ELSE /\ gate[g] = Targets[i]
                 /\ \/ /\ <<target[g], Targets[i]>> \in blocked
                       /\ Answer(g, "skipped")
                       /\ UNCHANGED caps
                    \/ /\ <<target[g], Targets[i]>> \notin blocked
                       /\ Continue(g, "caps")
                       /\ Call(g, target[g])
                 /\ UNCHANGED <<flags, out, draftOnly>>
      BY <2>4 DEF AskBlocklist
    <3>2. \A j \in DOMAIN Targets : Targets[j] \in Asking \ {"caps"}
      BY TargetsAre DEF Asking
    <3>3. CASE i < Len(Targets)
      BY <3>1, <3>2, <3>3, TargetsAre, AskTypes
    <3>4. CASE ~(i < Len(Targets))
      <4>1. gate[g] = Targets[i] /\ UNCHANGED <<flags, out, draftOnly>>
        BY <3>1, <3>4
      <4>2. gate[g] \in Asking \ {"caps"} /\ target[g] \in Accounts
        BY <1>1, <3>2, <4>1 DEF GateTypes
      <4>3. CASE Answer(g, "skipped") /\ UNCHANGED caps
        <5>1. CapsTypeOK' /\ pc' = pc
          BY <1>1, <4>3, CapsQuiet
        <5>2. GateTypes' /\ gate' = [gate EXCEPT ![g] = "skipped"]
          BY <1>1, <4>1, <4>3, AnswerTypes DEF Answers, GateTypes, out
        <5>3. Waits'
          BY <1>1, <4>2, <5>1, <5>2
          DEF Waits, GateTypes, Ended, Outcomes
        <5> QED BY <5>1, <5>2, <5>3, TypeParts
      <4>4. CASE Continue(g, "caps") /\ Call(g, target[g])
        <5>1. CapsTypeOK' /\ pc' = [pc EXCEPT ![g] = "daily"]
          BY <1>1, <4>2, <4>4, CapsCall
        <5>2. GateTypes' /\ gate' = [gate EXCEPT ![g] = "caps"]
          BY <1>1, <4>1, <4>2, <4>4, ContinueTypes DEF Asking
        <5>3. pc \in [Callers -> Ended \cup {"daily", "weekly", "account", "charge"}]
          BY <1>1 DEF CapsTypeOK
        <5>4. Waits'
          BY <1>1, <5>1, <5>2, <5>3
          DEF Waits, GateTypes, Ended, Outcomes
        <5> QED BY <5>1, <5>2, <5>4, TypeParts
      <4> QED BY <3>1, <3>4, <4>3, <4>4
    <3> QED BY <3>3, <3>4
  <2>5. CASE AskRaises(g) \/ Enqueue(g) \/ EnqueueRaises(g)
    <3>1. CapsTypeOK' /\ pc' = pc
      BY <1>1, <2>5, CapsQuiet DEF AskRaises, Enqueue, EnqueueRaises
    <3>2. gate[g] \in Asking \ {"caps"} /\ target[g] \in Accounts
      BY <1>1, <2>5, TargetsAre DEF AskRaises, Enqueue, EnqueueRaises, GateTypes, Asking
    <3>3. jobs' \in [Accounts -> Nat] /\ drafts' \in [Accounts -> Nat]
      BY <1>1, <2>5, <3>2 DEF AskRaises, Enqueue, EnqueueRaises, AddJob, GateTypes, out
    <3>4. PICK answer \in Answers : Answer(g, answer) /\ UNCHANGED <<flags, draftOnly>>
      BY <2>5 DEF AskRaises, Enqueue, EnqueueRaises, Answers
    <3>5. GateTypes' /\ gate' = [gate EXCEPT ![g] = answer]
      BY <1>1, <3>3, <3>4, AnswerTypes
    <3>6. Waits'
      BY <1>1, <3>1, <3>2, <3>5
      DEF Waits, GateTypes, Answers, Ended, Outcomes
    <3> QED BY <3>1, <3>5, <3>6, TypeParts
  <2>6. CASE AskCaps(g)
    <3>1. /\ gate[g] = "caps" /\ target[g] \in Accounts
          /\ CapsTypeOK'
          /\ pc'[g] \in {"weekly", "account", "charge"} \cup Outcomes
          /\ \A h \in Callers \ {g} : pc'[h] = pc[h]
      BY <1>1, <2>6, CapsStep DEF AskCaps, GateTypes, Asking
    <3>2. UNCHANGED <<flags, draftOnly>>
      BY <2>6 DEF AskCaps
    <3>3. PICK l \in Answers \cup {"enqueue", "caps"} :
            /\ GateTypes' /\ gate' = [gate EXCEPT ![g] = l]
            /\ l = "caps" <=> pc'[g] \notin Ended
      <4>1. CASE pc'[g] \in {"refused", "raised"}
        <5>1. Answer(g, "skipped") /\ UNCHANGED out
          BY <2>6, <4>1 DEF AskCaps
        <5>2. GateTypes' /\ gate' = [gate EXCEPT ![g] = "skipped"]
          BY <1>1, <3>2, <5>1, AnswerTypes DEF Answers, GateTypes, out
        <5> QED BY <4>1, <5>2 DEF Answers, Ended, Outcomes
      <4>2. CASE pc'[g] = "granted" /\ draftOnly
        <5>1. /\ Answer(g, "triggered") /\ UNCHANGED jobs
              /\ drafts' = [drafts EXCEPT ![target[g]] = @ + 1]
          BY <2>6, <4>2 DEF AskCaps
        <5>2. drafts' \in [Accounts -> Nat] /\ jobs' \in [Accounts -> Nat]
          BY <1>1, <3>1, <5>1 DEF GateTypes
        <5>3. GateTypes' /\ gate' = [gate EXCEPT ![g] = "triggered"]
          BY <1>1, <3>2, <5>1, <5>2, AnswerTypes DEF Answers
        <5> QED BY <4>2, <5>3 DEF Answers, Ended, Outcomes
      <4>3. CASE pc'[g] = "granted" /\ ~draftOnly
        <5>1. Continue(g, "enqueue") /\ UNCHANGED out
          BY <2>6, <4>3 DEF AskCaps
        <5>2. GateTypes' /\ gate' = [gate EXCEPT ![g] = "enqueue"]
          BY <1>1, <3>1, <3>2, <5>1, ContinueTypes DEF Asking
        <5>3. pc'[g] \in Ended /\ "enqueue" # "caps"
          BY <4>3 DEF Ended, Outcomes
        <5> QED BY <5>2, <5>3
      <4>4. CASE pc'[g] \in {"weekly", "account", "charge"}
        <5>1. UNCHANGED <<gate, target, lacks, seenClear, out>>
          BY <2>6, <4>4 DEF AskCaps
        <5>2. GateTypes'
          BY <1>1, <3>2, <5>1 DEF GateTypes, flags, out
        <5>3. gate' = [gate EXCEPT ![g] = "caps"]
          BY <1>1, <3>1, <5>1 DEF GateTypes
        <5> QED BY <4>4, <5>2, <5>3 DEF Ended, Outcomes
      <4> QED BY <3>1, <4>1, <4>2, <4>3, <4>4 DEF Outcomes
    <3>4. Waits'
      BY <1>1, <3>1, <3>3 DEF Waits, GateTypes, Answers, Ended, Outcomes
    <3> QED BY <3>1, <3>3, <3>4, TypeParts
  <2> QED BY <1>2, <2>1, <2>2, <2>3, <2>4, <2>5, <2>6 DEF GateStep
<1>3. ASSUME Observe, UNCHANGED <<gate, target, lacks, out, draftOnly, caps>>,
             globalPause' \in BOOLEAN, wsPause' \in BOOLEAN,
             blocked' \subseteq Accounts \X Target
      PROVE  TypeOK'
  <2>1. CapsTypeOK' /\ pc' = pc
    BY <1>1, <1>3, CapsQuiet
  <2>2. \A a : Clear(a, globalPause', wsPause', blocked') \in SUBSET Guardrails
    BY DEF Clear
  <2>3. seenClear' \in [Callers -> SUBSET Guardrails]
    BY <1>1, <1>3, <2>2 DEF Observe, GateTypes
  <2>4. GateTypes'
    BY <1>1, <1>3, <2>3 DEF GateTypes, out
  <2>5. Waits'
    BY <1>1, <1>3, <2>1 DEF Waits, Ended, Outcomes
  <2> QED BY <2>1, <2>4, <2>5, TypeParts
<1>4. ASSUME NEW on \in BOOLEAN, SetGlobal(on) \/ SetWorkspace(on) PROVE TypeOK'
  BY <1>1, <1>3, <1>4 DEF SetGlobal, SetWorkspace, GateTypes
<1>5. ASSUME NEW a \in Accounts, NEW t \in Target, SetBlocked(a, t) PROVE TypeOK'
  <2>1. blocked' \subseteq Accounts \X Target
    BY <1>1, <1>5 DEF SetBlocked, GateTypes
  <2> QED BY <1>1, <1>3, <1>5, <2>1 DEF SetBlocked, GateTypes
<1>6. CASE NextDay
  <2>1. CapsTypeOK'
    BY <1>1, <1>6, CapsTypes DEF NextDay, CapsNext
  <2>2. pc' = pc /\ UNCHANGED <<gate, target, lacks, flags, out, draftOnly, seenClear>>
    BY <1>6 DEF NextDay, Midnight
  <2>3. GateTypes' /\ Waits'
    BY <1>1, <2>2 DEF GateTypes, Waits, flags, out, Ended, Outcomes
  <2> QED BY <2>1, <2>3, TypeParts
<1>7. CASE UNCHANGED vars
  <2>1. CapsTypeOK' /\ pc' = pc
    BY <1>1, <1>7, CapsQuiet DEF vars
  <2>2. GateTypes' /\ Waits'
    BY <1>1, <1>7, <2>1 DEF vars, GateTypes, Waits, flags, out, Ended, Outcomes
  <2> QED BY <2>1, <2>2, TypeParts
<1> QED BY <1>2, <1>4, <1>5, <1>6, <1>7 DEF Next

(* The type invariant of the gate and of the send caps under it: in        *)
(* particular a gate waits for a call of check_and_increment exactly while *)
(* that call is under way, and none is left behind when the gate answers.  *)
THEOREM TypeCorrect == Spec => []TypeOK
<1>1. Init => TypeOK
  <2> SUFFICES ASSUME Init PROVE TypeOK
    OBVIOUS
  <2>1. 0 \in Day
    BY SendCapsAssumption DEF SendCapsAssumption, Day
  <2>2. CapsTypeOK
    BY <2>1 DEF Init, CapsInit, CapsTypeOK, Ended
  <2>3. GateTypes
    BY TargetsAre DEF Init, GateTypes, Asking, Lacks
  <2>4. Waits
    BY DEF Init, Waits, CapsInit, Ended
  <2> QED BY <2>2, <2>3, <2>4, TypeParts
<1> QED BY <1>1, TypeInductive, PTL DEF Spec
-----------------------------------------------------------------------------
(* The gates call check_and_increment as any other caller may: together    *)
(* with the clock they are a system of send caps.                          *)
THEOREM GatesUseCaps == Spec => CapsSpec
<1>1. Init => CapsInit
  BY DEF Init
<1>2. TypeOK /\ [Next]_vars => [CapsNext]_caps
  <2> SUFFICES ASSUME TypeOK, [Next]_vars PROVE CapsNext \/ UNCHANGED caps
    BY DEF caps
  <2>1. ASSUME NEW g \in Callers, AskBlocklist(g) PROVE CapsNext \/ UNCHANGED caps
    <3>1. PICK i \in DOMAIN Targets :
            \/ UNCHANGED caps
            \/ gate[g] = Targets[i] /\ Call(g, target[g])
      BY <2>1 DEF AskBlocklist, Ask
    <3>2. gate[g] = Targets[i] => target[g] \in Accounts
      BY TargetsAre DEF TypeOK, Asking
    <3> QED BY <3>1, <3>2 DEF CapsNext
  <2>2. ASSUME NEW g \in Callers, AskCaps(g) PROVE CapsNext
    BY <2>2 DEF AskCaps, CapsNext
  <2>3. ASSUME NEW g \in Callers,
               \/ Start(g) \/ AskGlobal(g) \/ AskWorkspace(g) \/ AskRaises(g)
               \/ Enqueue(g) \/ EnqueueRaises(g)
        PROVE  UNCHANGED caps
    BY <2>3 DEF Start, AskGlobal, AskWorkspace, AskRaises, Enqueue, EnqueueRaises, Ask
  <2>4. CASE NextDay
    BY <2>4 DEF NextDay, CapsNext
  <2>5. ASSUME NEW on \in BOOLEAN, SetGlobal(on) \/ SetWorkspace(on) PROVE UNCHANGED caps
    BY <2>5 DEF SetGlobal, SetWorkspace
  <2>6. ASSUME NEW a \in Accounts, NEW t \in Target, SetBlocked(a, t) PROVE UNCHANGED caps
    BY <2>6 DEF SetBlocked
  <2>7. CASE UNCHANGED vars
    BY <2>7 DEF vars
  <2> QED BY <2>1, <2>2, <2>3, <2>4, <2>5, <2>6, <2>7 DEF Next, GateStep
<1> QED BY <1>1, <1>2, TypeCorrect, PTL DEF Spec, CapsSpec

(* No counter is forgotten early under the gates either.                   *)
THEOREM GatesCountersOutlive == Spec => CountersOutliveWindow
  BY CountersOutlive, GatesUseCaps, PTL

(* So the gates exceed every cap by fewer units than there are gates,      *)
(* whatever else they ask, and whatever raises, in between.                *)
THEOREM GatesNearlyKeepCaps == Spec => []OvershootBounded
  BY CapsNearlyHold, GatesUseCaps, PTL
-----------------------------------------------------------------------------
(* What a gate has seen clear by the time it gets somewhere: whatever is   *)
(* clear now, and every guardrail it has already asked.                    *)
AskedSeen(g) ==
  /\ gate[g] \in Asking => Clear(target[g], globalPause, wsPause, blocked) \subseteq seenClear[g]
  /\ gate[g] \in Asking \ {"global"} => "global" \in seenClear[g]
  /\ gate[g] \in Asking \ {"global", "workspace"} =>
       "workspace" \in seenClear[g] /\ lacks[g] = "nothing"
  /\ \A i \in DOMAIN Targets : gate[g] = Targets[i] =>
       \A j \in DOMAIN Targets : j < i => Targets[j] \in seenClear[g]
  /\ gate[g] \in {"caps", "enqueue"} => Target \subseteq seenClear[g]

SeenInv == \A g \in Callers : AskedSeen(g)

(* An answer ends what there is to say of a gate.                          *)
LEMMA AnswerSeen ==
  ASSUME TypeOK, SeenInv, NEW g \in Callers, NEW answer \in Answers, Answer(g, answer),
         UNCHANGED flags
  PROVE  SeenInv'
<1>1. gate'[g] \in Answers /\ answer \notin Asking
  BY TargetsAre DEF TypeOK, Answer, Goto, Answers, Asking
<1>2. AskedSeen(g)'
  BY <1>1, TargetsAre DEF AskedSeen, Answers, Asking
<1>3. ASSUME NEW h \in Callers, h # g PROVE AskedSeen(h)'
  <2>1. /\ gate'[h] = gate[h] /\ target'[h] = target[h] /\ lacks'[h] = lacks[h]
        /\ seenClear'[h] = seenClear[h]
    BY <1>3 DEF Answer, Goto, TypeOK
  <2> QED BY <2>1 DEF SeenInv, AskedSeen, flags, Clear
<1> QED BY <1>2, <1>3 DEF SeenInv

(* A gate goes on past at, which it found clear.                           *)
LEMMA ContinueSeen ==
  ASSUME TypeOK, SeenInv, NEW g \in Callers, gate[g] \in Asking, NEW next \in Asking,
         Continue(g, next), UNCHANGED flags,
         next # "global" => "global" \in seenClear[g],
         next \notin {"global", "workspace"} =>
           "workspace" \in seenClear[g] /\ lacks[g] = "nothing",
         \A i \in DOMAIN Targets : next = Targets[i] =>
           \A j \in DOMAIN Targets : j < i => Targets[j] \in seenClear[g],
         next \in {"caps", "enqueue"} => Target \subseteq seenClear[g]
  PROVE  SeenInv'
<1>1. gate' = [gate EXCEPT ![g] = next] /\ UNCHANGED <<target, lacks, seenClear>>
  BY DEF Continue, Goto
<1>2. AskedSeen(g)'
  BY <1>1 DEF SeenInv, AskedSeen, TypeOK, flags, Clear
<1>3. ASSUME NEW h \in Callers, h # g PROVE AskedSeen(h)'
  <2>1. gate'[h] = gate[h]
    BY <1>1, <1>3 DEF TypeOK
  <2> QED BY <1>1, <2>1 DEF SeenInv, AskedSeen, flags, Clear
<1> QED BY <1>2, <1>3 DEF SeenInv

(* No target is asked twice.                                               *)
LEMMA TargetsApart ==
  ASSUME NEW i \in DOMAIN Targets, NEW j \in DOMAIN Targets, Targets[i] = Targets[j]
  PROVE  i = j
  BY GateAssumption DEF GateAssumption, IsInjective

(* A step of another gate or of a person only adds to what was seen clear. *)
LEMMA SeenInductive ==
  ASSUME TypeOK, SeenInv, [Next]_vars
  PROVE  SeenInv'
<1>1. ASSUME NEW g \in Callers, GateStep(g) PROVE SeenInv'
  <2>0. AskedSeen(g)
    BY DEF SeenInv
  <2>1. CASE Start(g)
    <3>1. CASE Answer(g, "skipped")
      BY <2>1, <3>1, AnswerSeen DEF Start, Answers
    <3>2. CASE ~Answer(g, "skipped")
      <4>1. PICK a \in Accounts, l \in Lacks :
              /\ Goto(g, "global")
              /\ target' = [target EXCEPT ![g] = a]
              /\ lacks' = [lacks EXCEPT ![g] = l]
              /\ seenClear' = [seenClear EXCEPT ![g] = Clear(a, globalPause, wsPause, blocked)]
              /\ UNCHANGED <<flags, out, draftOnly, caps>>
        BY <2>1, <3>2 DEF Start
      <4>2. gate'[g] = "global" /\ target'[g] = a
            /\ seenClear'[g] = Clear(a, globalPause, wsPause, blocked)
        BY <4>1 DEF Goto, TypeOK
      <4>3. AskedSeen(g)'
        BY <4>1, <4>2, TargetsAre DEF AskedSeen, flags, Clear
      <4>4. ASSUME NEW h \in Callers, h # g PROVE AskedSeen(h)'
        <5>1. /\ gate'[h] = gate[h] /\ target'[h] = target[h] /\ lacks'[h] = lacks[h]
              /\ seenClear'[h] = seenClear[h]
          BY <4>1, <4>4 DEF Goto, TypeOK
        <5> QED BY <4>1, <5>1 DEF SeenInv, AskedSeen, flags, Clear
      <4> QED BY <4>3, <4>4 DEF SeenInv
    <3> QED BY <3>1, <3>2
  <2>2. CASE AskGlobal(g)
    <3>1. CASE Answer(g, "skipped")
      BY <2>2, <3>1, AnswerSeen DEF AskGlobal, Ask, Answers
    <3>2. CASE ~globalPause /\ Continue(g, "workspace")
      <4>1. "global" \in seenClear[g] /\ gate[g] \in Asking
        BY <2>0, <2>2, <3>2 DEF AskGlobal, Ask, AskedSeen, Asking, Clear, Guardrails
      <4>2. "workspace" \in Asking /\ "workspace" \notin Target
        BY TargetsAre DEF Asking
      <4> QED BY <2>2, <3>2, <4>1, <4>2, TargetsAre, ContinueSeen DEF AskGlobal, Ask
    <3> QED BY <2>2, <3>1, <3>2 DEF AskGlobal, Ask
  <2>3. CASE AskWorkspace(g)
    <3>1. CASE Answer(g, "skipped")
      BY <2>3, <3>1, AnswerSeen DEF AskWorkspace, Ask, Answers
    <3>2. CASE ~wsPause /\ lacks[g] = "nothing" /\ Continue(g, Targets[1])
      <4>1. /\ "workspace" \in seenClear[g] /\ "global" \in seenClear[g]
            /\ gate[g] \in Asking
        BY <2>0, <2>3, <3>2 DEF AskWorkspace, Ask, AskedSeen, Asking, Clear, Guardrails
      <4>2. Targets[1] \in Asking /\ Targets[1] \notin {"caps", "enqueue"}
            /\ 1 \in DOMAIN Targets
        BY TargetsAre, GateAssumption DEF GateAssumption, Asking
      <4>3. \A i \in DOMAIN Targets : Targets[1] = Targets[i] =>
              \A j \in DOMAIN Targets : j < i => Targets[j] \in seenClear[g]
        BY <4>2, TargetsAre, TargetsApart
      <4> QED BY <2>3, <3>2, <4>1, <4>2, <4>3, ContinueSeen DEF AskWorkspace, Ask
    <3> QED BY <2>3, <3>1, <3>2 DEF AskWorkspace, Ask
  <2>4. CASE AskBlocklist(g)
    <3>1. PICK i \in DOMAIN Targets :
            /\ gate[g] = Targets[i] /\ UNCHANGED flags
            /\ \/ Answer(g, "skipped")
               \/ /\ <<target[g], Targets[i]>> \notin blocked
                  /\ IF i < Len(Targets) THEN Continue(g, Targets[i + 1])
                                         ELSE Continue(g, "caps")
      BY <2>4 DEF AskBlocklist, Ask
    <3>2. CASE Answer(g, "skipped")
      BY <3>1, <3>2, AnswerSeen DEF Answers
    <3>3. CASE ~Answer(g, "skipped")
      <4>1. Targets[i] \in Target /\ gate[g] \in Asking \ {"global", "workspace"}
        BY <3>1, TargetsAre DEF Asking
      <4>2. Targets[i] \in seenClear[g]
        BY <2>0, <3>1, <3>3, <4>1 DEF AskedSeen, Clear, Guardrails
      <4>3. /\ "global" \in seenClear[g] /\ "workspace" \in seenClear[g]
            /\ lacks[g] = "nothing"
            /\ \A j \in DOMAIN Targets : j < i => Targets[j] \in seenClear[g]
        BY <2>0, <3>1, <4>1 DEF AskedSeen
      <4>4. CASE i < Len(Targets)
        <5>1. /\ i + 1 \in DOMAIN Targets /\ Targets[i + 1] \in Target
              /\ Targets[i + 1] \in Asking
          BY <4>4, TargetsAre DEF Asking
        <5>2. \A j \in DOMAIN Targets : j < i + 1 => j = i \/ j < i
          BY TargetsAre
        <5>3. \A k \in DOMAIN Targets : Targets[i + 1] = Targets[k] =>
                \A j \in DOMAIN Targets : j < k => Targets[j] \in seenClear[g]
          BY <4>2, <4>3, <5>1, <5>2, TargetsApart
        <5>4. Targets[i + 1] \notin {"caps", "enqueue"}
          BY <5>1, TargetsAre
        <5>5. Continue(g, Targets[i + 1])
          BY <3>1, <3>3, <4>4
        <5> QED BY <3>1, <4>1, <4>3, <5>1, <5>3, <5>4, <5>5, ContinueSeen
      <4>5. CASE ~(i < Len(Targets))
        <5>1. Target \subseteq seenClear[g]
          <6>1. \A j \in DOMAIN Targets : j = i \/ j < i
            BY <4>5, TargetsAre
          <6>2. \A j \in DOMAIN Targets : Targets[j] \in seenClear[g]
            BY <4>2, <4>3, <6>1
          <6> QED BY <6>2 DEF Target, Range
        <5>2. "caps" \in Asking /\ \A k \in DOMAIN Targets : Targets[k] # "caps"
          BY TargetsAre DEF Asking
        <5>3. Continue(g, "caps")
          BY <3>1, <3>3, <4>5
        <5> QED BY <3>1, <4>1, <4>3, <5>1, <5>2, <5>3, ContinueSeen
      <4> QED BY <4>4, <4>5
    <3> QED BY <3>2, <3>3
  <2>5. CASE AskRaises(g) \/ Enqueue(g) \/ EnqueueRaises(g)
    BY <2>5, AnswerSeen DEF AskRaises, Enqueue, EnqueueRaises, Answers
  <2>6. CASE AskCaps(g)
    <3>1. gate[g] = "caps" /\ UNCHANGED flags
      BY <2>6 DEF AskCaps
    <3>2. CASE \E answer \in Answers : Answer(g, answer)
      BY <3>1, <3>2, AnswerSeen
    <3>3. CASE Continue(g, "enqueue")
      <4>1. /\ "global" \in seenClear[g] /\ "workspace" \in seenClear[g]
            /\ lacks[g] = "nothing" /\ Target \subseteq seenClear[g]
        BY <2>0, <3>1 DEF AskedSeen, Asking
      <4>2. "enqueue" \in Asking /\ \A k \in DOMAIN Targets : Targets[k] # "enqueue"
        BY TargetsAre DEF Asking
      <4>3. gate[g] \in Asking
        BY <3>1 DEF Asking
      <4> QED BY <3>1, <3>3, <4>1, <4>2, <4>3, ContinueSeen
    <3>4. CASE UNCHANGED <<gate, target, lacks, seenClear>>
      BY <3>1, <3>4 DEF SeenInv, AskedSeen, flags, Clear
    <3> QED BY <2>6, <3>2, <3>3, <3>4 DEF AskCaps, Answers, TypeOK
  <2> QED BY <1>1, <2>1, <2>2, <2>3, <2>4, <2>5, <2>6 DEF GateStep
<1>2. ASSUME Observe, UNCHANGED <<gate, target, lacks>>
      PROVE  SeenInv'
  <2>1. ASSUME NEW g \in Callers
        PROVE  /\ seenClear[g] \subseteq seenClear'[g]
               /\ gate[g] \in Asking =>
                    Clear(target[g], globalPause', wsPause', blocked') \subseteq seenClear'[g]
    BY <1>2 DEF Observe
  <2> QED BY <1>2, <2>1 DEF SeenInv, AskedSeen
<1>3. CASE UNCHANGED <<gate, target, lacks, seenClear, flags>>
  BY <1>3 DEF SeenInv, AskedSeen, flags, Clear
<1> QED BY <1>1, <1>2, <1>3
     DEF Next, SetGlobal, SetWorkspace, SetBlocked, NextDay, vars

(* A brief is triggered only past every condition and every guardrail, for *)
(* any number of gates and people, and whatever list of targets is asked.  *)
THEOREM TriggersAreChecked == Spec => TriggerPassesEveryCheck
<1> DEFINE Passes == \A g \in Callers : Triggers(g) =>
                       lacks[g] = "nothing" /\ Guardrails \subseteq seenClear[g]
<1>1. Init => SeenInv
  BY TargetsAre DEF Init, SeenInv, AskedSeen, Asking
<1>2. TypeOK /\ SeenInv /\ [Next]_vars => SeenInv'
  BY SeenInductive
<1>3. TypeOK /\ SeenInv /\ [Next]_vars => [Passes]_vars
  <2> SUFFICES ASSUME TypeOK, SeenInv, Next, NEW g \in Callers, Triggers(g)
               PROVE  lacks[g] = "nothing" /\ Guardrails \subseteq seenClear[g]
    OBVIOUS
  <2>1. gate \in [Callers -> {"idle"} \cup Answers \cup Asking]
    BY DEF TypeOK
  <2>2. AskedSeen(g)
    BY DEF SeenInv
  <2>3. gate[g] \in {"caps", "enqueue"}
    <3>1. PICK h \in Callers : GateStep(h)
      BY DEF Next, SetGlobal, SetWorkspace, SetBlocked, NextDay, Triggers
    <3>2. ASSUME NEW l, Goto(h, l) PROVE gate'[g] = IF g = h THEN l ELSE gate[g]
      BY <2>1, <3>2 DEF Goto
    <3>3. \A i \in DOMAIN Targets : Targets[i] # "triggered"
      BY TargetsAre
    <3>4. "triggered" \notin Target /\ 1 \in DOMAIN Targets
      BY TargetsAre, GateAssumption DEF GateAssumption
    <3>5. CASE AskCaps(h) \/ Enqueue(h) \/ EnqueueRaises(h)
      <4>1. gate[h] \in {"caps", "enqueue"}
        BY <3>5 DEF AskCaps, Enqueue, EnqueueRaises
      <4>2. g = h
        BY <3>2, <3>5 DEF AskCaps, Enqueue, EnqueueRaises, Answer, Continue, Triggers
      <4> QED BY <4>1, <4>2
    <3>6. CASE Start(h) \/ AskGlobal(h) \/ AskWorkspace(h) \/ AskRaises(h)
      <4>1. PICK l : Goto(h, l) /\ l # "triggered"
        BY <3>3, <3>4, <3>6 DEF Start, AskGlobal, AskWorkspace, AskRaises, Ask, Answer, Continue
      <4> QED BY <3>2, <4>1 DEF Triggers
    <3>7. CASE AskBlocklist(h)
      <4>1. \A i \in DOMAIN Targets : i < Len(Targets) => Targets[i + 1] # "triggered"
        BY <3>3, TargetsAre
      <4>2. PICK l : Goto(h, l) /\ l # "triggered"
        BY <3>7, <4>1 DEF AskBlocklist, Ask, Answer, Continue
      <4> QED BY <3>2, <4>2 DEF Triggers
    <3> QED BY <3>1, <3>5, <3>6, <3>7 DEF GateStep
  <2>4. gate[g] \in Asking \ {"global", "workspace"}
    BY <2>3 DEF Asking
  <2> QED BY <2>2, <2>3, <2>4 DEF AskedSeen, Guardrails
<1> QED BY <1>1, <1>2, <1>3, TypeCorrect, PTL DEF Spec, TriggerPassesEveryCheck
-----------------------------------------------------------------------------
(* Callers that were granted a unit and have not triggered yet.              *)
Holding == {g \in Callers : gate[g] = "enqueue"}

(* They can be counted.                                                    *)
LEMMA HoldingSize ==
  /\ IsFiniteSet(Holding) /\ Cardinality(Holding) \in Nat
  /\ IsFiniteSet(Holding') /\ Cardinality(Holding') \in Nat
<1>1. Holding \subseteq Callers /\ Holding' \subseteq Callers
  BY DEF Holding
<1> QED BY <1>1, SendCapsAssumption, FS_Subset, FS_CardinalityType DEF SendCapsAssumption

(* How the gates that hold a unit change when one of them moves.           *)
LEMMA HoldingMoves ==
  ASSUME TypeOK, NEW g \in Callers, NEW l, gate' = [gate EXCEPT ![g] = l]
  PROVE  /\ gate[g] # "enqueue" /\ l # "enqueue" => Holding' = Holding
         /\ gate[g] # "enqueue" /\ l = "enqueue" =>
              Cardinality(Holding') = Cardinality(Holding) + 1
         /\ gate[g] = "enqueue" /\ l # "enqueue" =>
              Cardinality(Holding') = Cardinality(Holding) - 1
<1>1. /\ gate'[g] = l
      /\ \A h \in Callers : h # g => gate'[h] = gate[h]
  BY DEF TypeOK
<1>2. CASE gate[g] # "enqueue" /\ l # "enqueue"
  BY <1>1, <1>2 DEF Holding
<1>3. CASE gate[g] # "enqueue" /\ l = "enqueue"
  <2>1. Holding' = Holding \cup {g} /\ g \notin Holding
    BY <1>1, <1>3 DEF Holding
  <2> QED BY <1>3, <2>1, HoldingSize, FS_AddElement
<1>4. CASE gate[g] = "enqueue" /\ l # "enqueue"
  <2>1. Holding' = Holding \ {g} /\ g \in Holding
    BY <1>1, <1>4 DEF Holding
  <2> QED BY <1>4, <2>1, HoldingSize, FS_RemoveElement
<1> QED BY <1>2, <1>3, <1>4

(* The three counters are numbers, and grow one by one.                    *)
LEMMA SumsAre ==
  ASSUME TypeOK
  PROVE  /\ SumFunction(jobs) \in Nat /\ SumFunction(drafts) \in Nat
         /\ SumFunction(sent) \in Nat
         /\ \A a \in Accounts :
              /\ SumFunction([jobs EXCEPT ![a] = @ + 1]) = SumFunction(jobs) + 1
              /\ SumFunction([drafts EXCEPT ![a] = @ + 1]) = SumFunction(drafts) + 1
         /\ \A d \in Day :
              SumFunction([sent EXCEPT ![d] = @ + 1]) = SumFunction(sent) + 1
<1>1. IsFiniteSet(Accounts) /\ IsFiniteSet(Day)
  BY DaysFinite, GateAssumption DEF GateAssumption
<1>2. jobs \in [Accounts -> Nat] /\ drafts \in [Accounts -> Nat]
  BY DEF TypeOK
<1>3. sent \in [Day -> Nat]
  BY DEF TypeOK, CapsTypeOK
<1> QED BY <1>1, <1>2, <1>3, SumType, SumIncrement

(* EveryTriggerIsPaid with its count of gates by name; it is inductive.    *)
Paid == SumFunction(jobs) + SumFunction(drafts) + Cardinality(Holding) <= SumFunction(sent)

(* A step adds to what is triggered, and to the gates that hold a unit, no *)
(* more than it adds to what was granted.                                  *)
LEMMA PaidInductive ==
  ASSUME TypeOK, Paid, [Next]_vars
  PROVE  Paid'
<1>0. /\ SumFunction(jobs) \in Nat /\ SumFunction(drafts) \in Nat
      /\ SumFunction(sent) \in Nat /\ Cardinality(Holding) \in Nat
  BY SumsAre, HoldingSize
<1>1. CASE /\ UNCHANGED <<out, sent>>
           /\ gate' = gate \/ \E g \in Callers, l \in (Asking \cup Answers) \ {"enqueue"} :
                                gate' = [gate EXCEPT ![g] = l] /\ gate[g] # "enqueue"
  <2>1. Holding' = Holding
    BY <1>1, HoldingMoves DEF Holding
  <2> QED BY <1>1, <2>1 DEF Paid, out
<1>2. ASSUME NEW g \in Callers, AskCaps(g) PROVE Paid'
  <2>1. /\ gate[g] = "caps" /\ target[g] \in Accounts /\ day \in Day
        /\ pc'[g] \in {"weekly", "account", "charge"} \cup Outcomes
        /\ pc'[g] = "granted" => sent' = [sent EXCEPT ![day] = @ + 1]
        /\ pc'[g] # "granted" => sent' = sent
    BY <1>2, CapsStep DEF AskCaps, TypeOK, Asking
  <2>2. CASE pc'[g] \in {"refused", "raised"}
    <3>1. UNCHANGED <<out, sent>> /\ gate' = [gate EXCEPT ![g] = "skipped"]
      BY <1>2, <2>1, <2>2 DEF AskCaps, Answer, Goto
    <3> QED BY <1>1, <2>1, <3>1 DEF Answers
  <2>3. CASE pc'[g] = "granted" /\ draftOnly
    <3>1. /\ gate' = [gate EXCEPT ![g] = "triggered"] /\ jobs' = jobs
          /\ drafts' = [drafts EXCEPT ![target[g]] = @ + 1]
          /\ sent' = [sent EXCEPT ![day] = @ + 1]
      BY <1>2, <2>1, <2>3 DEF AskCaps, Answer, Goto
    <3>2. Holding' = Holding
      <4>1. gate[g] # "enqueue" /\ "triggered" # "enqueue"
        BY <2>1
      <4>2. gate' = [gate EXCEPT ![g] = "triggered"]
        BY <3>1
      <4> QED BY <4>1, <4>2, HoldingMoves
    <3>3. /\ SumFunction(drafts') = SumFunction(drafts) + 1
          /\ SumFunction(sent') = SumFunction(sent) + 1
      BY <2>1, <3>1, SumsAre
    <3> QED BY <1>0, <3>1, <3>2, <3>3 DEF Paid
  <2>4. CASE pc'[g] = "granted" /\ ~draftOnly
    <3>1. /\ gate' = [gate EXCEPT ![g] = "enqueue"] /\ UNCHANGED out
          /\ sent' = [sent EXCEPT ![day] = @ + 1]
      BY <1>2, <2>1, <2>4 DEF AskCaps, Continue, Goto
    <3>2. Cardinality(Holding') = Cardinality(Holding) + 1
      BY <2>1, <3>1, HoldingMoves
    <3>3. SumFunction(sent') = SumFunction(sent) + 1
      BY <2>1, <3>1, SumsAre
    <3> QED BY <1>0, <3>1, <3>2, <3>3 DEF Paid, out
  <2>5. CASE pc'[g] \in {"weekly", "account", "charge"}
    <3>1. UNCHANGED <<gate, out, sent>>
      BY <1>2, <2>1, <2>5 DEF AskCaps
    <3> QED BY <1>1, <3>1
  <2> QED BY <2>1, <2>2, <2>3, <2>4, <2>5 DEF Outcomes
<1>3. ASSUME NEW g \in Callers, Enqueue(g) \/ EnqueueRaises(g) PROVE Paid'
  <2>1. PICK l \in Answers : gate' = [gate EXCEPT ![g] = l]
    BY <1>3 DEF Enqueue, EnqueueRaises, Answer, Goto, Answers
  <2>2. gate[g] = "enqueue" /\ target[g] \in Accounts /\ drafts' = drafts /\ sent' = sent
    BY <1>3 DEF Enqueue, EnqueueRaises, TypeOK, Asking, caps
  <2>3. Cardinality(Holding') = Cardinality(Holding) - 1
    BY <2>1, <2>2, HoldingMoves DEF Answers
  <2>4. CASE jobs' = jobs
    BY <1>0, <2>2, <2>3, <2>4 DEF Paid
  <2>5. CASE jobs' = [jobs EXCEPT ![target[g]] = @ + 1]
    <3>1. SumFunction(jobs') = SumFunction(jobs) + 1
      BY <2>2, <2>5, SumsAre
    <3> QED BY <1>0, <2>2, <2>3, <3>1 DEF Paid
  <2> QED BY <1>3, <2>4, <2>5 DEF Enqueue, EnqueueRaises, AddJob
<1>4. ASSUME NEW g \in Callers, Start(g) \/ AskGlobal(g) \/ AskWorkspace(g) \/ AskRaises(g)
      PROVE  Paid'
  <2>1. UNCHANGED <<out, sent>>
    BY <1>4 DEF Start, AskGlobal, AskWorkspace, AskRaises, Ask, caps
  <2>2. PICK l \in {"skipped", "global", "workspace"} \cup Target :
             gate' = [gate EXCEPT ![g] = l]
    BY <1>4, TargetsAre
    DEF Start, AskGlobal, AskWorkspace, AskRaises, Ask, Answer, Continue, Goto
  <2>3. gate[g] # "enqueue"
    BY <1>4, TargetsAre DEF Start, AskGlobal, AskWorkspace, AskRaises, Ask, Answers
  <2>4. l \in (Asking \cup Answers) \ {"enqueue"}
    BY TargetsAre DEF Asking, Answers
  <2> QED BY <1>1, <2>1, <2>2, <2>3, <2>4
<1>5. ASSUME NEW g \in Callers, AskBlocklist(g) PROVE Paid'
  <2>1. PICK i \in DOMAIN Targets :
          /\ gate[g] = Targets[i] /\ UNCHANGED out
          /\ UNCHANGED caps \/ Call(g, target[g])
          /\ \/ Answer(g, "skipped")
             \/ i < Len(Targets) /\ Continue(g, Targets[i + 1])
             \/ Continue(g, "caps")
    BY <1>5 DEF AskBlocklist, Ask
  <2>2. sent' = sent
    BY <2>1 DEF caps, Call
  <2>3. gate[g] # "enqueue"
    BY <2>1, TargetsAre
  <2>4. PICK l \in {"skipped", "caps"} \cup Target : gate' = [gate EXCEPT ![g] = l]
    BY <2>1, TargetsAre DEF Answer, Continue, Goto
  <2>5. l \in (Asking \cup Answers) \ {"enqueue"}
    BY TargetsAre DEF Asking, Answers
  <2> QED BY <1>1, <2>1, <2>2, <2>3, <2>4, <2>5
<1>6. CASE UNCHANGED <<gate, out, sent>>
  BY <1>1, <1>6
<1> QED BY <1>2, <1>3, <1>4, <1>5, <1>6
     DEF Next, GateStep, SetGlobal, SetWorkspace, SetBlocked, NextDay, Midnight,
         vars, caps

(* Everything triggered was paid for with a unit of its own, for any       *)
(* number of gates, accounts and days, whichever calls raise.              *)
THEOREM TriggersArePaid == Spec => []EveryTriggerIsPaid
<1>1. Init => Paid
  <2> SUFFICES ASSUME Init PROVE Paid
    OBVIOUS
  <2>1. IsFiniteSet(Accounts) /\ IsFiniteSet(Day)
    BY DaysFinite, GateAssumption DEF GateAssumption
  <2>2. SumFunction(jobs) = 0 /\ SumFunction(drafts) = 0 /\ SumFunction(sent) = 0
    BY <2>1, SumOfNothing DEF Init, CapsInit
  <2>3. Holding = {}
    BY DEF Init, Holding
  <2> QED BY <2>2, <2>3, FS_EmptySet DEF Paid
<1>2. TypeOK /\ Paid /\ [Next]_vars => Paid'
  BY PaidInductive
<1>3. Paid => EveryTriggerIsPaid
  BY DEF Paid, Holding, EveryTriggerIsPaid
<1> QED BY <1>1, <1>2, <1>3, TypeCorrect, PTL DEF Spec
=============================================================================
