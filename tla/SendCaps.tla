------------------------------ MODULE SendCaps ------------------------------
(***************************************************************************)
(* Send caps of one workspace: SendCapEnforcer.check_and_increment of      *)
(* src/guardrails/send_caps.py, called concurrently by qualification jobs. *)
(*                                                                         *)
(* The three GETs and the pipeline are separate round trips to Redis, one  *)
(* action each; the pipeline is a MULTI, so it is applied as a whole or    *)
(* not at all.  Keys carry the date or the week of the moment they are     *)
(* built: the workspace keys when they are read, the account key again     *)
(* when it is incremented.                                                 *)
(*                                                                         *)
(* Time is the UTC day; day 0 is a Monday.  A key expires at the start of  *)
(* the day its TTL runs out, the earliest moment it can.                   *)
(***************************************************************************)
EXTENDS Integers, FiniteSets

CONSTANTS
  Callers,       \* concurrent calls of check_and_increment
  Accounts,      \* account ids
  NoAccount,     \* an empty account_id
  DayLimit,      \* daily_max_per_workspace
  WeekLimit,     \* weekly_max_per_workspace
  AccountLimit,  \* daily_max_per_account
  LastDay,       \* bound: days the calendar covers
  WeekLength,    \* 7 in the code
  NewYear        \* the day that is 1 January

ASSUME SendCapsAssumption ==
  /\ IsFiniteSet(Callers) /\ Callers # {}
  /\ NoAccount \notin Accounts
  /\ DayLimit \in Nat \ {0} /\ WeekLimit \in Nat \ {0} /\ AccountLimit \in Nat \ {0}
  /\ LastDay \in Nat /\ WeekLength \in Nat \ {0} /\ NewYear \in Nat
  /\ "workspace" \notin Accounts \cup {NoAccount}

Workspace == "workspace"
Day == 0..LastDay

(* strftime %Y-W%W: weeks begin on Monday, and again on 1 January.  A week *)
(* key is named by its first day.                                          *)
Week(d) ==
  LET monday == (d \div WeekLength) * WeekLength
  IN  IF monday < NewYear /\ NewYear <= d THEN NewYear ELSE monday

(* _key *)
Key(scope, window, d) ==
  [scope |-> scope, window |-> window, date |-> IF window = "daily" THEN d ELSE Week(d)]

Keys == [scope : Accounts \cup {Workspace}, window : {"daily"}, date : Day]
        \cup [scope : {Workspace}, window : {"weekly"}, date : Day]

Limit(k) ==
  IF k.scope # Workspace THEN AccountLimit
  ELSE IF k.window = "daily" THEN DayLimit ELSE WeekLimit

(* Mutant: every counter gets the daily TTL.                               *)
Life_Daily(k) == 2

(* EXPIRE 86400 * 2 and 86400 * 8, in days.                                *)
Life(k) == IF k.window = "daily" THEN 2 ELSE WeekLength + 1

VARIABLES
  day,           \* datetime.now(utc), to the day
  count,         \* counter stored under each key, 0 when the key is absent
  until,         \* day on which it expires
  pc,            \* where each call is, or how it ended
  account,       \* account_id of the call
  dayKey,        \* daily_ws_key of the call
  weekKey,       \* weekly_ws_key of the call
  sent           \* history: calls granted on each day

redis == <<count, until>>
caps == <<day, count, until, pc, account, dayKey, weekKey, sent>>

Outcomes == {"granted", "refused", "raised"}
Ended == {"idle"} \cup Outcomes
NoKey == [scope |-> Workspace, window |-> "none", date |-> 0]

CapsInit ==
  /\ day = 0
  /\ count = [k \in Keys |-> 0] /\ until = [k \in Keys |-> 0]
  /\ pc = [c \in Callers |-> "idle"]
  /\ account = [c \in Callers |-> NoAccount]
  /\ dayKey = [c \in Callers |-> NoKey] /\ weekKey = [c \in Callers |-> NoKey]
  /\ sent = [d \in Day |-> 0]
-----------------------------------------------------------------------------
Call(c, a) ==
  /\ pc[c] \in Ended
  /\ pc' = [pc EXCEPT ![c] = "daily"]
  /\ account' = [account EXCEPT ![c] = a]
  /\ UNCHANGED <<day, redis, dayKey, weekKey, sent>>

(* The call ends, and its local variables with it.                         *)
Return(c, outcome) ==
  /\ pc' = [pc EXCEPT ![c] = outcome]
  /\ dayKey' = [dayKey EXCEPT ![c] = NoKey]
  /\ weekKey' = [weekKey EXCEPT ![c] = NoKey]
  /\ account' = [account EXCEPT ![c] = NoAccount]

(* Mutant: the cap itself is let through.                                  *)
Reaches_Above(k) == count[k] > Limit(k)

(* GET of a cap's counter: SendCapError when it has reached the limit.     *)
Reaches(k) == count[k] >= Limit(k)

ReadDaily(c) ==
  /\ pc[c] = "daily"
  /\ LET k == Key(Workspace, "daily", day) IN
       \/ Reaches(k) /\ Return(c, "refused")
       \/ /\ ~Reaches(k)
          /\ dayKey' = [dayKey EXCEPT ![c] = k]
          /\ pc' = [pc EXCEPT ![c] = "weekly"]
          /\ UNCHANGED <<account, weekKey>>
  /\ UNCHANGED <<day, redis, sent>>

(* Mutant: the weekly key overwrites the daily one.                        *)
ReadWeekly_OneKey(c) ==
  /\ pc[c] = "weekly"
  /\ LET k == Key(Workspace, "weekly", day) IN
       \/ Reaches(k) /\ Return(c, "refused")
       \/ /\ ~Reaches(k)
          /\ dayKey' = [dayKey EXCEPT ![c] = k]
          /\ pc' = [pc EXCEPT ![c] = IF account[c] = NoAccount THEN "charge" ELSE "account"]
          /\ UNCHANGED <<account, weekKey>>
  /\ UNCHANGED <<day, redis, sent>>

ReadWeekly(c) ==
  /\ pc[c] = "weekly"
  /\ LET k == Key(Workspace, "weekly", day) IN
       \/ Reaches(k) /\ Return(c, "refused")
       \/ /\ ~Reaches(k)
          /\ weekKey' = [weekKey EXCEPT ![c] = k]
          /\ pc' = [pc EXCEPT ![c] = IF account[c] = NoAccount THEN "charge" ELSE "account"]
          /\ UNCHANGED <<account, dayKey>>
  /\ UNCHANGED <<day, redis, sent>>

ReadAccount(c) ==
  /\ pc[c] = "account"
  /\ LET k == Key(account[c], "daily", day) IN
       \/ Reaches(k) /\ Return(c, "refused")
       \/ /\ ~Reaches(k)
          /\ pc' = [pc EXCEPT ![c] = "charge"]
          /\ UNCHANGED <<account, dayKey, weekKey>>
  /\ UNCHANGED <<day, redis, sent>>

(* The keys the pipeline increments: the account's is built anew.          *)
Charged(c) ==
  {dayKey[c], weekKey[c]} \cup
  (IF account[c] = NoAccount THEN {} ELSE {Key(account[c], "daily", day)})

(* The pipeline: INCR and EXPIRE of every key at once.                     *)
Apply(c) ==
  /\ count' = [k \in Keys |-> IF k \in Charged(c) THEN count[k] + 1 ELSE count[k]]
  /\ until' = [k \in Keys |-> IF k \in Charged(c) THEN day + Life(k) ELSE until[k]]

Charge(c) ==
  /\ pc[c] = "charge"
  /\ Apply(c)
  /\ sent' = [sent EXCEPT ![day] = @ + 1]
  /\ Return(c, "granted")
  /\ UNCHANGED day

(* The pipeline raises: before Redis applied it, or after.                 *)
ChargeRaises(c) ==
  /\ pc[c] = "charge"
  /\ Apply(c) \/ UNCHANGED redis
  /\ Return(c, "raised")
  /\ UNCHANGED <<day, sent>>

ReadRaises(c) ==
  /\ pc[c] \in {"daily", "weekly", "account"}
  /\ Return(c, "raised")
  /\ UNCHANGED <<day, redis, sent>>

(* Midnight, at any point of the calls under way.                          *)
Midnight ==
  /\ day < LastDay
  /\ day' = day + 1
  /\ LET alive(k) == until[k] > day + 1 IN
       /\ count' = [k \in Keys |-> IF alive(k) THEN count[k] ELSE 0]
       /\ until' = [k \in Keys |-> IF alive(k) THEN until[k] ELSE 0]
  /\ UNCHANGED <<pc, account, dayKey, weekKey, sent>>

Step(c) ==
  \/ ReadDaily(c) \/ ReadWeekly(c) \/ ReadAccount(c) \/ ReadRaises(c)
  \/ Charge(c) \/ ChargeRaises(c)

CapsNext ==
  \/ Midnight
  \/ \E c \in Callers : Step(c) \/ \E a \in Accounts \cup {NoAccount} : Call(c, a)

CapsSpec == CapsInit /\ [][CapsNext]_caps
-----------------------------------------------------------------------------
(* A call that has passed a check holds the key it was checked against.    *)
CapsTypeOK ==
  /\ day \in Day
  /\ count \in [Keys -> Nat] /\ until \in [Keys -> Nat]
  /\ pc \in [Callers -> Ended \cup {"daily", "weekly", "account", "charge"}]
  /\ account \in [Callers -> Accounts \cup {NoAccount}]
  /\ dayKey \in [Callers -> {k \in Keys : k.scope = Workspace /\ k.window = "daily"} \cup {NoKey}]
  /\ weekKey \in [Callers -> {k \in Keys : k.window = "weekly"} \cup {NoKey}]
  /\ \A c \in Callers :
       /\ pc[c] \in {"weekly", "account", "charge"} <=> dayKey[c] # NoKey
       /\ pc[c] \in {"account", "charge"} <=> weekKey[c] # NoKey
  /\ sent \in [Day -> Nat]

(* Calls that have passed the check of key k and have not yet charged it.  *)
Pending(k) ==
  {c \in Callers : \/ pc[c] \in {"weekly", "account", "charge"} /\ dayKey[c] = k
                   \/ pc[c] \in {"account", "charge"} /\ weekKey[c] = k
                   \/ pc[c] = "charge" /\ k = Key(account[c], "daily", day)}

(* check_and_increment tests and increments in different round trips, so a *)
(* cap is not exact.  It is exceeded by at most one unit for every other   *)
(* call under way, for each of the three caps, across midnight and however *)
(* the calls interleave or fail: with one caller every cap is exact.       *)
OvershootBounded ==
  \A k \in Keys : count[k] + Cardinality(Pending(k)) <= Limit(k) + Cardinality(Callers) - 1

(* The window of key k still has today in it.                              *)
Current(k) == k.date = IF k.window = "daily" THEN day ELSE Week(day)

(* A counter is not forgotten before its window is over: the TTLs outlast  *)
(* the day and the week, also when nothing has been sent for days.         *)
CountersOutliveWindow ==
  [][\A k \in Keys : Current(k)' => count'[k] >= count[k]]_caps
=============================================================================
