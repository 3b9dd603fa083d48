---------------------------- MODULE TokenBucket ----------------------------
(***************************************************************************)
(* The token buckets of one workspace (src/ratelimit/bucket.py): the Lua   *)
(* script that every enforce runs, on the clocks of several machines.      *)
(*                                                                         *)
(* Every call names a plan, which stands here for its max_tokens m: the    *)
(* bucket refills at m tokens in R = RefillSecs seconds.  Its level is     *)
(* kept in units of 1/R token, so that the rate, m/R tokens a second, is a *)
(* whole number of units: the script's floating point is exact here.       *)
(* now is the clock of Redis; enforce passes int(time.time()) of its own   *)
(* machine, which is at most Skew seconds off.                             *)
(***************************************************************************)
EXTENDS Integers

CONSTANTS
  MaxTokens,    \* max_tokens of each resource under the plans its calls name
  RefillSecs,   \* refill_seconds, the same for every resource
  Skew,         \* how far a machine's clock may be off
  MaxTime       \* bound on now

(* RATE_LIMITS: resources that have a bucket; any other one is not limited.*)
Buckets == {"apollo", "clay", "linkedin", "email_send", "claude", "api"}

(* The key outlives what a wrong clock can add to a bucket.                *)
ASSUME BucketAssumption ==
  /\ MaxTokens \in [Buckets -> SUBSET (Nat \ {0})]
  /\ RefillSecs \in Nat \ {0}
  /\ Skew \in Nat
  /\ 2 * Skew <= RefillSecs
  /\ MaxTime \in Nat

VARIABLES
  now,      \* seconds on the clock of Redis
  units,    \* tokens of each bucket, in units of 1/R
  last,     \* last_refill of each bucket
  touched,  \* when EXPIRE was set last, or Never
  granted   \* history: tokens taken from each bucket

bucketVars == <<now, units, last, touched, granted>>

Never == 0 - 1

BucketInit ==
  /\ now = 0
  /\ units = [r \in Buckets |-> 0]
  /\ last = [r \in Buckets |-> 0]
  /\ touched = [r \in Buckets |-> Never]
  /\ granted = [r \in Buckets |-> 0]
-----------------------------------------------------------------------------
(* EXPIRE key, refill_secs * 2.  Whole seconds leave open whether the key  *)
(* is still there in the second in which it expires.                       *)
Life == 2 * RefillSecs
Absent(r) == touched[r] = Never \/ now - touched[r] >= Life
Present(r) == touched[r] # Never /\ now - touched[r] <= Life

Clocks == (now - Skew)..(now + Skew)

Level(r, c, m) == units[r] + (c - last[r]) * m
Full(m) == m * RefillSecs

(* math.min(max_tokens, tokens + elapsed * refill_rate)                    *)
Refilled(r, c, m) == IF Level(r, c, m) <= Full(m) THEN Level(r, c, m) ELSE Full(m)

Store(r, u, c) ==
  /\ units' = [units EXCEPT ![r] = u]
  /\ last' = [last EXCEPT ![r] = c]
  /\ touched' = [touched EXCEPT ![r] = now]
  /\ UNCHANGED now

Granted(r) == granted' = [granted EXCEPT ![r] = @ + 1]

(* First request: initialise the bucket with max_tokens - 1.               *)
TakeFirst(r, c, m) ==
  /\ Absent(r)
  /\ Store(r, Full(m) - RefillSecs, c)
  /\ Granted(r)

TakeRefilled(r, c, m) ==
  /\ Present(r) /\ Refilled(r, c, m) >= RefillSecs
  /\ Store(r, Refilled(r, c, m) - RefillSecs, c)
  /\ Granted(r)

Grant(r, c, m) == TakeFirst(r, c, m) \/ TakeRefilled(r, c, m)

(* Mutant: a refusal keeps the refill but not its time.                    *)
Refuse_KeepsTime(r, c, m) ==
  /\ Present(r) /\ Refilled(r, c, m) < RefillSecs
  /\ Store(r, Refilled(r, c, m), last[r])
  /\ UNCHANGED granted

(* Not enough tokens: the refill is stored all the same.                   *)
Refuse(r, c, m) ==
  /\ Present(r) /\ Refilled(r, c, m) < RefillSecs
  /\ Store(r, Refilled(r, c, m), c)
  /\ UNCHANGED granted

Tick ==
  /\ now < MaxTime
  /\ now' = now + 1
  /\ UNCHANGED <<units, last, touched, granted>>

BucketNext ==
  \/ \E r \in Buckets : \E c \in Clocks, m \in MaxTokens[r] :
       Grant(r, c, m) \/ Refuse(r, c, m)
  \/ Tick

BucketSpec == BucketInit /\ [][BucketNext]_bucketVars
-----------------------------------------------------------------------------
BucketTypeOK ==
  /\ now \in 0..MaxTime
  /\ units \in [Buckets -> Int]
  /\ last \in [Buckets -> Int]
  /\ touched \in [Buckets -> {Never} \cup 0..MaxTime]
  /\ granted \in [Buckets -> Nat]

(* The limit of bucket r is m: every call names it, or all clocks agree    *)
(* and no call names a larger one.                                         *)
Limit(r, m) ==
  /\ m \in MaxTokens[r]
  /\ \A n \in MaxTokens[r] : n = m \/ (Skew = 0 /\ n <= m)

(* The limit itself: over any start, a bucket gives away what it holds and *)
(* what flows in meanwhile, and two wrong clocks can add their difference  *)
(* once: neither requests from machines that disagree, nor keys that       *)
(* expire and start full again, add more.  (Two plans on one bucket and    *)
(* clocks that disagree have no limit: what one plan's rate adds when the  *)
(* clock goes forward the other's does not take when it goes back.)        *)
GrantsBounded ==
  \A r \in Buckets : \A m \in MaxTokens[r] : Limit(r, m) =>
    granted[r] * RefillSecs <= m * (RefillSecs + now + 2 * Skew)
=============================================================================
