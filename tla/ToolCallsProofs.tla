-------------------------- MODULE ToolCallsProofs --------------------------
(***************************************************************************)
(* The limit a token bucket keeps, for every plan, every refill time and   *)
(* every skew of up to half of it, proved for the buckets alone and for    *)
(* the tool calls that use them; and what every call of a tool keeps to,   *)
(* for any number of callers, whatever client each of them uses and        *)
(* whatever fails.                                                         *)
(***************************************************************************)
EXTENDS ToolCalls, TLAPS

(* Of a bucket with m tokens that was touched at t and holds u units of    *)
(* time l after g grants: what was granted and what is left together are   *)
(* no more than what was there and flowed in (first bound), and what is    *)
(* left is no less than what a wrong clock can have taken (second bound).  *)
Balanced(m, u, l, t, g) ==
  /\ t - Skew <= l /\ l <= t + Skew
  /\ g * RefillSecs + u - m * l <= m * RefillSecs + m * Skew
  /\ u - m * l >= 0 - m * (t + Skew)

Book(r, m) ==
  \/ touched[r] = Never /\ granted[r] = 0
  \/ /\ touched[r] \in 0..now
     /\ Balanced(m, units[r], last[r], touched[r], granted[r])

BucketInv == \A r \in Buckets : \A m \in MaxTokens[r] : Limit(r, m) => Book(r, m)
-----------------------------------------------------------------------------
(* Products, as the arithmetic below needs them.                           *)
LEMMA Monotone ==
  ASSUME NEW m \in Nat, NEW a \in Int, NEW b \in Int, a <= b
  PROVE  m * a <= m * b
  OBVIOUS

LEMMA Distribute ==
  ASSUME NEW m \in Int, NEW a \in Int, NEW b \in Int
  PROVE  m * (a + b) = m * a + m * b /\ m * (a - b) = m * a - m * b
  OBVIOUS

(* A new bucket, and one whose key has expired, start balanced.            *)
LEMMA StartsBalanced ==
  ASSUME NEW m \in Nat \ {0}, NEW n \in Nat, NEW c \in (n - Skew)..(n + Skew),
         NEW u \in Int, NEW l \in Int, NEW t \in Int, NEW g \in Nat,
         \/ t = Never /\ g = 0
         \/ n - t >= Life /\ Balanced(m, u, l, t, g),
         NEW v \in Nat, v <= m * RefillSecs - RefillSecs
  PROVE  Balanced(m, v, c, n, g + 1)
<1> USE BucketAssumption DEF BucketAssumption
<1> DEFINE R == RefillSecs
           S == Skew
<1>1. R \in Nat \ {0} /\ S \in Nat /\ 2 * S <= R
  OBVIOUS
<1>2. c \in Int /\ n - S <= c /\ c <= n + S
  BY <1>1
<1>3. m * R \in Int /\ m * S \in Int /\ m * c \in Int /\ m * n \in Int /\ m * t \in Int
  BY <1>1, <1>2
<1>4. (g + 1) * R = g * R + R /\ g * R \in Int
  BY <1>1
<1>5. m * c >= m * n - m * S /\ m * c <= m * n + m * S
  BY <1>1, <1>2, Monotone, Distribute
<1>6. m * n >= 0 /\ m * S >= 0 /\ m * R >= R
  BY <1>1
<1>7. g * R <= m * n
  <2>1. CASE g = 0 BY <2>1, <1>1, <1>6
  <2>2. CASE n - t >= Life /\ Balanced(m, u, l, t, g)
    <3>1. g * R + u - m * l <= m * R + m * S /\ u - m * l >= 0 - m * (t + S)
      BY <2>2 DEF Balanced
    <3>2. m * l \in Int /\ m * (t + S) = m * t + m * S
      BY <1>1, Distribute
    <3>3. t + R + 2 * S <= n
      BY <2>2, <1>1 DEF Life
    <3>4. m * (t + R + 2 * S) <= m * n
      BY <3>3, <1>1, Monotone
    <3>5. m * (t + R + 2 * S) = m * t + m * R + 2 * (m * S)
      <4>1. m * (t + R + 2 * S) = m * (t + R) + m * (2 * S)
        BY <1>1, Distribute
      <4>2. m * (t + R) = m * t + m * R
        BY <1>1, Distribute
      <4>3. m * (2 * S) = 2 * (m * S)
        BY <1>1
      <4> QED BY <4>1, <4>2, <4>3
    <3> HIDE DEF R, S
    <3> QED BY <1>3, <1>4, <3>1, <3>2, <3>4, <3>5
  <2> QED BY <2>1, <2>2
<1>8. m * (n + S) = m * n + m * S
  BY <1>1, Distribute
<1>9. (g + 1) * R + v - m * c <= m * R + m * S
  <2>1. v <= m * R - R
    OBVIOUS
  <2> HIDE DEF R, S
  <2> QED BY <1>1, <1>3, <1>4, <1>5, <1>7, <2>1
<1>10. v - m * c >= 0 - m * (n + S)
  <2> HIDE DEF R, S
  <2> QED BY <1>3, <1>5, <1>8, <1>1
<1> QED BY <1>2, <1>9, <1>10 DEF Balanced

(* A refill keeps a bucket balanced, whether it grants a token or not.     *)
LEMMA RefillBalanced ==
  ASSUME NEW m \in Nat \ {0}, NEW n \in Nat, NEW c \in (n - Skew)..(n + Skew),
         NEW u \in Int, NEW l \in Int, NEW t \in 0..n, NEW g \in Nat,
         Balanced(m, u, l, t, g),
         NEW v \in Int, v <= u + (c - l) * m,
         v = u + (c - l) * m \/ v >= 0
  PROVE  /\ v < RefillSecs => Balanced(m, v, c, n, g)
         /\ v >= RefillSecs => Balanced(m, v - RefillSecs, c, n, g + 1)
<1> USE BucketAssumption DEF BucketAssumption
<1> DEFINE R == RefillSecs
           S == Skew
<1>1. R \in Nat \ {0} /\ S \in Nat
  OBVIOUS
<1>2. c \in Int /\ n - S <= c /\ c <= n + S
  BY <1>1
<1>3. /\ g * R + u - m * l <= m * R + m * S
      /\ u - m * l >= 0 - m * (t + S)
  BY DEF Balanced
<1>4. (c - l) * m = m * c - m * l /\ m * c \in Int /\ m * l \in Int
  BY <1>2, Distribute
<1>5. m * (t + S) <= m * (n + S) /\ m * c <= m * (n + S)
  BY <1>1, <1>2, Monotone
<1>6. (g + 1) * R = g * R + R /\ g * R \in Int
  BY <1>1
<1>7. m * R \in Int /\ m * S \in Int /\ m * (n + S) \in Int /\ m * (t + S) \in Int
  BY <1>1
<1>8. v - m * c <= u - m * l
  BY <1>4
<1>9. v < R => v - m * c >= 0 - m * (n + S)
  <2> HIDE DEF R, S
  <2> QED BY <1>1, <1>3, <1>4, <1>5, <1>7
<1>10. v >= R => (v - R) - m * c >= 0 - m * (n + S)
  <2> HIDE DEF R, S
  <2> QED BY <1>1, <1>4, <1>5, <1>7
<1>11. /\ g * R + v - m * c <= m * R + m * S
       /\ (g + 1) * R + (v - R) - m * c <= m * R + m * S
  <2> HIDE DEF R, S
  <2> QED BY <1>1, <1>3, <1>4, <1>6, <1>7, <1>8
<1> QED BY <1>2, <1>9, <1>10, <1>11 DEF Balanced

(* A balanced bucket has kept to its limit.                                *)
LEMMA BalancedIsBounded ==
  ASSUME NEW m \in Nat \ {0}, NEW n \in Nat, NEW t \in 0..n,
         NEW u \in Int, NEW l \in Int, NEW g \in Nat, Balanced(m, u, l, t, g)
  PROVE  g * RefillSecs <= m * (RefillSecs + n + 2 * Skew)
<1> USE BucketAssumption DEF BucketAssumption
<1> DEFINE R == RefillSecs
           S == Skew
<1>1. R \in Nat \ {0} /\ S \in Nat
  OBVIOUS
<1>2. /\ g * R + u - m * l <= m * R + m * S
      /\ u - m * l >= 0 - m * (t + S)
  BY DEF Balanced
<1>3. m * (t + S) <= m * (n + S) /\ m * (n + S) = m * n + m * S
  BY <1>1, Monotone, Distribute
<1>4. m * (R + n + 2 * S) = m * R + m * n + 2 * (m * S)
  <2>1. m * (R + n + 2 * S) = m * (R + n) + m * (2 * S)
    BY <1>1, Distribute
  <2>2. m * (R + n) = m * R + m * n /\ m * (2 * S) = 2 * (m * S)
    BY <1>1, Distribute
  <2> QED BY <2>1, <2>2
<1>5. /\ m * R \in Int /\ m * S \in Int /\ m * n \in Int /\ m * l \in Int
      /\ g * R \in Int /\ m * (t + S) \in Int
  BY <1>1
<1> HIDE DEF R, S
<1>6. g * R <= m * (R + n + 2 * S)
  BY <1>2, <1>3, <1>4, <1>5
<1> QED BY <1>6 DEF R, S
-----------------------------------------------------------------------------
(* What a call with limit n adds to a bucket of limit m is no more than m  *)
(* allows, and leaves a full bucket no fuller.                             *)
LEMMA NamedLimit ==
  ASSUME NEW r \in Buckets, NEW m \in MaxTokens[r], NEW n \in MaxTokens[r], Limit(r, m)
  PROVE  /\ m \in Nat \ {0} /\ n \in Nat \ {0} /\ n <= m
         /\ n = m \/ Skew = 0
  BY BucketAssumption DEF BucketAssumption, Limit

LEMMA RefillOf ==
  ASSUME NEW m \in Nat \ {0}, NEW n \in Nat \ {0}, n <= m, n = m \/ Skew = 0,
         NEW w \in Nat, NEW c \in (w - Skew)..(w + Skew),
         NEW u \in Int, NEW l \in Int, NEW t \in 0..w, NEW g \in Nat,
         Balanced(m, u, l, t, g), NEW v \in Int,
         \/ v = u + (c - l) * n
         \/ v <= u + (c - l) * n /\ v >= 0
  PROVE  v <= u + (c - l) * m /\ (v = u + (c - l) * m \/ v >= 0)
<1>1. Skew \in Nat /\ c \in Int
  BY BucketAssumption DEF BucketAssumption
<1>2. CASE n = m
  BY <1>2
<1>3. CASE Skew = 0
  <2>1. c = w /\ l = t
    BY <1>1, <1>3 DEF Balanced
  <2>2. u >= 0
    <3>1. u - m * l >= 0 - m * (t + 0)
      BY <1>3 DEF Balanced
    <3>2. m * l \in Int
      OBVIOUS
    <3> QED BY <2>1, <3>1, <3>2
  <2>3. c - l \in Nat
    BY <1>1, <2>1
  <2>4. (c - l) * n <= (c - l) * m /\ (c - l) * n >= 0
        /\ (c - l) * n \in Int /\ (c - l) * m \in Int
    BY <2>3, Monotone
  <2> QED BY <2>2, <2>4
<1> QED BY <1>2, <1>3

(* What one enforce, of whatever machine and plan, does to the buckets.    *)
LEMMA EnforceKeeps ==
  ASSUME BucketTypeOK, BucketInv, NEW r \in Buckets, NEW c \in Clocks,
         NEW n \in MaxTokens[r], Grant(r, c, n) \/ Refuse(r, c, n)
  PROVE  BucketTypeOK' /\ BucketInv'
<1> USE BucketAssumption DEF BucketAssumption
<1>1. /\ now \in Nat /\ now <= MaxTime /\ now' = now
      /\ units[r] \in Int /\ last[r] \in Int /\ granted[r] \in Nat
      /\ n \in Nat \ {0} /\ c \in Int
      /\ c \in (now - Skew)..(now + Skew)
      /\ touched[r] \in Int
  BY DEF BucketTypeOK, Clocks, Never, Grant, Refuse, TakeFirst, TakeRefilled, Store
<1>2. PICK u \in Int, g \in Nat :
        /\ Store(r, u, c)
        /\ granted' = [granted EXCEPT ![r] = g]
        /\ \A m \in MaxTokens[r] : Limit(r, m) => Balanced(m, u, c, now, g)
  <2>1. CASE TakeFirst(r, c, n)
    <3> DEFINE v == n * RefillSecs - RefillSecs
    <3>1. v \in Nat
      BY <1>1
    <3>2. ASSUME NEW m \in MaxTokens[r], Limit(r, m)
          PROVE  Balanced(m, v, c, now, granted[r] + 1)
      <4>1. m \in Nat \ {0} /\ n <= m
        BY <3>2, NamedLimit
      <4>2. \/ touched[r] = Never /\ granted[r] = 0
            \/ /\ now - touched[r] >= Life
               /\ Balanced(m, units[r], last[r], touched[r], granted[r])
        BY <2>1, <3>2 DEF TakeFirst, Absent, BucketInv, Book, Never
      <4>3. v <= m * RefillSecs - RefillSecs
        <5>1. RefillSecs * n <= RefillSecs * m
          BY <1>1, <4>1, Monotone
        <5> QED BY <1>1, <4>1, <5>1
      <4> HIDE DEF v
      <4> QED BY <1>1, <3>1, <4>1, <4>2, <4>3, StartsBalanced
    <3> DEFINE h == granted[r] + 1
    <3>3. h \in Nat /\ v \in Int
      BY <1>1, <3>1
    <3>4. Store(r, v, c) /\ granted' = [granted EXCEPT ![r] = h]
      BY <2>1 DEF TakeFirst, Full, Granted
    <3>5. \A m \in MaxTokens[r] : Limit(r, m) => Balanced(m, v, c, now, h)
      BY <3>2
    <3> HIDE DEF v, h
    <3> QED BY <3>3, <3>4, <3>5
  <2>2. CASE TakeRefilled(r, c, n) \/ Refuse(r, c, n)
    <3> DEFINE v == Refilled(r, c, n)
    <3>1. (c - last[r]) * n \in Int /\ n * RefillSecs \in Nat
      BY <1>1
    <3>2. /\ v \in Int
          /\ \/ v = units[r] + (c - last[r]) * n
             \/ v <= units[r] + (c - last[r]) * n /\ v >= 0
      BY <1>1, <3>1 DEF Refilled, Level, Full
    <3> HIDE DEF v
    <3>3. ASSUME NEW m \in MaxTokens[r], Limit(r, m)
          PROVE  /\ v < RefillSecs => Balanced(m, v, c, now, granted[r])
                 /\ v >= RefillSecs => Balanced(m, v - RefillSecs, c, now, granted[r] + 1)
      <4>1. /\ m \in Nat \ {0} /\ n <= m /\ (n = m \/ Skew = 0)
        BY <3>3, NamedLimit
      <4>2. /\ touched[r] \in 0..now
            /\ Balanced(m, units[r], last[r], touched[r], granted[r])
        BY <2>2, <3>3 DEF TakeRefilled, Refuse, Present, BucketInv, Book
      <4>3. /\ v <= units[r] + (c - last[r]) * m
            /\ v = units[r] + (c - last[r]) * m \/ v >= 0
        BY <1>1, <3>2, <4>1, <4>2, RefillOf
      <4> QED BY <1>1, <3>2, <4>1, <4>2, <4>3, RefillBalanced
    <3>4. CASE TakeRefilled(r, c, n)
      <4>1. v - RefillSecs \in Int /\ granted[r] + 1 \in Nat
        BY <1>1, <3>2
      <4> QED BY <3>3, <3>4, <4>1 DEF TakeRefilled, Granted, v
    <3>5. CASE Refuse(r, c, n)
      <4>1. granted' = [granted EXCEPT ![r] = granted[r]]
        BY <3>5, <1>1 DEF Refuse, BucketTypeOK
      <4> QED BY <1>1, <3>2, <3>3, <3>5, <4>1 DEF Refuse, v
    <3> QED BY <2>2, <3>4, <3>5
  <2> QED BY <2>1, <2>2 DEF Grant
<1>3. /\ units' = [units EXCEPT ![r] = u] /\ last' = [last EXCEPT ![r] = c]
      /\ touched' = [touched EXCEPT ![r] = now] /\ now' = now
  BY <1>2 DEF Store
<1>4. BucketTypeOK'
  BY <1>1, <1>2, <1>3 DEF BucketTypeOK
<1>5. ASSUME NEW q \in Buckets, NEW m \in MaxTokens[q], Limit(q, m)
      PROVE  Book(q, m)'
  <2>1. CASE q = r
    <3>1. Balanced(m, u, c, now, g)
      BY <1>2, <1>5, <2>1
    <3>2. /\ units'[q] = u /\ last'[q] = c /\ touched'[q] = now /\ granted'[q] = g
      BY <1>2, <1>3, <2>1 DEF BucketTypeOK
    <3>3. now \in 0..now
      BY <1>1
    <3> QED BY <1>3, <3>1, <3>2, <3>3 DEF Book, Balanced
  <2>2. CASE q # r
    <3>1. /\ units'[q] = units[q] /\ last'[q] = last[q] /\ touched'[q] = touched[q]
          /\ granted'[q] = granted[q]
      BY <1>2, <1>3, <2>2 DEF BucketTypeOK
    <3>2. Book(q, m)
      BY <1>5 DEF BucketInv
    <3> QED BY <1>3, <3>1, <3>2 DEF Book, Balanced
  <2> QED BY <2>1, <2>2
<1>6. BucketInv'
  BY <1>5 DEF BucketInv, Limit
<1> QED BY <1>4, <1>6

LEMMA TickKeeps ==
  ASSUME BucketTypeOK, BucketInv, Tick
  PROVE  BucketTypeOK' /\ BucketInv'
<1> USE BucketAssumption DEF BucketAssumption
<1>1. BucketTypeOK'
  BY DEF BucketTypeOK, Tick
<1>2. 0..now \subseteq 0..now'
  BY DEF BucketTypeOK, Tick
<1> QED BY <1>1, <1>2 DEF Tick, BucketInv, Book, Balanced, Limit

LEMMA BucketsStart == BucketInit => BucketTypeOK /\ BucketInv
  BY BucketAssumption DEF BucketAssumption, BucketInit, BucketTypeOK, BucketInv, Book, Never

LEMMA InvBounds == BucketTypeOK /\ BucketInv => GrantsBounded
<1> SUFFICES ASSUME BucketTypeOK, BucketInv, NEW r \in Buckets, NEW m \in MaxTokens[r],
                    Limit(r, m)
             PROVE  granted[r] * RefillSecs <= m * (RefillSecs + now + 2 * Skew)
  BY DEF GrantsBounded
<1> USE BucketAssumption DEF BucketAssumption
<1>1. /\ now \in Nat /\ m \in Nat \ {0} /\ granted[r] \in Nat
      /\ units[r] \in Int /\ last[r] \in Int
  BY DEF BucketTypeOK
<1>2. CASE granted[r] = 0
  <2>1. RefillSecs + now + 2 * Skew \in Nat
    BY <1>1
  <2>2. m * 0 <= m * (RefillSecs + now + 2 * Skew)
    BY <1>1, <2>1, Monotone
  <2> QED BY <1>1, <1>2, <2>2
<1>3. CASE /\ touched[r] \in 0..now
           /\ Balanced(m, units[r], last[r], touched[r], granted[r])
  BY <1>1, <1>3, BalancedIsBounded
<1> QED BY <1>2, <1>3 DEF BucketInv, Book

(* Whoever uses the buckets, at whatever times and with whatever clocks,   *)
(* no bucket gives away more than its size and its rate allow.             *)
THEOREM BucketKeepsItsLimit == BucketSpec => []GrantsBounded
<1>1. BucketTypeOK /\ BucketInv /\ [BucketNext]_bucketVars
        => BucketTypeOK' /\ BucketInv'
  <2> SUFFICES ASSUME BucketTypeOK, BucketInv, [BucketNext]_bucketVars
               PROVE  BucketTypeOK' /\ BucketInv'
    OBVIOUS
  <2>1. CASE UNCHANGED bucketVars
    BY <2>1 DEF bucketVars, BucketTypeOK, BucketInv, Book, Limit
  <2> QED BY <2>1, EnforceKeeps, TickKeeps DEF BucketNext
<1> QED BY <1>1, BucketsStart, InvBounds, PTL DEF BucketSpec
-----------------------------------------------------------------------------
(* The state of a call, for the theorems about the calls.                  *)
Calls == [phase : Phases, plan : Nat, tries : 1..3, sent : 0..3, token : 0..MaxIssued,
          unmetered : BOOLEAN, credit : Int, applied : Int]

Resources == {"apollo", "clay", "linkedin", "news", "web_scraper", "slack", "hubspot",
              "zoho", "claude", "none", "api"}

(* A client tries at most three times, and none both asks Zoho for a token *)
(* and goes on without Redis.                                              *)
ClientSpace ==
  [resource : Resources, attempts : 1..3, sends : 1..3, oauth : BOOLEAN, outer : BOOLEAN,
   inner : BOOLEAN, open : BOOLEAN]

ClientOK(p) == p \in ClientSpace /\ (p.open => ~p.oauth)

LEMMA HttpToolOK ==
  ASSUME NEW r \in Resources
  PROVE  HttpTool(r) \in ClientSpace /\ ~HttpTool(r).open /\ ~HttpTool(r).oauth
  BY DEF HttpTool, ClientSpace

LEMMA OnceOK ==
  ASSUME NEW c \in ClientSpace
  PROVE  Once(c) \in ClientSpace /\ Once(c).open = c.open /\ Once(c).oauth = c.oauth
  BY DEF Once, ClientSpace

LEMMA ByAnthropicOK ==
  ASSUME NEW r \in Resources
  PROVE  ClientOK(ByAnthropic(r))
<1>1. Once(HttpTool(r)) \in ClientSpace /\ ~Once(HttpTool(r)).open
  BY HttpToolOK, OnceOK
<1> QED BY <1>1 DEF ByAnthropic, ClientOK, ClientSpace

LEMMA FallbackOK ==
  ASSUME NEW r \in Resources
  PROVE  ClientOK(Fallback(r))
<1>1. Once(HttpTool(r)) \in ClientSpace /\ ~Once(HttpTool(r)).open
  BY HttpToolOK, OnceOK
<1> QED BY <1>1 DEF Fallback, ClientOK, ClientSpace

LEMMA ClientsOK == \A p \in Clients : ClientOK(p)
<1>1. \A r \in Resources : ClientOK(HttpTool(r)) /\ ClientOK(Once(HttpTool(r)))
  BY HttpToolOK, OnceOK DEF ClientOK
<1>2. ClientOK(ZohoSyncTool)
  <2>1. HttpTool("zoho") \in ClientSpace /\ ~HttpTool("zoho").open
    BY HttpToolOK DEF Resources
  <2> QED BY <2>1 DEF ZohoSyncTool, ClientOK, ClientSpace
<1>3. ClientOK(search_contacts)
  <2>1. HttpTool("apollo") \in ClientSpace /\ ~HttpTool("apollo").open
    BY HttpToolOK DEF Resources
  <2> QED BY <2>1 DEF search_contacts, ApolloSearchTool, ClientOK, ClientSpace
<1>4. ClientOK(RateLimitMiddleware)
  <2>1. Once(HttpTool("api")) \in ClientSpace /\ ~Once(HttpTool("api")).oauth
    BY HttpToolOK, OnceOK DEF Resources
  <2> QED BY <2>1 DEF RateLimitMiddleware, ClientOK, ClientSpace
<1>5. /\ ClientOK(enrich_organization) /\ ClientOK(search_companies)
      /\ ClientOK(get_job_postings)
  BY FallbackOK DEF Resources, enrich_organization, search_companies, get_job_postings
<1>6. /\ ClientOK(ApolloSearchTool) /\ ClientOK(ClayEnrichTool)
      /\ ClientOK(LinkedInScraperTool) /\ ClientOK(NewsSearchTool)
      /\ ClientOK(WebScraperTool) /\ ClientOK(JobPostingAnalyzerTool)
      /\ ClientOK(PricingPageAnalyzerTool) /\ ClientOK(SlackApprovalTool)
      /\ ClientOK(HubSpotTool) /\ ClientOK(CRMReaderTool)
      /\ ClientOK(ClaudeWriterTool) /\ ClientOK(call_claude)
  BY <1>1, ByAnthropicOK DEF Resources, ApolloSearchTool, ClayEnrichTool, LinkedInScraperTool, NewsSearchTool,
     WebScraperTool, JobPostingAnalyzerTool, PricingPageAnalyzerTool, SlackApprovalTool,
     HubSpotTool, CRMReaderTool, ClaudeWriterTool, call_claude
<1> QED BY <1>2, <1>3, <1>4, <1>5, <1>6 DEF Clients
-----------------------------------------------------------------------------
(* What a call c of client p keeps to: its tokens pay for what is left of  *)
(* its attempt, and nothing it has sent was accepted whose answer it has   *)
(* not seen.                                                               *)
Paying(p, c) ==
  /\ c.phase \in {"oauth", "refresh", "issued", "send"} => c.sent < p.sends
  /\ c.phase \in {"outer", "ask", "oauth", "refresh", "issued"} => c.sent = 0
  /\ c.phase \in {"oauth", "refresh", "issued", "send", "accepted"} =>
       c.unmetered \/ c.credit >= p.sends - c.sent

CallOK(p, c) ==
  /\ c \in Calls /\ c.plan \in PlansOf(p.resource)
  /\ c.credit >= 0 /\ Paying(p, c)
  /\ c.applied \in {0, 1}
  /\ c.phase \notin Over => (c.applied = 1 <=> c.phase = "accepted")
  /\ c.phase = "returned" => c.applied = 1
  /\ c.phase \in {"oauth", "refresh", "issued", "unauthorized"} => p.oauth
  /\ c.phase \in {"send", "accepted", "unauthorized"} /\ p.oauth => c.token # 0

CallInv == \A k \in Callers : CallOK(client[k], call[k])

(* The tokens calls hold were issued; one that was issued and is not kept  *)
(* yet is known to its call alone.                                         *)
TokenInv ==
  /\ issued \in 0..MaxIssued /\ token \in 0..issued
  /\ valid \subseteq 1..issued /\ rejected \subseteq 1..issued
  /\ token \notin rejected
  /\ \A k \in Callers : call[k].token <= issued
  /\ \A k \in Callers : call[k].phase = "issued" =>
       /\ call[k].token \in 1..issued
       /\ call[k].token # token /\ call[k].token \notin rejected
       /\ \A j \in Callers \ {k} : call[j].token # call[k].token

ClientsAssigned == client \in Assignments /\ call \in [Callers -> Calls]

ToolInv == ClientsAssigned /\ CallInv /\ TokenInv

(* What a step may make of a call that has token t.                        *)
Fine(p, c, t) == CallOK(p, c) /\ c.token \in {0, t} /\ c.phase # "issued"

LEMMA NoCallOK ==
  /\ NoCall \in Calls /\ NoCall.phase = "none" /\ NoCall.credit = 0
  /\ NoCall.applied = 0 /\ NoCall.token = 0 /\ NoCall.plan = UnknownPlan
  /\ NoCall.sent = 0 /\ ~NoCall.unmetered
  BY CallsAssumption DEF CallsAssumption, NoCall, Calls, Phases, Over, UnknownPlan

LEMMA EndedOK ==
  ASSUME NEW p, NEW d \in Calls, d.credit >= 0, d.applied \in {0, 1}, NEW t,
         NEW f \in {"returned", "empty", "failed"}, f = "returned" => d.applied = 1
  PROVE  Fine(p, Ended(d, f), t)
<1> DEFINE c == Ended(d, f)
<1>1. /\ c \in Calls /\ c.phase = f /\ c.credit = d.credit /\ c.applied = d.applied
      /\ c.token = 0 /\ c.plan = UnknownPlan
  BY NoCallOK DEF Ended, Calls, Phases, Over
<1> HIDE DEF c
<1>2. c.plan \in PlansOf(p.resource)
  BY <1>1 DEF PlansOf
<1>3. Paying(p, c)
  BY <1>1 DEF Paying
<1>4. c.phase \in Over /\ c.phase \notin {"oauth", "refresh", "issued", "send", "unauthorized"}
  BY <1>1 DEF Over
<1>5. CallOK(p, c)
  BY <1>1, <1>2, <1>3, <1>4 DEF CallOK
<1> QED BY <1>1, <1>4, <1>5 DEF Fine, c

LEMMA RaisedOK ==
  ASSUME NEW k \in Callers, NEW d \in Calls, d.credit >= 0, d.applied \in {0, 1}, NEW t
  PROVE  Fine(client[k], Raised(k, d), t)
<1> DEFINE f == IF client[k].outer /\ ~In(k, {"outer"}) THEN "empty" ELSE "failed"
<1>1. f \in {"returned", "empty", "failed"} /\ f # "returned"
  OBVIOUS
<1>2. Raised(k, d) = Ended(d, f)
  BY DEF Raised
<1> HIDE DEF f
<1> QED BY <1>1, <1>2, EndedOK

LEMMA RetriedOK ==
  ASSUME NEW k \in Callers, ClientOK(client[k]), NEW d \in Calls, d.credit >= 0,
         d.applied = 0, d.plan \in PlansOf(client[k].resource)
  PROVE  Fine(client[k], Retried(k, d), d.token)
<1>1. CASE d.tries < client[k].attempts
  <2> DEFINE e == [d EXCEPT !.tries = @ + 1]
             g == [e EXCEPT !.sent = 0]
             c == [g EXCEPT !.phase = "ask"]
  <2>1. d.tries \in 1..3 /\ d.tries + 1 \in 1..3
    BY <1>1 DEF Calls, ClientOK, ClientSpace
  <2>2. /\ e \in Calls /\ e.credit = d.credit /\ e.applied = d.applied
        /\ e.plan = d.plan /\ e.token = d.token
    BY <2>1 DEF Calls
  <2>3. /\ g \in Calls /\ g.sent = 0 /\ g.credit = d.credit /\ g.applied = d.applied
        /\ g.plan = d.plan /\ g.token = d.token
    <3> HIDE DEF e
    <3> QED BY <2>2 DEF Calls
  <2>4. /\ c \in Calls /\ c.phase = "ask" /\ c.sent = 0 /\ c.credit = d.credit
        /\ c.applied = d.applied /\ c.plan = d.plan /\ c.token = d.token
    <3> HIDE DEF g
    <3> QED BY <2>3 DEF Calls, Phases
  <2>5. Retried(k, d) = c
    BY <1>1 DEF Retried
  <2> HIDE DEF c
  <2> QED BY <2>4, <2>5 DEF Fine, CallOK, Paying, Over
<1>2. CASE ~(d.tries < client[k].attempts)
  BY <1>2, RaisedOK DEF Retried
<1> QED BY <1>1, <1>2

LEMMA LostOK ==
  ASSUME NEW k \in Callers, ClientOK(client[k]), NEW d \in Calls, d.credit >= 0,
         d.applied = 0, d.plan \in PlansOf(client[k].resource),
         d.unmetered \/ d.credit >= client[k].sends - d.sent,
         client[k].oauth => d.token # 0
  PROVE  Fine(client[k], Lost(k, d), d.token)
<1>1. CASE d.sent < client[k].sends
  <2> DEFINE c == [d EXCEPT !.phase = "send"]
  <2>1. /\ c \in Calls /\ c.phase = "send" /\ c.sent = d.sent /\ c.credit = d.credit
        /\ c.applied = d.applied /\ c.plan = d.plan /\ c.token = d.token
        /\ c.unmetered = d.unmetered
    BY DEF Calls, Phases
  <2>2. Lost(k, d) = c
    BY <1>1 DEF Lost
  <2> HIDE DEF c
  <2> QED BY <1>1, <2>1, <2>2 DEF Fine, CallOK, Paying, Over
<1>2. CASE ~(d.sent < client[k].sends)
  BY <1>2, RetriedOK DEF Lost
<1> QED BY <1>1, <1>2

LEMMA JudgedOK ==
  ASSUME NEW k \in Callers, ClientOK(client[k]), NEW d \in Calls, d.credit >= 0,
         d.applied = 0, d.sent = 0, d.plan \in PlansOf(client[k].resource),
         d.unmetered \/ d.credit >= client[k].sends
  PROVE  Fine(client[k], Judged(k, d), d.token)
<1> DEFINE c == Judged(k, d)
<1>1. /\ c \in Calls /\ c.sent = 0 /\ c.credit = d.credit /\ c.applied = 0
      /\ c.plan = d.plan /\ c.token = d.token /\ c.unmetered = d.unmetered
      /\ c.phase \in {"ask", "oauth", "send"}
      /\ c.phase = "oauth" => client[k].oauth
      /\ c.phase = "send" => ~client[k].oauth
  BY DEF Judged, Calls, Phases
<1>2. client[k].sends \in 1..3
  BY DEF ClientOK, ClientSpace
<1> HIDE DEF c
<1>3. c.sent < client[k].sends /\ (c.unmetered \/ c.credit >= client[k].sends - c.sent)
      /\ c.credit >= 0
  BY <1>1, <1>2 DEF Calls
<1>4. Paying(client[k], c)
  BY <1>1, <1>3 DEF Paying
<1>5. CallOK(client[k], c)
  BY <1>1, <1>3, <1>4 DEF CallOK, Over
<1> QED BY <1>1, <1>5 DEF Fine, c

LEMMA SentCall ==
  ASSUME NEW k \in Callers, ClientOK(client[k]), CallOK(client[k], call[k]), In(k, {"send"})
  PROVE  /\ Sent(k) \in Calls /\ Sent(k).credit >= 0 /\ Sent(k).applied = 0
         /\ Sent(k).token = call[k].token /\ Sent(k).plan = call[k].plan
         /\ Sent(k).unmetered \/ Sent(k).credit >= client[k].sends - Sent(k).sent
<1> DEFINE d == call[k]
<1>1. /\ d \in Calls /\ d.sent < client[k].sends /\ d.applied = 0 /\ d.credit >= 0
      /\ d.unmetered \/ d.credit >= client[k].sends - d.sent
  BY DEF CallOK, Paying, In, Over
<1>2. client[k].sends \in 1..3 /\ d.sent \in 0..3 /\ d.credit \in Int
  BY <1>1 DEF ClientOK, ClientSpace, Calls
<1>3. Sent(k) = [d EXCEPT !.sent = @ + 1, !.credit = IF d.unmetered THEN @ ELSE @ - 1]
  BY DEF Sent
<1> HIDE DEF d
<1>4. d.sent + 1 \in 0..3
  BY <1>1, <1>2
<1>5. /\ Sent(k).sent = d.sent + 1 /\ Sent(k).unmetered = d.unmetered
      /\ Sent(k).credit = (IF d.unmetered THEN d.credit ELSE d.credit - 1)
      /\ Sent(k).applied = d.applied /\ Sent(k).token = d.token /\ Sent(k).plan = d.plan
      /\ Sent(k) \in Calls
  <2> DEFINE n == IF d.unmetered THEN d.credit ELSE d.credit - 1
             e == [d EXCEPT !.sent = d.sent + 1]
             f == [e EXCEPT !.credit = n]
  <2>1. n \in Int
    BY <1>2
  <2>2. /\ e \in Calls /\ e.sent = d.sent + 1 /\ e.unmetered = d.unmetered
        /\ e.applied = d.applied /\ e.token = d.token /\ e.plan = d.plan
    BY <1>1, <1>4 DEF Calls
  <2>3. Sent(k) = f
    BY <1>3
  <2> HIDE DEF n, e
  <2>4. /\ f \in Calls /\ f.sent = e.sent /\ f.unmetered = e.unmetered /\ f.credit = n
        /\ f.applied = e.applied /\ f.token = e.token /\ f.plan = e.plan
    BY <2>1, <2>2 DEF Calls
  <2> HIDE DEF f
  <2> QED BY <2>2, <2>3, <2>4 DEF n
<1>6. Sent(k).credit >= 0 /\ (d.unmetered \/ Sent(k).credit >= client[k].sends - (d.sent + 1))
  BY <1>1, <1>2, <1>5
<1> QED BY <1>1, <1>5, <1>6 DEF d

(* A step of one call that leaves the tokens alone keeps ToolInv.          *)
LEMMA StepKeeps ==
  ASSUME ToolInv, NEW k \in Callers, NEW c, Becomes(k, c),
         Fine(client[k], c, call[k].token) \/ Fine(client[k], c, token),
         UNCHANGED oauthVars
  PROVE  ToolInv'
<1> USE DEF ToolInv, Becomes, oauthVars, Fine
<1>1. /\ call' = [call EXCEPT ![k] = c] /\ client' = client /\ c \in Calls
      /\ \A j \in Callers : call'[j] = IF j = k THEN c ELSE call[j]
  BY DEF ClientsAssigned, CallOK
<1>2. ClientsAssigned' BY <1>1 DEF ClientsAssigned
<1>3. CallInv' BY <1>1 DEF CallInv
<1>4. TokenInv'
  <2>1. c.token \in 0..issued
    BY <1>1 DEF TokenInv, Calls
  <2>2. \A j \in Callers : call'[j].token <= issued
    BY <1>1, <2>1 DEF TokenInv
  <2>3. ASSUME NEW i \in Callers, call'[i].phase = "issued"
        PROVE  /\ call'[i].token \in 1..issued
               /\ call'[i].token # token /\ call'[i].token \notin rejected
               /\ \A j \in Callers \ {i} : call'[j].token # call'[i].token
    <3>1. i # k /\ call'[i] = call[i] BY <1>1, <2>3
    <3> QED BY <1>1, <2>3, <3>1 DEF TokenInv
  <2> QED BY <2>2, <2>3 DEF TokenInv
<1> QED BY <1>2, <1>3, <1>4

LEMMA AssignedOK ==
  ASSUME ClientsAssigned, NEW k \in Callers
  PROVE  ClientOK(client[k]) /\ call[k] \in Calls
  BY ClientsOK, CallsAssumption DEF CallsAssumption, ClientsAssigned

LEMMA BeginKeeps ==
  ASSUME ToolInv, NEW k \in Callers, Begin(k)
  PROVE  ToolInv'
<1>1. ClientOK(client[k]) BY AssignedOK DEF ToolInv
<1>2. client[k].sends \in 1..3 BY <1>1 DEF ClientOK, ClientSpace
<1>3. PICK c : Becomes(k, c) /\ Fine(client[k], c, 0)
  <2>1. CASE client[k].open /\ Becomes(k, [NoCall EXCEPT !.phase = "send", !.unmetered = TRUE])
    <3> DEFINE c == [NoCall EXCEPT !.phase = "send", !.unmetered = TRUE]
    <3>1. /\ c \in Calls /\ c.phase = "send" /\ c.unmetered /\ c.credit = 0
          /\ c.applied = 0 /\ c.token = 0 /\ c.sent = 0 /\ c.plan = UnknownPlan
      BY NoCallOK DEF Calls, Phases
    <3>2. ~client[k].oauth BY <1>1, <2>1 DEF ClientOK
    <3> HIDE DEF c
    <3>3. c.plan \in PlansOf(client[k].resource) BY <3>1 DEF PlansOf
    <3>4. Fine(client[k], c, 0) BY <1>2, <3>1, <3>2, <3>3 DEF Fine, CallOK, Paying, Over
    <3> QED BY <2>1, <3>4 DEF c
  <2>2. ASSUME NEW first \in {"outer", "ask"}, NEW p \in PlansOf(client[k].resource),
               Becomes(k, [NoCall EXCEPT !.plan = p, !.phase = first])
        PROVE  \E c : Becomes(k, c) /\ Fine(client[k], c, 0)
    <3> DEFINE c == [NoCall EXCEPT !.plan = p, !.phase = first]
    <3>1. p \in Nat
      BY BucketAssumption DEF BucketAssumption, PlansOf, UnknownPlan
    <3>2. /\ c \in Calls /\ c.phase = first /\ c.credit = 0 /\ c.applied = 0
          /\ c.token = 0 /\ c.sent = 0 /\ c.plan = p
      BY <3>1, NoCallOK DEF Calls, Phases
    <3> HIDE DEF c
    <3>3. Fine(client[k], c, 0) BY <3>2 DEF Fine, CallOK, Paying, Over
    <3> QED BY <2>2, <3>3 DEF c
  <2>3. CASE \E p \in PlansOf(client[k].resource) : Becomes(k,
          [NoCall EXCEPT !.plan = p, !.phase = IF client[k].outer THEN "outer" ELSE "ask"])
    <3>1. PICK p \in PlansOf(client[k].resource), first \in {"outer", "ask"} :
            Becomes(k, [NoCall EXCEPT !.plan = p, !.phase = first])
      BY <2>3
    <3> QED BY <2>2, <3>1
  <2> QED BY <2>1, <2>3 DEF Begin
<1>4. Fine(client[k], c, token) BY <1>3 DEF Fine
<1> QED BY <1>3, <1>4, StepKeeps DEF Begin

LEMMA EnforceStepKeeps ==
  ASSUME ToolInv, NEW k \in Callers, Enforce(k) \/ RedisFails(k)
  PROVE  ToolInv'
<1>1. ClientOK(client[k]) /\ call[k] \in Calls BY AssignedOK DEF ToolInv
<1>2. CallOK(client[k], call[k]) BY DEF ToolInv, CallInv
<1>3. /\ call[k].phase \in {"outer", "ask"} /\ call[k].credit \in Nat
      /\ call[k].applied = 0 /\ call[k].sent = 0
      /\ call[k].plan \in PlansOf(client[k].resource)
      /\ client[k].sends \in 1..3
  BY <1>1, <1>2 DEF Enforce, RedisFails, In, CallOK, Paying, Calls, Over, ClientOK, ClientSpace
<1>4. UNCHANGED oauthVars BY DEF Enforce, RedisFails
<1>5. ASSUME Becomes(k, Raised(k, call[k])) PROVE ToolInv'
  <2>1. Fine(client[k], Raised(k, call[k]), call[k].token) BY <1>1, <1>3, RaisedOK
  <2> QED BY <1>4, <1>5, <2>1, StepKeeps
<1>6. ASSUME NEW d \in Calls, d.unmetered \/ d.credit >= client[k].sends, d.credit >= 0,
             d.applied = 0, d.sent = 0, d.plan = call[k].plan, d.token = call[k].token,
             Becomes(k, Judged(k, d))
      PROVE  ToolInv'
  <2>1. Fine(client[k], Judged(k, d), call[k].token) BY <1>1, <1>3, <1>6, JudgedOK
  <2> QED BY <1>4, <1>6, <2>1, StepKeeps
<1>7. CASE Enforce(k)
  <2>1. CASE Becomes(k, Judged(k, Paid(k)))
    <3> DEFINE d == Paid(k)
    <3>1. call[k].credit + client[k].sends \in Int BY <1>3
    <3>2. /\ d \in Calls /\ d.credit = call[k].credit + client[k].sends /\ d.applied = 0
          /\ d.sent = 0 /\ d.token = call[k].token /\ d.plan = call[k].plan
      BY <1>1, <1>3, <3>1 DEF Calls, Paid
    <3>3. d.credit >= client[k].sends /\ d.credit >= 0 BY <1>3, <3>2
    <3>4. Becomes(k, Judged(k, d)) BY <2>1
    <3> HIDE DEF d
    <3> QED BY <1>6, <3>2, <3>3, <3>4
  <2>2. CASE Becomes(k, Judged(k, [call[k] EXCEPT !.unmetered = TRUE]))
    <3> DEFINE d == [call[k] EXCEPT !.unmetered = TRUE]
    <3>1. /\ d \in Calls /\ d.credit = call[k].credit /\ d.applied = 0 /\ d.sent = 0
          /\ d.token = call[k].token /\ d.plan = call[k].plan /\ d.unmetered
      BY <1>1, <1>3 DEF Calls
    <3>2. d.credit >= 0 BY <1>3, <3>1
    <3>3. Becomes(k, Judged(k, d)) BY <2>2
    <3> HIDE DEF d
    <3> QED BY <1>6, <3>1, <3>2, <3>3
  <2>3. CASE Becomes(k, Raised(k, call[k])) BY <1>5, <2>3
  <2> QED BY <1>7, <2>1, <2>2, <2>3 DEF Enforce
<1>8. CASE RedisFails(k)
  <2>1. CASE ~client[k].open BY <1>5, <1>8, <2>1 DEF RedisFails
  <2>2. CASE client[k].open
    <3> DEFINE c == [call[k] EXCEPT !.phase = "send", !.unmetered = TRUE]
    <3>1. /\ c \in Calls /\ c.phase = "send" /\ c.unmetered /\ c.applied = 0 /\ c.sent = 0
          /\ c.credit = call[k].credit /\ c.token = call[k].token /\ c.plan = call[k].plan
      BY <1>1, <1>3 DEF Calls, Phases
    <3>2. ~client[k].oauth BY <1>1, <2>2 DEF ClientOK
    <3>3. Becomes(k, c) BY <1>8, <2>2 DEF RedisFails
    <3> HIDE DEF c
    <3>4. Fine(client[k], c, call[k].token)
      BY <1>3, <3>1, <3>2 DEF Fine, CallOK, Paying, Over
    <3> QED BY <1>4, <3>3, <3>4, StepKeeps
  <2> QED BY <2>1, <2>2
<1> QED BY <1>7, <1>8

LEMMA TokenStepKeeps ==
  ASSUME ToolInv, NEW k \in Callers, GetAccessToken(k) \/ IssueToken(k) \/ KeepToken(k)
  PROVE  ToolInv'
<1> USE DEF ToolInv
<1>1. call[k] \in Calls /\ CallOK(client[k], call[k])
  BY AssignedOK DEF CallInv
<1>2. /\ client[k].oauth /\ call[k].applied = 0
      /\ call[k].unmetered \/ call[k].credit >= client[k].sends - call[k].sent
      /\ call[k].credit >= 0 /\ call[k].sent = 0 /\ call[k].sent < client[k].sends
      /\ call[k].plan \in PlansOf(client[k].resource)
  BY <1>1 DEF GetAccessToken, IssueToken, KeepToken, In, CallOK, Paying, Over
<1>3. issued \in Nat /\ issued <= MaxIssued /\ token \in 0..issued
  BY CallsAssumption DEF CallsAssumption, TokenInv
<1>4. ASSUME NEW c \in Calls, c.phase \in {"send", "refresh", "issued"},
             c.unmetered = call[k].unmetered, c.credit = call[k].credit,
             c.applied = call[k].applied, c.sent = call[k].sent, c.plan = call[k].plan,
             c.phase = "send" => c.token # 0
      PROVE  CallOK(client[k], c)
  BY <1>2, <1>4 DEF CallOK, Paying, Over
<1>5. CASE GetAccessToken(k)
  <2>1. CASE token # 0
    <3> DEFINE c == [call[k] EXCEPT !.token = token, !.phase = "send"]
    <3>0. token \in 0..MaxIssued
      BY <1>3, CallsAssumption DEF CallsAssumption
    <3>1. /\ c \in Calls /\ c.phase = "send" /\ c.token = token
          /\ c.unmetered = call[k].unmetered /\ c.credit = call[k].credit
          /\ c.applied = call[k].applied /\ c.sent = call[k].sent
          /\ c.plan = call[k].plan
      BY <1>1, <3>0 DEF Calls, Phases
    <3> HIDE DEF c
    <3>2. CallOK(client[k], c) BY <1>4, <2>1, <3>1
    <3>3. Becomes(k, c) /\ UNCHANGED oauthVars
      BY <1>5, <2>1 DEF GetAccessToken, c
    <3>4. Fine(client[k], c, token) BY <3>1, <3>2 DEF Fine
    <3> QED BY <3>3, <3>4, StepKeeps
  <2>2. CASE token = 0
    <3> DEFINE c == [call[k] EXCEPT !.phase = "refresh"]
    <3>1. /\ c \in Calls /\ c.phase = "refresh" /\ c.token = call[k].token
          /\ c.unmetered = call[k].unmetered /\ c.credit = call[k].credit
          /\ c.applied = call[k].applied /\ c.sent = call[k].sent
          /\ c.plan = call[k].plan
      BY <1>1 DEF Calls, Phases
    <3> HIDE DEF c
    <3>2. CallOK(client[k], c) BY <1>4, <3>1
    <3>3. Becomes(k, c) /\ UNCHANGED oauthVars
      BY <1>5, <2>2 DEF GetAccessToken, c
    <3>4. Fine(client[k], c, call[k].token) BY <3>1, <3>2 DEF Fine
    <3> QED BY <3>3, <3>4, StepKeeps
  <2> QED BY <2>1, <2>2
<1>6. CASE IssueToken(k)
  <2> DEFINE c == [call[k] EXCEPT !.token = issued', !.phase = "issued"]
  <2>1. issued' = issued + 1 /\ issued' \in 0..MaxIssued
    BY <1>3, <1>6, CallsAssumption DEF IssueToken, CallsAssumption
  <2>2. /\ c \in Calls /\ c.phase = "issued" /\ c.token = issued + 1
        /\ c.unmetered = call[k].unmetered /\ c.credit = call[k].credit
        /\ c.applied = call[k].applied /\ c.sent = call[k].sent
        /\ c.plan = call[k].plan
    BY <1>1, <2>1 DEF Calls, Phases
  <2>3. Becomes(k, c) BY <1>6 DEF IssueToken
  <2> HIDE DEF c
  <2>4. CallOK(client[k], c) BY <1>4, <2>2
  <2>5. /\ client' = client /\ call' = [call EXCEPT ![k] = c]
        /\ \A j \in Callers : call'[j] = IF j = k THEN c ELSE call[j]
    BY <2>3 DEF Becomes, ClientsAssigned
  <2>6. ClientsAssigned' BY <2>2, <2>5 DEF ClientsAssigned
  <2>7. CallInv' BY <2>4, <2>5 DEF CallInv
  <2>8. /\ valid' \subseteq 1..issued' /\ rejected' \subseteq 1..issued'
        /\ token' = token /\ rejected' = rejected
    BY <1>3, <1>6, <2>1 DEF IssueToken, TokenInv
  <2>9. \A j \in Callers : call[j].token \in 0..issued
    BY AssignedOK DEF TokenInv, Calls
  <2>10. rejected \subseteq 1..issued BY DEF TokenInv
  <2>11. ASSUME NEW i \in Callers, call'[i].phase = "issued"
         PROVE  /\ call'[i].token \in 1..issued'
                /\ call'[i].token # token /\ call'[i].token \notin rejected
                /\ \A j \in Callers \ {i} : call'[j].token # call'[i].token
    <3>1. CASE i = k
      BY <1>3, <2>1, <2>2, <2>5, <2>9, <2>10, <3>1
    <3>2. CASE i # k
      <4>1. call[i].phase = "issued" BY <2>5, <2>11, <3>2
      <4>2. /\ call[i].token \in 1..issued
            /\ call[i].token # token /\ call[i].token \notin rejected
            /\ \A j \in Callers \ {i} : call[j].token # call[i].token
        BY <4>1 DEF TokenInv
      <4> QED BY <1>3, <2>1, <2>2, <2>5, <3>2, <4>2
    <3> QED BY <3>1, <3>2
  <2>12. \A j \in Callers : call'[j].token <= issued'
    BY <1>3, <2>1, <2>2, <2>5, <2>9
  <2>13. token' \in 0..issued' /\ token' \notin rejected'
    BY <1>3, <2>1, <2>8 DEF TokenInv
  <2>14. TokenInv'
    BY <2>1, <2>8, <2>11, <2>12, <2>13 DEF TokenInv
  <2> QED BY <2>6, <2>7, <2>14
<1>7. CASE KeepToken(k)
  <2> DEFINE c == [call[k] EXCEPT !.phase = "send"]
  <2>1. /\ call[k].token \in 1..issued /\ call[k].token \notin rejected
        /\ \A j \in Callers \ {k} : call[j].token # call[k].token
    BY <1>7 DEF KeepToken, In, TokenInv
  <2>2. /\ c \in Calls /\ c.phase = "send" /\ c.token = call[k].token
        /\ c.unmetered = call[k].unmetered /\ c.credit = call[k].credit
        /\ c.applied = call[k].applied /\ c.sent = call[k].sent
        /\ c.plan = call[k].plan
    BY <1>1 DEF Calls, Phases
  <2>3. Becomes(k, c) BY <1>7 DEF KeepToken
  <2> HIDE DEF c
  <2>4. CallOK(client[k], c) BY <1>4, <2>1, <2>2
  <2>5. /\ client' = client /\ call' = [call EXCEPT ![k] = c]
        /\ \A j \in Callers : call'[j] = IF j = k THEN c ELSE call[j]
    BY <2>3 DEF Becomes, ClientsAssigned
  <2>6. ClientsAssigned' BY <2>2, <2>5 DEF ClientsAssigned
  <2>7. CallInv' BY <2>4, <2>5 DEF CallInv
  <2>8. token' = call[k].token /\ UNCHANGED <<issued, valid, rejected>>
    BY <1>7 DEF KeepToken
  <2>9. ASSUME NEW i \in Callers, call'[i].phase = "issued"
        PROVE  /\ call'[i].token \in 1..issued
               /\ call'[i].token # token' /\ call'[i].token \notin rejected
               /\ \A j \in Callers \ {i} : call'[j].token # call'[i].token
    <3>1. i # k /\ call'[i] = call[i] BY <2>2, <2>5, <2>9
    <3>2. \A j \in Callers : call'[j].token = call[j].token BY <2>2, <2>5
    <3> QED BY <2>1, <2>8, <2>9, <3>1, <3>2 DEF TokenInv
  <2>10. TokenInv'
    BY <2>1, <2>2, <2>5, <2>8, <2>9 DEF TokenInv
  <2> QED BY <2>6, <2>7, <2>10
<1> QED BY <1>5, <1>6, <1>7

LEMMA RequestKeeps ==
  ASSUME ToolInv, NEW k \in Callers,
         Accept(k) \/ Answer(k) \/ ErrorStatus(k) \/ TransportError(k) \/ Unauthorized(k)
  PROVE  ToolInv'
<1> USE DEF ToolInv
<1>1. call[k] \in Calls /\ CallOK(client[k], call[k]) /\ ClientOK(client[k])
      /\ call[k].plan \in PlansOf(client[k].resource)
  BY AssignedOK DEF CallInv, CallOK
<1>2. UNCHANGED oauthVars
  BY DEF Accept, Answer, ErrorStatus, TransportError, Unauthorized, Quiet
<1>3. In(k, {"send"}) =>
        /\ Sent(k) \in Calls /\ Sent(k).credit >= 0 /\ Sent(k).applied = 0
        /\ Sent(k).token = call[k].token /\ Sent(k).plan = call[k].plan
        /\ Sent(k).unmetered \/ Sent(k).credit >= client[k].sends - Sent(k).sent
        /\ client[k].oauth => call[k].token # 0
  BY <1>1, SentCall DEF CallOK, In
<1>4. ASSUME NEW c, Becomes(k, c), Fine(client[k], c, call[k].token)
      PROVE  ToolInv'
  BY <1>2, <1>4, StepKeeps
<1>5. ASSUME NEW d \in Calls, d.credit >= 0, d.applied \in {0, 1}, Becomes(k, Raised(k, d))
      PROVE  ToolInv'
  BY <1>4, <1>5, RaisedOK
<1>6. CASE Accept(k)
  <2> DEFINE d == Sent(k)
             c == [d EXCEPT !.applied = @ + 1, !.phase = "accepted"]
  <2>1. /\ d \in Calls /\ d.credit >= 0 /\ d.applied = 0 /\ d.token = call[k].token
        /\ d.plan = call[k].plan
        /\ d.unmetered \/ d.credit >= client[k].sends - d.sent
        /\ client[k].oauth => call[k].token # 0
    BY <1>3, <1>6 DEF Accept
  <2>2. Becomes(k, c) BY <1>6 DEF Accept
  <2> HIDE DEF d
  <2>3. /\ c \in Calls /\ c.phase = "accepted" /\ c.applied = 1 /\ c.token = call[k].token
        /\ c.credit = d.credit /\ c.plan = d.plan /\ c.sent = d.sent
        /\ c.unmetered = d.unmetered
    <3> DEFINE e == [d EXCEPT !.applied = @ + 1]
    <3>1. /\ e \in Calls /\ e.applied = 1 /\ e.token = call[k].token /\ e.credit = d.credit
          /\ e.plan = d.plan /\ e.sent = d.sent /\ e.unmetered = d.unmetered
      BY <2>1 DEF Calls
    <3>2. c = [e EXCEPT !.phase = "accepted"]
      OBVIOUS
    <3> HIDE DEF c, e
    <3> QED BY <3>1, <3>2 DEF Calls, Phases
  <2> HIDE DEF c
  <2>4. Paying(client[k], c)
    BY <2>1, <2>3 DEF Paying
  <2>5. CallOK(client[k], c)
    BY <1>1, <2>1, <2>3, <2>4 DEF CallOK, Over
  <2> QED BY <1>4, <2>2, <2>3, <2>5 DEF Fine
<1>7. CASE Answer(k)
  <2>1. call[k].credit >= 0 /\ call[k].applied = 1
    BY <1>1, <1>7 DEF Answer, In, CallOK, Over
  <2>2. Fine(client[k], Ended(call[k], "returned"), call[k].token)
    BY <1>1, <2>1, EndedOK
  <2> QED BY <1>1, <1>4, <1>5, <1>7, <2>1, <2>2 DEF Answer
<1>8. CASE ErrorStatus(k)
  <2>1. call[k].credit >= 0 /\ call[k].applied \in {0, 1}
    BY <1>1 DEF CallOK
  <2> QED BY <1>1, <1>3, <1>5, <1>8, <2>1 DEF ErrorStatus
<1>9. CASE TransportError(k)
  <2>1. CASE In(k, {"send"}) /\ Becomes(k, Lost(k, Sent(k)))
    <3>1. Fine(client[k], Lost(k, Sent(k)), call[k].token)
      BY <1>1, <1>3, <2>1, LostOK
    <3> QED BY <1>4, <2>1, <3>1
  <2>2. CASE In(k, {"refresh", "issued"}) /\ Becomes(k, Retried(k, call[k]))
    <3>1. call[k].credit >= 0 /\ call[k].applied = 0
      BY <1>1, <2>2 DEF In, CallOK, Over
    <3>2. Fine(client[k], Retried(k, call[k]), call[k].token)
      BY <1>1, <3>1, RetriedOK
    <3> QED BY <1>4, <2>2, <3>2
  <2>3. CASE /\ In(k, {"accepted"})
             /\ Becomes(k, Lost(k, [call[k] EXCEPT !.applied = @ - 1]))
    <3> DEFINE d == [call[k] EXCEPT !.applied = @ - 1]
    <3>1. /\ call[k].credit >= 0 /\ call[k].applied = 1
          /\ call[k].unmetered \/ call[k].credit >= client[k].sends - call[k].sent
          /\ client[k].oauth => call[k].token # 0
      BY <1>1, <2>3 DEF In, CallOK, Paying, Over
    <3>2. /\ d \in Calls /\ d.credit = call[k].credit /\ d.applied = 0
          /\ d.token = call[k].token /\ d.plan = call[k].plan /\ d.sent = call[k].sent
          /\ d.unmetered = call[k].unmetered
      BY <1>1, <3>1 DEF Calls
    <3>3. Becomes(k, Lost(k, d)) BY <2>3
    <3> HIDE DEF d
    <3>4. Fine(client[k], Lost(k, d), d.token)
      BY <1>1, <3>1, <3>2, LostOK
    <3> QED BY <1>4, <3>2, <3>3, <3>4
  <2> QED BY <1>9, <2>1, <2>2, <2>3 DEF TransportError
<1>10. CASE Unauthorized(k)
  <2> DEFINE d == Sent(k)
             c == [d EXCEPT !.phase = "unauthorized"]
  <2>1. /\ d \in Calls /\ d.credit >= 0 /\ d.applied = 0 /\ d.token = call[k].token
        /\ d.plan = call[k].plan /\ client[k].oauth /\ call[k].token # 0
    BY <1>3, <1>10 DEF Unauthorized, NotAccepted
  <2>2. Becomes(k, c) BY <1>10 DEF Unauthorized
  <2> HIDE DEF d
  <2>3. /\ c \in Calls /\ c.phase = "unauthorized" /\ c.applied = 0
        /\ c.token = call[k].token /\ c.credit >= 0 /\ c.plan = d.plan
    BY <2>1 DEF Calls, Phases
  <2> HIDE DEF c
  <2>4. Fine(client[k], c, call[k].token)
    BY <1>1, <2>1, <2>3 DEF Fine, CallOK, Paying, Over
  <2> QED BY <1>4, <2>2, <2>4
<1> QED BY <1>6, <1>7, <1>8, <1>9, <1>10

LEMMA ClearTokenKeeps ==
  ASSUME ToolInv, NEW k \in Callers, ClearToken(k)
  PROVE  ToolInv'
<1> USE DEF ToolInv
<1>1. call[k] \in Calls /\ CallOK(client[k], call[k])
  BY AssignedOK DEF CallInv
<1>2. /\ call[k].phase = "unauthorized" /\ call[k].token # 0
      /\ call[k].credit >= 0 /\ call[k].applied \in {0, 1}
  BY <1>1 DEF ClearToken, In, CallOK
<1> DEFINE c == Raised(k, call[k])
<1>3. Fine(client[k], c, 0)
  BY <1>1, <1>2, RaisedOK
<1>4. Becomes(k, c) /\ token' = 0 /\ rejected' = rejected \cup {call[k].token}
      /\ UNCHANGED <<issued, valid>>
  BY DEF ClearToken
<1> HIDE DEF c
<1>5. CallOK(client[k], c) /\ c \in Calls /\ c.token = 0 /\ c.phase # "issued"
  BY <1>3 DEF Fine, CallOK
<1>6. /\ client' = client /\ call' = [call EXCEPT ![k] = c]
      /\ \A j \in Callers : call'[j] = IF j = k THEN c ELSE call[j]
  BY <1>4 DEF Becomes, ClientsAssigned
<1>7. ClientsAssigned' BY <1>5, <1>6 DEF ClientsAssigned
<1>8. CallInv' BY <1>5, <1>6 DEF CallInv
<1>9. \A j \in Callers : call'[j].token = IF j = k THEN 0 ELSE call[j].token
  BY <1>5, <1>6
<1>10. call[k].token \in 1..issued
  BY <1>1, <1>2 DEF TokenInv, Calls
<1>11. rejected' \subseteq 1..issued /\ 0 \notin rejected'
  <2>1. rejected \subseteq 1..issued BY DEF TokenInv
  <2>2. \A t \in rejected : t # 0 BY <2>1
  <2> QED BY <1>2, <1>4, <1>10, <2>1, <2>2
<1>12. ASSUME NEW i \in Callers, call'[i].phase = "issued"
       PROVE  /\ call'[i].token \in 1..issued
              /\ call'[i].token # 0 /\ call'[i].token \notin rejected'
              /\ \A j \in Callers \ {i} : call'[j].token # call'[i].token
  <2>1. i # k /\ call'[i] = call[i] BY <1>5, <1>6, <1>12
  <2>2. call[i].token \in 1..issued /\ call[k].token # call[i].token
        /\ call[i].token \notin rejected
        /\ \A j \in Callers \ {i} : call[j].token # call[i].token
    BY <1>12, <2>1 DEF TokenInv
  <2>3. call[i].token # 0 BY <2>2
  <2> QED BY <1>4, <1>9, <2>1, <2>2, <2>3
<1>13. TokenInv'
  <2>1. \A j \in Callers : call'[j].token <= issued
    BY <1>9 DEF TokenInv
  <2> QED BY <1>4, <1>11, <1>12, <2>1 DEF TokenInv
<1> QED BY <1>7, <1>8, <1>13

(* ToolInv is an invariant.                                                *)
LEMMA ToolInvHolds == Spec => []ToolInv
<1>1. Init => ToolInv
  <2> SUFFICES ASSUME Init PROVE ToolInv
    OBVIOUS
  <2> USE CallsAssumption DEF CallsAssumption
  <2>1. \A k \in Callers : call[k] = NoCall BY DEF Init
  <2>2. ClientsAssigned BY NoCallOK DEF Init, ClientsAssigned
  <2>3. CallInv BY <2>1, NoCallOK DEF CallInv, CallOK, Paying, PlansOf, Over
  <2>4. TokenInv BY <2>1, NoCallOK DEF Init, TokenInv
  <2> QED BY <2>2, <2>3, <2>4 DEF ToolInv
<1>2. ToolInv /\ [Next]_vars => ToolInv'
  <2> SUFFICES ASSUME ToolInv, [Next]_vars PROVE ToolInv'
    OBVIOUS
  <2>1. CASE ExpireToken
    BY <2>1 DEF ExpireToken, ToolInv, ClientsAssigned, CallInv, TokenInv
  <2>2. CASE UNCHANGED callVars
    BY <2>2 DEF callVars, oauthVars, ToolInv, ClientsAssigned, CallInv, TokenInv
  <2> QED
    BY <2>1, <2>2, BeginKeeps, EnforceStepKeeps, TokenStepKeeps, RequestKeeps,
       ClearTokenKeeps DEF Next, Advance, Pass, vars
<1> QED BY <1>1, <1>2, PTL DEF Spec

(* The calls of the tools touch the buckets through enforce alone: they    *)
(* are a system of buckets, and keep their limits.                         *)
THEOREM CallsUseBuckets == Spec => BucketSpec
<1>1. Init => BucketInit
  BY DEF Init
<1>2. ToolInv /\ [Next]_vars => [BucketNext]_bucketVars
  <2> SUFFICES ASSUME ToolInv, [Next]_vars PROVE [BucketNext]_bucketVars
    OBVIOUS
  <2>1. ASSUME NEW k \in Callers, Enforce(k) \/ RedisFails(k)
        PROVE  [BucketNext]_bucketVars
    <3>1. Limited(k) => /\ client[k].resource \in Buckets
                        /\ call[k].plan \in MaxTokens[client[k].resource]
      BY DEF ToolInv, CallInv, CallOK, Limited, PlansOf
    <3>2. \/ UNCHANGED bucketVars
          \/ Limited(k) /\ \E c \in Clocks : Asked(k, c) \/ Denied(k, c)
      BY <2>1 DEF Enforce, RedisFails
    <3> QED BY <3>1, <3>2 DEF Asked, Denied, BucketNext
  <2>2. ASSUME NEW k \in Callers,
               \/ Begin(k) \/ GetAccessToken(k) \/ IssueToken(k) \/ KeepToken(k)
               \/ Accept(k) \/ Answer(k) \/ ErrorStatus(k) \/ TransportError(k)
               \/ Unauthorized(k) \/ ClearToken(k)
        PROVE  UNCHANGED bucketVars
    BY <2>2 DEF Begin, GetAccessToken, IssueToken, KeepToken, Accept, Answer,
       ErrorStatus, TransportError, Unauthorized, ClearToken, Quiet
  <2>3. CASE ExpireToken BY <2>3 DEF ExpireToken
  <2>4. CASE Pass BY <2>4 DEF Pass, BucketNext
  <2>5. CASE UNCHANGED vars BY <2>5 DEF vars
  <2> QED BY <2>1, <2>2, <2>3, <2>4, <2>5 DEF Next, Advance
<1> QED BY <1>1, <1>2, ToolInvHolds, PTL DEF Spec, BucketSpec

THEOREM CallsKeepTheLimits == Spec => []GrantsBounded
  BY CallsUseBuckets, BucketKeepsItsLimit, PTL

(* The types of calls and buckets.                                         *)
THEOREM CallsTypeCorrect == Spec => []TypeOK
<1>1. BucketSpec => []BucketTypeOK
  <2>1. BucketTypeOK /\ BucketInv /\ [BucketNext]_bucketVars
          => BucketTypeOK' /\ BucketInv'
    <3> SUFFICES ASSUME BucketTypeOK, BucketInv, [BucketNext]_bucketVars
                 PROVE  BucketTypeOK' /\ BucketInv'
      OBVIOUS
    <3>1. CASE UNCHANGED bucketVars
      BY <3>1 DEF bucketVars, BucketTypeOK, BucketInv, Book, Limit
    <3> QED BY <3>1, EnforceKeeps, TickKeeps DEF BucketNext
  <2> QED BY <2>1, BucketsStart, PTL DEF BucketSpec
<1>2. ToolInv /\ BucketTypeOK => TypeOK
  <2> SUFFICES ASSUME ToolInv, BucketTypeOK PROVE TypeOK
    OBVIOUS
  <2>1. issued \in Nat /\ issued <= MaxIssued
    BY CallsAssumption DEF CallsAssumption, ToolInv, TokenInv
  <2> QED
    BY <2>1, CallsAssumption DEF CallsAssumption, ToolInv, ClientsAssigned, TokenInv, TypeOK, Calls
<1> QED BY <1>1, <1>2, ToolInvHolds, CallsUseBuckets, PTL

(* Whatever tenacity and the Anthropic SDK repeat, a call that names a     *)
(* plan sends no request that a token of its own does not pay for.         *)
THEOREM RequestsArePaidAlways == Spec => []RequestsArePaid
<1>1. ToolInv => RequestsArePaid
  BY DEF ToolInv, CallInv, CallOK, RequestsArePaid
<1> QED BY <1>1, ToolInvHolds, PTL

(* tenacity repeats only what was not answered.                            *)
THEOREM DoubledOnlyByLossAlways == Spec => []DoubledOnlyByLoss
<1>1. ToolInv => DoubledOnlyByLoss
  BY DEF ToolInv, CallInv, CallOK, DoubledOnlyByLoss, In
<1> QED BY <1>1, ToolInvHolds, PTL

(* However many calls share ZohoSyncTool's token, one that was refused is  *)
(* never kept again.                                                       *)
THEOREM RejectedTokenForgottenAlways == Spec => []RejectedTokenForgotten
<1>1. ToolInv => RejectedTokenForgotten
  BY DEF ToolInv, TokenInv, RejectedTokenForgotten
<1> QED BY <1>1, ToolInvHolds, PTL
=============================================================================
