----------------------------- MODULE ToolCalls -----------------------------
(***************************************************************************)
(* Calls of the external tools (src/tools, llm/budget.py) and API requests *)
(* (api/middleware.py) that pass the token buckets of one workspace: rate  *)
(* limit, request, the retries of tenacity around both and of the          *)
(* Anthropic SDK below them, and the access token ZohoSyncTool keeps for   *)
(* all its calls.                                                          *)
(*                                                                         *)
(* A caller makes one call after the other with its client.  Of a call's   *)
(* arguments the plan is kept; a request the service accepts is counted as *)
(* applied, which is a write for the tools that create records or post     *)
(* messages.                                                               *)
(*                                                                         *)
(* Outside src/: the services, Zoho's token endpoint, Redis, and the       *)
(* Anthropic SDK, which AsyncAnthropic(api_key=...) leaves at its default  *)
(* of two retries.                                                         *)
(***************************************************************************)
EXTENDS TokenBucket, FiniteSets

CONSTANTS
  Callers,
  Assignments, \* who calls what: functions from Callers to Clients
  MaxIssued    \* bound: access tokens Zoho issues

(* A plan that RATE_LIMITS does not have; others stand for max_tokens.     *)
UnknownPlan == 0

(* attempts: of tenacity, which tries again after httpx.TransportError     *)
(* alone.  sends: requests that one attempt may send.  oauth: asks for a   *)
(* token first.  outer: enforce is called before the part whose errors are *)
(* swallowed; inner: and again in that part.  open: a failing Redis lets   *)
(* the request through.                                                    *)
HttpTool(r) == [resource |-> r, attempts |-> 3, sends |-> 1, oauth |-> FALSE,
                outer |-> FALSE, inner |-> TRUE, open |-> FALSE]

ApolloSearchTool == HttpTool("apollo")
ClayEnrichTool == HttpTool("clay")
LinkedInScraperTool == HttpTool("linkedin")
NewsSearchTool == HttpTool("news")
WebScraperTool == HttpTool("web_scraper")
JobPostingAnalyzerTool == HttpTool("web_scraper")
PricingPageAnalyzerTool == HttpTool("web_scraper")
SlackApprovalTool == HttpTool("slack")
HubSpotTool == HttpTool("hubspot")
CRMReaderTool == HttpTool("hubspot")
ZohoSyncTool == [HttpTool("zoho") EXCEPT !.oauth = TRUE]

(* Once(c): the same without tenacity.                                     *)
Once(c) == [c EXCEPT !.attempts = 1]

(* Through AsyncAnthropic: the SDK sends a request again, up to twice,     *)
(* after a connection error or a 408, 409, 429 or 5xx.                     *)
ByAnthropic(r) == [Once(HttpTool(r)) EXCEPT !.sends = 3]
ClaudeWriterTool == ByAnthropic("claude")
call_claude == ByAnthropic("none")

(* ApolloMCPTool: MCP always raises NotImplementedError and the call falls *)
(* back to HTTP; search_contacts falls back to ApolloSearchTool, which     *)
(* takes a second token.                                                   *)
search_contacts == [ApolloSearchTool EXCEPT !.outer = TRUE]
Fallback(r) == [Once(HttpTool(r)) EXCEPT !.outer = TRUE, !.inner = FALSE]
enrich_organization == Fallback("apollo")
search_companies == Fallback("apollo")
get_job_postings == Fallback("apollo")

RateLimitMiddleware == [Once(HttpTool("api")) EXCEPT !.open = TRUE]

Clients ==
  {ApolloSearchTool, ClayEnrichTool, LinkedInScraperTool, NewsSearchTool,
   WebScraperTool, JobPostingAnalyzerTool, PricingPageAnalyzerTool,
   SlackApprovalTool, HubSpotTool, CRMReaderTool, ZohoSyncTool,
   ClaudeWriterTool, call_claude, search_contacts, enrich_organization,
   search_companies, get_job_postings, RateLimitMiddleware}

ASSUME CallsAssumption == Assignments \subseteq [Callers -> Clients] /\ MaxIssued \in Nat

VARIABLES
  client,     \* the client of each caller
  call,       \* the call each caller is in, or was in last
  token,      \* ZohoSyncTool._access_token, or 0
  issued,     \* access tokens Zoho has issued
  valid,      \* those it accepts
  rejected    \* history: tokens a call has been told are not accepted

oauthVars == <<token, issued, valid, rejected>>
callVars == <<client, call, oauthVars>>
vars == <<bucketVars, callVars>>

Over == {"none", "returned", "empty", "failed"}
Phases == Over \cup {"outer", "ask", "oauth", "refresh", "issued", "send",
                     "accepted", "unauthorized"}

(* plan: an argument of the call.  sent: requests of this attempt.         *)
(* unmetered: no enforce has judged it.  credit: requests its tokens pay   *)
(* for less those it has sent, while it is metered.  applied: requests     *)
(* accepted less those whose answer was lost.                              *)
NoCall == [phase |-> "none", plan |-> UnknownPlan, tries |-> 1, sent |-> 0,
           token |-> 0, unmetered |-> FALSE, credit |-> 0, applied |-> 0]

Init ==
  /\ BucketInit
  /\ client \in Assignments
  /\ call = [k \in Callers |-> NoCall]
  /\ token = 0 /\ issued = 0 /\ valid = {} /\ rejected = {}
-----------------------------------------------------------------------------
In(k, phases) == call[k].phase \in phases
Becomes(k, c) == call' = [call EXCEPT ![k] = c] /\ UNCHANGED client

(* What is left of a call that is over.                                    *)
Ended(c, phase) ==
  [NoCall EXCEPT !.phase = phase, !.credit = c.credit, !.applied = c.applied]

(* Mutant: every exception is tried again.                                 *)
Raised_Retries(k, c) ==
  IF c.tries < client[k].attempts
  THEN [c EXCEPT !.tries = @ + 1, !.sent = 0, !.phase = "ask"]
  ELSE Ended(c, "failed")

(* What an exception makes of a call: the ApolloMCPTool functions return   *)
(* nothing found for whatever is raised after their own enforce.           *)
Raised(k, c) ==
  Ended(c, IF client[k].outer /\ ~In(k, {"outer"}) THEN "empty" ELSE "failed")

(* Mutants: one attempt too many; only the first attempt takes a token;    *)
(* attempts are not counted.                                               *)
Retried_OneMore(k, c) ==
  IF c.tries <= client[k].attempts
  THEN [c EXCEPT !.tries = @ + 1, !.sent = 0, !.phase = "ask"]
  ELSE Raised(k, c)

Retried_PaysOnce(k, c) ==
  IF c.tries < client[k].attempts
  THEN [c EXCEPT !.tries = @ + 1, !.sent = 0, !.phase = "send"]
  ELSE Raised(k, c)

Retried_Forever(k, c) == [c EXCEPT !.phase = "ask"]

(* tenacity after a TransportError.                                        *)
Retried(k, c) ==
  IF c.tries < client[k].attempts
  THEN [c EXCEPT !.tries = @ + 1, !.sent = 0, !.phase = "ask"]
  ELSE Raised(k, c)

(* A request without an answer: the SDK sends it again, as long as it may, *)
(* or what called it sees the error.                                       *)
Lost(k, c) ==
  IF c.sent < client[k].sends THEN [c EXCEPT !.phase = "send"] ELSE Retried(k, c)

PlansOf(r) == {UnknownPlan} \cup (IF r \in Buckets THEN MaxTokens[r] ELSE {})

Begin(k) ==
  /\ In(k, Over)
  /\ \/ \E p \in PlansOf(client[k].resource) : Becomes(k,
          [NoCall EXCEPT !.plan = p, !.phase = IF client[k].outer THEN "outer" ELSE "ask"])
     \/ /\ client[k].open      \* no workspace, or the admin's
        /\ Becomes(k, [NoCall EXCEPT !.phase = "send", !.unmetered = TRUE])
  /\ UNCHANGED <<bucketVars, oauthVars>>

Judged(k, c) ==
  [c EXCEPT !.phase = IF In(k, {"outer"}) /\ client[k].inner THEN "ask"
                      ELSE IF client[k].oauth THEN "oauth" ELSE "send"]

Limited(k) == client[k].resource \in Buckets /\ call[k].plan # UnknownPlan
Paid(k) == [call[k] EXCEPT !.credit = @ + client[k].sends]
Asked(k, c) == Grant(client[k].resource, c, call[k].plan)
Denied(k, c) == Refuse(client[k].resource, c, call[k].plan)

(* rate_limiter.enforce: one token, or RateLimitExceededError; a resource  *)
(* or a plan it does not know passes.                                      *)
Enforce(k) ==
  /\ In(k, {"outer", "ask"})
  /\ \/ /\ Limited(k)
        /\ \E c \in Clocks :
             \/ Asked(k, c) /\ Becomes(k, Judged(k, Paid(k)))
             \/ Denied(k, c) /\ Becomes(k, Raised(k, call[k]))
     \/ /\ ~Limited(k)
        /\ Becomes(k, Judged(k, [call[k] EXCEPT !.unmetered = TRUE]))
        /\ UNCHANGED bucketVars
  /\ UNCHANGED oauthVars

(* Redis cannot be reached, or only its answer gets lost.                  *)
RedisFails(k) ==
  /\ In(k, {"outer", "ask"}) /\ Limited(k)
  /\ \/ \E c \in Clocks : Asked(k, c) \/ Denied(k, c)
     \/ UNCHANGED bucketVars
  /\ Becomes(k, IF client[k].open
                THEN [call[k] EXCEPT !.phase = "send", !.unmetered = TRUE]
                ELSE Raised(k, call[k]))
  /\ UNCHANGED oauthVars
-----------------------------------------------------------------------------
(* _get_access_token: the token that is kept, or a new one.                *)
GetAccessToken(k) ==
  /\ In(k, {"oauth"})
  /\ Becomes(k, IF token # 0 THEN [call[k] EXCEPT !.token = token, !.phase = "send"]
                ELSE [call[k] EXCEPT !.phase = "refresh"])
  /\ UNCHANGED <<bucketVars, oauthVars>>

(* Zoho answers a refresh with a new token.                                *)
IssueToken(k) ==
  /\ In(k, {"refresh"}) /\ issued < MaxIssued
  /\ issued' = issued + 1 /\ valid' = valid \cup {issued'}
  /\ Becomes(k, [call[k] EXCEPT !.token = issued', !.phase = "issued"])
  /\ UNCHANGED <<bucketVars, token, rejected>>

(* _refresh_access_token keeps the token of its answer.                    *)
KeepToken(k) ==
  /\ In(k, {"issued"})
  /\ token' = call[k].token
  /\ Becomes(k, [call[k] EXCEPT !.phase = "send"])
  /\ UNCHANGED <<bucketVars, issued, valid, rejected>>

(* Zoho's tokens do not last.                                              *)
ExpireToken ==
  /\ \E t \in valid : valid' = valid \ {t}
  /\ UNCHANGED <<bucketVars, client, call, token, issued, rejected>>
-----------------------------------------------------------------------------
Sent(k) == [call[k] EXCEPT !.sent = @ + 1,
                           !.credit = IF call[k].unmetered THEN @ ELSE @ - 1]
NotAccepted(k) == client[k].oauth /\ call[k].token \notin valid
Quiet == UNCHANGED <<bucketVars, oauthVars>>

(* The service accepts the request.                                        *)
Accept(k) ==
  /\ In(k, {"send"}) /\ ~NotAccepted(k)
  /\ Becomes(k, [Sent(k) EXCEPT !.applied = @ + 1, !.phase = "accepted"])
  /\ Quiet

(* Its answer arrives, and can be read or not.                             *)
Answer(k) ==
  /\ In(k, {"accepted"})
  /\ \/ Becomes(k, Ended(call[k], "returned"))
     \/ Becomes(k, Raised(k, call[k]))
  /\ Quiet

(* An error status the call ends with, or an error before the request; the *)
(* token endpoint refuses.                                                 *)
ErrorStatus(k) ==
  /\ In(k, {"send", "refresh"})
  /\ \/ Becomes(k, Raised(k, Sent(k))) /\ In(k, {"send"}) /\ ~NotAccepted(k)
     \/ Becomes(k, Raised(k, call[k]))
  /\ Quiet

(* httpx.TransportError, or a status after which the SDK sends again: the  *)
(* request, or the service's answer to it, is lost.                        *)
TransportError(k) ==
  /\ In(k, {"refresh", "issued", "send", "accepted"})
  /\ \/ In(k, {"send"}) /\ Becomes(k, Lost(k, Sent(k)))
     \/ In(k, {"refresh", "issued"}) /\ Becomes(k, Retried(k, call[k]))
     \/ In(k, {"accepted"}) /\ Becomes(k, Lost(k, [call[k] EXCEPT !.applied = @ - 1]))
  /\ Quiet

(* Zoho does not accept the token ...                                      *)
Unauthorized(k) ==
  /\ In(k, {"send"}) /\ NotAccepted(k)
  /\ Becomes(k, [Sent(k) EXCEPT !.phase = "unauthorized"])
  /\ Quiet

(* Mutant: the token is kept.                                              *)
ClearToken_Keeps(k) ==
  /\ In(k, {"unauthorized"})
  /\ rejected' = rejected \cup {call[k].token}
  /\ Becomes(k, Raised(k, call[k]))
  /\ UNCHANGED <<bucketVars, token, issued, valid>>

(* ... and run forgets whichever it keeps by now, then raises.             *)
ClearToken(k) ==
  /\ In(k, {"unauthorized"})
  /\ token' = 0 /\ rejected' = rejected \cup {call[k].token}
  /\ Becomes(k, Raised(k, call[k]))
  /\ UNCHANGED <<bucketVars, issued, valid>>

Advance(k) ==
  \/ Enforce(k) \/ RedisFails(k)
  \/ GetAccessToken(k) \/ IssueToken(k) \/ KeepToken(k)
  \/ Accept(k) \/ Answer(k) \/ ErrorStatus(k) \/ TransportError(k)
  \/ Unauthorized(k) \/ ClearToken(k)

Pass == Tick /\ UNCHANGED callVars

Next == (\E k \in Callers : Begin(k) \/ Advance(k)) \/ ExpireToken \/ Pass

Spec == Init /\ [][Next]_vars

(* Every await ends: httpx, Redis and the services answer or time out.     *)
FairSpec == Spec /\ \A k \in Callers : WF_vars(Advance(k))
-----------------------------------------------------------------------------
TypeOK ==
  /\ BucketTypeOK
  /\ client \in Assignments
  /\ call \in [Callers ->
       [phase : Phases, plan : Nat, tries : 1..3, sent : 0..3, token : 0..MaxIssued,
        unmetered : BOOLEAN, credit : Int, applied : Int]]
  /\ token \in 0..MaxIssued /\ issued \in 0..MaxIssued
  /\ valid \subseteq 1..MaxIssued /\ rejected \subseteq 1..MaxIssued

(* "Call rate_limiter.enforce() before any HTTP call" (base.py), in every  *)
(* attempt of tenacity: no call that names a plan of its resource has sent *)
(* more requests than its tokens pay for, unless Redis failed for a client *)
(* that fails open.  One token pays for one request, and for the three     *)
(* that the Anthropic SDK may make of one.                                 *)
RequestsArePaid ==
  \A k \in Callers : call[k].credit >= 0

(* A request is repeated only if the answer to it was lost: a message or a *)
(* record is doubled at most as often as that, and a call that returns has *)
(* seen the answer to its last one.                                        *)
DoubledOnlyByLoss ==
  \A k \in Callers :
    /\ call[k].applied \in {0, 1}
    /\ In(k, {"returned"}) => call[k].applied = 1

(* A token that some call was told is not accepted is never kept again,    *)
(* however answers and refreshes of concurrent calls cross.                *)
RejectedTokenForgotten == token \notin rejected

(* Every call comes to an end.                                             *)
CallsEnd == \A k \in Callers : ~In(k, Over) ~> In(k, Over)
=============================================================================
