# A TLA+ model of OmniGTM (cmo-agent)

OmniGTM qualifies sales accounts with a LangGraph pipeline, writes what it finds to
CRMs, and, behind guardrails, mails prospects with a second pipeline. Jobs come
through BullMQ queues in Redis, shared state is in Redis and PostgreSQL. This
directory models the parts of it whose correctness depends on the order of things:
the two graphs, the way of a job from an API call through queue, worker and lock,
the guardrails that let automation through, the calls of external tools with their
rate limits and retries; and the scoring that decides what happens to an account.
Modules are checked with TLC and their main invariants are proved with TLAPS.

Paths below are relative to the repository's `src/src/` unless they start otherwise.

## 1. Inventory

| Component | State | Operations | Works with | What is hard |
|---|---|---|---|---|
| Outbound graph (`agent/graph.py`, 11 nodes of `agent/nodes/`) | one LangGraph state for a batch: account, contact, stage, draft, approval, reply; message rows | a superstep per node, conditional edges | Slack, n8n, PostgreSQL, model, tools | state shared by accounts and stages, any call may raise, replies come at any time, recursion limit |
| Qualification graph (`agent/qualification_graph.py`, 16 nodes) | one LangGraph state for a batch: account, contacts, score, signals, pains, brief, approval | a superstep per node, loop over accounts | Slack, HubSpot, Zoho, PostgreSQL, gate | the same, and a review that ends the run |
| Auto-outbound gate (`agent/nodes/auto_outbound_gate.py`) | none of its own | six checks, then enqueue or draft | kill switch, blocklists, send caps, queue | checks in separate round trips, fail-closed handlers |
| Send caps (`guardrails/send_caps.py`) | three Redis counters with TTL | `check_and_increment`, `get_remaining` | gate | check then increment, midnight, week numbers, TTL |
| Kill switch (`guardrails/kill_switch.py`), rollback handler (`agent/nodes/rollback_handler.py`) | two flags and a reason in Redis | pause, resume, ask, status | gate, admin API | flag and reason are two keys, several people, failing commands |
| Blocklists (`guardrails/blocklist.py`) | Redis sets | add, remove, ask | gate | changed while a gate is asking |
| Thread lock (`worker/locks.py`) and job runner (`worker/runner.py`) | lock key with token and TTL, job state, gauge | acquire, release, dispatch | BullMQ, Redis, checkpointer | expiry under a slow handler, dead workers, lost replies |
| Queues, handlers, scheduler (`worker/`) | four BullMQ queues | `enqueue`, `enqueue_by_event`, six handlers, cron jobs | API, gate, PostgreSQL | routing of events without handlers, jobs that enqueue themselves, redelivery |
| Rate limiter (`ratelimit/bucket.py`) | token bucket per workspace and resource | `acquire` (a Lua script), `enforce` | every tool, the API middleware | clocks in whole seconds, rounding, expiry |
| Tools (`tools/`), LLM client (`llm/`) | HTTP clients, Zoho's OAuth token | requests with retries and fallbacks | nodes, limiter | lost answers, shared token, limiter inside or outside the retry |
| API (`api/`) | a database session per request | routes that write rows and enqueue jobs | queues, PostgreSQL | the job is visible before the rows |
| Scoring (`scoring/`), evaluation (`evaluation/`) | none | pure functions; a report over labelled accounts | qualification nodes | thresholds, ranges, rounding, order of rules |
| Database queries, normalization, admin, webhooks, notifications, knowledge, demo, frontend, deployment | rows, files | CRUD, I/O | | |

`PROJECT.json` lists every component with its status, the hazards each is exposed to
at the line where they bite, and the properties that cover them.

What makes each correct:

* **outbound graph**: each mail is the approved draft for its own account, contact
  and stage; mails go out in order and stop after a reply that stops them; a mail is
  recorded unless n8n or PostgreSQL did not confirm it, which is noted; no account
  is dropped; a run is bounded.
* **qualification graph**: what is written about an account rests on the values of
  its own turn and names contacts of the batch only; nothing is written while a
  brief waits for a review; each account is written at most once in a delivery; the
  loop visits every account and ends.
* **gate and guardrails**: fail closed; every trigger pays a unit of the caps; caps
  are exceeded by a bounded amount only; counters outlive their windows; a confirmed
  pause or resume is what the next question finds.
* **lock**: excludes within its TTL, is never taken from somebody else, never blocks
  for ever; no checkpoint is overwritten unseen.
* **jobs**: an approval starts outbound once, committed uploads have a job, crashes
  lose nothing, a schedule keeps one refresh going, and refreshes starve nobody.
* **tools**: a bucket keeps its limit whichever clocks ask; every attempt of a
  client, tenacity's retries included, takes a token (and pays for the up to three
  requests the Anthropic SDK makes of one); a write is repeated only if its answer
  was lost.
* **scoring**: more evidence never makes an account worse; a report agrees with
  itself whatever is in it.

## 2. Modules

| Module | Models | Correspondence |
|---|---|---|
| `OutboundGraph` | `agent/graph.py` and its nodes | a variable per key of `OutboundState` a node reads; `node` is the node that runs next; one action per node (body and the edge after it), several where it can fail in different ways |
| `Campaign` | what an outbound run promises | abstract specification, no counterpart in code |
| `ThreadLock` | `_process_job` around `thread_lock` | `pc` is the job's position between round trips; `lock`, `left` are the Redis key and its TTL |
| `SendCaps` | `check_and_increment` | one action per round trip; `count`, `until` are the counters and their expiry; `dayKey`, `weekKey` the keys built by the call |
| `AutoOutboundGate` | `auto_outbound_gate`, `KillSwitch.is_paused`, `BlocklistEnforcer`, `enqueue_by_event` | extends `SendCaps`, whose `Callers` are the gates; one action per round trip of a gate; people change flags and lists in between |
| `Qualification` | `agent/qualification_graph.py`, its nodes, `handle_qualification_batch` | as `OutboundGraph`; each value is abstracted to the account it was computed for, with the contacts that rankings, recommendations and briefs name |
| `JobPipeline` | the routes of `api/main.py` that enqueue, `worker/queues.py`, `runner.py`, `handlers.py`, `scheduler.py` | `request` is how far the API is with a request (the session commits after the response); `queue`, `job`, `lock`, `gauge` are what their names say; one action per transaction, round trip or step a handler can die between |
| `TokenBucket` | the Lua script of `ratelimit/bucket.py`, `enforce` | `units` is the stored `tokens` in multiples of 1/`RefillSecs`, `last` the stored `last_refill`, `touched` when the hash was written (it expires two periods later); every call brings a clock up to `Skew` away from `now` |
| `ToolCalls` | `tools/`, `llm/budget.py`, the rate limit of `api/middleware.py` | extends `TokenBucket`; a client is a record of what its class does around a request (how often tenacity tries, how often the SDK below sends, whether the limiter is asked inside or outside, whether a token is needed); each call names its plan; `token` is `ZohoSyncTool._access_token`, shared by callers |
| `KillSwitch` | `guardrails/kill_switch.py`, `agent/nodes/rollback_handler.py` and the automation routes of `api/main.py` | one action per Redis command; `at` is the position of each person or asker |
| `Scoring` | `scoring/icp_rules.py`, `timing_rules.py`, `action_rules.py`, with the constants of `config/` | operators, no state; exact arithmetic |
| `Evaluation` | the scores of an account through the graph and through `evaluation/evaluator.py`, the metrics of `evaluation/metrics.py` | an action per account scored |
| `MC*` | instances for TLC | constants, symmetry |
| `*Proofs` | theorems | extend the module they are about; `ToolCallsProofs` holds those of `TokenBucket`, which `ToolCalls` extends, too, `AutoOutboundGateProofs` those of `SendCaps`, and `EvaluationProofs` the lemmas about `Scoring` |

**One action per superstep.** LangGraph runs one node of these graphs at a time and
nothing else touches a run's state, so a node's awaits interleave with nothing in
the graph modules, except with what the outside world holds: the mailbox in
`OutboundGraph` (`Answer` at any moment). A node that writes to two places and fails
in between is split into alternative outcomes (`SenderDelivers`, `SenderSkips`,
`SenderRefused`, `SenderRaises`). The modules about Redis, queues and services
(`ThreadLock`, `SendCaps`, `AutoOutboundGate`, `KillSwitch`, `JobPipeline`,
`ToolCalls`) have one action per round trip, since other processes run between them.

**Who models what twice.** The job around a lock is in `ThreadLock` with the expiry
of the key and in `JobPipeline` without it (there a lock is held until it is
released or its worker dies); a pause is one flag per key in `AutoOutboundGate`,
where the question is the order of the six checks, and flag and reason in
`KillSwitch`, where it is what a person is told. Of the graph a handler runs
`JobPipeline` has the jobs its gate adds (`GateAdds`, for any number of accounts)
and its end; the gate is one step of `Qualification`.

**Data.** A draft is the account, contact, stage and research it was written from; a
score, signal or pain is the account it was found for; a brief is the set of
accounts whose values went into it and the contacts it recommends; contacts are kept
because they can be another account's. That is what the properties compare. Accounts
of `OutboundGraph` are named by their position (ids are distinct). A payload of
`JobPipeline` is the request it stems from and its `thread_id`, which the worker
locks. n8n answers below 400 when it has sent a mail; a higher status says nothing
about it. Text and prompts do not appear; where they decide a branch, both branches
are possible. Scores appear in `Scoring` only: an account is its facts (how its
industry, size, revenue, region and signals match the profile), and the text
matching that finds them is left out.

**Numbers.** The code multiplies floats and cuts them off with `int()` or `round()`.
`Scoring` and `TokenBucket` use exact integers: a token is `RefillSecs` units,
weights are hundredths. Section 6 says where floats differ.

**External parts**, modelled from how the code uses them: LangGraph (supersteps,
recursion limit, a fresh state per thread), BullMQ (a job of a dead worker is
delivered again; a job that raised is failed, since `enqueue` passes no `attempts`),
FastAPI (a session with `yield` ends after the response), Redis (atomic commands,
MULTI, scripts, expiry), tenacity, n8n, Slack, Zoho's tokens.

## 3. Runs

The longest instances (`tools`, `evaluation`, `jobs`) take about two minutes on two
cores. `CHECK_DEADLOCK FALSE` is set where runs, calls and jobs end; `KillSwitch`
and `ToolCalls` never stop and are checked for deadlock.

| Run | Instance | States | What it shows |
|---|---|---|---|
| `outbound` | 3 accounts of which one has no contact, 3 contacts of which 2 share an address, 3 stages, 1 retry, 45 supersteps | 2,127,819 | the safety properties of the graph, and that it implements `Campaign` |
| `lock` | 2 jobs, TTL 2, handlers up to 4 ticks, 1 redelivery | 60,182 | exclusion within the TTL, no unseen overwrite, release spares others, the lock is freed |
| `caps` | 2 callers, 4 days, New Year on day 1 of a 4-day week, limits 1/2/1 | 1,218,613 | bounds on the overshoot, TTLs outlast windows |
| `gate` | 2 gates, 1 account, both pause keys, 1 blocklist, the caps of two days, limits 1/1/1 | 1,231,482 | fail-closed, each trigger is paid |
| `qualification` | batches of 0 and 3 accounts, one with a duplicate, one longer than the recursion limit of 30; 2 contacts; 1 redelivery | 3,492,325 | own turn, review gate, once per delivery, loop visits all and ends |
| `jobs` | 3 requests at a time in 8 combinations, 1 campaign, 3 threads, 4 jobs at once, queues of concurrency 2 (interactive 1), 1 crash, handlers registered or not | 265,372 | gauge, approvals, uploads, refreshes; every other job ends |
| `tools` | 2 callers in five pairs of clients, known and unknown plans, 1 or 2 tokens, refill in 2 seconds, clocks 1 second apart, 5 seconds, 2 OAuth tokens | 491,623 | the limit of a bucket, paid requests, doubled writes, tokens; every call ends |
| `control` | 2 people, 2 askers, both flags, failing commands | 495,548 | a confirmed pause or resume holds |
| `evaluation` | batches of 2 accounts out of a grid around every threshold and range | 282,534 | more evidence ranks no lower, reports agree with themselves |
| `last_stage` | as `outbound`, without the account that has no contact | | finding, section 6 |
| `contact_leak` | as `qualification`, no redelivery | | finding |
| `upload_race` | as `jobs` | | finding |

The properties, by run:

* `outbound`: `MailMatchesApprovedDraft` (no draft, contact, research or approval
  leaks from another account or stage), `MailsInOrder`, `MessagesMatchOutbox` (a
  mail that left is listed in the state and has its row, or n8n or PostgreSQL did
  not confirm it: then it is listed nowhere, and noted as an error while the run is
  with its account; nothing else is listed or has a row), `BatchIsWalked` (the run
  comes to every account, and its supersteps are bounded by the accounts it has come
  to), `NoMailAfterReply`, `ImplementsCampaign`.
* `lock`: `ExclusionWithinTTL`, `NoLostUpdate`, `ReleaseKeepsOthersLock`,
  `LockIsFreed`. The code gives no bound on how long a handler works, so the first
  two say exactly what depends on it: of two holders one has outlived its key, and
  an overwrite needs such a job.
* `caps`: `OvershootBounded` (a cap is exceeded by less than the number of
  concurrent calls, at every moment counting the calls that have passed the check),
  `CountersOutliveWindow`.
* `gate`: `TriggerPassesEveryCheck` (each guardrail was clear at some moment of the
  run; the code promises no more, since it asks one after the other),
  `EveryTriggerIsPaid`.
* `qualification`: `WrittenFromOwnTurn` (scores, signals, pains, value propositions,
  ranking and recommendation are those of the account's own turn, and the contacts
  named are contacts of the batch; that they can be another account's is
  `contact_leak`), `NothingWrittenUnderReview` (per delivery: a redelivery asks the
  model again), `EachAccountOnce` (an account is written once per delivery, a run is
  bounded by the accounts it has come to, and ends at the last one or in a review).
* `jobs`: `GaugeCountsExecutions` (whichever way an execution ends),
  `OutboundOncePerApproval` (a rejection starts nothing, an approval one outbound
  job, plus one per crash between enqueue and the end of the job, whatever other
  events, batches and gates add), `CommittedUploadHasJob` (accounts in the database
  were announced to a worker; the other direction does not hold, see `upload_race`),
  `RefreshesBounded` (a tick keeps one refresh going and not two, but for crashes;
  that it keeps one going for ever is what the code does, see section 6), `JobsEnd`
  (a chain of refreshes keeps no other job waiting for ever).
* `tools`: `GrantsBounded` (what a bucket gives from time 0 to `now` is at most what
  it holds and what flows in, plus the tokens of twice the skew, for the plan that
  is its `Limit`: the only one its calls name, or the largest if the clocks agree),
  `RequestsArePaid` (what a call has sent, its tokens pay for; a call that names no
  plan the limiter knows, a resource without limits and a Redis that fails a client
  that fails open are not metered), `DoubledOnlyByLoss`, `RejectedTokenForgotten`,
  `CallsEnd`.
* `control`: `PauseHolds`, `ResumeHolds`: if the last command confirmed was a pause
  that overlapped no resume, then whoever asks from then on is stopped, told a
  reason, and shown a paused workspace; and the other way round.
* `evaluation`: `RankingFollowsEvidence` (an account with at least the evidence of
  another in every dimension, and a pain score at least as high unless the graph has
  zeroed it, has no lower scores, and is pursued if the other one is, unless its
  confidence is too low), `ReportIsConsistent` (the breakdowns of a report add up to
  its totals, and of a report and one on fewer accounts at most one improves on the
  other).

**Why these bounds are enough.** A leak between accounts needs two accounts, one
between stages two mails: `max_stages = 3` mails two. The shared address gives a
reply of one account to the next, and the third account, without a contact, is
skipped by sender. One retry makes both sides of the retry limit reachable, and 45
supersteps let the give-up loop reach the recursion limit. For the lock, two jobs
suffice for every pair property and a hold of twice the TTL lets the second holder's
key expire as well; a third job was run once with holds up to 3 (10.6 million
states) without a difference. Two callers overshoot each cap; four days hold a
midnight, a New Year inside a week and the expiry of a daily key. `WeekLength` is 4
instead of 7 to keep the calendar short: `Week` and `Life` depend on it as the code
depends on 7. One blocklist stands for three, which are asked in the same loop.
Three surviving accounts are more than thirty supersteps allow and two are not, so
both ends of a run are reached. The limits of 45 and 30 are chosen for this: the
code passes none to `astream`, so LangGraph's own default holds, and the proofs are
for every limit. In `jobs` the queues have room for two jobs instead of 5 to 50: two
executions of one queue, one waiting behind them, and one job beside them in another
queue are what the properties distinguish; the eight combinations pair each kind of
request with the one that can disturb it. Three threads are one that reviews name in
their payload and two that batches make for their graphs. `JobIds` bounds the jobs
that exist at once, not how many there are: ids are used again. In `tools` two
seconds of refill, five seconds of time and a skew of one are enough for a bucket to
run dry, to refill, to expire (after two periods) and to meet a clock that goes
back; the pairs are of clients that differ in what they do: retried by tenacity, by
the SDK or not, with the limiter inside, outside or twice, a shared bucket, a shared
OAuth token, a limiter that fails open. A bucket has one known plan here, since with
two and these clocks it has neither a limit nor finitely many states. In
`evaluation` the decay of signals has 2/6/12 days instead of 14/60/180 and two top
signals count, since TLC's integers have 32 bits and products of weights grow; the
profile's ranges are the real ones. The grid puts accounts on each side of every
boundary.

**Fairness.** `ThreadLock`: `FairSpec` has weak fairness on the passing of time
(`Tick`: Redis expires keys) and on each step of a live job (`JobStep`: the event
loop runs it; awaits on Redis return or raise). `JobPipeline`: weak fairness on each
worker pool taking the next job of its queue (BullMQ polls while a slot is free) and
on each execution (handlers await calls that return or raise, and the graph of a
batch comes to its end: `EachAccountOnce`). `ToolCalls`: weak fairness on each
call's next step (httpx and Redis have timeouts). A worker's death, a request, a
cron tick, a person's command are never assumed to happen, nor not to.

## 4. Proofs

| Theorem | States | For all |
|---|---|---|
| `OutboundGraphProofs!TypeCorrect`, `MailsWereApproved`, `RepliesAreFinal`, `MailsAreOrdered`, `RecordsAgree`, `WalkIsBounded`, `GraphImplementsCampaign` | `TypeOK`, `MailMatchesApprovedDraft`, `NoMailAfterReply`, `MailsInOrder`, `MessagesMatchOutbox`, `BatchIsWalked`, `ImplementsCampaign` | batches, contacts, stages, retries, limits |
| `ThreadLockProofs!TypeCorrect`, `LockExcludes`, `NoSaveIsLost`, `ReleaseIsOwn` | `TypeOK`, `ExclusionWithinTTL`, `NoLostUpdate`, `ReleaseKeepsOthersLock` | jobs, TTL, holds, redeliveries |
| `AutoOutboundGateProofs!CapsTypeCorrect`, `CapsNearlyHold`, `CountersOutlive` | `CapsTypeOK`, `OvershootBounded`, `CountersOutliveWindow` of `SendCaps` | callers, accounts, limits, calendar |
| `AutoOutboundGateProofs!TypeCorrect`, `TriggersAreChecked`, `TriggersArePaid` | `TypeOK`, `TriggerPassesEveryCheck`, `EveryTriggerIsPaid` | gates, accounts, lists of targets, limits, calendar |
| `AutoOutboundGateProofs!GatesUseCaps`, `GatesNearlyKeepCaps`, `GatesCountersOutlive` | every behaviour of `AutoOutboundGate` is one of `SendCaps`, and `OvershootBounded` and `CountersOutliveWindow` hold of it | the same |
| `QualificationProofs!TypeCorrect`, `WritingIsOwn`, `ReviewGatesWriting` | `TypeOK`, `WrittenFromOwnTurn`, `NothingWrittenUnderReview` | batches, contacts, similarity, limits, redeliveries |
| `QualificationProofs!OncePerAccount` | `EachAccountOnce` | the same, batches with distinct ids |
| `JobPipelineProofs!TypeCorrect`, `GaugeCountsAlways`, `CommittedUploadHasJobAlways`, `OutboundOncePerApprovalAlways`, `RefreshesBoundedAlways` | `TypeOK`, `GaugeCountsExecutions`, `CommittedUploadHasJob`, `OutboundOncePerApproval`, `RefreshesBounded` | requests of every type and thread, campaigns, jobs, concurrency, crashes |
| `ToolCallsProofs!BucketKeepsItsLimit`, `CallsKeepTheLimits` | `GrantsBounded` of the buckets alone, and under the tool calls | plans, refill times, skews up to half of the refill time |
| `ToolCallsProofs!CallsUseBuckets` | every behaviour of `ToolCalls` is one of the abstract `BucketSpec` | the same |
| `ToolCallsProofs!CallsTypeCorrect`, `RequestsArePaidAlways`, `DoubledOnlyByLossAlways`, `RejectedTokenForgottenAlways` | `TypeOK`, `RequestsArePaid`, `DoubledOnlyByLoss`, `RejectedTokenForgotten` | callers, clients, plans, tokens |
| `EvaluationProofs!TypeCorrect`, `ReportsAreConsistent` | `TypeOK`, `ReportIsConsistent` | facts of accounts, answers of the model, profiles, decays, thresholds, batches |
| `EvaluationProofs!RankingHolds` | `RankingFollowsEvidence` | the same, rules that disqualify only below the profile |
| `KillSwitchProofs!TypeCorrect`, `PauseHoldsAlways`, `ResumeHoldsAlways` | `TypeOK`, `PauseHolds`, `ResumeHolds` | people, askers, thresholds |

Assumptions are those the modules declare and TLC evaluates: `OutboundAssumption`
(sizes are positive, contacts belong to accounts), `LockAssumption` (the TTL is
positive, `"free"` is no job), `SendCapsAssumption` (callers are finite, limits and
the week positive), `GateAssumption` (no target is asked twice; accounts are
finite), `QualificationAssumption`, `PipelineAssumption` (job ids are finite,
requests ask for what their route lets them, events for any type and thread),
`BucketAssumption` (positive sizes, clocks differ by at most half the refill time,
which is 60 seconds in `ratelimit/bucket.py`), `CallsAssumption`,
`SwitchAssumption`, `ScoringAssumption` (ranges are not empty, a signal is fresh,
then stale, then expired, thresholds are percentages or thousandths),
`EvaluationAssumption` (accounts are facts of the type `Facts`). They only say that
constants have the kind of value the code gives them. Two theorems have a hypothesis
of their own. `RankingHolds` assumes `RulesBelowProfile`: if fewer than 20 employees
disqualify, the profile's range begins at 20 or above, and if no revenue does, the
range of revenues above 0. It begins at 50 and at 5 million (`config/icp.py:28`),
and `MCEvaluation` lets TLC evaluate it; without it an account can be moved to the
middle of the range and be disqualified there. `OncePerAccount` assumes
`DistinctIds`, that no batch names an id twice, as do the batches of its run; what a
repeated id does is in section 5.

How the arguments go:

* **OutboundGraph.** `MailMatchesApprovedDraft` is not inductive: sender mails the
  draft of the state, so the state before sender has to be right. `GraphInv` says,
  for the nodes after researcher, that enrichment, contact and draft are the current
  account's, and that at sender the draft has been approved. `GraphTypes` adds the
  types, without which function and sequence updates mean nothing. `HaltInv` records
  that once an account is halted the graph is at a node from which sender cannot be
  reached without a new account; `RepliesAreFinal` follows. `OrderInv` says that the
  last mail's account and stage are not past the current ones, and strictly before
  the stage at nodes that lead to sender; order then is kept when a mail is
  appended. `GraphImplementsCampaign` maps the initial state and shows for each
  superstep that it is a step of `Campaign` or a stutter, from those three
  invariants. `MessagesMatchOutbox` has two parts (`Matching`, `Noted`). The first
  is inductive with `OrderInv` once the steps are sorted by what they do to the
  records (`RecordSteps`): list a mail, let one leave unconfirmed, mark a row, or
  leave them alone; order makes every mail one of its own. For the second, only
  nodes between two accounts clear the error. `BatchIsWalked` needs a measure:
  `StepsLeft` is how many supersteps the current account can still take from a node,
  stage and retry count, and every step but the give-up loop's pays for itself with
  a lower one (`WalkInv`).
* **ThreadLock.** Exclusion alone says nothing of the key. `HoldersOwnLock` ties
  each holder in time to the key (`lock` is its token and `left = TTL - held`), so
  two of them would own one key. `LateIsNoticed` and `LoadedIsCurrent` carry
  `NoLostUpdate`: until somebody is late, a handler's loaded checkpoint is the
  current one, since nobody else can save.
* **SendCaps.** The bound counts the calls that passed the check of a key and have
  not charged it (`Pending`): passing a check moves one call into the sum while the
  count is below the limit, and charging moves it from one summand to the other.
  Dates are needed because the account key is rebuilt: `FutureEmpty` and
  `HeldKeysPast` say that tomorrow's counters are empty and that nobody holds
  tomorrow's key. `LifeInv` says that a counter's expiry lies behind its window.
* **AutoOutboundGate.** Nothing about the caps is proved again. `GatesUseCaps` shows
  that what the gates and the clock do to the eight shared variables is a behaviour
  of `SendCaps`, for which `TypeOK` ties a gate to its call (`Waits`: a gate is at
  the caps exactly while its call is under way); the theorems about `CapsSpec` then
  hold of the gates. `SeenInv` follows the checks by position: behind the i-th
  target all earlier ones have been seen clear, and a person who changes a flag only
  adds to what was seen. `EveryTriggerIsPaid` is inductive (`Paid`), but adds
  counters over all accounts and days. The sum of the community modules is a
  recursive function, so that it exists, is a number and grows by one with one of
  its terms are lemmas here (`SummingExists`, `SumType`, `SumIncrement`).
* **Qualification.** `ContactsOfBatch` says that contacts, rankings, recommendations
  and briefs name contacts of the batch's accounts only, for the second half of
  `WrittenFromOwnTurn`. `ReviewEndsRun` says that a delivery with a review has
  ended; writers need a running node. `ValuesAreCurrent` says that every value in
  the state is `None` or the current account's; only `select_next_account` and a
  fresh thread change the account, and both clear all values. `TypeOK` needs that
  the current account is in the batch (`CurrentInBatch`): the loop asks for its
  position. For `EachAccountOnce`, `Place` is that position. `WrittenSoFar` says
  that what a delivery has written is about accounts up to it, and about the one at
  it only from `crm_writer` on; `LoopAdvances` that fourteen supersteps per earlier
  account and those up to the node (`Taken`) bound the run; `NoneBeforeReview`
  handles a batch that is empty. `entity_resolver` keeps ids distinct because it
  keeps the survivors in their order (`SurvivorsDistinct`).
* **JobPipeline.** The proof goes in layers, each an invariant that uses those
  before it. `ApiInv` says how far a request is given what it has added. `PoolInv`
  relates queues, jobs and gauges: what is in a queue waits, and is there once; and
  the gauge is the number of executions, which needs the cardinality of a set that
  gains or loses one member. `RestOK` types the locks and histories. `CoreInv` is
  the three together. `JobFacts` says what a job owes its request: it stems from a
  request that has been added, only a batch runs a graph, and of a review stem its
  own job and the outbound it has added, so nothing else a webhook takes can add to
  the count. `OutboundInv` is `OutboundOncePerApproval` made inductive: a review has
  at most one job that is still to decide, and each outbound job beyond the first is
  paid by a crash. `RefreshesBounded` is inductive with these (`AllInv`): a handler
  that adds the next refresh takes itself out of the count, and only a crash takes
  one back that had added its successor.
* **TokenBucket.** `GrantsBounded` speaks of grants and time, the code of `tokens`
  and `last_refill`. `Balanced` ties them: what was granted plus what is left is no
  more than what was there plus what flowed in until the time stored, and the time
  stored is within `Skew` of a real one. A key that expires starts full; the second
  bound of `Balanced` says how little it can have held before, and two periods
  without a touch have refilled that. Both are kept for the `Limit` of a bucket
  only: a smaller plan flows in more slowly than `Balanced` allows, but takes less
  away when a clock goes back, which is why it needs clocks that agree. Products of
  variables are kept from the SMT solver by two lemmas on multiplication.
  `CallsUseBuckets` shows that a step of `ToolCalls` is a step of the buckets or
  leaves them alone, so the limit carries over.
* **ToolCalls.** `CallOK` says for each phase of a call what its tokens still pay
  for (`Paying`: what the current attempt may yet send) and how often its request
  can have been applied, depending on the client's record; the properties follow
  from it. `TokenInv` says that a rejected token is neither cached nor about to be:
  `ClearToken` only clears, and a token that has just been issued is in nobody's
  rejection.
* **KillSwitch.** `settled` names the last command that was confirmed with no
  command of the other kind beside it. `OverlapIsNoticed` and `FlagIsMine` say that
  such a command finds the keys as it has written them, `SettledHolds` that Redis
  then holds them, `BasisIsSettled` and `AskedPaused`, `AskedRunning` follow a
  question from its first round trip to its answer.
* **Evaluation.** The invariant is short: every result is what one of the two ways
  finds for some account and some answer of the model (`EvaluationInv`). What is
  long are the facts about the operators. `ReportIsConsistent` needs that elements
  counted by value are each counted once (`CountedOnce`), that `Largest` takes at
  most k (an item that comes before another has a smaller rank), and that a quotient
  and its rounding stay in their bounds. `RankingFollowsEvidence` is a chain of
  monotonicity: of `div` and of rounding half to even (`RoundMonotone`), of each
  dimension's points (`SizeMonotone`, `RevenueMonotone`, `WordsMonotone`, and
  `MetadataMonotone`, where the longer list is compared with the shorter one
  continued by signals that say nothing), of the weighted sums, and of the timing
  score (`TimingMonotone`). The last is no sum but a mean of at most five recencies,
  and monotone only for the changes `Fresher` names: a fresh signal more replaces at
  most one of the five, one that weighs no more (`LargestOfMore`), so the sum of
  weights grows and what is missing from a recency of 1 does not (`MeanGrows`). The
  rest is that what is not disqualified stays so with more evidence
  (`DisqualifyMonotone`) and that the rule for `pursue_now` asks for lower bounds
  only. The proof found the property to have been too strong: the graph gives a
  disqualified account zeros, pain included, so the pain of the better account is
  compared only where it has not been zeroed.

**Induction.** The library's induction theorems take an operator as parameter, which
the provers cannot instantiate. Where a proof needs induction it is done in
first-order terms: a set of numbers has a least element (`LeastElement`, from the
well-foundedness of `<`), so a non-empty set of bad cases has a smallest one
(`SmallestSubset`, `Steps`), which the step refutes. That is enough for positions in
a batch, for sums over functions (`SumOnSet`: the fold of the community modules is a
recursive function on subsets, and any element may be the one it adds first) and for
the points after each metadata signal.

**Model-checked only.** The liveness properties `LockIsFreed`, `JobsEnd` and
`CallsEnd`: liveness under fairness is out of the prover's reach, as is `ENABLED`.
The three properties that are found violated are, of course, not proved either. No
module has a `RECURSIVE` operator.

## 5. Not modelled, and why

* A worker whose job stalls while it is still alive (a blocked event loop): it would
  go on beside the redelivery. `ThreadLock` and `JobPipeline` have dead workers
  only.
* Resuming a checkpointed run. Nothing in the repository resumes one;
  `brief_reviewer` and `approval_gate` end the run instead of interrupting it.
* `auto_block_unsubscribed`, `mark_for_review`, `list_recent_auto_actions`,
  `link_contacts_to_account`, `brief_notifier`: nothing calls or wires them.
* `get_remaining` only reads.
* ClickHouse records, metrics other than the gauge, and logs: no decision reads
  them.
* `init_tools` and `init_guardrails` are called nowhere outside the demo and the
  tests. The models assume that they have been called; otherwise the first node that
  needs a tool raises. Handlers and schedules are registered nowhere either:
  `JobPipeline` has both cases (`wired`).
* The routes of the API and the admin console that read or write single rows
  (workspaces, users, API keys, reports, exports, embedded pages, settings): one SQL
  statement each, without a state machine. The same holds for most functions of
  `db/queries.py`.
* Webhook dispatch and notifications: one POST per call, nothing retries it.
* Of `evaluation/metrics.py`: `acceptance_rate`, `action_override_rate`,
  `signal_false_positive_rate`, `brief_usefulness_score` (sums over feedback nothing
  in `src/` passes) and `scoring_distribution` (descriptive).
* The text matching behind the scores, URL and name normalization, prompts: string
  functions.
* Pure I/O, the knowledge files, the demo's canned answers, the frontend and the
  deployment files.
* Batches with a repeated id in `EachAccountOnce`: the search in
  `agent/qualification_graph.py:63` finds the first position again and the batch
  goes round until the recursion limit; `account_ids` are not deduplicated on the
  way in.

## 6. Where code and documentation differ

Found by runs that violate what a comment or document says (`PROJECT.json` quotes
the lines):

* `last_stage`: `router` increments the stage and the edge compares the incremented
  value, so the last stage is never drafted.
* `contact_leak`: contacts of the whole batch are ranked for each account, so a
  draft can go to a contact of another account. The three best of them become the
  brief's `recommended_contacts` (`agent/nodes/brief_builder.py:166`), which are
  stored with the account's brief, written to Zoho as its "Top Contacts"
  (`agent/nodes/zoho_writer.py:137`), named in tasks and handed to outbound
  (`worker/handlers.py:219`).
* `upload_race`: an upload adds its job before its session commits, so a quick
  worker runs the batch on bare ids although the handler is there to load the
  uploaded data; and if the commit fails, the job stays.

Seen while reading and present in the models, without a run of their own. In the
graphs:

* `enrichment_retry` promises to stop the sequence past the retry limit
  (`agent/nodes/enrichment_retry.py:4`); its only edge leads back to `researcher`,
  and only the recursion limit ends the loop.
* A database error in `unsubscribe_handler` is logged and the run goes on; the
  unsubscribe is recorded nowhere, though `agent/nodes/unsubscribe_handler.py:3`
  says it must be handled at once.
* `reply_monitor` suggests `pause_sequence` for a reply it cannot classify; `router`
  looks at the intent only and mails the next stage.
* A mail that n8n has sent but answered with 400 or more (a gateway's 504, say,
  `agent/nodes/sender.py:60`), and one whose insert failed, is in no record; no row
  can be marked when its reader unsubscribes.
* An address that unsubscribed is mailed again when another account of the batch has
  a contact with it; `sender` asks no blocklist.
* The first account that needs a review ends the run for the accounts after it
  (`agent/qualification_graph.py:3` has a brief for each).
* `icp_scorer` scores signals that `select_next_account` has just cleared and
  `signal_detector` has yet to find.
* A brief is stored under an id of its own (`agent/nodes/crm_writer.py:151`) while
  the gate enqueues the id in the state.

In the guardrails:

* The daily cap can be exceeded by concurrent calls (`OvershootBounded` is tight);
  `%Y-W%W` splits the week of New Year in two, each with its own weekly cap.
* A pause moved from the workspace key to the global key between the two GETs of
  `is_paused` is not seen.
* `auto_pause_if_needed` is called by nothing, although the repository's
  `README.md:367` lists automatic pausing; `KillSwitch` has it as a command like the
  others.

In jobs and tools:

* `runner.py:103` leaves a lock conflict to BullMQ's retry; jobs have one attempt.
* The lock is never extended, so a handler slower than 30 s shares its thread.
* Nothing in `src/` registers the handlers or starts the schedules;
  `handle_brief_to_outbound` imports `get_seller_brief_by_id` and
  `create_outbound_graph`, which do not exist, and so always raises.
* `signal_refresh` and `brief_refresh` are scheduled every four hours and every week
  (`worker/scheduler.py:27-31`), and their handlers are to re-run signal detection
  and re-generate briefs (`worker/handlers.py:273`, `291`). They only enqueue a job
  of their own type, at once: each cron tick starts a chain that never ends and does
  neither.
* The `brief_to_outbound` jobs that the gate adds for the accounts of one batch
  carry the one thread of the run (`agent/nodes/auto_outbound_gate.py:410`), so of
  two that are taken together the second meets the first one's lock and fails for
  good.
* "Call `rate_limiter.enforce()` before any HTTP call" (`tools/base.py`): the
  Anthropic client keeps the SDK's two retries (`llm/budget.py:56`), which no token
  pays for, and `call_claude` itself asks no limiter.
* The plan of a call is an argument (`agent/nodes/signal_detector.py:77` takes it
  from the campaign's criteria, `tools/apollo_mcp.py:57` has a default). A plan that
  `RATE_LIMITS` does not have passes unlimited (`ratelimit/bucket.py:153`, as
  `tests/unit/test_ratelimit.py:58` of the repository wants), and two plans on one
  bucket have no common limit when clocks differ: what the larger plan's rate adds
  for a second that one clock is ahead, the smaller one's does not take when the
  next clock is behind.
* `tools/zoho_sync.py:164` clears the token and raises "so tenacity can retry";
  tenacity does not retry `ZohoAuthError`.

In scoring and evaluation:

* The label `human_review` of 10 of the 50 test accounts
  (`evaluation/evaluator.py:163`) never equals the action `human_review_required`.
* The evaluator weighs fit, pain and timing .35, .30, .35 and cuts off; the graph
  weighs them .35, .35, .30 and rounds.
* `int()` of the weighted floats is one lower than the exact value for 0.9 % of the
  score triples, `round()` differs for 0.5 %; the model is exact.
* An account with expired signals only has a timing of 20, one without signals 30,
  though `config/action_thresholds.py:44` calls such a signal ignored. An old signal
  more can lower the timing score, and an old one growing older among fresh ones can
  raise it.
* The model's pain score is clipped, its confidence is not: one above 1 passes every
  threshold for a human review. Learning a fact of low confidence can turn
  `pursue_now` into `human_review_required`.
* `precision_at_k` divides by k for batches smaller than k, and
  `scoring_distribution` takes percentiles one place off nearest-rank
  (`evaluation/metrics.py:253`). An empty title of a contact matches anything.

In code that is not modelled: the send-cap overrides of the admin console and
`cool_down_hours` are read by nothing; draft e-mails are never saved though the API
reads their table.

## 7. Plan

The order of modules followed what the system promises to the outside: mails first
(`OutboundGraph`, `Campaign`), then what keeps jobs apart (`ThreadLock`), then what
lets automation through (`SendCaps`, `AutoOutboundGate`), then `Qualification`;
after them the way of a job from the API to its handler (`JobPipeline`), the calls
to the outside (`TokenBucket`, `ToolCalls`), the commands of people (`KillSwitch`)
and the numbers (`Scoring`, `Evaluation`). Next:

1. A composition of qualification, gate and outbound over one account, once
   `handle_brief_to_outbound` can run, with the identity of the brief that is handed
   on; an abstract specification of `Qualification` (accounts in order, each written
   or sent to review) as `Campaign` is for outbound.
2. A stalled worker that goes on beside the redelivery of its job.
