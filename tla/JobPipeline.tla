---------------------------- MODULE JobPipeline ----------------------------
(***************************************************************************)
(* From an API request to the end of the jobs it causes: the routes of     *)
(* src/api/main.py that write accounts or enqueue, the session they run    *)
(* in (deps.py), the four BullMQ queues, _process_job of worker/runner.py  *)
(* with all six handlers, and the schedules.                               *)
(*                                                                         *)
(* A request is made at most once; each upload brings one account, named   *)
(* by its request.  Of a payload the thread is kept; the rest follows from *)
(* the request a job stems from.                                           *)
(* The thread lock is exclusive while its holder lives and expires after   *)
(* its holder died (module ThreadLock has the details).                    *)
(*                                                                         *)
(* Outside src/: BullMQ (first in, first out; a job whose worker died goes *)
(* back to the head; a job that raised is failed for good, since nothing   *)
(* gives it attempts) and FastAPI, which runs the exit of get_session      *)
(* after the response is sent.                                             *)
(***************************************************************************)
EXTENDS Integers, Sequences, FiniteSets

CONSTANTS
  Requests,
  Scenarios,    \* what the requests may ask for: functions from Requests to Asks
  Campaigns, NoCampaign,
  Threads, NoThread,  \* threads of payloads and, as a bound, of graph runs
  JobIds,       \* bound: jobs that exist at once
  Concurrency,  \* QUEUE_CONFIG
  MaxCrashes    \* bound: executions whose worker dies

(* EVENT_ROUTING and QUEUE_CONFIG of worker/queues.py.                     *)
Queues == {"critical", "interactive", "batch", "background"}
Critical == {"approval_response", "positive_reply", "unsubscribe_request",
             "brief_approval", "brief_review"}
Interactive == {"manual_trigger", "report_request", "brief_to_outbound"}
Batch == {"daily_batch", "check_replies", "qualification_batch",
          "daily_rescore", "signal_refresh"}
Background == {"memory_update", "crm_sync", "brief_refresh"}
JobTypes == Critical \cup Interactive \cup Batch \cup Background

EVENT_ROUTING == [t \in JobTypes |->
  CASE t \in Critical -> "critical"
    [] t \in Interactive -> "interactive"
    [] t \in Batch -> "batch"
    [] t \in Background -> "background"]

HANDLER_REGISTRY == {"qualification_batch", "brief_to_outbound", "brief_approval",
                     "daily_rescore", "signal_refresh", "brief_refresh"}

SCHEDULED_JOBS == {"daily_rescore", "signal_refresh", "brief_refresh"}
Refreshes == {"signal_refresh", "brief_refresh"}

(* create: POST /campaigns.  ingest, upload: POST .../accounts with and    *)
(* without trigger_qualification.  start: .../trigger and .../qualify.     *)
(* event: the n8n, approval and brief-approval webhooks.  tick: a cron     *)
(* schedule comes due.                                                     *)
Writers == {"create", "ingest", "upload"}
Calls == Writers \cup {"start", "event", "tick"}
Asks == [call : Calls, type : JobTypes \cup {"unknown"},
         campaign : Campaigns \cup {NoCampaign},
         thread : Threads \cup {NoThread}, approved : BOOLEAN]

ASSUME PipelineAssumption ==
  /\ NoThread \notin Threads /\ NoCampaign \notin Campaigns
  /\ IsFiniteSet(JobIds) /\ 0 \notin JobIds
  /\ Concurrency \in [Queues -> Nat \ {0}]
  /\ MaxCrashes \in Nat
  /\ \A ask \in Scenarios :
       /\ ask \in [Requests -> Asks]
       /\ \A r \in Requests :
            /\ ask[r].call # "event" => ask[r].thread = NoThread
            /\ ask[r].type \in CASE
                 ask[r].call \in {"create", "upload"} -> {"unknown"}
                 [] ask[r].call = "ingest" -> {"qualification_batch"}
                 [] ask[r].call = "start" -> {"qualification_batch", "manual_trigger"}
                 [] ask[r].call = "event" -> JobTypes \cup {"unknown"}
                 [] ask[r].call = "tick" -> SCHEDULED_JOBS

VARIABLES
  ask,          \* what each request asks for
  request,    \* how far the API is with each request
  wired,      \* handlers and schedules are registered: nothing in src/ does it
  queue,      \* waiting jobs of each queue, oldest first
  job,        \* of each job: type, request it stems from, stage, thread_id of
              \* its payload, and thread its qualification graph runs on
  lock,       \* job whose token is under a thread's lock key, or 0
  gauge,      \* JOBS_IN_PROGRESS
  crashes,    \* executions whose worker died
  added,      \* history: requests whose own job has been added
  outbound,   \* history: brief_to_outbound jobs a review has added, per request
  bare        \* history: requests one of whose batches ran on bare ids

api == <<ask, request, wired>>
history == <<added, outbound, bare>>
vars == <<ask, request, wired, queue, job, lock, gauge, crashes, added, outbound, bare>>

Unused == [type |-> "none", of |-> "none", stage |-> "free",
           thread |-> NoThread, run |-> NoThread]
Active == {"locking", "handling", "running", "ended"}

Free == {i \in JobIds : job[i].stage = "free"}
FreeId == CHOOSE i \in Free : TRUE
ActiveIn(q) == {i \in JobIds : job[i].stage \in Active /\ EVENT_ROUTING[job[i].type] = q}

Init ==
  /\ ask \in Scenarios
  /\ request = [r \in Requests |-> "new"]
  /\ wired \in BOOLEAN
  /\ queue = [q \in Queues |-> <<>>]
  /\ job = [i \in JobIds |-> Unused]
  /\ lock = [t \in Threads |-> 0]
  /\ gauge = [q \in Queues |-> 0]
  /\ crashes = 0
  /\ added = {} /\ outbound = [r \in Requests |-> 0] /\ bare = {}
-----------------------------------------------------------------------------
(* enqueue: a job of type t for request r, with thread th in its payload,  *)
(* joins the queue of its type.  jb is what the job pool is otherwise      *)
(* changed to.                                                             *)
Queued(t, r, th) ==
  [type |-> t, of |-> r, stage |-> "queued", thread |-> th, run |-> NoThread]

Enqueue(t, r, th, jb) ==
  /\ Free # {}
  /\ job' = [jb EXCEPT ![FreeId] = Queued(t, r, th)]
  /\ queue' = [queue EXCEPT ![EVENT_ROUTING[t]] = Append(@, FreeId)]

EnqueueOwn(r) ==
  Enqueue(ask[r].type, r, ask[r].thread, job) /\ added' = added \cup {r}

Status(r, s) == request' = [request EXCEPT ![r] = s]

(* get_campaign: somebody's creation of the campaign is committed.         *)
Exists(c) == \E r \in Requests :
  ask[r].call = "create" /\ ask[r].campaign = c /\ request[r] = "committed"

NoJob == UNCHANGED <<queue, job, added>>
WorkerIdle == UNCHANGED <<ask, wired, lock, gauge, crashes, outbound, bare>>

(* create_campaign_route and ingest_accounts_route up to the flush.  What  *)
(* needs no job is answered.                                               *)
Flush(r) ==
  /\ request[r] = "new" /\ ask[r].call \in Writers
  /\ \/ ask[r].call = "create" /\ Status(r, "answered")
     \/ ask[r].call # "create" /\ ~Exists(ask[r].campaign) /\ Status(r, "refused")
     \/ ask[r].call = "upload" /\ Exists(ask[r].campaign) /\ Status(r, "answered")
     \/ ask[r].call = "ingest" /\ Exists(ask[r].campaign) /\ Status(r, "flushed")
  /\ NoJob /\ WorkerIdle

(* Mutant: the rows are committed before the job is added.                 *)
TriggerQualification_CommitsFirst(r) ==
  /\ request[r] = "flushed"
  /\ \/ Status(r, "committed") /\ (EnqueueOwn(r) \/ NoJob)
  /\ WorkerIdle

(* ingest_accounts_route enqueues the batch of what it has flushed.        *)
TriggerQualification(r) ==
  /\ request[r] = "flushed"
  /\ \/ Status(r, "answered") /\ EnqueueOwn(r)
     \/ Status(r, "refused") /\ (EnqueueOwn(r) \/ NoJob)     \* enqueue raises
  /\ WorkerIdle

(* get_session after the response: the commit succeeds or is lost.         *)
Commit(r) ==
  /\ request[r] = "answered" /\ ask[r].call \in Writers
  /\ Status(r, "committed") \/ Status(r, "lost")
  /\ NoJob /\ WorkerIdle

(* trigger_campaign_route, qualify_batch_route.                            *)
StartCampaignJob(r) ==
  /\ request[r] = "new" /\ ask[r].call = "start"
  /\ \/ Exists(ask[r].campaign) /\ Status(r, "answered") /\ EnqueueOwn(r)
     \/ Exists(ask[r].campaign) /\ Status(r, "refused") /\ (EnqueueOwn(r) \/ NoJob)
     \/ ~Exists(ask[r].campaign) /\ Status(r, "refused") /\ NoJob
  /\ WorkerIdle

(* n8n_webhook, which takes an event of any type with any payload,         *)
(* approval_webhook and brief_approval_webhook; enqueue_by_event raises    *)
(* for a type that is not in EVENT_ROUTING.                                *)
Webhook(r) ==
  /\ request[r] = "new" /\ ask[r].call = "event"
  /\ \/ ask[r].type \in JobTypes /\ Status(r, "answered") /\ EnqueueOwn(r)
     \/ ask[r].type \in JobTypes /\ Status(r, "refused") /\ (EnqueueOwn(r) \/ NoJob)
     \/ ask[r].type \notin JobTypes /\ Status(r, "refused") /\ NoJob
  /\ WorkerIdle

(* A repeatable job of register_scheduled_jobs comes due.                  *)
Tick(r) ==
  /\ request[r] = "new" /\ ask[r].call = "tick" /\ wired
  /\ Status(r, "answered") /\ EnqueueOwn(r)
  /\ WorkerIdle
-----------------------------------------------------------------------------
Stage(i, s) == [job EXCEPT ![i].stage = s]
RunOn(i, s, t) == [Stage(i, s) EXCEPT ![i].run = t]
Holds(i, t) == lock[t] = i /\ job[i].thread = t /\ job[i].stage \in Active \ {"locking"}

Gauge(i, n) == gauge' = [gauge EXCEPT ![EVENT_ROUTING[job[i].type]] = @ + n]

(* Mutants: the newest job first; the gauge is raised before the handler   *)
(* is looked up.                                                           *)
Take_Newest(q) ==
  /\ queue[q] # <<>> /\ Cardinality(ActiveIn(q)) < Concurrency[q]
  /\ LET i == queue[q][Len(queue[q])] IN
       IF wired /\ job[i].type \in HANDLER_REGISTRY
       THEN /\ job' = Stage(i, IF job[i].thread = NoThread THEN "handling" ELSE "locking")
            /\ Gauge(i, 1)
       ELSE job' = [job EXCEPT ![i] = Unused] /\ UNCHANGED gauge
  /\ queue' = [queue EXCEPT ![q] = SubSeq(@, 1, Len(@) - 1)]
  /\ UNCHANGED <<api, lock, crashes, history>>

Take_CountsFirst(q) ==
  /\ queue[q] # <<>> /\ Cardinality(ActiveIn(q)) < Concurrency[q]
  /\ LET i == Head(queue[q]) IN
       /\ job' = IF wired /\ job[i].type \in HANDLER_REGISTRY
                 THEN Stage(i, IF job[i].thread = NoThread THEN "handling" ELSE "locking")
                 ELSE [job EXCEPT ![i] = Unused]
       /\ Gauge(i, 1)
  /\ queue' = [queue EXCEPT ![q] = Tail(@)]
  /\ UNCHANGED <<api, lock, crashes, history>>

(* A free worker of the queue takes its oldest job; _process_job fails one *)
(* without a handler before it counts it.                                  *)
Take(q) ==
  /\ queue[q] # <<>> /\ Cardinality(ActiveIn(q)) < Concurrency[q]
  /\ LET i == Head(queue[q]) IN
       IF wired /\ job[i].type \in HANDLER_REGISTRY
       THEN /\ job' = Stage(i, IF job[i].thread = NoThread THEN "handling" ELSE "locking")
            /\ Gauge(i, 1)
       ELSE job' = [job EXCEPT ![i] = Unused] /\ UNCHANGED gauge
  /\ queue' = [queue EXCEPT ![q] = Tail(@)]
  /\ UNCHANGED <<api, lock, crashes, history>>

(* thread_lock: SET NX, or ThreadLockError, which fails the job.           *)
AcquireLock(i) ==
  /\ job[i].stage = "locking"
  /\ lock[job[i].thread] = 0
  /\ lock' = [lock EXCEPT ![job[i].thread] = i]
  /\ job' = Stage(i, "handling")
  /\ UNCHANGED <<api, queue, gauge, crashes, history>>

LockConflict(i) ==
  /\ job[i].stage = "locking"
  /\ lock[job[i].thread] # 0
  /\ job' = [job EXCEPT ![i] = Unused]
  /\ Gauge(i, -1)
  /\ UNCHANGED <<api, queue, lock, crashes, history>>

(* The execution is over: the lock released, the gauge lowered.            *)
Leave(i) ==
  /\ job' = [job EXCEPT ![i] = Unused]
  /\ lock' = [t \in Threads |-> IF Holds(i, t) THEN 0 ELSE lock[t]]
  /\ Gauge(i, -1)
  /\ UNCHANGED <<api, queue, crashes, history>>

Complete(i) == job[i].stage = "ended" /\ Leave(i)

(* Mutant: a job whose handler raised keeps its place.                     *)
Raise_Keeps(i) ==
  /\ job[i].stage \in {"handling", "running"}
  /\ job' = Stage(i, "failed") /\ Gauge(i, -1)
  /\ UNCHANGED <<api, queue, lock, crashes, history>>

(* The handler raises, or Redis does when the lock is asked for: the job   *)
(* is failed and never tried again.  (After the handler's last effect that *)
(* cannot be told from completing.)                                        *)
Raise(i) == job[i].stage \in {"locking", "handling", "running"} /\ Leave(i)
-----------------------------------------------------------------------------
(* The last step of the handler of job i that adds a job of type t, whose  *)
(* payload has no thread.                                                  *)
HandleAndAdd(i, t) ==
  /\ Enqueue(t, job[i].of, NoThread, Stage(i, "ended"))
  /\ UNCHANGED <<api, lock, gauge, crashes, added, bare>>

Handling(i, t) == job[i].stage = "handling" /\ job[i].type = t

(* get_campaign_accounts: what is committed and linked to the campaign.    *)
Uploaded(c) == {u \in Requests :
  /\ ask[u].call \in {"ingest", "upload"} /\ ask[u].campaign = c
  /\ request[u] = "committed"}

(* uuid4: a thread nothing else names.                                     *)
FreshThreads == {t \in Threads :
  /\ lock[t] = 0
  /\ \A i \in JobIds : t \notin {job[i].thread, job[i].run}
  /\ \A r \in Requests : ask[r].thread # t}

(* handle_qualification_batch picks its raw_accounts: the uploads of the   *)
(* campaign, or the bare ids of the payload when there is no campaign, no  *)
(* upload, or the query raises.  It makes a thread for the graph.          *)
LoadAccounts(i) ==
  /\ Handling(i, "qualification_batch")
  /\ FreshThreads # {}
  /\ job' = RunOn(i, "running", CHOOSE t \in FreshThreads : TRUE)
  /\ \/ LET r == job[i].of
         IN  bare' = IF Uploaded(ask[r].campaign) = {} THEN bare \cup {r} ELSE bare
     \/ UNCHANGED bare        \* the query raises
  /\ UNCHANGED <<api, queue, lock, gauge, crashes, added, outbound>>

(* auto_outbound_gate adds a job for one account of the batch, with the    *)
(* thread of the run in its payload; it may for each account of the batch. *)
GateAdds(i) ==
  /\ job[i].stage = "running"
  /\ Enqueue("brief_to_outbound", job[i].of, job[i].run, job)
  /\ UNCHANGED <<api, lock, gauge, crashes, history>>

(* The graph has run to its end.                                           *)
EndGraph(i) ==
  /\ job[i].stage = "running"
  /\ job' = Stage(i, "ended")
  /\ UNCHANGED <<api, queue, lock, gauge, crashes, history>>

Outbound(i) == outbound' = [outbound EXCEPT ![job[i].of] = @ + 1]

(* Mutant: a rejected brief goes on like an approved one.                  *)
DecideBrief_AlwaysOn(i) ==
  /\ Handling(i, "brief_approval")
  /\ HandleAndAdd(i, "brief_to_outbound") /\ Outbound(i)

(* handle_brief_approval: an approved brief goes on to outbound; for a     *)
(* rejected one an event is logged.                                        *)
DecideBrief(i) ==
  /\ Handling(i, "brief_approval")
  /\ \/ /\ ask[job[i].of].approved
        /\ HandleAndAdd(i, "brief_to_outbound") /\ Outbound(i)
     \/ /\ ~ask[job[i].of].approved
        /\ job' = Stage(i, "ended")
        /\ UNCHANGED <<api, queue, lock, gauge, crashes, history>>

(* handle_brief_to_outbound imports get_seller_brief_by_id, which          *)
(* queries.py does not have: it always raises.                             *)
ImportBriefQuery(i) == Handling(i, "brief_to_outbound") /\ Leave(i)

(* handle_daily_rescore, by schedule_daily_rescore, adds one batch without *)
(* a campaign.                                                             *)
Rescore(i) ==
  /\ Handling(i, "daily_rescore")
  /\ HandleAndAdd(i, "qualification_batch") /\ UNCHANGED outbound

(* Mutant: an add whose answer is lost is tried again.                     *)
Refresh_AddsAgain(i) ==
  /\ \E t \in Refreshes : Handling(i, t)
  /\ \/ HandleAndAdd(i, job[i].type) /\ UNCHANGED outbound
     \/ /\ Enqueue(job[i].type, job[i].of, NoThread, job)
        /\ UNCHANGED <<api, lock, gauge, crashes, history>>

(* handle_signal_refresh, handle_brief_refresh: by schedule_signal_refresh *)
(* and schedule_brief_refresh each adds a job of its own type.             *)
Refresh(i) ==
  /\ \E t \in Refreshes : Handling(i, t)
  /\ HandleAndAdd(i, job[i].type) /\ UNCHANGED outbound

(* The worker of job i dies; BullMQ puts the job back at the head of its   *)
(* queue, and its token stays under the lock key.                          *)
Crash(i) ==
  /\ job[i].stage \in Active /\ crashes < MaxCrashes
  /\ crashes' = crashes + 1
  /\ job' = RunOn(i, "queued", NoThread)
  /\ queue' = [queue EXCEPT ![EVENT_ROUTING[job[i].type]] = <<i>> \o @]
  /\ Gauge(i, -1)
  /\ UNCHANGED <<api, lock, history>>

(* The TTL of a lock whose holder is gone.                                 *)
ExpireLock(t) ==
  /\ lock[t] # 0 /\ ~Holds(lock[t], t)
  /\ lock' = [lock EXCEPT ![t] = 0]
  /\ UNCHANGED <<api, queue, job, gauge, crashes, history>>

Request(r) ==
  \/ Flush(r) \/ TriggerQualification(r) \/ Commit(r)
  \/ StartCampaignJob(r) \/ Webhook(r) \/ Tick(r)

Handle(i) ==
  \/ AcquireLock(i) \/ LockConflict(i) \/ LoadAccounts(i) \/ EndGraph(i)
  \/ DecideBrief(i) \/ ImportBriefQuery(i) \/ Rescore(i) \/ Refresh(i)
  \/ Complete(i)

Next ==
  \/ \E r \in Requests : Request(r)
  \/ \E q \in Queues : Take(q)
  \/ \E i \in JobIds : Handle(i) \/ GateAdds(i) \/ Raise(i) \/ Crash(i)
  \/ \E t \in Threads : ExpireLock(t)

Spec == Init /\ [][Next]_vars

(* The workers keep taking jobs, every call a handler makes returns or     *)
(* raises, and a graph comes to its end (its loop is over a batch).        *)
FairSpec ==
  /\ Spec
  /\ \A q \in Queues : WF_vars(Take(q))
  /\ \A i \in JobIds : WF_vars(Handle(i))
-----------------------------------------------------------------------------
Live(r) == {i \in JobIds : job[i].of = r}

(* Every job waits in a queue or is with a worker; no other is kept.       *)
TypeOK ==
  /\ ask \in Scenarios
  /\ request \in [Requests -> {"new", "flushed", "answered", "committed", "lost", "refused"}]
  /\ wired \in BOOLEAN
  /\ queue \in [Queues -> Seq(JobIds)]
  /\ job \in [JobIds -> {Unused} \cup
       [type : JobTypes, of : Requests, stage : {"queued"} \cup Active,
        thread : Threads \cup {NoThread}, run : Threads \cup {NoThread}]]
  /\ lock \in [Threads -> JobIds \cup {0}]
  /\ gauge \in [Queues -> Int]
  /\ crashes \in 0..MaxCrashes
  /\ added \subseteq Requests /\ bare \subseteq Requests
  /\ outbound \in [Requests -> Nat]

(* JOBS_IN_PROGRESS of a queue counts its executions, whichever way they   *)
(* end: completed, raised, refused by a lock, or never counted because no  *)
(* handler was found.                                                      *)
GaugeCountsExecutions ==
  \A q \in Queues : gauge[q] = Cardinality(ActiveIn(q))

(* A reviewer's answer to a brief starts outbound at most once, and a      *)
(* rejection never, whatever other answers, batches and events there are;  *)
(* only a worker that dies after adding the job can double it.             *)
OutboundOncePerApproval ==
  \A r \in Requests : ask[r].type = "brief_approval" =>
    /\ outbound[r] <= IF ask[r].approved THEN 1 + crashes ELSE 0
    /\ \A i \in JobIds :
         job[i].of = r /\ job[i].type = "brief_to_outbound" => outbound[r] > 0

(* Accounts uploaded for qualification are in the database only if the     *)
(* batch that qualifies them has been added: the job is added before the   *)
(* commit.                                                                 *)
CommittedUploadHasJob ==
  \A r \in Requests :
    ask[r].call = "ingest" /\ request[r] = "committed" => r \in added

(* Refresh jobs of a request that have not added their successor yet.      *)
Chains(r) == {i \in JobIds :
  job[i].of = r /\ job[i].type \in Refreshes /\ job[i].stage # "ended"}

(* One schedule or event keeps at most one refresh going: it is replaced   *)
(* by its successor, and a refresh doubles only when a worker dies between *)
(* adding the successor and completing.                                    *)
RefreshesBounded == \A r \in Requests : Cardinality(Chains(r)) <= 1 + crashes

(* Whatever refreshes share its queue, every other job comes to an end.    *)
JobsEnd ==
  \A r \in Requests : Live(r) # {} ~> Live(r) = {} \/ ask[r].type \in Refreshes

(* "When accounts were uploaded directly (no CRM), fetches full account    *)
(* data from DB" (handlers.py): a batch of uploaded accounts never runs    *)
(* on their bare ids.                                                      *)
UploadRunsOnItsData == \A r \in bare : ask[r].call # "ingest"
=============================================================================
