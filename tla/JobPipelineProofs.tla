------------------------- MODULE JobPipelineProofs -------------------------
(***************************************************************************)
(* Theorems about JobPipeline, for any requests, campaigns and threads,    *)
(* any concurrency of the queues and any number of crashes.                *)
(***************************************************************************)
EXTENDS JobPipeline, FiniteSetTheorems, SequenceTheorems, TLAPS

(* Sequences, position by position.                                        *)
LEMMA AppendAt ==
  ASSUME NEW S, NEW s \in Seq(S), NEW e \in S
  PROVE  /\ Append(s, e) \in Seq(S) /\ Len(Append(s, e)) = Len(s) + 1
         /\ \A k \in 1..Len(s) + 1 : Append(s, e)[k] = IF k <= Len(s) THEN s[k] ELSE e
  BY AppendProperties

LEMMA ConsAt ==
  ASSUME NEW S, NEW s \in Seq(S), NEW e \in S
  PROVE  /\ <<e>> \o s \in Seq(S) /\ Len(<<e>> \o s) = Len(s) + 1
         /\ \A k \in 1..Len(s) + 1 : (<<e>> \o s)[k] = IF k = 1 THEN e ELSE s[k - 1]
  OBVIOUS

LEMMA TailAt ==
  ASSUME NEW S, NEW s \in Seq(S), s # <<>>
  PROVE  /\ Head(s) = s[1] /\ Head(s) \in S /\ Len(s) >= 1
         /\ Tail(s) \in Seq(S) /\ Len(Tail(s)) = Len(s) - 1
         /\ \A k \in 1..Len(s) - 1 : Tail(s)[k] = s[k + 1]
  BY HeadTailProperties

AnyThread == Threads \cup {NoThread}
Jobs == [type : JobTypes, of : Requests, stage : {"queued"} \cup Active,
         thread : AnyThread, run : AnyThread]
PoolOK ==
  /\ job \in [JobIds -> {Unused} \cup Jobs]
  /\ queue \in [Queues -> Seq(JobIds)]
  /\ gauge \in [Queues -> Int]

With(j, s, u) ==
  [type |-> j.type, of |-> j.of, stage |-> s, thread |-> j.thread, run |-> u]

(* The fields of a changed job.                                            *)
LEMMA WithFields ==
  ASSUME NEW j, NEW s, NEW u
  PROVE  /\ With(j, s, u).type = j.type /\ With(j, s, u).of = j.of
         /\ With(j, s, u).stage = s
  BY DEF With

LEMMA WithType ==
  ASSUME NEW j \in Jobs, NEW s \in {"queued"} \cup Active, NEW u \in AnyThread
  PROVE  With(j, s, u) \in Jobs
  BY DEF With, Jobs

LEMMA StageAt ==
  ASSUME PoolOK, NEW i \in JobIds, job[i].stage # "free", NEW s \in {"queued"} \cup Active
  PROVE  /\ job[i].run \in AnyThread /\ With(job[i], s, job[i].run) \in Jobs
         /\ Stage(i, s) = [job EXCEPT ![i] = With(job[i], s, job[i].run)]
         /\ \A u \in AnyThread : RunOn(i, s, u) = [job EXCEPT ![i] = With(job[i], s, u)]
<1>1. job[i] \in Jobs /\ job \in [JobIds -> {Unused} \cup Jobs]
  BY DEF PoolOK, Unused
<1>2. [job[i] EXCEPT !.stage = s] = With(job[i], s, job[i].run)
  BY <1>1 DEF Jobs, With
<1>3. job[i].run \in AnyThread
  BY <1>1 DEF Jobs
<1>4. ASSUME NEW u \in AnyThread
      PROVE  RunOn(i, s, u) = [job EXCEPT ![i] = With(job[i], s, u)]
  <2> DEFINE w == With(job[i], s, job[i].run)
  <2>1. Stage(i, s) = [job EXCEPT ![i] = w]
    BY <1>1, <1>2 DEF Stage
  <2>2. [w EXCEPT !.run = u] = With(job[i], s, u)
    BY DEF With
  <2> HIDE DEF w
  <2>3. [[job EXCEPT ![i] = w] EXCEPT ![i].run = u] = [job EXCEPT ![i] = [w EXCEPT !.run = u]]
    BY <1>1
  <2> QED BY <2>1, <2>2, <2>3 DEF RunOn
<1> QED BY <1>1, <1>2, <1>3, <1>4, WithType DEF Stage

LEMMA Routed == \A t \in JobTypes : EVENT_ROUTING[t] \in Queues
  BY DEF EVENT_ROUTING, JobTypes, Critical, Interactive, Batch, Background, Queues

LEMMA FreeIdOK == Free # {} => FreeId \in JobIds /\ job[FreeId].stage = "free"
  BY DEF Free, FreeId
-----------------------------------------------------------------------------
(* What a step can do to the pool of jobs: nothing; add one; take one from *)
(* its queue; move, end or crash one with a worker; end one and add one.   *)
Moves(i, s, u) ==
  /\ job[i].stage \in Active /\ s \in Active /\ u \in AnyThread
  /\ job' = [job EXCEPT ![i] = With(job[i], s, u)] /\ UNCHANGED <<queue, gauge>>
Leaves(i) ==
  /\ job[i].stage \in Active
  /\ job' = [job EXCEPT ![i] = Unused] /\ Gauge(i, -1) /\ UNCHANGED queue
Adds(t, r, th) ==
  /\ t \in JobTypes /\ r \in Requests /\ th \in AnyThread
  /\ Enqueue(t, r, th, job) /\ UNCHANGED gauge
HandsOn(i, t) ==
  /\ job[i].stage \in Active /\ t \in JobTypes
  /\ Enqueue(t, job[i].of, NoThread,
             [job EXCEPT ![i] = With(job[i], "ended", job[i].run)])
  /\ UNCHANGED gauge

(* What the requests may ask for.                                          *)
AskOK ==
  ask \in [Requests -> Asks] /\
  \A r \in Requests :
    /\ ask[r].call = "ingest" => ask[r].type = "qualification_batch"
    /\ ask[r].call = "start" => ask[r].type \in {"qualification_batch", "manual_trigger"}
    /\ ask[r].call = "tick" => ask[r].type \in SCHEDULED_JOBS

LEMMA ScenariosOK == ask \in Scenarios => AskOK
<1> SUFFICES ASSUME ask \in Scenarios PROVE AskOK
  OBVIOUS
<1>1. ask \in [Requests -> Asks]
  BY PipelineAssumption DEF PipelineAssumption
<1>2. ASSUME NEW r \in Requests
      PROVE  /\ ask[r].call = "ingest" => ask[r].type = "qualification_batch"
             /\ ask[r].call = "start" => ask[r].type \in {"qualification_batch", "manual_trigger"}
             /\ ask[r].call = "tick" => ask[r].type \in SCHEDULED_JOBS
  <2>1. ask[r].type \in CASE
            ask[r].call \in {"create", "upload"} -> {"unknown"}
            [] ask[r].call = "ingest" -> {"qualification_batch"}
            [] ask[r].call = "start" -> {"qualification_batch", "manual_trigger"}
            [] ask[r].call = "event" -> JobTypes \cup {"unknown"}
            [] ask[r].call = "tick" -> SCHEDULED_JOBS
    BY PipelineAssumption DEF PipelineAssumption
  <2>2. ask[r].call \in {"create", "upload", "ingest", "start", "event", "tick"}
    BY <1>1 DEF Asks, Calls, Writers
  <2>3. CASE ask[r].call = "ingest" BY <2>1, <2>3
  <2>4. CASE ask[r].call = "start" BY <2>1, <2>4
  <2>5. CASE ask[r].call = "tick" BY <2>1, <2>5
  <2> QED BY <2>2, <2>3, <2>4, <2>5
<1> QED BY <1>1, <1>2 DEF AskOK

LEMMA OwnAdds ==
  ASSUME AskOK, NEW r \in Requests, EnqueueOwn(r), UNCHANGED gauge,
         ask[r].call \in {"ingest", "start", "tick"} \/ ask[r].type \in JobTypes
  PROVE  Adds(ask[r].type, r, ask[r].thread)
<1>1. ask[r].type \in JobTypes
  BY DEF AskOK, JobTypes, Critical, Interactive, Batch, Background, SCHEDULED_JOBS
<1>2. ask[r].thread \in AnyThread
  BY DEF AskOK, Asks, AnyThread
<1> QED BY <1>1, <1>2 DEF EnqueueOwn, Adds

(* How far a request is, and whether its own job has been added.           *)
ApiInv ==
  /\ ask \in Scenarios
  /\ request \in [Requests -> {"new", "flushed", "answered", "committed", "lost", "refused"}]
  /\ wired \in BOOLEAN /\ added \subseteq Requests
  /\ \A r \in Requests :
       /\ request[r] = "flushed" => ask[r].call = "ingest"
       /\ request[r] \in {"new", "flushed"} => r \notin added
       /\ ask[r].call = "ingest" /\ request[r] \in {"answered", "committed"} => r \in added

LEMMA FlushOutcome ==
  ASSUME NEW r \in Requests, Flush(r)
  PROVE  \/ ask[r].call # "ingest" /\ Status(r, "answered")
         \/ Status(r, "refused")
         \/ ask[r].call = "ingest" /\ Status(r, "flushed")
  BY DEF Flush

LEMMA RequestKeepsApi ==
  ASSUME ApiInv, NEW r \in Requests, Request(r)
  PROVE  ApiInv'
<1> USE DEF ApiInv, WorkerIdle, NoJob, EnqueueOwn, Status
<1>1. CASE Flush(r) BY <1>1, FlushOutcome DEF Flush
<1>2. CASE Commit(r) BY <1>2 DEF Commit
<1>3. CASE StartCampaignJob(r) BY <1>3 DEF StartCampaignJob
<1>4. CASE Webhook(r) BY <1>4 DEF Webhook
<1>5. CASE Tick(r) BY <1>5 DEF Tick
<1>6. CASE TriggerQualification(r) BY <1>6 DEF TriggerQualification
<1> QED BY <1>1, <1>2, <1>3, <1>4, <1>5, <1>6 DEF Request

LEMMA RequestShapes ==
  ASSUME ApiInv, NEW r \in Requests, Request(r)
  PROVE  \/ UNCHANGED <<queue, job, gauge, added>>
         \/ /\ Adds(ask[r].type, r, ask[r].thread)
            /\ EnqueueOwn(r) /\ r \notin added
<1> USE DEF WorkerIdle, NoJob
<1>1. AskOK BY ScenariosOK DEF ApiInv
<1>2. CASE Flush(r) \/ Commit(r) BY <1>2 DEF Flush, Commit
<1>3. CASE StartCampaignJob(r) BY <1>1, <1>3, OwnAdds DEF StartCampaignJob, ApiInv
<1>4. CASE Webhook(r) BY <1>1, <1>4, OwnAdds DEF Webhook, ApiInv
<1>5. CASE Tick(r) BY <1>1, <1>5, OwnAdds DEF Tick, ApiInv
<1>6. CASE TriggerQualification(r)
  BY <1>1, <1>6, OwnAdds DEF TriggerQualification, ApiInv
<1> QED BY <1>2, <1>3, <1>4, <1>5, <1>6 DEF Request

(* Which steps a handler takes.                                            *)
Ends(i) == Leaves(i) /\ UNCHANGED outbound
GoesOn(i) == UNCHANGED outbound /\ \E s \in Active, u \in AnyThread : Moves(i, s, u) /\
  \/ s = "handling" /\ job[i].stage = "locking"
  \/ s = "running" /\ job[i].stage = "handling" /\ job[i].type = "qualification_batch"
  \/ /\ s = "ended"
     /\ \/ job[i].type = "brief_approval" /\ job[i].stage = "handling"
        \/ job[i].stage = "running"
AddsForOne(i) ==
  /\ job[i].stage = "running" /\ UNCHANGED outbound
  /\ Adds("brief_to_outbound", job[i].of, job[i].run)
StartsOutbound(i) == HandsOn(i, "brief_to_outbound") /\ Outbound(i) /\
  job[i].type = "brief_approval" /\ job[i].stage = "handling" /\ ask[job[i].of].approved
StartsBatch(i) == UNCHANGED outbound /\ job[i].stage = "handling" /\
  \/ job[i].type = "daily_rescore" /\ HandsOn(i, "qualification_batch")
  \/ job[i].type \in Refreshes /\ HandsOn(i, job[i].type)

HandlerStep(i) ==
  Ends(i) \/ GoesOn(i) \/ AddsForOne(i) \/ StartsOutbound(i) \/ StartsBatch(i)

LEMMA HandleDetail ==
  ASSUME PoolOK, NEW i \in JobIds, Handle(i) \/ GateAdds(i) \/ Raise(i)
  PROVE  UNCHANGED <<api, added, crashes>> /\ HandlerStep(i)
<1> USE DEF Active, history, api, HandlerStep
<1>1. job[i].stage # "free" BY DEF Handle, GateAdds, Raise, AcquireLock, LockConflict,
        LoadAccounts, EndGraph, DecideBrief, ImportBriefQuery, Rescore, Refresh, Complete,
        Handling
<1>2. \A s \in Active : /\ job[i].run \in AnyThread
                        /\ Stage(i, s) = [job EXCEPT ![i] = With(job[i], s, job[i].run)]
  BY <1>1, StageAt
<1>3. CASE AcquireLock(i) BY <1>2, <1>3 DEF AcquireLock, Moves, GoesOn
<1>4. CASE LockConflict(i) BY <1>4 DEF LockConflict, Leaves, Ends
<1>5. CASE LoadAccounts(i)
  <2>1. PICK u \in AnyThread : job' = RunOn(i, "running", u)
    BY <1>5 DEF LoadAccounts, FreshThreads, AnyThread
  <2>2. job' = [job EXCEPT ![i] = With(job[i], "running", u)]
    BY <1>1, <2>1, StageAt DEF Active
  <2> QED BY <1>5, <2>2 DEF LoadAccounts, Handling, Moves, GoesOn
<1>6. ASSUME NEW t \in JobTypes, HandleAndAdd(i, t), job[i].stage = "handling"
      PROVE  HandsOn(i, t) /\ UNCHANGED <<api, added, crashes>>
  BY <1>2, <1>6 DEF HandleAndAdd, HandsOn
<1>7. "brief_to_outbound" \in JobTypes /\ "qualification_batch" \in JobTypes
      /\ Refreshes \subseteq JobTypes
  BY DEF JobTypes, Critical, Interactive, Batch, Background, Refreshes
<1>8. CASE EndGraph(i) BY <1>2, <1>8 DEF EndGraph, Moves, GoesOn
<1>15. CASE GateAdds(i)
  <2>1. job[i].of \in Requests
    BY <1>1 DEF PoolOK, Unused, Jobs
  <2> QED BY <1>2, <1>7, <1>15, <2>1 DEF GateAdds, AddsForOne, Adds
<1>9. CASE DecideBrief(i)
  BY <1>2, <1>6, <1>7, <1>9 DEF DecideBrief, Handling, Moves, GoesOn, StartsOutbound
<1>10. CASE ImportBriefQuery(i)
  BY <1>10 DEF ImportBriefQuery, Handling, Leave, Leaves, Ends
<1>11. CASE Rescore(i) BY <1>6, <1>7, <1>11 DEF Rescore, Handling, StartsBatch
<1>12. CASE Refresh(i) BY <1>6, <1>7, <1>12 DEF Refresh, Handling, StartsBatch
<1>13. CASE Complete(i) BY <1>13 DEF Complete, Leave, Leaves, Ends
<1>14. CASE Raise(i) BY <1>14 DEF Raise, Leave, Leaves, Ends
<1> QED
  BY <1>3, <1>4, <1>5, <1>8, <1>9, <1>10, <1>11, <1>12, <1>13, <1>14, <1>15 DEF Handle
-----------------------------------------------------------------------------
(* Exactly the queued jobs wait, each at one place; the gauges count.      *)
QueueInv ==
  /\ \A q \in Queues : \A k \in 1..Len(queue[q]) : job[queue[q][k]].stage = "queued"
  /\ \A q, p \in Queues : \A k \in 1..Len(queue[q]), l \in 1..Len(queue[p]) :
       queue[q][k] = queue[p][l] => q = p /\ k = l
PoolInv == PoolOK /\ QueueInv /\ GaugeCountsExecutions

(* One job changes, and ActiveIn with it.                                  *)
LEMMA ChangeOne ==
  ASSUME PoolOK, NEW i \in JobIds, NEW j \in {Unused} \cup Jobs,
         job' = [job EXCEPT ![i] = j]
  PROVE  /\ job' \in [JobIds -> {Unused} \cup Jobs]
         /\ \A y \in JobIds : job'[y] = IF y = i THEN j ELSE job[y]
         /\ \A q \in Queues : ActiveIn(q)' =
              IF j.stage \in Active /\ EVENT_ROUTING[j.type] = q
              THEN ActiveIn(q) \cup {i} ELSE ActiveIn(q) \ {i}
<1>1. job \in [JobIds -> {Unused} \cup Jobs]
  BY DEF PoolOK
<1>2. /\ job' \in [JobIds -> {Unused} \cup Jobs]
      /\ \A y \in JobIds : job'[y] = IF y = i THEN j ELSE job[y]
  BY <1>1
<1>3. \A q \in Queues : ActiveIn(q)' =
        {y \in JobIds : job'[y].stage \in Active /\ EVENT_ROUTING[job'[y].type] = q}
  BY DEF ActiveIn
<1> QED BY <1>2, <1>3 DEF ActiveIn

LEMMA ActiveFinite == \A q : IsFiniteSet(ActiveIn(q)) /\ ActiveIn(q) \subseteq JobIds
  BY FS_Subset, PipelineAssumption DEF PipelineAssumption, ActiveIn

(* A gauge falls with the execution that ends.                             *)
LEMMA GaugeFalls ==
  ASSUME PoolOK, GaugeCountsExecutions, NEW i \in JobIds, job[i].stage \in Active,
         Gauge(i, -1), \A q \in Queues : ActiveIn(q)' = ActiveIn(q) \ {i}
  PROVE  gauge' \in [Queues -> Int] /\ GaugeCountsExecutions'
<1> DEFINE e == EVENT_ROUTING[job[i].type]
<1>1. job[i] \in Jobs
  BY DEF PoolOK, Unused, Active
<1>2. e \in Queues
  BY <1>1, Routed DEF Jobs
<1>3. \A q \in Queues : i \in ActiveIn(q) <=> q = e
  BY DEF ActiveIn
<1>4. gauge' \in [Queues -> Int]
      /\ \A q \in Queues : gauge'[q] = IF q = e THEN gauge[q] - 1 ELSE gauge[q]
  BY <1>2 DEF Gauge, PoolOK
<1>5. \A q \in Queues : Cardinality(ActiveIn(q)') =
        IF q = e THEN Cardinality(ActiveIn(q)) - 1 ELSE Cardinality(ActiveIn(q))
  <2> TAKE q \in Queues
  <2>1. CASE q = e BY <1>3, <2>1, ActiveFinite, FS_RemoveElement
  <2>2. CASE q # e
    <3>1. ActiveIn(q)' = ActiveIn(q) BY <1>3, <2>2
    <3> QED BY <2>2, <3>1
  <2> QED BY <2>1, <2>2
<1> QED BY <1>4, <1>5 DEF GaugeCountsExecutions

LEMMA MovesKeep ==
  ASSUME PoolInv, NEW i \in JobIds, NEW s \in Active, NEW u \in AnyThread, Moves(i, s, u)
  PROVE  PoolInv'
<1> DEFINE j == With(job[i], s, u)
<1>1. job[i] \in Jobs /\ j \in Jobs
  <2>1. job[i] \in Jobs BY DEF Moves, PoolInv, PoolOK, Unused, Active
  <2> QED BY <2>1, WithType
<1>2. j.stage \in Active /\ j.type = job[i].type
  BY WithFields
<1> HIDE DEF j
<1>3. /\ job' \in [JobIds -> {Unused} \cup Jobs]
      /\ \A y \in JobIds : job'[y] = IF y = i THEN j ELSE job[y]
      /\ \A q \in Queues : ActiveIn(q)' = ActiveIn(q)
  <2>1. job' = [job EXCEPT ![i] = j]
    BY DEF Moves, j
  <2>2. \A q \in Queues : i \in ActiveIn(q) <=> EVENT_ROUTING[j.type] = q
    BY <1>2 DEF Moves, ActiveIn
  <2>3. PoolOK BY DEF PoolInv
  <2>4. \A q \in Queues : ActiveIn(q)' =
          IF EVENT_ROUTING[j.type] = q THEN ActiveIn(q) \cup {i} ELSE ActiveIn(q) \ {i}
    <3>1. j \in {Unused} \cup Jobs BY <1>1
    <3>2. \A q \in Queues : ActiveIn(q)' =
            IF j.stage \in Active /\ EVENT_ROUTING[j.type] = q
            THEN ActiveIn(q) \cup {i} ELSE ActiveIn(q) \ {i}
      BY ONLY PoolOK, i \in JobIds, <2>1, <2>3, <3>1, ChangeOne
    <3> QED BY <1>2, <3>2
  <2>5. \A q \in Queues : ActiveIn(q)' = ActiveIn(q)
    BY <2>2, <2>4
  <2> QED BY <1>1, <2>1, <2>3, <2>5, ChangeOne
<1>4. PoolOK' BY <1>3 DEF PoolInv, PoolOK, Moves
<1>5. QueueInv'
  <2>1. \A q \in Queues : \A k \in 1..Len(queue[q]) : queue[q][k] \in JobIds /\ queue[q][k] # i
    BY DEF PoolInv, PoolOK, QueueInv, Moves, Active
  <2> QED BY <1>3, <2>1 DEF PoolInv, QueueInv, Moves
<1>6. GaugeCountsExecutions' BY <1>3 DEF PoolInv, GaugeCountsExecutions, Moves
<1> QED BY <1>4, <1>5, <1>6 DEF PoolInv

LEMMA LeavesKeep ==
  ASSUME PoolInv, NEW i \in JobIds, Leaves(i)
  PROVE  PoolInv'
<1>1. /\ job' \in [JobIds -> {Unused} \cup Jobs]
      /\ \A y \in JobIds : job'[y] = IF y = i THEN Unused ELSE job[y]
      /\ \A q \in Queues : ActiveIn(q)' = ActiveIn(q) \ {i}
  <2>1. Unused.stage \notin Active BY DEF Unused, Active
  <2> QED BY <2>1, ChangeOne DEF Leaves, PoolInv
<1>2. gauge' \in [Queues -> Int] /\ GaugeCountsExecutions'
  BY <1>1, GaugeFalls DEF Leaves, PoolInv
<1>3. PoolOK' BY <1>1, <1>2 DEF PoolInv, PoolOK, Leaves
<1>4. QueueInv'
  <2>1. \A q \in Queues : \A k \in 1..Len(queue[q]) : queue[q][k] \in JobIds /\ queue[q][k] # i
    BY DEF PoolInv, PoolOK, QueueInv, Leaves, Active
  <2> QED BY <1>1, <2>1 DEF PoolInv, QueueInv, Leaves
<1> QED BY <1>2, <1>3, <1>4 DEF PoolInv
(* A job that joins a queue: a free one, while at most one other changes.  *)
LEMMA EnqueueKeeps ==
  ASSUME PoolInv, NEW t \in JobTypes, NEW r \in Requests, NEW th \in AnyThread, NEW jb,
         jb \in [JobIds -> {Unused} \cup Jobs], Enqueue(t, r, th, jb), UNCHANGED gauge,
         \A y \in JobIds : (jb[y].stage \in Active <=> job[y].stage \in Active)
           /\ (job[y].stage \in Active => jb[y].type = job[y].type)
           /\ (job[y].stage \notin Active => jb[y] = job[y])
  PROVE  PoolInv'
<1> DEFINE f == FreeId
           new == Queued(t, r, th)
           e == EVENT_ROUTING[t]
<1>1. f \in JobIds /\ job[f].stage = "free" /\ e \in Queues
  BY FreeIdOK, Routed DEF Enqueue
<1>2. new \in Jobs /\ new.stage = "queued"
  BY DEF Jobs, Queued, AnyThread
<1>3. job' = [jb EXCEPT ![f] = new] /\ queue' = [queue EXCEPT ![e] = Append(@, f)]
  BY DEF Enqueue
<1> HIDE DEF new, f, e
<1>4. /\ job' \in [JobIds -> {Unused} \cup Jobs]
      /\ \A y \in JobIds : job'[y] = IF y = f THEN new ELSE jb[y]
  BY <1>1, <1>2, <1>3
<1>5. \A q \in Queues : queue'[q] = IF q = e THEN Append(queue[e], f) ELSE queue[q]
  BY <1>1, <1>3 DEF PoolInv, PoolOK
<1>6. \A q \in Queues : queue[q] \in Seq(JobIds)
  BY DEF PoolInv, PoolOK
<1>7. queue' \in [Queues -> Seq(JobIds)]
  <2>1. \A q \in Queues : queue'[q] \in Seq(JobIds)
    BY <1>1, <1>5, <1>6, AppendAt
  <2> QED BY <1>3, <2>1 DEF PoolInv, PoolOK
<1>8. /\ Len(queue'[e]) = Len(queue[e]) + 1
      /\ \A k \in 1..Len(queue[e]) + 1 : queue'[e][k] = IF k <= Len(queue[e]) THEN queue[e][k] ELSE f
  <2>1. queue[e] \in Seq(JobIds) /\ queue'[e] = Append(queue[e], f)
    BY <1>1, <1>5, <1>6
  <2> QED BY ONLY <1>1, <2>1, AppendAt
<1>9. \A q \in Queues : \A k \in 1..Len(queue[q]) :
        queue[q][k] \in JobIds /\ job[queue[q][k]].stage = "queued" /\ queue[q][k] # f
  BY <1>1, <1>6 DEF PoolInv, QueueInv
<1>10. \A q \in Queues : \A k \in 1..Len(queue[q]) : job'[queue[q][k]].stage = "queued"
  BY <1>4, <1>9 DEF Active
<1>11. \A q \in Queues : Len(queue[q]) \in Nat
  BY <1>6
<1>12. \A q \in Queues : \A k \in 1..Len(queue'[q]) :
         \/ k \in 1..Len(queue[q]) /\ queue'[q][k] = queue[q][k]
         \/ q = e /\ k = Len(queue[e]) + 1 /\ queue'[q][k] = f
  BY <1>1, <1>5, <1>8, <1>11
<1>13. QueueInv'
  <2>1. \A q \in Queues : \A k \in 1..Len(queue'[q]) : job'[queue'[q][k]].stage = "queued"
    BY <1>1, <1>2, <1>4, <1>10, <1>12
  <2>2. ASSUME NEW q \in Queues, NEW p \in Queues, NEW k \in 1..Len(queue'[q]),
               NEW l \in 1..Len(queue'[p]), queue'[q][k] = queue'[p][l]
        PROVE  q = p /\ k = l
    <3>1. \/ k \in 1..Len(queue[q]) /\ queue'[q][k] = queue[q][k]
          \/ q = e /\ k = Len(queue[e]) + 1 /\ queue'[q][k] = f
      BY <1>12
    <3>2. \/ l \in 1..Len(queue[p]) /\ queue'[p][l] = queue[p][l]
          \/ p = e /\ l = Len(queue[e]) + 1 /\ queue'[p][l] = f
      BY <1>12
    <3>3. CASE k \in 1..Len(queue[q]) /\ queue'[q][k] = queue[q][k]
      <4>1. queue'[p][l] # f BY <1>9, <2>2, <3>3
      <4>2. l \in 1..Len(queue[p]) /\ queue[q][k] = queue[p][l] BY <2>2, <3>2, <3>3, <4>1
      <4> QED BY <3>3, <4>2 DEF PoolInv, QueueInv
    <3>4. CASE q = e /\ k = Len(queue[e]) + 1 /\ queue'[q][k] = f
      <4>1. ~(l \in 1..Len(queue[p]) /\ queue'[p][l] = queue[p][l]) BY <1>9, <2>2, <3>4
      <4> QED BY <3>2, <3>4, <4>1
    <3> QED BY <3>1, <3>3, <3>4
  <2> QED BY <2>1, <2>2 DEF QueueInv
<1>14. \A q \in Queues : ActiveIn(q)' = ActiveIn(q)
  <2>1. \A y \in JobIds : (job'[y].stage \in Active <=> job[y].stage \in Active)
          /\ (job[y].stage \in Active => job'[y].type = job[y].type)
    BY <1>1, <1>2, <1>4 DEF Active
  <2> QED BY <2>1 DEF ActiveIn
<1> QED BY <1>4, <1>7, <1>13, <1>14 DEF PoolInv, PoolOK, GaugeCountsExecutions

LEMMA AddsKeep ==
  ASSUME PoolInv, NEW t, NEW r, NEW th, Adds(t, r, th)
  PROVE  PoolInv'
  BY EnqueueKeeps DEF Adds, PoolInv, PoolOK

LEMMA HandsOnKeep ==
  ASSUME PoolInv, NEW i \in JobIds, NEW t, HandsOn(i, t)
  PROVE  PoolInv'
<1> DEFINE j == With(job[i], "ended", job[i].run)
           jb == [job EXCEPT ![i] = j]
<1>1. job[i] \in Jobs /\ j \in Jobs
  <2>1. job[i] \in Jobs BY DEF HandsOn, PoolInv, PoolOK, Unused, Active
  <2>2. job[i].run \in AnyThread /\ "ended" \in Active BY <2>1 DEF Jobs, Active
  <2> QED BY <2>1, <2>2, WithType
<1>2. j.stage \in Active /\ j.type = job[i].type /\ job[i].of \in Requests
  <2>1. j.stage = "ended" /\ j.type = job[i].type BY WithFields
  <2> QED BY <1>1, <2>1 DEF Active, Jobs
<1> HIDE DEF j
<1>3. /\ jb \in [JobIds -> {Unused} \cup Jobs]
      /\ \A y \in JobIds : jb[y] = IF y = i THEN j ELSE job[y]
  BY <1>1 DEF PoolInv, PoolOK
<1>4. /\ Enqueue(t, job[i].of, NoThread, jb) /\ UNCHANGED gauge
      /\ t \in JobTypes /\ job[i].stage \in Active /\ NoThread \in AnyThread
  BY DEF HandsOn, j, AnyThread
<1> HIDE DEF jb
<1> QED BY <1>2, <1>3, <1>4, EnqueueKeeps
(* A job that is put back at the head of its queue, or taken from it.      *)
LEMMA CrashAt ==
  ASSUME PoolOK, NEW i \in JobIds, Crash(i)
  PROVE  job' = [job EXCEPT ![i] = With(job[i], "queued", NoThread)]
<1>1. /\ job[i].stage # "free"
      /\ job' = RunOn(i, "queued", NoThread)
  BY DEF Crash, Active
<1>2. NoThread \in AnyThread BY DEF AnyThread
<1> QED BY <1>1, <1>2, StageAt

LEMMA CrashKeeps ==
  ASSUME PoolInv, NEW i \in JobIds, Crash(i)
  PROVE  PoolInv'
<1> DEFINE j == With(job[i], "queued", NoThread)
           e == EVENT_ROUTING[job[i].type]
<1>1. job[i] \in Jobs /\ j \in Jobs /\ job[i].stage \in Active
  <2>1. job[i] \in Jobs /\ job[i].stage \in Active
    BY DEF Crash, PoolInv, PoolOK, Unused, Active
  <2>2. NoThread \in AnyThread BY DEF AnyThread
  <2> QED BY <2>1, <2>2, WithType
<1>2. j.stage = "queued" /\ j.stage \notin Active /\ e \in Queues
  <2>1. j.stage = "queued" BY WithFields
  <2> QED BY <1>1, <2>1, Routed DEF Active, Jobs
<1>3. job' = [job EXCEPT ![i] = j]
  BY CrashAt DEF PoolInv
<1>4. queue' = [queue EXCEPT ![e] = <<i>> \o @] /\ Gauge(i, -1)
  BY DEF Crash
<1> HIDE DEF j, e
<1>5. /\ job' \in [JobIds -> {Unused} \cup Jobs]
      /\ \A y \in JobIds : job'[y] = IF y = i THEN j ELSE job[y]
      /\ \A q \in Queues : ActiveIn(q)' = ActiveIn(q) \ {i}
  BY <1>1, <1>2, <1>3, ChangeOne DEF PoolInv
<1>6. gauge' \in [Queues -> Int] /\ GaugeCountsExecutions'
  BY <1>1, <1>4, <1>5, GaugeFalls DEF PoolInv
<1>7. \A q \in Queues : queue[q] \in Seq(JobIds) /\ Len(queue[q]) \in Nat
  BY DEF PoolInv, PoolOK
<1>8. \A q \in Queues : queue'[q] = IF q = e THEN <<i>> \o queue[e] ELSE queue[q]
  BY <1>2, <1>4 DEF PoolInv, PoolOK
<1>9. /\ queue'[e] \in Seq(JobIds) /\ Len(queue'[e]) = Len(queue[e]) + 1
      /\ \A k \in 1..Len(queue[e]) + 1 : queue'[e][k] = IF k = 1 THEN i ELSE queue[e][k - 1]
  <2>1. queue[e] \in Seq(JobIds) /\ queue'[e] = <<i>> \o queue[e]
    BY <1>2, <1>7, <1>8
  <2> QED BY ONLY <2>1, ConsAt
<1>10. queue' \in [Queues -> Seq(JobIds)]
  <2>1. \A q \in Queues : queue'[q] \in Seq(JobIds)
    BY <1>7, <1>8, <1>9
  <2> QED BY <1>4, <2>1 DEF PoolInv, PoolOK
<1>11. \A q \in Queues : \A k \in 1..Len(queue[q]) :
         queue[q][k] \in JobIds /\ job[queue[q][k]].stage = "queued" /\ queue[q][k] # i
  BY <1>1, <1>7 DEF PoolInv, QueueInv, Active
<1>12. \A q \in Queues : \A k \in 1..Len(queue'[q]) :
         \/ q # e /\ k \in 1..Len(queue[q]) /\ queue'[q][k] = queue[q][k]
         \/ q = e /\ k - 1 \in 1..Len(queue[q]) /\ queue'[q][k] = queue[q][k - 1]
         \/ q = e /\ k = 1 /\ queue'[q][k] = i
  <2> TAKE q \in Queues
  <2> TAKE k \in 1..Len(queue'[q])
  <2>1. CASE q # e BY <1>7, <1>8, <2>1
  <2>2. CASE q = e BY <1>7, <1>9, <2>2
  <2> QED BY <2>1, <2>2
<1>13. QueueInv'
  <2>1. \A q \in Queues : \A k \in 1..Len(queue'[q]) : job'[queue'[q][k]].stage = "queued"
    <3> TAKE q \in Queues
    <3> TAKE k \in 1..Len(queue'[q])
    <3>1. \/ queue'[q][k] = i
          \/ \E n \in 1..Len(queue[q]) : queue'[q][k] = queue[q][n]
      BY <1>12
    <3>2. CASE queue'[q][k] = i BY <1>2, <1>5, <3>2
    <3>3. ASSUME NEW n \in 1..Len(queue[q]), queue'[q][k] = queue[q][n]
          PROVE  job'[queue'[q][k]].stage = "queued"
      BY <1>5, <1>11, <3>3
    <3> QED BY <3>1, <3>2, <3>3
  <2>2. ASSUME NEW q \in Queues, NEW p \in Queues, NEW k \in 1..Len(queue'[q]),
               NEW l \in 1..Len(queue'[p]), queue'[q][k] = queue'[p][l]
        PROVE  q = p /\ k = l
    <3>1. k \in Int /\ l \in Int
      BY <1>10
    <3>2. \/ q # e /\ k \in 1..Len(queue[q]) /\ queue'[q][k] = queue[q][k]
          \/ q = e /\ k - 1 \in 1..Len(queue[q]) /\ queue'[q][k] = queue[q][k - 1]
          \/ q = e /\ k = 1 /\ queue'[q][k] = i
      BY <1>12
    <3>3. \/ p # e /\ l \in 1..Len(queue[p]) /\ queue'[p][l] = queue[p][l]
          \/ p = e /\ l - 1 \in 1..Len(queue[p]) /\ queue'[p][l] = queue[p][l - 1]
          \/ p = e /\ l = 1 /\ queue'[p][l] = i
      BY <1>12
    <3>4. \A o, m \in Queues : \A a \in 1..Len(queue[o]), b \in 1..Len(queue[m]) :
            queue[o][a] = queue[m][b] => o = m /\ a = b
      BY DEF PoolInv, QueueInv
    <3> HIDE <1>12
    <3>5. CASE queue'[q][k] = i
      BY <1>11, <2>2, <3>2, <3>3, <3>5
    <3>6. CASE queue'[q][k] # i /\ q = e
      BY <2>2, <3>1, <3>2, <3>3, <3>4, <3>6
    <3>7. CASE queue'[q][k] # i /\ q # e
      BY <2>2, <3>1, <3>2, <3>3, <3>4, <3>7
    <3> QED BY <3>5, <3>6, <3>7
  <2> QED BY <2>1, <2>2 DEF QueueInv
<1> QED BY <1>5, <1>6, <1>10, <1>13 DEF PoolInv, PoolOK

(* The queue that loses its head.                                          *)
LEMMA TakeQueue ==
  ASSUME PoolInv, NEW q \in Queues, queue[q] # <<>>,
         queue' = [queue EXCEPT ![q] = Tail(@)]
  PROVE  /\ Head(queue[q]) \in JobIds /\ job[Head(queue[q])].stage = "queued"
         /\ queue' \in [Queues -> Seq(JobIds)]
         /\ \A p \in Queues : \A k \in 1..Len(queue'[p]) :
              /\ queue'[p][k] # Head(queue[q])
              /\ \/ p = q /\ k + 1 \in 1..Len(queue[p]) /\ queue'[p][k] = queue[p][k + 1]
                 \/ p # q /\ k \in 1..Len(queue[p]) /\ queue'[p][k] = queue[p][k]
<1>1. \A p \in Queues : queue[p] \in Seq(JobIds) /\ Len(queue[p]) \in Nat
  BY DEF PoolInv, PoolOK
<1>2. \A p \in Queues : queue'[p] = IF p = q THEN Tail(queue[q]) ELSE queue[p]
  BY DEF PoolInv, PoolOK
<1>3. /\ Head(queue[q]) = queue[q][1] /\ Head(queue[q]) \in JobIds /\ Len(queue[q]) >= 1
      /\ queue'[q] \in Seq(JobIds) /\ Len(queue'[q]) = Len(queue[q]) - 1
      /\ \A k \in 1..Len(queue[q]) - 1 : queue'[q][k] = queue[q][k + 1]
  <2>1. queue[q] \in Seq(JobIds) /\ queue'[q] = Tail(queue[q]) /\ queue[q] # <<>>
    BY <1>1, <1>2
  <2> QED BY ONLY <2>1, TailAt
<1>4. job[Head(queue[q])].stage = "queued"
  BY <1>1, <1>3 DEF PoolInv, QueueInv
<1>5. queue' \in [Queues -> Seq(JobIds)]
  <2>1. \A p \in Queues : queue'[p] \in Seq(JobIds)
    BY <1>1, <1>2, <1>3
  <2> QED BY <2>1 DEF PoolInv, PoolOK
<1>6. ASSUME NEW p \in Queues, NEW k \in 1..Len(queue'[p])
      PROVE  \/ p = q /\ k + 1 \in 1..Len(queue[p]) /\ queue'[p][k] = queue[p][k + 1]
             \/ p # q /\ k \in 1..Len(queue[p]) /\ queue'[p][k] = queue[p][k]
  <2>1. CASE p = q BY <1>1, <1>3, <1>6, <2>1
  <2>2. CASE p # q BY <1>1, <1>2, <1>6, <2>2
  <2> QED BY <2>1, <2>2
<1>7. ASSUME NEW p \in Queues, NEW k \in 1..Len(queue'[p])
      PROVE  queue'[p][k] # queue[q][1]
  <2>1. k \in Int /\ k >= 1 /\ 1 \in 1..Len(queue[q])
    BY <1>1, <1>3, <1>5, <1>7
  <2> QED BY <1>6, <1>7, <2>1 DEF PoolInv, QueueInv
<1> QED BY <1>3, <1>4, <1>5, <1>6, <1>7

LEMMA TakeKeeps ==
  ASSUME PoolInv, NEW q \in Queues, Take(q)
  PROVE  PoolInv'
<1> DEFINE i == Head(queue[q])
           e == EVENT_ROUTING[job[i].type]
<1>1. queue[q] # <<>> /\ queue' = [queue EXCEPT ![q] = Tail(@)]
  BY DEF Take
<1>2. /\ i \in JobIds /\ job[i].stage = "queued"
      /\ queue' \in [Queues -> Seq(JobIds)]
      /\ \A p \in Queues : \A k \in 1..Len(queue'[p]) :
           /\ queue'[p][k] # i
           /\ \/ p = q /\ k + 1 \in 1..Len(queue[p]) /\ queue'[p][k] = queue[p][k + 1]
              \/ p # q /\ k \in 1..Len(queue[p]) /\ queue'[p][k] = queue[p][k]
  BY <1>1, TakeQueue
<1>3. job[i] \in Jobs /\ i \notin UNION {ActiveIn(p) : p \in Queues} /\ e \in Queues
  BY <1>2, Routed DEF PoolInv, PoolOK, Unused, Active, Jobs, ActiveIn
<1>4. PICK j \in {Unused} \cup Jobs :
        /\ job' = [job EXCEPT ![i] = j] /\ j.stage # "queued"
        /\ IF j.stage \in Active THEN j.type = job[i].type /\ Gauge(i, 1)
           ELSE UNCHANGED gauge
  <2>1. CASE wired /\ job[i].type \in HANDLER_REGISTRY
    <3>1. PICK s \in {"handling", "locking"} : job' = Stage(i, s) /\ Gauge(i, 1)
      BY <2>1 DEF Take
    <3> DEFINE w == With(job[i], s, job[i].run)
    <3>2. w \in Jobs /\ job' = [job EXCEPT ![i] = w]
      BY <1>2, <3>1, StageAt DEF PoolInv, Active
    <3>3. w.stage = s /\ w.type = job[i].type
      BY WithFields
    <3> HIDE DEF w
    <3> QED BY <3>1, <3>2, <3>3 DEF Active
  <2>2. CASE ~(wired /\ job[i].type \in HANDLER_REGISTRY)
    BY <2>2 DEF Take, Unused, Active
  <2> QED BY <2>1, <2>2
<1> HIDE DEF i, e
<1>5. PoolOK BY DEF PoolInv
<1>6. /\ job' \in [JobIds -> {Unused} \cup Jobs]
      /\ \A y \in JobIds : job'[y] = IF y = i THEN j ELSE job[y]
      /\ \A p \in Queues : ActiveIn(p)' =
           IF j.stage \in Active /\ EVENT_ROUTING[j.type] = p
           THEN ActiveIn(p) \cup {i} ELSE ActiveIn(p) \ {i}
  BY <1>2, <1>4, <1>5, ChangeOne
<1>7. QueueInv'
  <2>1. \A p \in Queues : Len(queue[p]) \in Nat /\ Len(queue'[p]) \in Nat
    BY <1>2 DEF PoolInv, PoolOK
  <2>2. \A p \in Queues : \A k \in 1..Len(queue[p]) : queue[p][k] \in JobIds
    BY DEF PoolInv, PoolOK
  <2>3. \A p \in Queues : \A k \in 1..Len(queue'[p]) : job'[queue'[p][k]].stage = "queued"
    <3> TAKE p \in Queues
    <3> TAKE k \in 1..Len(queue'[p])
    <3>1. PICK a \in 1..Len(queue[p]) : queue'[p][k] = queue[p][a]
      BY <1>2
    <3>2. queue[p][a] \in JobIds /\ job[queue[p][a]].stage = "queued" /\ queue'[p][k] # i
      BY <1>2, <2>2 DEF PoolInv, QueueInv
    <3> QED BY <1>6, <3>1, <3>2
  <2>4. ASSUME NEW o \in Queues, NEW p \in Queues, NEW k \in 1..Len(queue'[o]),
               NEW l \in 1..Len(queue'[p]), queue'[o][k] = queue'[p][l]
        PROVE  o = p /\ k = l
    <3>1. k \in Int /\ l \in Int
      BY <2>1
    <3>2. \/ o = q /\ k + 1 \in 1..Len(queue[o]) /\ queue'[o][k] = queue[o][k + 1]
          \/ o # q /\ k \in 1..Len(queue[o]) /\ queue'[o][k] = queue[o][k]
      BY <1>2
    <3>3. \/ p = q /\ l + 1 \in 1..Len(queue[p]) /\ queue'[p][l] = queue[p][l + 1]
          \/ p # q /\ l \in 1..Len(queue[p]) /\ queue'[p][l] = queue[p][l]
      BY <1>2
    <3>4. \A n, m \in Queues : \A a \in 1..Len(queue[n]), b \in 1..Len(queue[m]) :
            queue[n][a] = queue[m][b] => n = m /\ a = b
      BY DEF PoolInv, QueueInv
    <3>5. CASE o = q
      BY <2>4, <3>1, <3>2, <3>3, <3>4, <3>5
    <3>6. CASE o # q
      BY <2>4, <3>1, <3>2, <3>3, <3>4, <3>6
    <3> QED BY <3>5, <3>6
  <2> QED BY <2>3, <2>4 DEF QueueInv
<1>8. gauge' \in [Queues -> Int] /\ GaugeCountsExecutions'
  <2>1. CASE j.stage \in Active
    <3>1. gauge' \in [Queues -> Int]
          /\ \A p \in Queues : gauge'[p] = IF p = e THEN gauge[p] + 1 ELSE gauge[p]
      BY <1>3, <1>4, <1>5, <2>1 DEF Gauge, PoolOK, e
    <3>2. \A p \in Queues : Cardinality(ActiveIn(p)') =
            IF p = e THEN Cardinality(ActiveIn(p)) + 1 ELSE Cardinality(ActiveIn(p))
      <4> TAKE p \in Queues
      <4>1. CASE p = e
        <5>1. ActiveIn(p)' = ActiveIn(p) \cup {i} /\ i \notin ActiveIn(p)
          BY <1>3, <1>4, <1>6, <2>1, <4>1 DEF e
        <5> QED BY <4>1, <5>1, ActiveFinite, FS_AddElement
      <4>2. CASE p # e
        <5>1. ActiveIn(p)' = ActiveIn(p)
          BY <1>3, <1>4, <1>6, <2>1, <4>2 DEF e
        <5> QED BY <4>2, <5>1
      <4> QED BY <4>1, <4>2
    <3> QED BY <3>1, <3>2 DEF PoolInv, GaugeCountsExecutions
  <2>2. CASE j.stage \notin Active
    <3>1. \A p \in Queues : ActiveIn(p)' = ActiveIn(p)
      BY <1>3, <1>6, <2>2
    <3> QED BY <1>4, <2>2, <3>1 DEF PoolInv, PoolOK, GaugeCountsExecutions
  <2> QED BY <2>1, <2>2
<1> QED BY <1>2, <1>6, <1>7, <1>8 DEF PoolInv, PoolOK
-----------------------------------------------------------------------------
(* What every step keeps.                                                  *)
RestOK ==
  /\ lock \in [Threads -> JobIds \cup {0}]
  /\ crashes \in 0..MaxCrashes
  /\ bare \subseteq Requests
  /\ outbound \in [Requests -> Nat]
CoreInv == ApiInv /\ PoolInv /\ RestOK

LEMMA CoreInit == Init => CoreInv
<1> SUFFICES ASSUME Init PROVE CoreInv
  OBVIOUS
<1>1. ApiInv BY DEF Init, ApiInv
<1>2. PoolOK BY DEF Init, PoolOK
<1>3. QueueInv BY DEF Init, QueueInv
<1>4. GaugeCountsExecutions
  <2>1. \A q \in Queues : ActiveIn(q) = {}
    BY DEF Init, ActiveIn, Unused, Active
  <2> QED BY <2>1, FS_EmptySet DEF Init, GaugeCountsExecutions
<1>5. RestOK BY PipelineAssumption DEF Init, RestOK, PipelineAssumption
<1> QED BY <1>1, <1>2, <1>3, <1>4, <1>5 DEF CoreInv, PoolInv

LEMMA HandleKeepsRest ==
  ASSUME CoreInv, NEW i \in JobIds, Handle(i) \/ GateAdds(i) \/ Raise(i)
  PROVE  RestOK'
<1> USE DEF RestOK, CoreInv, history
<1>1. job[i].stage # "free" => job[i].of \in Requests
  BY DEF PoolInv, PoolOK, Unused, Jobs
<1>2. CASE AcquireLock(i)
  <2>1. job[i].stage = "locking" /\ lock' = [lock EXCEPT ![job[i].thread] = i]
    BY <1>2 DEF AcquireLock
  <2> QED BY <1>2, <2>1 DEF AcquireLock
<1>3. CASE LockConflict(i) BY <1>3 DEF LockConflict
<1>4. CASE LoadAccounts(i) BY <1>1, <1>4 DEF LoadAccounts, Handling
<1>5. CASE EndGraph(i) \/ GateAdds(i) BY <1>5 DEF EndGraph, GateAdds
<1>6. CASE DecideBrief(i) BY <1>1, <1>6 DEF DecideBrief, HandleAndAdd, Outbound, Handling
<1>7. ASSUME Leave(i) PROVE RestOK'
  BY <1>7 DEF Leave
<1>8. CASE ImportBriefQuery(i) BY <1>7, <1>8 DEF ImportBriefQuery
<1>9. CASE Raise(i) BY <1>7, <1>9 DEF Raise
<1>10. CASE Complete(i) BY <1>7, <1>10 DEF Complete
<1>11. CASE Rescore(i) BY <1>11 DEF Rescore, HandleAndAdd
<1>12. CASE Refresh(i) BY <1>12 DEF Refresh, HandleAndAdd
<1> QED BY <1>2, <1>3, <1>4, <1>5, <1>6, <1>8, <1>9, <1>10, <1>11, <1>12 DEF Handle

LEMMA RequestKeepsRest ==
  ASSUME RestOK, NEW r \in Requests, Request(r)
  PROVE  RestOK'
<1>1. WorkerIdle
  BY DEF Request, Flush, TriggerQualification, Commit, StartCampaignJob, Webhook, Tick
<1> QED BY <1>1 DEF WorkerIdle, RestOK

LEMMA CoreStep == CoreInv /\ [Next]_vars => CoreInv'
<1> SUFFICES ASSUME CoreInv, [Next]_vars PROVE CoreInv'
  OBVIOUS
<1>0. ApiInv /\ UNCHANGED <<ask, request, wired, added>> => ApiInv'
  BY DEF ApiInv
<1>1. ASSUME NEW r \in Requests, Request(r) PROVE CoreInv'
  <2>1. ApiInv' /\ RestOK'
    BY <1>1, RequestKeepsApi, RequestKeepsRest DEF CoreInv
  <2>2. CASE Adds(ask[r].type, r, ask[r].thread)
    BY <2>1, <2>2, AddsKeep DEF CoreInv
  <2>3. CASE UNCHANGED <<queue, job, gauge, added>>
    <3>1. PoolInv'
      BY <2>3 DEF CoreInv, PoolInv, PoolOK, QueueInv, GaugeCountsExecutions, ActiveIn
    <3> QED BY <2>1, <3>1 DEF CoreInv
  <2> QED BY <1>1, <2>2, <2>3, RequestShapes DEF CoreInv
<1>2. ASSUME NEW q \in Queues, Take(q) PROVE CoreInv'
  <2>1. ApiInv' /\ RestOK'
    BY <1>0, <1>2 DEF Take, CoreInv, RestOK, api, history
  <2> QED BY <1>2, <2>1, TakeKeeps DEF CoreInv
<1>3. ASSUME NEW i \in JobIds, Handle(i) \/ GateAdds(i) \/ Raise(i) PROVE CoreInv'
  <2>1. UNCHANGED <<api, added>> /\ HandlerStep(i)
    BY <1>3, HandleDetail DEF CoreInv, PoolInv
  <2>2. PoolInv'
    BY <2>1, LeavesKeep, MovesKeep, AddsKeep, HandsOnKeep
    DEF CoreInv, HandlerStep, Ends, GoesOn, AddsForOne, StartsOutbound, StartsBatch
  <2> QED BY <1>0, <1>3, <2>1, <2>2, HandleKeepsRest DEF CoreInv, api
<1>4. ASSUME NEW i \in JobIds, Crash(i) PROVE CoreInv'
  <2>1. ApiInv' /\ RestOK'
    BY <1>0, <1>4, PipelineAssumption DEF Crash, CoreInv, RestOK, api, history, PipelineAssumption
  <2> QED BY <1>4, <2>1, CrashKeeps DEF CoreInv
<1>5. ASSUME NEW t \in Threads, ExpireLock(t) PROVE CoreInv'
  <2>1. UNCHANGED <<api, queue, job, gauge, crashes, history>> /\ RestOK'
    BY <1>5 DEF ExpireLock, CoreInv, RestOK, history
  <2>2. PoolInv'
    BY <2>1 DEF CoreInv, PoolInv, PoolOK, QueueInv, GaugeCountsExecutions, ActiveIn
  <2> QED BY <1>0, <2>1, <2>2 DEF CoreInv, api, history
<1>6. CASE UNCHANGED vars
  <2>1. PoolInv'
    BY <1>6 DEF vars, CoreInv, PoolInv, PoolOK, QueueInv, GaugeCountsExecutions, ActiveIn
  <2> QED BY <1>0, <1>6, <2>1 DEF vars, CoreInv, RestOK
<1> QED BY <1>1, <1>2, <1>3, <1>4, <1>5, <1>6 DEF Next

THEOREM CoreHolds == Spec => []CoreInv
  BY CoreInit, CoreStep, PTL DEF Spec

(* Every job that exists waits in a queue or is with a worker, and every   *)
(* other variable has its type, whatever is asked and whatever crashes.    *)
THEOREM TypeCorrect == Spec => []TypeOK
<1>1. CoreInv => TypeOK
  BY DEF CoreInv, ApiInv, PoolInv, PoolOK, RestOK, TypeOK, Jobs, AnyThread
<1> QED BY <1>1, CoreHolds, PTL

(* JOBS_IN_PROGRESS of each queue counts its executions: _process_job      *)
(* lowers it once for each time it raised it.                              *)
THEOREM GaugeCountsAlways == Spec => []GaugeCountsExecutions
<1>1. CoreInv => GaugeCountsExecutions
  BY DEF CoreInv, PoolInv
<1> QED BY <1>1, CoreHolds, PTL

(* ingest_accounts_route adds the job before get_session commits, so no    *)
(* committed upload for qualification is without its batch.                *)
THEOREM CommittedUploadHasJobAlways == Spec => []CommittedUploadHasJob
<1>1. CoreInv => CommittedUploadHasJob
  BY DEF CoreInv, ApiInv, CommittedUploadHasJob
<1> QED BY <1>1, CoreHolds, PTL
-----------------------------------------------------------------------------
(* Which jobs stem from an answer to a brief.                              *)
Reviews(r) == ask[r].type = "brief_approval"
FactsOf(j) ==
  /\ j.of \in added
  /\ j.stage = "running" => j.type = "qualification_batch"
  /\ Reviews(j.of) =>
       \/ j.type = "brief_approval"
       \/ j.type = "brief_to_outbound" /\ outbound[j.of] > 0
JobFacts == \A i \in JobIds : job[i].stage # "free" => FactsOf(job[i])

(* The one job that decides for the answer: before it has ended, the       *)
(* doublings are all due to crashes.                                       *)
Decides(i, r) == job[i].stage # "free" /\ job[i].of = r /\ job[i].type = "brief_approval"
OutboundOf(r) ==
  /\ r \notin added => outbound[r] = 0
  /\ outbound[r] <= IF ask[r].approved THEN 1 + crashes ELSE 0
  /\ \A i \in JobIds : Decides(i, r) =>
       /\ job[i].stage # "ended" => outbound[r] <= crashes
       /\ \A y \in JobIds : Decides(y, r) => y = i
OutboundInv == \A r \in Requests : Reviews(r) => OutboundOf(r)

Extra == JobFacts /\ RefreshesBounded /\ OutboundInv
AllInv == CoreInv /\ Extra

(* The pool, job by job, after each kind of step.                          *)
OneJob(i, j) == \A y \in JobIds : job'[y] = IF y = i THEN j ELSE job[y]

LEMMA SetAt ==
  ASSUME PoolOK, NEW i \in JobIds, NEW j, job' = [job EXCEPT ![i] = j]
  PROVE  OneJob(i, j)
  BY DEF PoolOK, OneJob

LEMMA QueuedFields ==
  ASSUME NEW t, NEW r, NEW th
  PROVE  /\ Queued(t, r, th).type = t /\ Queued(t, r, th).of = r
         /\ Queued(t, r, th).stage = "queued"
  BY DEF Queued

LEMMA EnqueueAt ==
  ASSUME NEW t, NEW r, NEW th, NEW jb, DOMAIN jb = JobIds, Enqueue(t, r, th, jb)
  PROVE  /\ FreeId \in JobIds /\ job[FreeId].stage = "free"
         /\ \A y \in JobIds : job'[y] = IF y = FreeId THEN Queued(t, r, th) ELSE jb[y]
<1>1. job' = [jb EXCEPT ![FreeId] = Queued(t, r, th)]
  BY DEF Enqueue
<1>2. FreeId \in JobIds /\ job[FreeId].stage = "free"
  BY FreeIdOK DEF Enqueue
<1> QED BY <1>1, <1>2

LEMMA AddsAt ==
  ASSUME PoolOK, NEW t, NEW r, NEW th, Adds(t, r, th)
  PROVE  \E f \in JobIds : job[f].stage = "free" /\ OneJob(f, Queued(t, r, th))
<1>1. DOMAIN job = JobIds /\ Enqueue(t, r, th, job)
  BY DEF PoolOK, Adds
<1> QED BY <1>1, EnqueueAt DEF OneJob

HandedOn(i, f, t) ==
  /\ job[f].stage = "free" /\ f # i
  /\ job'[f] = Queued(t, job[i].of, NoThread)
  /\ job'[i] = With(job[i], "ended", job[i].run)
  /\ \A y \in JobIds : y # f /\ y # i => job'[y] = job[y]

LEMMA HandsOnAt ==
  ASSUME PoolOK, NEW i \in JobIds, NEW t, HandsOn(i, t)
  PROVE  \E f \in JobIds : HandedOn(i, f, t)
<1> DEFINE jb == [job EXCEPT ![i] = With(job[i], "ended", job[i].run)]
<1>1. /\ DOMAIN jb = JobIds
      /\ \A y \in JobIds :
           jb[y] = IF y = i THEN With(job[i], "ended", job[i].run) ELSE job[y]
  BY DEF PoolOK
<1>2. Enqueue(t, job[i].of, NoThread, jb) /\ job[i].stage # "free"
  BY DEF HandsOn, Active
<1> HIDE DEF jb
<1> QED BY <1>1, <1>2, EnqueueAt DEF HandedOn

LEMMA JobIsTyped ==
  ASSUME PoolOK, NEW i \in JobIds
  PROVE  IF job[i].stage = "free" THEN job[i].type = "none"
         ELSE job[i] \in Jobs /\ job[i].of \in Requests
  BY DEF PoolOK, Unused, Jobs, Active
-----------------------------------------------------------------------------
(* What a step does to the refreshes of a request: at most one for one, or *)
(* one more for a crash.                                                   *)
ChainStep(r) == \E e, f \in JobIds :
  \/ Chains(r)' \subseteq Chains(r)
  \/ Chains(r)' \subseteq Chains(r) \cup {f} /\ crashes' = crashes + 1
  \/ e \in Chains(r) /\ Chains(r)' \subseteq (Chains(r) \ {e}) \cup {f}
  \/ Chains(r)' \subseteq {f}

LEMMA ChainsFinite == \A r : IsFiniteSet(Chains(r)) /\ Cardinality(Chains(r)) \in Nat
<1>1. \A r : Chains(r) \subseteq JobIds
  BY DEF Chains
<1> QED BY <1>1, FS_Subset, FS_CardinalityType, PipelineAssumption DEF PipelineAssumption

LEMMA PutOne ==
  ASSUME NEW S, IsFiniteSet(S), NEW f, NEW T, T \subseteq S \cup {f}
  PROVE  Cardinality(T) <= Cardinality(S) + 1
<1>1. /\ IsFiniteSet(S \cup {f}) /\ Cardinality(S) \in Nat
      /\ Cardinality(S \cup {f}) \in {Cardinality(S), Cardinality(S) + 1}
  BY FS_AddElement, FS_CardinalityType
<1>2. Cardinality(T) <= Cardinality(S \cup {f}) /\ Cardinality(T) \in Nat
  BY <1>1, FS_Subset, FS_CardinalityType
<1> QED BY <1>1, <1>2

LEMMA ChainsKept ==
  ASSUME RefreshesBounded, RestOK, crashes' \in {crashes, crashes + 1},
         \A r \in Requests : ChainStep(r)
  PROVE  RefreshesBounded'
<1> SUFFICES ASSUME NEW r \in Requests
             PROVE  Cardinality(Chains(r)') <= 1 + crashes'
  BY DEF RefreshesBounded
<1> DEFINE C == Chains(r)
           D == Chains(r)'
<1>1. crashes \in Nat /\ crashes' \in Nat /\ crashes <= crashes'
  BY DEF RestOK
<1>2. /\ IsFiniteSet(C) /\ Cardinality(C) \in Nat /\ Cardinality(C) <= 1 + crashes
  BY ChainsFinite DEF RefreshesBounded
<1>3. PICK e, f \in JobIds :
        \/ D \subseteq C
        \/ D \subseteq C \cup {f} /\ crashes' = crashes + 1
        \/ e \in C /\ D \subseteq (C \ {e}) \cup {f}
        \/ D \subseteq {f}
  BY DEF ChainStep
<1>4. Cardinality(D) \in Nat
  <2>1. D \subseteq JobIds
    BY DEF Chains
  <2> QED BY <2>1, FS_Subset, FS_CardinalityType, PipelineAssumption DEF PipelineAssumption
<1> HIDE DEF C, D
<1>5. CASE D \subseteq C
  <2>1. Cardinality(D) <= Cardinality(C)
    BY <1>2, <1>5, FS_Subset
  <2> QED BY <1>1, <1>2, <1>4, <2>1 DEF D
<1>6. CASE D \subseteq C \cup {f} /\ crashes' = crashes + 1
  <2>1. Cardinality(D) <= Cardinality(C) + 1
    BY <1>2, <1>6, PutOne
  <2> QED BY <1>1, <1>2, <1>4, <1>6, <2>1 DEF D
<1>7. CASE e \in C /\ D \subseteq (C \ {e}) \cup {f}
  <2>1. IsFiniteSet(C \ {e}) /\ Cardinality(C \ {e}) = Cardinality(C) - 1
    BY <1>2, <1>7, FS_RemoveElement
  <2>2. Cardinality(D) <= Cardinality(C \ {e}) + 1
    BY <1>7, <2>1, PutOne
  <2> QED BY <1>1, <1>2, <1>4, <2>1, <2>2 DEF D
<1>8. CASE D \subseteq {f}
  <2>1. IsFiniteSet({}) /\ Cardinality({}) = 0 /\ D \subseteq {} \cup {f}
    BY <1>8, FS_EmptySet
  <2>2. Cardinality(D) <= Cardinality({}) + 1
    BY <2>1, PutOne
  <2> QED BY <1>1, <1>4, <2>1, <2>2 DEF D
<1> QED BY <1>3, <1>5, <1>6, <1>7, <1>8

(* A step that moves one job on, or frees it.                              *)
SameJob(i, j) ==
  \/ j.stage = "free" /\ j.type = "none"
  \/ /\ job[i].stage # "free" /\ j.of = job[i].of /\ j.type = job[i].type
     /\ j.stage # "ended" => job[i].stage # "ended" \/ crashes' = crashes + 1
     /\ j.stage = "running" => j.type = "qualification_batch"

LEMMA OneJobStep ==
  ASSUME AllInv, UNCHANGED <<ask, added, outbound>>, crashes' \in {crashes, crashes + 1},
         NEW i \in JobIds, NEW j, OneJob(i, j), SameJob(i, j)
  PROVE  Extra'
<1>1. /\ JobFacts /\ RefreshesBounded /\ OutboundInv /\ RestOK
      /\ crashes \in Nat /\ outbound \in [Requests -> Nat]
  BY DEF AllInv, Extra, CoreInv, RestOK
<1>2. JobFacts'
  <2>1. ASSUME NEW y \in JobIds, job'[y].stage # "free" PROVE FactsOf(job'[y])
    BY <1>1, <2>1 DEF JobFacts, OneJob, SameJob, FactsOf
  <2>2. \A k : FactsOf(k) => FactsOf(k)'
    BY DEF FactsOf, Reviews
  <2> QED BY <2>1 DEF JobFacts, FactsOf, Reviews
<1>3. RefreshesBounded'
  <2>1. ASSUME NEW r \in Requests PROVE ChainStep(r)
    <3>1. "none" \notin Refreshes
      BY DEF Refreshes
    <3>2. CASE crashes' = crashes + 1
      <4>1. Chains(r)' \subseteq Chains(r) \cup {i}
        BY DEF Chains, OneJob
      <4> QED BY <3>2, <4>1 DEF ChainStep
    <3>3. CASE crashes' # crashes + 1
      <4>1. Chains(r)' \subseteq Chains(r)
        BY <3>1, <3>3 DEF Chains, OneJob, SameJob
      <4> QED BY <4>1 DEF ChainStep
    <3> QED BY <3>2, <3>3
  <2> QED BY <1>1, <2>1, ChainsKept
<1>4. OutboundInv'
  <2> SUFFICES ASSUME NEW r \in Requests, Reviews(r)' PROVE OutboundOf(r)'
    BY DEF OutboundInv
  <2>1. OutboundOf(r)
    BY <1>1 DEF OutboundInv, Reviews
  <2>2. outbound[r] <= 1 + crashes /\ outbound[r] \in Nat
    BY <1>1, <2>1 DEF OutboundOf
  <2>3. \A y \in JobIds : Decides(y, r)' => Decides(y, r)
    BY DEF Decides, OneJob, SameJob
  <2>4. \A y \in JobIds : Decides(y, r)' /\ job'[y].stage # "ended" => outbound[r] <= crashes'
    BY <1>1, <2>1, <2>2, <2>3 DEF OneJob, SameJob, Decides, OutboundOf
  <2>5. outbound[r] <= IF ask[r].approved THEN 1 + crashes' ELSE 0
    BY <1>1, <2>1, <2>2 DEF OutboundOf
  <2>6. r \notin added => outbound[r] = 0
    BY <2>1 DEF OutboundOf
  <2>7. \A y, z \in JobIds : Decides(y, r)' /\ Decides(z, r)' => z = y
    BY <2>1, <2>3 DEF OutboundOf
  <2> QED BY <2>4, <2>5, <2>6, <2>7 DEF OutboundOf
<1> QED BY <1>2, <1>3, <1>4 DEF Extra

LEMMA TakeStep ==
  ASSUME AllInv, NEW q \in Queues, Take(q)
  PROVE  Extra'
<1> DEFINE i == Head(queue[q])
<1>0. PoolInv /\ PoolOK
  BY DEF AllInv, CoreInv, PoolInv
<1>1. i \in JobIds /\ job[i].stage = "queued"
  <2>1. queue[q] # <<>> /\ queue' = [queue EXCEPT ![q] = Tail(@)]
    BY DEF Take
  <2> QED BY <1>0, <2>1, TakeQueue
<1>2. UNCHANGED <<ask, added, outbound, crashes>>
  BY DEF Take, api, history
<1>3. PICK j : job' = [job EXCEPT ![i] = j] /\ SameJob(i, j)
  <2>1. CASE wired /\ job[i].type \in HANDLER_REGISTRY
    <3>1. PICK s \in {"handling", "locking"} : job' = Stage(i, s)
      BY <2>1 DEF Take
    <3> DEFINE w == With(job[i], s, job[i].run)
    <3>2. job' = [job EXCEPT ![i] = w]
      BY <1>0, <1>1, <3>1, StageAt DEF Active
    <3>3. w.of = job[i].of /\ w.type = job[i].type /\ w.stage = s
      BY WithFields
    <3> HIDE DEF w
    <3> QED BY <1>1, <3>1, <3>2, <3>3 DEF SameJob
  <2>2. CASE ~(wired /\ job[i].type \in HANDLER_REGISTRY)
    BY <2>2 DEF Take, Unused, SameJob
  <2> QED BY <2>1, <2>2
<1> HIDE DEF i
<1>4. OneJob(i, j)
  BY <1>0, <1>1, <1>3, SetAt
<1> QED BY <1>1, <1>2, <1>3, <1>4, OneJobStep

LEMMA CrashStep ==
  ASSUME AllInv, NEW i \in JobIds, Crash(i)
  PROVE  Extra'
<1> DEFINE j == With(job[i], "queued", NoThread)
<1>1. /\ UNCHANGED <<ask, added, outbound>> /\ crashes' = crashes + 1
      /\ job[i].stage # "free"
  BY DEF Crash, api, history, Active
<1>2. OneJob(i, j)
  <2>1. PoolOK
    BY DEF AllInv, CoreInv, PoolInv
  <2> QED BY <2>1, CrashAt, SetAt
<1>3. SameJob(i, j)
  BY <1>1, WithFields DEF SameJob
<1> HIDE DEF j
<1> QED BY <1>1, <1>2, <1>3, OneJobStep

LEMMA EndsStep ==
  ASSUME AllInv, NEW i \in JobIds, Ends(i), UNCHANGED <<ask, added, crashes>>
  PROVE  Extra'
<1>1. OneJob(i, Unused)
  BY SetAt DEF Ends, Leaves, AllInv, CoreInv, PoolInv
<1>2. SameJob(i, Unused)
  BY DEF SameJob, Unused
<1>3. UNCHANGED outbound
  BY DEF Ends
<1> QED BY <1>1, <1>2, <1>3, OneJobStep

LEMMA GoesOnStep ==
  ASSUME AllInv, NEW i \in JobIds, GoesOn(i), UNCHANGED <<ask, added, crashes>>
  PROVE  Extra'
<1>1. PICK s \in Active, u \in AnyThread :
        /\ Moves(i, s, u)
        /\ \/ s = "handling" /\ job[i].stage = "locking"
           \/ s = "running" /\ job[i].stage = "handling" /\ job[i].type = "qualification_batch"
           \/ /\ s = "ended"
              /\ \/ job[i].type = "brief_approval" /\ job[i].stage = "handling"
                 \/ job[i].stage = "running"
  BY DEF GoesOn
<1> DEFINE j == With(job[i], s, u)
<1>2. OneJob(i, j)
  <2>1. PoolOK /\ job' = [job EXCEPT ![i] = j]
    BY <1>1 DEF Moves, AllInv, CoreInv, PoolInv
  <2> QED BY <2>1, SetAt
<1>3. j.stage = s /\ j.of = job[i].of /\ j.type = job[i].type
  BY WithFields
<1> HIDE DEF j
<1>4. SameJob(i, j)
  BY <1>1, <1>3 DEF SameJob, Moves, Active
<1>5. UNCHANGED outbound
  BY DEF GoesOn
<1> QED BY <1>2, <1>4, <1>5, OneJobStep
-----------------------------------------------------------------------------
(* Steps that add a job for a request that already has one.                *)
LEMMA AddsForOneStep ==
  ASSUME AllInv, NEW i \in JobIds, AddsForOne(i), UNCHANGED <<ask, added, crashes>>
  PROVE  Extra'
<1>0. PICK r : r = job[i].of
  OBVIOUS
<1>1. /\ PoolOK /\ RestOK /\ JobFacts /\ RefreshesBounded /\ OutboundInv
      /\ UNCHANGED outbound /\ job[i].stage = "running"
      /\ Adds("brief_to_outbound", r, job[i].run)
  BY <1>0 DEF AllInv, CoreInv, PoolInv, Extra, AddsForOne
<1>2. FactsOf(job[i])
  BY <1>1 DEF JobFacts
<1> DEFINE new == Queued("brief_to_outbound", r, job[i].run)
<1>3. PICK f \in JobIds : job[f].stage = "free" /\ OneJob(f, new)
  BY <1>1, AddsAt
<1>4. new.type = "brief_to_outbound" /\ new.of = r /\ new.stage = "queued"
  BY QueuedFields
<1> HIDE DEF new
<1>5. FactsOf(new)
  BY <1>0, <1>1, <1>2, <1>4 DEF FactsOf
<1>6. JobFacts'
  <2>1. ASSUME NEW y \in JobIds, job'[y].stage # "free" PROVE FactsOf(job'[y])
    BY <1>1, <1>3, <1>5, <2>1 DEF JobFacts, OneJob
  <2> QED BY <1>1, <2>1 DEF JobFacts, FactsOf, Reviews
<1>7. RefreshesBounded'
  <2>1. ASSUME NEW o \in Requests PROVE ChainStep(o)
    <3>1. Chains(o)' \subseteq Chains(o)
      BY <1>3, <1>4 DEF Chains, OneJob, Refreshes
    <3> QED BY <3>1 DEF ChainStep
  <2> QED BY <1>1, <2>1, ChainsKept
<1>8. \A y \in JobIds, o \in Requests : Decides(y, o)' => Decides(y, o) /\ job'[y] = job[y]
  BY <1>3, <1>4 DEF Decides, OneJob
<1>9. OutboundInv'
  BY <1>1, <1>8 DEF OutboundInv, OutboundOf, Reviews
<1> QED BY <1>6, <1>7, <1>9 DEF Extra

(* Steps that end one job and add another.                                 *)
LEMMA HandsOnStep ==
  ASSUME AllInv, NEW i \in JobIds, NEW t, HandsOn(i, t),
         UNCHANGED <<ask, added, crashes>>,
         job[i].stage = "handling", t \in Refreshes => job[i].type \in Refreshes,
         \A o \in Requests : outbound'[o] \in Nat /\ outbound'[o] >= outbound[o],
         Reviews(job[i].of) => t = "brief_to_outbound" /\ outbound'[job[i].of] > 0
  PROVE  JobFacts' /\ RefreshesBounded'
<1>1. PoolOK /\ RestOK /\ JobFacts /\ RefreshesBounded
      /\ \A o \in Requests : outbound[o] \in Nat
  BY DEF AllInv, CoreInv, PoolInv, Extra, RestOK
<1>2. FactsOf(job[i]) /\ job[i].of \in Requests
  BY <1>1, JobIsTyped DEF JobFacts
<1>0. PICK new, old : /\ new = Queued(t, job[i].of, NoThread)
                      /\ old = With(job[i], "ended", job[i].run)
  OBVIOUS
<1>3. PICK f \in JobIds :
        /\ job[f].stage = "free" /\ f # i /\ job'[f] = new /\ job'[i] = old
        /\ \A y \in JobIds : y # f /\ y # i => job'[y] = job[y]
  BY <1>0, <1>1, HandsOnAt DEF HandedOn
<1>4. new.of = job[i].of /\ new.stage = "queued" /\ new.type = t
  BY <1>0, QueuedFields
<1>5. old.of = job[i].of /\ old.stage = "ended" /\ old.type = job[i].type
  BY <1>0, WithFields
<1>6. ASSUME NEW j, FactsOf(j), j.of \in Requests PROVE FactsOf(j)'
  <2>1. outbound[j.of] > 0 => outbound'[j.of] > 0
    BY <1>1, <1>6
  <2> QED BY <1>6, <2>1 DEF FactsOf, Reviews
<1>7. FactsOf(new)'
  BY <1>2, <1>4 DEF FactsOf, Reviews
<1>8. FactsOf(old)
  BY <1>2, <1>5 DEF FactsOf
<1>9. JobFacts'
  <2>1. ASSUME NEW y \in JobIds, NEW j, j = job'[y], j.stage # "free" PROVE FactsOf(j)'
    <3>1. CASE y = f BY <1>3, <1>7, <2>1, <3>1
    <3>2. CASE y = i
      <4>1. FactsOf(old)' BY <1>2, <1>5, <1>6, <1>8
      <4> QED BY <1>3, <2>1, <3>2, <4>1
    <3>3. CASE y # f /\ y # i
      <4>1. j = job[y] BY <1>3, <2>1, <3>3
      <4>2. FactsOf(job[y]) /\ job[y].of \in Requests
        BY <1>1, <2>1, <4>1, JobIsTyped DEF JobFacts
      <4> QED BY <1>6, <4>1, <4>2
    <3> QED BY <3>1, <3>2, <3>3
  <2> QED BY <2>1 DEF JobFacts, FactsOf, Reviews
<1>10. RefreshesBounded'
  <2>1. ASSUME NEW o \in Requests PROVE ChainStep(o)
    <3>1. Chains(o)' \subseteq (Chains(o) \ {i}) \cup {f}
      BY <1>3, <1>5 DEF Chains
    <3>2. CASE o = job[i].of /\ job[i].type \in Refreshes
      <4>1. i \in Chains(o) BY <3>2 DEF Chains
      <4> QED BY <3>1, <4>1 DEF ChainStep
    <3>3. CASE ~(o = job[i].of /\ job[i].type \in Refreshes)
      <4>1. f \notin Chains(o)'
        BY <1>3, <1>4, <3>3 DEF Chains
      <4> QED BY <3>1, <4>1 DEF ChainStep
    <3> QED BY <3>2, <3>3
  <2> QED BY <1>1, <2>1, ChainsKept
<1> QED BY <1>9, <1>10

LEMMA HandsOnDecides ==
  ASSUME AllInv, NEW i \in JobIds, NEW t, HandsOn(i, t), t # "brief_approval"
  PROVE  \A y \in JobIds, r \in Requests : Decides(y, r)' =>
           Decides(y, r) /\ (job'[y].stage # "ended" => y # i /\ job[y].stage # "ended")
<1>0. PoolOK /\ job[i].stage # "free"
  BY DEF AllInv, CoreInv, PoolInv, HandsOn, Active
<1>1. PICK f \in JobIds : HandedOn(i, f, t)
  BY <1>0, HandsOnAt
<1>2. job'[f].type # "brief_approval"
  BY <1>1, QueuedFields DEF HandedOn
<1>3. job'[i].stage = "ended" /\ job'[i].of = job[i].of /\ job'[i].type = job[i].type
  BY <1>1, WithFields DEF HandedOn
<1> QED BY <1>0, <1>1, <1>2, <1>3 DEF Decides, HandedOn

LEMMA StartsBatchStep ==
  ASSUME AllInv, NEW i \in JobIds, StartsBatch(i), UNCHANGED <<ask, added, crashes>>
  PROVE  Extra'
<1>1. PICK t :
        /\ HandsOn(i, t)
        /\ \/ job[i].type = "daily_rescore" /\ t = "qualification_batch"
           \/ job[i].type \in Refreshes /\ t = job[i].type
  BY DEF StartsBatch
<1>2. /\ FactsOf(job[i]) /\ job[i].stage = "handling" /\ UNCHANGED outbound
      /\ OutboundInv /\ \A o \in Requests : outbound[o] \in Nat
  BY DEF StartsBatch, AllInv, Extra, JobFacts, CoreInv, RestOK
<1>3. t # "brief_approval" /\ ~Reviews(job[i].of) /\ (t \in Refreshes => job[i].type \in Refreshes)
  BY <1>1, <1>2 DEF FactsOf, Refreshes
<1>4. JobFacts' /\ RefreshesBounded'
  BY <1>1, <1>2, <1>3, HandsOnStep
<1>5. \A y \in JobIds, r \in Requests : Decides(y, r)' =>
        Decides(y, r) /\ (job'[y].stage # "ended" => job[y].stage # "ended")
  BY <1>1, <1>3, HandsOnDecides
<1>6. OutboundInv'
  BY <1>2, <1>5 DEF OutboundInv, OutboundOf, Reviews
<1> QED BY <1>4, <1>6 DEF Extra

LEMMA StartsOutboundStep ==
  ASSUME AllInv, NEW i \in JobIds, StartsOutbound(i), UNCHANGED <<ask, added, crashes>>
  PROVE  Extra'
<1>0. PICK r : r = job[i].of
  OBVIOUS
<1>1. /\ HandsOn(i, "brief_to_outbound") /\ job[i].type = "brief_approval"
      /\ job[i].stage = "handling" /\ ask[r].approved
  BY <1>0 DEF StartsOutbound
<1>2. /\ PoolOK /\ JobFacts /\ OutboundInv /\ crashes \in Nat
      /\ outbound \in [Requests -> Nat]
  BY DEF AllInv, CoreInv, PoolInv, Extra, RestOK
<1>3. r \in Requests /\ r \in added
  <2>1. FactsOf(job[i]) BY <1>1, <1>2 DEF JobFacts
  <2> QED BY <1>0, <1>1, <1>2, <2>1, JobIsTyped DEF FactsOf
<1>4. \A o \in Requests : outbound'[o] = IF o = r THEN outbound[r] + 1 ELSE outbound[o]
  BY <1>0, <1>2, <1>3 DEF StartsOutbound, Outbound
<1>5. JobFacts' /\ RefreshesBounded'
  <2>1. \A o \in Requests : outbound'[o] \in Nat /\ outbound'[o] >= outbound[o]
    BY <1>2, <1>4
  <2>2. outbound'[r] > 0 /\ "brief_to_outbound" \notin Refreshes
    BY <1>2, <1>3, <1>4 DEF Refreshes
  <2> QED BY <1>0, <1>1, <2>1, <2>2, HandsOnStep
<1>6. \A y \in JobIds, o \in Requests : Decides(y, o)' =>
        Decides(y, o) /\ (job'[y].stage # "ended" => y # i /\ job[y].stage # "ended")
  BY <1>1, HandsOnDecides
<1>7. Decides(i, r)
  BY <1>0, <1>1 DEF Decides
<1>8. OutboundInv'
  <2> SUFFICES ASSUME NEW o \in Requests, Reviews(o)' PROVE OutboundOf(o)'
    BY DEF OutboundInv
  <2>1. OutboundOf(o)
    BY <1>2 DEF OutboundInv, Reviews
  <2>2. CASE o # r
    <3>1. outbound'[o] = outbound[o]
      BY <1>4, <2>2
    <3> QED BY <1>6, <2>1, <3>1 DEF OutboundOf
  <2>3. CASE o = r
    <3>1. /\ outbound[r] <= crashes
          /\ \A y \in JobIds : Decides(y, r) => y = i
      BY <1>1, <1>7, <2>1, <2>3 DEF OutboundOf
    <3>2. outbound'[r] = outbound[r] + 1 /\ outbound[r] \in Nat
      BY <1>2, <1>3, <1>4
    <3>3. \A y \in JobIds : Decides(y, r)' => y = i /\ job'[y].stage = "ended"
      BY <1>3, <1>6, <3>1
    <3> QED BY <1>1, <1>2, <1>3, <2>3, <3>1, <3>2, <3>3 DEF OutboundOf
  <2> QED BY <2>2, <2>3
<1> QED BY <1>5, <1>8 DEF Extra

LEMMA RequestStep ==
  ASSUME AllInv, NEW r \in Requests, Request(r)
  PROVE  Extra'
<1>1. UNCHANGED <<ask, crashes, outbound>>
  BY DEF Request, Flush, TriggerQualification, Commit, StartCampaignJob, Webhook, Tick, WorkerIdle
<1>2. ApiInv /\ PoolOK /\ RestOK /\ JobFacts /\ RefreshesBounded /\ OutboundInv
      /\ crashes \in Nat
  BY DEF AllInv, CoreInv, PoolInv, Extra, RestOK
<1>3. CASE UNCHANGED <<queue, job, gauge, added>>
  <2>1. \A o : Chains(o)' = Chains(o) /\ OutboundOf(o)' = OutboundOf(o)
    BY <1>1, <1>3 DEF Chains, OutboundOf, Decides
  <2> QED BY <1>1, <1>2, <1>3, <2>1
          DEF Extra, JobFacts, FactsOf, RefreshesBounded, OutboundInv, Reviews
<1>4. CASE Adds(ask[r].type, r, ask[r].thread) /\ EnqueueOwn(r) /\ r \notin added
  <2>0. PICK new : new = Queued(ask[r].type, r, ask[r].thread)
    OBVIOUS
  <2>1. PICK f \in JobIds : job[f].stage = "free" /\ OneJob(f, new)
    BY <1>2, <1>4, <2>0, AddsAt
  <2>2. added' = added \cup {r}
    BY <1>4 DEF EnqueueOwn
  <2>3. new.of = r /\ new.type = ask[r].type /\ new.stage = "queued"
    BY <2>0, QueuedFields
  <2>4. \A y \in JobIds : job[y].stage # "free" => job[y].of # r /\ y # f
    BY <1>2, <1>4, <2>1 DEF JobFacts, FactsOf
  <2>5. \A y \in JobIds : job[y].stage = "free" => job[y].type \notin Refreshes
    BY <1>2, JobIsTyped DEF Refreshes
  <2>6. FactsOf(new)'
    BY <1>1, <2>2, <2>3 DEF FactsOf, Reviews
  <2>7. JobFacts'
    <3>1. ASSUME NEW j, FactsOf(j) PROVE FactsOf(j)'
      BY <1>1, <2>2, <3>1 DEF FactsOf, Reviews
    <3>2. ASSUME NEW y \in JobIds, NEW j, j = job'[y], j.stage # "free" PROVE FactsOf(j)'
      BY <1>2, <2>1, <2>6, <3>1, <3>2 DEF JobFacts, OneJob
    <3> QED BY <3>2 DEF JobFacts, FactsOf, Reviews
  <2>8. RefreshesBounded'
    <3>1. ASSUME NEW o \in Requests PROVE ChainStep(o)
      <4>1. CASE o = r
        <5>1. Chains(r)' \subseteq {f}
          BY <2>1, <2>4, <2>5 DEF Chains, OneJob
        <5> QED BY <4>1, <5>1 DEF ChainStep
      <4>2. CASE o # r
        <5>1. Chains(o)' \subseteq Chains(o)
          BY <2>1, <2>3, <4>2 DEF Chains, OneJob
        <5> QED BY <5>1 DEF ChainStep
      <4> QED BY <4>1, <4>2
    <3> QED BY <1>1, <1>2, <3>1, ChainsKept
  <2>9. OutboundInv'
    <3> SUFFICES ASSUME NEW o \in Requests, Reviews(o)' PROVE OutboundOf(o)'
      BY DEF OutboundInv
    <3>1. OutboundOf(o)
      BY <1>1, <1>2 DEF OutboundInv, Reviews
    <3>2. CASE o # r
      <4>1. \A y \in JobIds : Decides(y, o)' => Decides(y, o) /\ job'[y] = job[y]
        BY <2>1, <2>3, <3>2 DEF Decides, OneJob
      <4> QED BY <1>1, <2>2, <3>1, <3>2, <4>1 DEF OutboundOf
    <3>3. CASE o = r
      <4>1. \A y \in JobIds : Decides(y, r)' => y = f
        BY <2>1, <2>4 DEF Decides, OneJob
      <4>2. outbound[r] = 0
        BY <1>4, <3>1, <3>3 DEF OutboundOf
      <4>3. outbound'[r] <= crashes' /\ outbound'[r] = 0
        BY <1>1, <1>2, <4>2
      <4>4. outbound'[r] <= IF ask'[r].approved THEN 1 + crashes' ELSE 0
        BY <1>1, <1>2, <4>3
      <4> QED BY <3>3, <4>1, <4>3, <4>4 DEF OutboundOf
    <3> QED BY <3>2, <3>3
  <2> QED BY <2>7, <2>8, <2>9 DEF Extra
<1> QED BY <1>2, <1>3, <1>4, RequestShapes

LEMMA AllInit == Init => AllInv
<1> SUFFICES ASSUME Init PROVE Extra
  BY CoreInit DEF AllInv
<1>1. \A i \in JobIds : job[i] = Unused
  BY DEF Init
<1>2. JobFacts
  BY <1>1 DEF JobFacts, Unused
<1>3. RefreshesBounded
  <2>1. \A r \in Requests : Chains(r) = {}
    BY <1>1 DEF Chains, Unused, Refreshes
  <2>2. crashes = 0 BY DEF Init
  <2>3. \A r \in Requests : Cardinality(Chains(r)) = 0
    BY <2>1, FS_EmptySet
  <2> QED BY <2>2, <2>3 DEF RefreshesBounded
<1>4. OutboundInv
  <2>1. \A i \in JobIds : job[i].stage = "free"
    BY <1>1 DEF Unused
  <2> QED BY <2>1 DEF Init, OutboundInv, OutboundOf, Decides
<1> QED BY <1>2, <1>3, <1>4 DEF Extra

LEMMA AllStep == AllInv /\ [Next]_vars => AllInv'
<1> SUFFICES ASSUME AllInv, [Next]_vars PROVE Extra'
  BY CoreStep DEF AllInv
<1>1. ASSUME NEW r \in Requests, Request(r) PROVE Extra'
  BY <1>1, RequestStep
<1>2. ASSUME NEW q \in Queues, Take(q) PROVE Extra'
  BY <1>2, TakeStep
<1>3. ASSUME NEW i \in JobIds, Handle(i) \/ GateAdds(i) \/ Raise(i) PROVE Extra'
  <2>1. UNCHANGED <<ask, added, crashes>> /\ HandlerStep(i)
    BY <1>3, HandleDetail DEF AllInv, CoreInv, PoolInv, api
  <2> QED BY <2>1, EndsStep, GoesOnStep, AddsForOneStep, StartsOutboundStep, StartsBatchStep
          DEF HandlerStep
<1>4. ASSUME NEW i \in JobIds, Crash(i) PROVE Extra'
  BY <1>4, CrashStep
<1>5. CASE (\E t \in Threads : ExpireLock(t)) \/ UNCHANGED vars
  <2>1. UNCHANGED <<ask, job, crashes, added, outbound>>
    BY <1>5 DEF ExpireLock, vars, api, history
  <2>2. \A o : Chains(o)' = Chains(o) /\ OutboundOf(o)' = OutboundOf(o)
    BY <2>1 DEF Chains, OutboundOf, Decides
  <2> QED BY <2>1, <2>2
          DEF AllInv, Extra, JobFacts, FactsOf, RefreshesBounded, OutboundInv, Reviews
<1> QED BY <1>1, <1>2, <1>3, <1>4, <1>5 DEF Next

THEOREM AllHolds == Spec => []AllInv
  BY AllInit, AllStep, PTL DEF Spec

(* handle_brief_approval starts outbound at most once for an approval and  *)
(* never for a rejection, beside any other events, batches and answers;    *)
(* each further time takes a crash of its worker.                          *)
THEOREM OutboundOncePerApprovalAlways == Spec => []OutboundOncePerApproval
<1>1. AllInv => OutboundOncePerApproval
  <2> SUFFICES ASSUME AllInv, NEW r \in Requests, Reviews(r)
               PROVE  /\ outbound[r] <= IF ask[r].approved THEN 1 + crashes ELSE 0
                      /\ \A i \in JobIds :
                           job[i].of = r /\ job[i].type = "brief_to_outbound"
                             => outbound[r] > 0
    BY DEF OutboundOncePerApproval, Reviews
  <2>1. outbound[r] <= IF ask[r].approved THEN 1 + crashes ELSE 0
    BY DEF AllInv, Extra, OutboundInv, OutboundOf
  <2>2. ASSUME NEW i \in JobIds, job[i].of = r, job[i].type = "brief_to_outbound"
        PROVE  outbound[r] > 0
    <3>1. job[i].stage # "free"
      BY <2>2, JobIsTyped DEF AllInv, CoreInv, PoolInv
    <3> QED BY <2>2, <3>1 DEF AllInv, Extra, JobFacts, FactsOf
  <2> QED BY <2>1, <2>2
<1> QED BY <1>1, AllHolds, PTL

(* handle_signal_refresh and handle_brief_refresh replace themselves by    *)
(* one job each: one schedule or event never multiplies into more, except  *)
(* by one for each crash.                                                  *)
THEOREM RefreshesBoundedAlways == Spec => []RefreshesBounded
<1>1. AllInv => RefreshesBounded
  BY DEF AllInv, Extra
<1> QED BY <1>1, AllHolds, PTL
=============================================================================
