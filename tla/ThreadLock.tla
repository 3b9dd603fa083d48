----------------------------- MODULE ThreadLock -----------------------------
(***************************************************************************)
(* Jobs that resume one LangGraph thread: _process_job of                  *)
(* src/worker/runner.py around the Redis lock of src/worker/locks.py.      *)
(*                                                                         *)
(* Lock keys of different threads are independent, so one thread is        *)
(* enough.  A job takes one action per round trip to Redis; its handler    *)
(* loads the thread's checkpoint and later saves it.  Time is the lock's   *)
(* remaining life in ticks.                                                *)
(*                                                                         *)
(* Outside src/: BullMQ (a job whose worker died is stalled and delivered  *)
(* again, MaxStalls times; a job that raised is failed for good, since     *)
(* enqueue gives it no attempts), the checkpointer, and MaxHold, the       *)
(* longest a live worker takes from the SET to the end of the release.     *)
(* Nothing in src/ enforces MaxHold.                                       *)
(***************************************************************************)
EXTENDS Integers, FiniteSets

CONSTANTS
  Jobs,        \* jobs whose payload carries the thread's id
  TTL,         \* ttl of thread_lock
  MaxHold,     \* ticks a job may spend holding the lock
  MaxStalls    \* deliveries BullMQ repeats after a stall

ASSUME LockAssumption ==
  /\ TTL \in Nat \ {0}
  /\ MaxHold \in Nat
  /\ MaxStalls \in Nat
  /\ "free" \notin Jobs

Free == "free"
Token == [job : Jobs, delivery : 0..MaxStalls]
Idle == {"waiting", "complete", "failed", "conflict"}
Holding == {"acquired", "resumed", "saved", "raised"}
Tokens == Token \cup {[job |-> Free, delivery |-> 0]}
NoToken == [job |-> Free, delivery |-> 0]

VARIABLES
  pc,          \* where _process_job is for each job
  delivery,    \* how often BullMQ has redelivered it
  lock,        \* token stored under the lock key
  left,        \* ticks before that key expires
  held,        \* ticks since the job's SET succeeded
  checkpoint,  \* number of saves the thread has seen
  loaded,      \* checkpoint the job's handler loaded
  lost,        \* history: some save overwrote one it had not seen
  overstayed   \* history: some job has held the lock for TTL ticks

history == <<lost, overstayed>>
vars == <<pc, delivery, lock, left, held, checkpoint, loaded, history>>

MyToken(j) == [job |-> j, delivery |-> delivery[j]]
Goto(j, l) == pc' = [pc EXCEPT ![j] = l]

Init ==
  /\ pc = [j \in Jobs |-> "waiting"]
  /\ delivery = [j \in Jobs |-> 0]
  /\ lock = NoToken /\ left = 0
  /\ held = [j \in Jobs |-> 0]
  /\ checkpoint = 0 /\ loaded = [j \in Jobs |-> 0]
  /\ lost = FALSE /\ overstayed = FALSE
-----------------------------------------------------------------------------
(* Mutants: SET without NX, and SET without EX (a key with no TTL has      *)
(* left = 0 and never comes to left = 1).                                  *)
Acquire_Overwrites(j) ==
  /\ pc[j] = "waiting"
  /\ lock' = MyToken(j) /\ left' = TTL
  /\ held' = [held EXCEPT ![j] = 0]
  /\ Goto(j, "acquired")
  /\ UNCHANGED <<delivery, checkpoint, loaded, history>>

Acquire_NoExpiry(j) ==
  /\ pc[j] = "waiting"
  /\ lock = NoToken
  /\ lock' = MyToken(j) /\ left' = 0
  /\ held' = [held EXCEPT ![j] = 0]
  /\ Goto(j, "acquired")
  /\ UNCHANGED <<delivery, checkpoint, loaded, history>>

(* thread_lock: SET NX EX succeeds.                                        *)
Acquire(j) ==
  /\ pc[j] = "waiting"
  /\ lock = NoToken
  /\ lock' = MyToken(j) /\ left' = TTL
  /\ held' = [held EXCEPT ![j] = 0]
  /\ Goto(j, "acquired")
  /\ UNCHANGED <<delivery, checkpoint, loaded, history>>

(* Mutant: the answer of SET is not looked at.                             *)
Conflict_GoesOn(j) ==
  /\ pc[j] = "waiting"
  /\ lock # NoToken
  /\ Goto(j, "acquired")
  /\ held' = [held EXCEPT ![j] = 0]
  /\ UNCHANGED <<delivery, lock, left, checkpoint, loaded, history>>

(* thread_lock: the key exists, ThreadLockError fails the job.             *)
Conflict(j) ==
  /\ pc[j] = "waiting"
  /\ lock # NoToken
  /\ Goto(j, "conflict")
  /\ UNCHANGED <<delivery, lock, left, held, checkpoint, loaded, history>>

(* thread_lock: the reply to SET is lost; the key may have been set.       *)
AcquireRaises(j) ==
  /\ pc[j] = "waiting"
  /\ \/ UNCHANGED <<lock, left>>
     \/ lock = NoToken /\ lock' = MyToken(j) /\ left' = TTL
  /\ Goto(j, "failed")
  /\ UNCHANGED <<delivery, held, checkpoint, loaded, history>>

(* handler: resumes the thread from its latest checkpoint.                 *)
Resume(j) ==
  /\ pc[j] = "acquired"
  /\ loaded' = [loaded EXCEPT ![j] = checkpoint]
  /\ Goto(j, "resumed")
  /\ UNCHANGED <<delivery, lock, left, held, checkpoint, history>>

(* handler: its run of the graph saves the thread and returns.             *)
Save(j) ==
  /\ pc[j] = "resumed"
  /\ checkpoint' = checkpoint + 1
  /\ lost' = (lost \/ loaded[j] # checkpoint)
  /\ Goto(j, "saved")
  /\ UNCHANGED <<delivery, lock, left, held, loaded, overstayed>>

(* handler: raises, before or after it has resumed the thread.             *)
HandlerRaises(j) ==
  /\ pc[j] \in {"acquired", "resumed"}
  /\ Goto(j, "raised")
  /\ UNCHANGED <<delivery, lock, left, held, checkpoint, loaded, history>>

(* Mutant: DEL without the comparison.                                     *)
Release_Deletes(j) ==
  /\ pc[j] \in {"saved", "raised"}
  /\ lock' = NoToken /\ left' = 0
  /\ Goto(j, IF pc[j] = "saved" THEN "complete" ELSE "failed")
  /\ UNCHANGED <<delivery, held, checkpoint, loaded, history>>

(* thread_lock: compare-and-delete in one script, then the job ends.       *)
Release(j) ==
  /\ pc[j] \in {"saved", "raised"}
  /\ IF lock = MyToken(j)
     THEN lock' = NoToken /\ left' = 0
     ELSE UNCHANGED <<lock, left>>
  /\ Goto(j, IF pc[j] = "saved" THEN "complete" ELSE "failed")
  /\ UNCHANGED <<delivery, held, checkpoint, loaded, history>>

(* thread_lock: the release script raises, before or after it has run.     *)
ReleaseRaises(j) ==
  /\ pc[j] \in {"saved", "raised"}
  /\ \/ UNCHANGED <<lock, left>>
     \/ lock = MyToken(j) /\ lock' = NoToken /\ left' = 0
  /\ Goto(j, "failed")
  /\ UNCHANGED <<delivery, held, checkpoint, loaded, history>>

(* Mutant: a stalled job is delivered without limit.                       *)
WorkerDies_Forever(j) ==
  /\ pc[j] \in Holding
  /\ Goto(j, "waiting") /\ delivery' = [delivery EXCEPT ![j] = @ + 1]
  /\ UNCHANGED <<lock, left, held, checkpoint, loaded, history>>

(* The worker process dies: the finally clause does not run.  BullMQ       *)
(* delivers the job again, or fails it when it has stalled too often.      *)
WorkerDies(j) ==
  /\ pc[j] \in Holding
  /\ IF delivery[j] < MaxStalls
     THEN Goto(j, "waiting") /\ delivery' = [delivery EXCEPT ![j] = @ + 1]
     ELSE Goto(j, "failed") /\ UNCHANGED delivery
  /\ UNCHANGED <<lock, left, held, checkpoint, loaded, history>>

(* One tick: the key ages and expires, the holders use up their time.      *)
Tick ==
  /\ left > 0 \/ \E j \in Jobs : pc[j] \in Holding
  /\ \A j \in Jobs : pc[j] \in Holding => held[j] < MaxHold
  /\ left' = IF left > 0 THEN left - 1 ELSE 0
  /\ lock' = IF left = 1 THEN NoToken ELSE lock
  /\ held' = [j \in Jobs |-> IF pc[j] \in Holding THEN held[j] + 1 ELSE held[j]]
  /\ overstayed' = (overstayed \/ \E j \in Jobs : pc[j] \in Holding /\ held[j] + 1 >= TTL)
  /\ UNCHANGED <<pc, delivery, checkpoint, loaded, lost>>

JobStep(j) ==
  \/ Acquire(j) \/ Conflict(j) \/ AcquireRaises(j) \/ Resume(j) \/ Save(j)
  \/ HandlerRaises(j) \/ Release(j) \/ ReleaseRaises(j)

Next == Tick \/ \E j \in Jobs : JobStep(j) \/ WorkerDies(j)

Spec == Init /\ [][Next]_vars

(* Time passes, and a delivered job is worked on.                          *)
FairSpec == Spec /\ WF_vars(Tick) /\ \A j \in Jobs : WF_vars(JobStep(j))
-----------------------------------------------------------------------------
(* The type invariant; held also bounds how long a job keeps the lock.     *)
TypeOK ==
  /\ pc \in [Jobs -> Idle \cup Holding]
  /\ delivery \in [Jobs -> 0..MaxStalls]
  /\ lock \in Tokens /\ left \in 0..TTL
  /\ held \in [Jobs -> 0..MaxHold]
  /\ checkpoint \in Nat /\ loaded \in [Jobs -> Nat]
  /\ lost \in BOOLEAN /\ overstayed \in BOOLEAN

(* Of two jobs that are between SET and release at the same time, one has  *)
(* outlived its key: as long as handlers are faster than the TTL the lock  *)
(* excludes, whatever crashes, is redelivered or loses a reply, and a job  *)
(* that is late does not take the exclusion from those after it.           *)
ExclusionWithinTTL ==
  \A i, j \in Jobs :
    (/\ pc[i] \in Holding /\ held[i] < TTL
     /\ pc[j] \in Holding /\ held[j] < TTL) => i = j

(* No save overwrites a checkpoint its handler has not loaded, unless some *)
(* job has held the lock for as long as the TTL.                           *)
NoLostUpdate == lost => overstayed

(* The release script never takes the lock away from another job: whoever  *)
(* ends a job removes at most that job's own key.                          *)
ReleaseKeepsOthersLock ==
  [][\A j \in Jobs :
       pc[j] \in Holding /\ pc'[j] \notin Holding /\ lock.job \notin {j, Free}
         => lock' = lock]_vars

(* Whatever happens to its holder, the lock becomes free again.            *)
LockIsFreed == []<>(lock = NoToken)
=============================================================================
