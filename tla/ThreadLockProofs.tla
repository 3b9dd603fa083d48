-------------------------- MODULE ThreadLockProofs --------------------------
(***************************************************************************)
(* Theorems about ThreadLock, for every set of jobs, every TTL and every   *)
(* bound on stalls.                                                        *)
(***************************************************************************)
EXTENDS ThreadLock, TLAPS

(* The type invariant of ThreadLock holds, however long jobs hold the lock.*)
THEOREM TypeCorrect == Spec => []TypeOK
<1>1. Init => TypeOK
  <2> SUFFICES ASSUME Init PROVE TypeOK
    OBVIOUS
  <2>1. pc \in [Jobs -> Idle \cup Holding] /\ lock \in Tokens
    BY DEF Init, Idle, Tokens, NoToken
  <2>2. 0 \in 0..MaxStalls /\ 0 \in 0..TTL /\ 0 \in 0..MaxHold /\ 0 \in Nat
    BY LockAssumption DEF LockAssumption
  <2> QED BY <2>1, <2>2 DEF Init, TypeOK
<1>2. TypeOK /\ [Next]_vars => TypeOK'
  <2> SUFFICES ASSUME TypeOK, [Next]_vars PROVE TypeOK'
    OBVIOUS
  <2> USE LockAssumption DEF LockAssumption, TypeOK, Tokens, NoToken, Token, Idle,
        Holding, Goto, MyToken, history
  <2>1. ASSUME NEW j \in Jobs, JobStep(j) PROVE TypeOK'
    <3>1. CASE Acquire(j) BY <3>1 DEF Acquire
    <3>2. CASE Conflict(j) BY <3>2 DEF Conflict
    <3>3. CASE AcquireRaises(j) BY <3>3 DEF AcquireRaises
    <3>4. CASE Resume(j) BY <3>4 DEF Resume
    <3>5. CASE Save(j) BY <3>5 DEF Save
    <3>6. CASE HandlerRaises(j) BY <3>6 DEF HandlerRaises
    <3>7. CASE Release(j) BY <3>7 DEF Release
    <3>8. CASE ReleaseRaises(j) BY <3>8 DEF ReleaseRaises
    <3> QED
      BY <2>1, <3>1, <3>2, <3>3, <3>4, <3>5, <3>6, <3>7, <3>8 DEF JobStep
  <2>2. ASSUME NEW j \in Jobs, WorkerDies(j) PROVE TypeOK'
    BY <2>2 DEF WorkerDies
  <2>3. CASE Tick BY <2>3 DEF Tick
  <2>4. CASE UNCHANGED vars BY <2>4 DEF vars
  <2> QED BY <2>1, <2>2, <2>3, <2>4 DEF Next
<1> QED BY <1>1, <1>2, PTL DEF Spec
-----------------------------------------------------------------------------
(* A job that has not outlived its key owns it, and the key has exactly    *)
(* the life that is left to it.                                            *)
HoldersOwnLock ==
  \A j \in Jobs : pc[j] \in Holding /\ held[j] < TTL =>
    lock = MyToken(j) /\ left = TTL - held[j]

(* overstayed is true to its name.                                         *)
LateIsNoticed ==
  ~overstayed => \A j \in Jobs : pc[j] \in Holding => held[j] < TTL

(* While nobody is late, a handler that has loaded the checkpoint loaded   *)
(* the current one.                                                        *)
LoadedIsCurrent ==
  ~overstayed => \A j \in Jobs : pc[j] = "resumed" => loaded[j] = checkpoint

LockInv ==
  TypeOK /\ HoldersOwnLock /\ LateIsNoticed /\ LoadedIsCurrent /\ NoLostUpdate

(* Two holders within the TTL would own the same key.                      *)
LEMMA OwnersExclude == TypeOK /\ HoldersOwnLock => ExclusionWithinTTL
  BY DEF TypeOK, HoldersOwnLock, ExclusionWithinTTL, MyToken

(* Every step keeps LockInv.                                               *)
LEMMA LockInvInductive ==
  ASSUME LockInv, [Next]_vars, TypeOK'
  PROVE  LockInv'
<1> USE LockAssumption DEF LockAssumption
<1> USE DEF LockInv, TypeOK, HoldersOwnLock, LateIsNoticed, LoadedIsCurrent,
            NoLostUpdate, MyToken, Goto, Holding, NoToken, Free, history
<1>1. ASSUME NEW j \in Jobs, JobStep(j) PROVE LockInv'
  <2>1. CASE Acquire(j) BY <2>1 DEF Acquire
  <2>2. CASE Conflict(j) BY <2>2 DEF Conflict
  <2>3. CASE AcquireRaises(j) BY <2>3 DEF AcquireRaises
  <2>4. CASE Resume(j) BY <2>4 DEF Resume
  <2>5. CASE Save(j)
    <3>1. ~overstayed => \A i \in Jobs : pc[i] = "resumed" => i = j
      BY <2>5, OwnersExclude DEF Save, ExclusionWithinTTL
    <3>2. NoLostUpdate'
      BY <2>5 DEF Save
    <3>3. LoadedIsCurrent' /\ HoldersOwnLock' /\ LateIsNoticed'
      BY <2>5, <3>1 DEF Save
    <3> QED BY <3>2, <3>3
  <2>6. CASE HandlerRaises(j) BY <2>6 DEF HandlerRaises
  <2>7. CASE Release(j) BY <2>7 DEF Release
  <2>8. CASE ReleaseRaises(j) BY <2>8 DEF ReleaseRaises
  <2> QED
    BY <1>1, <2>1, <2>2, <2>3, <2>4, <2>5, <2>6, <2>7, <2>8 DEF JobStep
<1>2. ASSUME NEW j \in Jobs, WorkerDies(j) PROVE LockInv'
  BY <1>2 DEF WorkerDies
<1>3. CASE Tick
  <2>1. HoldersOwnLock'
    <3> SUFFICES ASSUME NEW j \in Jobs, pc[j] \in Holding, held[j] + 1 < TTL
                 PROVE  left > 1 /\ left' = TTL - held'[j] /\ lock' = MyToken(j)
      BY <1>3 DEF Tick
    <3> QED BY <1>3 DEF Tick
  <2>2. LateIsNoticed'
    <3> SUFFICES ASSUME ~overstayed', NEW j \in Jobs, pc'[j] \in Holding
                 PROVE  held'[j] < TTL
      OBVIOUS
    <3>1. ~(\E i \in Jobs : pc[i] \in Holding /\ held[i] + 1 >= TTL)
      BY <1>3 DEF Tick
    <3>2. pc[j] \in Holding /\ held'[j] = held[j] + 1 /\ held[j] \in Nat
      BY <1>3 DEF Tick
    <3> QED BY <3>1, <3>2
  <2>3. LoadedIsCurrent' /\ NoLostUpdate'
    BY <1>3 DEF Tick
  <2> QED BY <2>1, <2>2, <2>3
<1>4. CASE UNCHANGED vars BY <1>4 DEF vars
<1> QED BY <1>1, <1>2, <1>3, <1>4 DEF Next

(* The inductive invariant holds in every run.                             *)
LEMMA LockInvHolds == Spec => []LockInv
<1>1. Init /\ TypeOK => LockInv
  BY DEF Init, LockInv, HoldersOwnLock, LateIsNoticed, LoadedIsCurrent,
         NoLostUpdate, Holding
<1>2. LockInv /\ [Next]_vars /\ TypeOK' => LockInv'
  BY LockInvInductive
<1> QED BY <1>1, <1>2, TypeCorrect, PTL DEF Spec

(* thread_lock excludes: of two jobs between SET and release one has       *)
(* outlived its key, for every set of jobs, TTL and speed of the handlers, *)
(* whatever crashes, is redelivered or loses a reply.                      *)
THEOREM LockExcludes == Spec => []ExclusionWithinTTL
<1>1. LockInv => ExclusionWithinTTL
  BY OwnersExclude DEF LockInv
<1> QED BY <1>1, LockInvHolds, PTL

(* No handler overwrites a checkpoint that it has not loaded, until some   *)
(* job has held the lock for the TTL.                                      *)
THEOREM NoSaveIsLost == Spec => []NoLostUpdate
<1>1. LockInv => NoLostUpdate
  BY DEF LockInv
<1> QED BY <1>1, LockInvHolds, PTL

(* The compare-and-delete never removes another job's key, for every       *)
(* MaxHold: also when the job has outlived its own lock.                   *)
THEOREM ReleaseIsOwn == Spec => ReleaseKeepsOthersLock
<1> DEFINE Keeps == \A j \in Jobs :
       pc[j] \in Holding /\ pc'[j] \notin Holding /\ lock.job \notin {j, Free}
         => lock' = lock
<1>1. TypeOK /\ [Next]_vars => [Keeps]_vars
  <2> SUFFICES ASSUME TypeOK, Next, NEW j \in Jobs,
                      pc[j] \in Holding, pc'[j] \notin Holding,
                      lock.job \notin {j, Free}
               PROVE  lock' = lock
    BY DEF vars
  <2> USE DEF TypeOK, Holding, Goto, MyToken, NoToken
  <2>1. ASSUME NEW i \in Jobs, JobStep(i) PROVE lock' = lock
    BY <2>1 DEF JobStep, Acquire, Conflict, AcquireRaises, Resume, Save,
                HandlerRaises, Release, ReleaseRaises, Free
  <2>2. ASSUME NEW i \in Jobs, WorkerDies(i) PROVE lock' = lock
    BY <2>2 DEF WorkerDies
  <2>3. CASE Tick BY <2>3 DEF Tick
  <2> QED BY <2>1, <2>2, <2>3 DEF Next
<1> QED BY <1>1, TypeCorrect, PTL DEF Spec, ReleaseKeepsOthersLock
=============================================================================
