-------------------------- MODULE AutoOutboundGate --------------------------
(***************************************************************************)
(* The auto-outbound gate of qualification jobs that run concurrently in   *)
(* one workspace (src/agent/nodes/auto_outbound_gate.py), with the         *)
(* guardrails it asks: the kill switch (two Redis keys), the blocklists    *)
(* (three Redis sets) and the send caps (module SendCaps, whose Callers    *)
(* are the gates).                                                         *)
(*                                                                         *)
(* Every round trip to Redis is an action; people pause, resume, block and *)
(* unblock in between.  The checks that only look at the gate's own state  *)
(* (1 automation enabled, 3 action, 4 thresholds) are the facts of the     *)
(* brief, chosen when the gate starts.  init_guardrails has been called.   *)
(***************************************************************************)
EXTENDS SendCaps, Sequences, Functions

CONSTANT
  Targets        \* what of an account the blocklists are asked about, in order

(* What a brief is missing, at the check that looks for it.                *)
Lacks == {"nothing", "automation", "pursue_now", "thresholds"}
Target == Range(Targets)

(* The blocklists are asked about each thing once; an account may lack     *)
(* some.                                                                   *)
ASSUME GateAssumption ==
  /\ Targets \in Seq({"email", "domain", "company"}) /\ Targets # <<>>
  /\ IsInjective(Targets)
  /\ IsFiniteSet(Accounts)

VARIABLES
  gate,          \* the gate's next round trip, or its answer
  target,        \* its current_account
  lacks,         \* the fact of its brief
  globalPause,   \* automation:global_pause is set
  wsPause,       \* <workspace>:automation:paused is set
  blocked,       \* <<account, target>> pairs in the blocklists
  jobs,          \* brief_to_outbound jobs added, per account
  drafts,        \* triggers left to draft_email_generator, per account
  draftOnly,     \* settings.OUTBOUND_DRAFT_ONLY
  seenClear      \* history: guardrails found clear at some moment of the run

flags == <<globalPause, wsPause, blocked>>
out == <<jobs, drafts>>
vars == <<gate, target, lacks, flags, out, draftOnly, seenClear, caps>>

Answers == {"skipped", "triggered"}
Asking == {"global", "workspace", "caps", "enqueue"} \cup Target
Guardrails == {"global", "workspace"} \cup Target

(* The guardrails that would let account a through now.                    *)
Clear(a, gp, wp, bl) ==
  {r \in Guardrails :
     \/ r = "global" /\ ~gp
     \/ r = "workspace" /\ ~wp
     \/ r \in Target /\ <<a, r>> \notin bl}

Init ==
  /\ CapsInit
  /\ gate = [g \in Callers |-> "idle"]
  /\ target = [g \in Callers |-> NoAccount]
  /\ lacks = [g \in Callers |-> "nothing"]
  /\ globalPause = FALSE /\ wsPause = FALSE /\ blocked = {}
  /\ jobs = [a \in Accounts |-> 0] /\ drafts = [a \in Accounts |-> 0]
  /\ draftOnly \in BOOLEAN
  /\ seenClear = [g \in Callers |-> {}]
-----------------------------------------------------------------------------
Goto(g, l) == gate' = [gate EXCEPT ![g] = l]

Continue(g, next) == Goto(g, next) /\ UNCHANGED <<target, lacks, seenClear>>

(* The gate returns, and its run is over.                                  *)
Answer(g, answer) ==
  /\ Goto(g, answer)
  /\ target' = [target EXCEPT ![g] = NoAccount]
  /\ lacks' = [lacks EXCEPT ![g] = "nothing"]
  /\ seenClear' = [seenClear EXCEPT ![g] = {}]

(* One round trip of gate g that finds it clear, or stopped.               *)
Ask(g, at, stopped, next) ==
  /\ gate[g] = at
  /\ \/ stopped /\ Answer(g, "skipped")
     \/ ~stopped /\ Continue(g, next)
  /\ UNCHANGED <<flags, out, draftOnly, caps>>

(* The node starts on an account; check 1 answers at once.                 *)
Start(g) ==
  \E a \in Accounts, l \in Lacks :
    /\ gate[g] \in {"idle"} \cup Answers
    /\ IF l = "automation"
       THEN Answer(g, "skipped")
       ELSE /\ Goto(g, "global")
            /\ target' = [target EXCEPT ![g] = a]
            /\ lacks' = [lacks EXCEPT ![g] = l]
            /\ seenClear' = [seenClear EXCEPT ![g] = Clear(a, globalPause, wsPause, blocked)]
    /\ UNCHANGED <<flags, out, draftOnly, caps>>

(* Mutant: the recommended action and the thresholds are not looked at.    *)
AskWorkspace_AnyBrief(g) == Ask(g, "workspace", wsPause, Targets[1])

(* Check 2, is_paused: the global key, then the workspace key; checks 3    *)
(* and 4 follow without another round trip.                                *)
AskGlobal(g) == Ask(g, "global", globalPause, "workspace")
AskWorkspace(g) == Ask(g, "workspace", wsPause \/ lacks[g] # "nothing", Targets[1])

(* Check 5, is_blocked: one SISMEMBER for each target.  After the last one *)
(* check 6 is called.                                                      *)
AskBlocklist(g) ==
  \E i \in DOMAIN Targets :
    IF i < Len(Targets)
    THEN Ask(g, Targets[i], <<target[g], Targets[i]>> \in blocked, Targets[i + 1])
    ELSE /\ gate[g] = Targets[i]
         /\ \/ /\ <<target[g], Targets[i]>> \in blocked
               /\ Answer(g, "skipped")
               /\ UNCHANGED caps
            \/ /\ <<target[g], Targets[i]>> \notin blocked
               /\ Continue(g, "caps")
               /\ Call(g, target[g])
         /\ UNCHANGED <<flags, out, draftOnly>>

(* Mutant: an error anywhere ends the gate, check_and_increment still      *)
(* under way.                                                              *)
AskRaises_Anywhere(g) ==
  /\ gate[g] \in Asking
  /\ Answer(g, "skipped")
  /\ UNCHANGED <<flags, out, draftOnly, caps>>

(* A guardrail's Redis call raises: the brief stays manual.                *)
AskRaises(g) ==
  /\ gate[g] \in {"global", "workspace"} \cup Target
  /\ Answer(g, "skipped")
  /\ UNCHANGED <<flags, out, draftOnly, caps>>

(* Mutant: only SendCapError skips, other errors let the brief through.    *)
AskCaps_FailsOpen(g) ==
  /\ gate[g] = "caps"
  /\ Step(g)
  /\ CASE pc'[g] = "refused" -> Answer(g, "skipped") /\ UNCHANGED out
       [] pc'[g] \in {"granted", "raised"} /\ draftOnly ->
            /\ Answer(g, "triggered")
            /\ drafts' = [drafts EXCEPT ![target[g]] = @ + 1]
            /\ UNCHANGED jobs
       [] pc'[g] \in {"granted", "raised"} /\ ~draftOnly ->
            Continue(g, "enqueue") /\ UNCHANGED out
       [] OTHER -> UNCHANGED <<gate, target, lacks, seenClear, out>>
  /\ UNCHANGED <<flags, draftOnly>>

(* Check 6: check_and_increment runs, and what follows its last step: a    *)
(* refusal or an error skips, a grant triggers or goes on to the queue.    *)
AskCaps(g) ==
  /\ gate[g] = "caps"
  /\ Step(g)
  /\ CASE pc'[g] \in {"refused", "raised"} -> Answer(g, "skipped") /\ UNCHANGED out
       [] pc'[g] = "granted" /\ draftOnly ->
            /\ Answer(g, "triggered")
            /\ drafts' = [drafts EXCEPT ![target[g]] = @ + 1]
            /\ UNCHANGED jobs
       [] pc'[g] = "granted" /\ ~draftOnly ->
            Continue(g, "enqueue") /\ UNCHANGED out
       [] OTHER -> UNCHANGED <<gate, target, lacks, seenClear, out>>
  /\ UNCHANGED <<flags, draftOnly>>

(* enqueue_by_event adds the job.                                          *)
AddJob(g) == jobs' = [jobs EXCEPT ![target[g]] = @ + 1]

Enqueue(g) ==
  /\ gate[g] = "enqueue"
  /\ AddJob(g)
  /\ Answer(g, "triggered")
  /\ UNCHANGED <<flags, drafts, draftOnly, caps>>

(* It raises, though the job may have been added.  The unit of the send    *)
(* caps is not given back.                                                 *)
EnqueueRaises(g) ==
  /\ gate[g] = "enqueue"
  /\ AddJob(g) \/ UNCHANGED jobs
  /\ Answer(g, "skipped")
  /\ UNCHANGED <<flags, drafts, draftOnly, caps>>

GateStep(g) ==
  \/ Start(g) \/ AskGlobal(g) \/ AskWorkspace(g) \/ AskBlocklist(g)
  \/ AskRaises(g) \/ AskCaps(g) \/ Enqueue(g) \/ EnqueueRaises(g)
-----------------------------------------------------------------------------
(* A guardrail changes: every gate under way may have seen it clear.       *)
Observe ==
  seenClear' = [g \in Callers |->
    IF gate[g] \in Asking
    THEN seenClear[g] \cup Clear(target[g], globalPause', wsPause', blocked')
    ELSE seenClear[g]]

(* pause_global, resume_global                                             *)
SetGlobal(on) ==
  /\ globalPause # on /\ globalPause' = on
  /\ UNCHANGED <<gate, target, lacks, wsPause, blocked, out, draftOnly, caps>>
  /\ Observe

(* pause_workspace, resume_workspace: the flag's SET or DELETE.            *)
SetWorkspace(on) ==
  /\ wsPause # on /\ wsPause' = on
  /\ UNCHANGED <<gate, target, lacks, globalPause, blocked, out, draftOnly, caps>>
  /\ Observe

(* add_to_blocklist, remove_from_blocklist                                 *)
SetBlocked(a, t) ==
  /\ blocked' = IF <<a, t>> \in blocked THEN blocked \ {<<a, t>>} ELSE blocked \cup {<<a, t>>}
  /\ UNCHANGED <<gate, target, lacks, globalPause, wsPause, out, draftOnly, caps>>
  /\ Observe

NextDay ==
  /\ Midnight
  /\ UNCHANGED <<gate, target, lacks, flags, out, draftOnly, seenClear>>

Next ==
  \/ \E g \in Callers : GateStep(g)
  \/ \E on \in BOOLEAN : SetGlobal(on) \/ SetWorkspace(on)
  \/ \E a \in Accounts, t \in Target : SetBlocked(a, t)
  \/ NextDay

Spec == Init /\ [][Next]_vars
-----------------------------------------------------------------------------
(* A gate at work has an account, and a call of check_and_increment is     *)
(* under way exactly while its gate waits for it.                          *)
TypeOK ==
  /\ gate \in [Callers -> {"idle"} \cup Answers \cup Asking]
  /\ target \in [Callers -> Accounts \cup {NoAccount}]
  /\ lacks \in [Callers -> Lacks]
  /\ globalPause \in BOOLEAN /\ wsPause \in BOOLEAN
  /\ blocked \subseteq Accounts \X Target
  /\ jobs \in [Accounts -> Nat] /\ drafts \in [Accounts -> Nat]
  /\ draftOnly \in BOOLEAN
  /\ seenClear \in [Callers -> SUBSET Guardrails]
  /\ CapsTypeOK
  /\ \A g \in Callers : /\ gate[g] \in Asking => target[g] \in Accounts
                        /\ gate[g] = "caps" <=> pc[g] \notin Ended

Triggers(g) == gate[g] # "triggered" /\ gate'[g] = "triggered"

(* The guardrails fail closed: a gate triggers only on a brief that meets  *)
(* every condition, and only if each pause key and each blocklist has been *)
(* clear at some moment since the gate started.  A flag or an entry that   *)
(* was there throughout stops it, whatever raises and whatever the other   *)
(* gates do.                                                               *)
TriggerPassesEveryCheck ==
  [][\A g \in Callers : Triggers(g) =>
       lacks[g] = "nothing" /\ Guardrails \subseteq seenClear[g]]_vars

(* Nothing reaches the outbound queue, or the draft generator, without     *)
(* a unit of the send caps of its own: the units cover what was triggered  *)
(* and the gates that still hold one.                                      *)
EveryTriggerIsPaid ==
  SumFunction(jobs) + SumFunction(drafts)
    + Cardinality({g \in Callers : gate[g] = "enqueue"}) <= SumFunction(sent)
=============================================================================
