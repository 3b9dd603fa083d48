----------------------------- MODULE KillSwitch -----------------------------
(***************************************************************************)
(* The kill switch of one workspace (src/guardrails/kill_switch.py) behind *)
(* its API routes (api/main.py) and rollback_handler.py: people who pause, *)
(* resume, while others ask: gates whether they may go on, people for the  *)
(* status.                                                                 *)
(*                                                                         *)
(* Each round trip to Redis is an action and may fail before or after      *)
(* Redis has acted.  The text of a reason is the person who gave it.       *)
(***************************************************************************)
EXTENDS Integers

CONSTANTS
  People, Askers, Nobody,
  Counts,        \* what auto_pause_if_needed may be told of sends and replies
  PauseOnErrorRate, PauseOnNegativeReplyRate     \* KILL_SWITCH, in percent

ASSUME SwitchAssumption ==
  /\ Nobody \notin People
  /\ People \cap Askers = {}
  /\ Counts \subseteq Nat
  /\ PauseOnErrorRate \in 0..100 /\ PauseOnNegativeReplyRate \in 0..100

VARIABLES
  configPause,   \* KILL_SWITCH["global_pause"]
  globalFlag,    \* automation:global_pause is set
  wsFlag,        \* <workspace>:automation:paused is set
  wsReason,      \* <workspace>:automation:pause_reason, or Nobody
  at,            \* the next round trip of everybody, or what came of the last
  gate,          \* the askers that are gates this time
  read,          \* what is_paused has told each: paused, and the reason
  again,         \* workspace_pause, as get_status reads it at the end
  overlapped,    \* history: whose command overlaps one of the other kind
  settled,       \* history: "paused" or "running" once such a command has been
                 \* confirmed that overlaps none, until one of the other kind
  basis          \* history: what was settled all through each question

keys == <<globalFlag, wsFlag, wsReason>>
history == <<overlapped, settled, basis>>
asked == <<gate, read, again>>
vars == <<configPause, keys, at, asked, history>>

Unasked == [paused |-> FALSE, reason |-> Nobody]

Pausing == {"set flag", "set reason"}
Resuming == {"delete flag", "delete reason"}
Asking == {"global", "workspace", "reason", "global again", "workspace again"}
Answers == {"status", "unable", "stopped", "triggered", "skipped"}

Init ==
  /\ configPause \in BOOLEAN
  /\ globalFlag = FALSE /\ wsFlag = FALSE /\ wsReason = Nobody
  /\ at = [x \in People \cup Askers |-> "idle"]
  /\ gate = {}
  /\ read = [x \in Askers |-> Unasked]
  /\ again = [x \in Askers |-> FALSE]
  /\ overlapped = {} /\ settled = "open"
  /\ basis = [x \in Askers |-> "open"]
-----------------------------------------------------------------------------
Goto(x, l) == at' = [at EXCEPT ![x] = l]
Free(x) == at[x] \in {"idle"} \cup Answers

Busy(steps) == {p \in People : at[p] \in steps}

(* A command of p begins: what it opposes is settled no longer.            *)
Command(p, first, others, opposite) ==
  /\ Free(p) /\ Goto(p, first)
  /\ overlapped' = IF Busy(others) = {} THEN overlapped \ {p}
                   ELSE overlapped \cup {p} \cup Busy(others)
  /\ settled' = IF settled = opposite THEN "open" ELSE settled
  /\ basis' = [x \in Askers |-> IF basis[x] = opposite THEN "open" ELSE basis[x]]
  /\ UNCHANGED <<configPause, keys, asked>>

(* pause_automation_route -> pause_automation -> pause_workspace, and      *)
(* resume_automation_route.                                                *)
Pause(p) == Command(p, "set flag", Resuming, "running")
Resume(p) == Command(p, "delete flag", Pausing, "paused")

(* auto_pause_if_needed: errors / sends above the one rate, or negative    *)
(* replies / replies above the other.  Nothing in src/ calls it.           *)
AutoPauseIfNeeded(p) ==
  /\ \E sends, errors, replies, negatives \in Counts :
       \/ sends > 0 /\ 100 * errors > PauseOnErrorRate * sends
       \/ replies > 0 /\ 100 * negatives > PauseOnNegativeReplyRate * replies
  /\ Pause(p)

(* A round trip that fails: Redis has acted (acted), or it has not.  The   *)
(* rest of the command is not done.                                        *)
Fails(p, acted) ==
  /\ acted \/ UNCHANGED keys
  /\ Goto(p, "idle")
  /\ UNCHANGED <<configPause, asked, history>>

Confirm(p, what) ==
  /\ settled' = IF p \in overlapped THEN settled ELSE what
  /\ UNCHANGED <<overlapped, basis>>

SetFlagKey == wsFlag' = TRUE /\ UNCHANGED <<globalFlag, wsReason>>
SetReasonKey(p) == wsReason' = p /\ UNCHANGED <<globalFlag, wsFlag>>
DeleteFlagKey == wsFlag' = FALSE /\ UNCHANGED <<globalFlag, wsReason>>

(* Mutant: the reason is emptied, not deleted.                             *)
DeleteReasonKey_Empty == wsReason' = "" /\ UNCHANGED <<globalFlag, wsFlag>>

DeleteReasonKey == wsReason' = Nobody /\ UNCHANGED <<globalFlag, wsFlag>>

(* Mutant: the API says "paused" whatever pause_workspace raises.          *)
SetFlag_Swallows(p) ==
  /\ at[p] = "set flag"
  /\ \/ /\ SetFlagKey /\ Goto(p, "set reason")
        /\ UNCHANGED <<configPause, asked, history>>
     \/ /\ Goto(p, "idle") /\ Confirm(p, "paused")
        /\ UNCHANGED <<configPause, keys, asked>>

SetFlag(p) ==
  /\ at[p] = "set flag"
  /\ \/ /\ SetFlagKey /\ Goto(p, "set reason")
        /\ UNCHANGED <<configPause, asked, history>>
     \/ Fails(p, SetFlagKey)

SetReason(p) ==
  /\ at[p] = "set reason"
  /\ \/ /\ SetReasonKey(p) /\ Goto(p, "idle") /\ Confirm(p, "paused")
        /\ UNCHANGED <<configPause, asked>>
     \/ Fails(p, SetReasonKey(p))

(* Mutant: only the reason is deleted.                                     *)
DeleteFlag_Skips(p) ==
  /\ at[p] = "delete flag"
  /\ Goto(p, "delete reason")
  /\ UNCHANGED <<configPause, keys, asked, history>>

DeleteFlag(p) ==
  /\ at[p] = "delete flag"
  /\ \/ /\ DeleteFlagKey /\ Goto(p, "delete reason")
        /\ UNCHANGED <<configPause, asked, history>>
     \/ Fails(p, DeleteFlagKey)

DeleteReason(p) ==
  /\ at[p] = "delete reason"
  /\ \/ /\ DeleteReasonKey /\ Goto(p, "idle") /\ Confirm(p, "running")
        /\ UNCHANGED <<configPause, asked>>
     \/ Fails(p, DeleteReasonKey)

(* pause_global, resume_global: one SET, one DEL.                          *)
SwitchGlobal(p) ==
  /\ Free(p)
  /\ globalFlag' = ~globalFlag
  /\ UNCHANGED <<configPause, wsFlag, wsReason, at, asked, history>>
-----------------------------------------------------------------------------
(* A gate asks is_paused, a person get_automation_status.  The pause of    *)
(* the configuration answers without a round trip.                         *)
Question(x) ==
  /\ Free(x)
  /\ \E g \in BOOLEAN :
       /\ gate' = IF g THEN gate \cup {x} ELSE gate \ {x}
       /\ Goto(x, IF ~configPause THEN "global"
                  ELSE IF g THEN "skipped" ELSE "global again")
  /\ read' = [read EXCEPT ![x] = [paused |-> configPause, reason |-> Nobody]]
  /\ again' = [again EXCEPT ![x] = FALSE]
  /\ basis' = [basis EXCEPT ![x] = settled]
  /\ UNCHANGED <<configPause, keys, overlapped, settled>>

Told(x, paused, reason) ==
  /\ read' = [read EXCEPT ![x] = [paused |-> paused, reason |-> reason]]
  /\ UNCHANGED <<configPause, keys, gate, again, history>>

(* What follows is_paused: the gate goes on or stops; the status repeats.  *)
Then(x, answer) == IF x \in gate THEN answer ELSE "global again"

AskGlobal(x) ==
  /\ at[x] = "global"
  /\ Told(x, globalFlag, Nobody)
  /\ Goto(x, IF globalFlag THEN Then(x, "skipped") ELSE "workspace")

AskWorkspace(x) ==
  /\ at[x] = "workspace"
  /\ Told(x, wsFlag, Nobody)
  /\ Goto(x, IF wsFlag THEN "reason" ELSE Then(x, "triggered"))

AskReason(x) ==
  /\ at[x] = "reason"
  /\ Told(x, TRUE, wsReason)
  /\ Goto(x, Then(x, "stopped"))

(* get_status reads both flags a second time ...                           *)
AskGlobalAgain(x) ==
  /\ at[x] = "global again"
  /\ Goto(x, "workspace again")
  /\ UNCHANGED <<configPause, keys, asked, history>>

(* ... and get_automation_status adds what get_remaining says, or -1.      *)
AskWorkspaceAgain(x) ==
  /\ at[x] = "workspace again"
  /\ again' = [again EXCEPT ![x] = wsFlag]
  /\ Goto(x, "status")
  /\ UNCHANGED <<configPause, keys, gate, read, history>>

(* A round trip fails: the gate is skipped; the status says "not paused",  *)
(* and that it was unable to check.                                        *)
CannotAsk(x) ==
  /\ at[x] \in Asking
  /\ Goto(x, IF x \in gate THEN "skipped" ELSE "unable")
  /\ read' = [read EXCEPT ![x] = Unasked]
  /\ UNCHANGED <<configPause, keys, gate, again, history>>

Ask(x) ==
  \/ AskGlobal(x) \/ AskWorkspace(x) \/ AskReason(x)
  \/ AskGlobalAgain(x) \/ AskWorkspaceAgain(x)

Switch(p) == SetFlag(p) \/ SetReason(p) \/ DeleteFlag(p) \/ DeleteReason(p)

Next ==
  \/ \E p \in People :
       Pause(p) \/ Resume(p) \/ AutoPauseIfNeeded(p) \/ SwitchGlobal(p) \/ Switch(p)
  \/ \E x \in Askers : Question(x) \/ Ask(x) \/ CannotAsk(x)

Spec == Init /\ [][Next]_vars
-----------------------------------------------------------------------------
TypeOK ==
  /\ configPause \in BOOLEAN /\ globalFlag \in BOOLEAN /\ wsFlag \in BOOLEAN
  /\ wsReason \in People \cup {Nobody}
  /\ at \in [People \cup Askers -> {"idle"} \cup Pausing \cup Resuming \cup Asking \cup Answers]
  /\ gate \subseteq Askers
  /\ read \in [Askers -> [paused : BOOLEAN, reason : People \cup {Nobody}]]
  /\ again \in [Askers -> BOOLEAN]
  /\ overlapped \subseteq People
  /\ settled \in {"open", "paused", "running"}
  /\ basis \in [Askers -> {"open", "paused", "running"}]

(* A pause that was confirmed, and that no resume overlapped or followed,  *)
(* lets no gate through that asks afterwards; no status calls the          *)
(* workspace running unless it says that it could not ask; and who finds   *)
(* it paused is told the reason somebody gave: two keys, written one after *)
(* the other, are read one after the other.                                *)
PauseHolds ==
  \A x \in Askers : basis[x] = "paused" =>
    /\ at[x] # "triggered"
    /\ at[x] = "status" => read[x].paused
    /\ at[x] = "stopped" => read[x].reason # Nobody

(* A resume that was confirmed, and that no pause overlapped or followed,  *)
(* leaves no gate stopped by the workspace and no status that calls it     *)
(* paused.                                                                 *)
ResumeHolds ==
  \A x \in Askers : basis[x] = "running" =>
    /\ at[x] # "stopped"
    /\ at[x] = "status" => ~again[x]
=============================================================================
