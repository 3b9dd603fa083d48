-------------------------- MODULE KillSwitchProofs --------------------------
(***************************************************************************)
(* Theorems about KillSwitch, for any number of people and askers, and     *)
(* whatever is configured.                                                 *)
(***************************************************************************)
EXTENDS KillSwitch, TLAPS

(* Commands of both kinds under way know of each other.                    *)
OverlapIsNoticed ==
  \A p, q \in People :
    at[p] \in Pausing /\ at[q] \in Resuming => p \in overlapped /\ q \in overlapped

(* A command that overlaps none of the other kind finds the flag as its    *)
(* first round trip has left it.                                           *)
FlagIsMine ==
  \A p \in People : p \notin overlapped =>
    /\ at[p] = "set reason" => wsFlag
    /\ at[p] = "delete reason" => ~wsFlag

(* What is settled is what Redis holds, and nobody is about to change it.  *)
SettledHolds ==
  /\ settled = "paused" =>
       wsFlag /\ wsReason # Nobody /\ \A p \in People : at[p] \notin Resuming
  /\ settled = "running" => ~wsFlag /\ \A p \in People : at[p] \notin Pausing

(* What was settled all through a question is settled now.                 *)
BasisIsSettled == \A x \in Askers : basis[x] # "open" => basis[x] = settled

(* How far a question can have come that was asked all through a pause.    *)
AskedPaused ==
  \A x \in Askers : basis[x] = "paused" =>
    /\ at[x] # "triggered"
    /\ at[x] \in {"global again", "workspace again", "status"} => read[x].paused
    /\ at[x] = "stopped" => read[x].reason # Nobody

(* ... and one that was asked all through a resume.                        *)
AskedRunning ==
  \A x \in Askers : basis[x] = "running" =>
    /\ at[x] \notin {"reason", "stopped"}
    /\ at[x] = "status" => ~again[x]

SwitchInv ==
  /\ TypeOK /\ OverlapIsNoticed /\ FlagIsMine /\ SettledHolds
  /\ BasisIsSettled /\ AskedPaused /\ AskedRunning
-----------------------------------------------------------------------------
Places == {"idle"} \cup Pausing \cup Resuming \cup Asking \cup Answers
Reads == [paused : BOOLEAN, reason : People \cup {Nobody}]

LEMMA GotoType ==
  ASSUME TypeOK, NEW x \in People \cup Askers, NEW l \in Places, Goto(x, l)
  PROVE  at' \in [People \cup Askers -> Places]
  BY DEF TypeOK, Goto, Places

LEMMA GotoMoves ==
  ASSUME TypeOK, NEW x \in People \cup Askers, NEW l, Goto(x, l)
  PROVE  \A y \in People \cup Askers : at'[y] = IF y = x THEN l ELSE at[y]
  BY DEF TypeOK, Goto

LEMMA ToldType ==
  ASSUME TypeOK, NEW x \in Askers, NEW paused \in BOOLEAN,
         NEW reason \in People \cup {Nobody}, Told(x, paused, reason)
  PROVE  read' \in [Askers -> Reads]
  BY DEF TypeOK, Told, Reads

(* The type invariant of KillSwitch holds.                                 *)
THEOREM TypeCorrect == Spec => []TypeOK
<1>1. Init => TypeOK
  <2> SUFFICES ASSUME Init PROVE TypeOK
    OBVIOUS
  <2>1. read \in [Askers -> Reads] BY DEF Init, Unasked, Reads
  <2>2. again \in [Askers -> BOOLEAN] BY DEF Init
  <2>3. at \in [People \cup Askers -> Places] BY DEF Init, Places
  <2>4. basis \in [Askers -> {"open", "paused", "running"}] BY DEF Init
  <2>5. gate \subseteq Askers /\ overlapped \subseteq People BY DEF Init
  <2> QED
    BY <2>1, <2>2, <2>3, <2>4, <2>5 DEF Init, TypeOK, Reads, Places
<1>2. TypeOK /\ [Next]_vars => TypeOK'
  <2> SUFFICES ASSUME TypeOK, [Next]_vars PROVE TypeOK'
    OBVIOUS
  <2> USE DEF keys, asked, history, Pausing, Resuming, Asking, Answers
  <2>1. ASSUME NEW p \in People, Pause(p) \/ Resume(p) PROVE TypeOK'
    <3>1. at' \in [People \cup Askers -> Places]
      BY <2>1, GotoType DEF Pause, Resume, Command, Places
    <3>2. basis' \in [Askers -> {"open", "paused", "running"}]
      BY <2>1 DEF Pause, Resume, Command, TypeOK
    <3>3. overlapped' \subseteq People /\ settled' \in {"open", "paused", "running"}
      BY <2>1 DEF Pause, Resume, Command, TypeOK, Busy
    <3> QED
      BY <2>1, <3>1, <3>2, <3>3 DEF Pause, Resume, Command, TypeOK, Places
  <2>2. ASSUME NEW p \in People, SwitchGlobal(p) PROVE TypeOK'
    BY <2>2 DEF SwitchGlobal, TypeOK
  <2>3. ASSUME NEW p \in People, Switch(p) PROVE TypeOK'
    <3>1. at' \in [People \cup Askers -> Places]
      BY <2>3, GotoType DEF Switch, SetFlag, SetReason, DeleteFlag, DeleteReason, Fails,
           Places
    <3> QED
      BY <2>3, <3>1 DEF Switch, SetFlag, SetReason, DeleteFlag, DeleteReason, Fails,
           Confirm, SetFlagKey, SetReasonKey, DeleteFlagKey, DeleteReasonKey, TypeOK, Places
  <2>4. ASSUME NEW x \in Askers, Question(x) PROVE TypeOK'
    <3>1. at' \in [People \cup Askers -> Places]
      BY <2>4, GotoType DEF Question, Places
    <3>2. read' \in [Askers -> Reads]
      BY <2>4 DEF Question, TypeOK, Reads
    <3>3. again' \in [Askers -> BOOLEAN]
      BY <2>4 DEF Question, TypeOK
    <3>4. basis' \in [Askers -> {"open", "paused", "running"}] /\ gate' \subseteq Askers
      BY <2>4 DEF Question, TypeOK
    <3> QED
      BY <2>4, <3>1, <3>2, <3>3, <3>4 DEF Question, TypeOK, Places, Reads
  <2>5. ASSUME NEW x \in Askers, Ask(x) PROVE TypeOK'
    <3>1. at' \in [People \cup Askers -> Places]
      BY <2>5, GotoType DEF Ask, AskGlobal, AskWorkspace, AskReason, AskGlobalAgain,
           AskWorkspaceAgain, Then, Places
    <3>2. read' \in [Askers -> Reads]
      <4>1. globalFlag \in BOOLEAN /\ wsFlag \in BOOLEAN /\ wsReason \in People \cup {Nobody}
        BY DEF TypeOK
      <4>2. CASE AskGlobal(x) BY <4>1, <4>2, ToldType DEF AskGlobal
      <4>3. CASE AskWorkspace(x) BY <4>1, <4>3, ToldType DEF AskWorkspace
      <4>4. CASE AskReason(x) BY <4>1, <4>4, ToldType DEF AskReason
      <4>5. CASE UNCHANGED read BY <4>5 DEF TypeOK, Reads
      <4> QED
        BY <2>5, <4>2, <4>3, <4>4, <4>5 DEF Ask, AskGlobalAgain, AskWorkspaceAgain
    <3>3. again' \in [Askers -> BOOLEAN]
      BY <2>5 DEF Ask, AskGlobal, AskWorkspace, AskReason, AskGlobalAgain,
           AskWorkspaceAgain, Told, TypeOK
    <3>4. UNCHANGED <<configPause, keys, gate, history>>
      BY <2>5 DEF Ask, AskGlobal, AskWorkspace, AskReason, AskGlobalAgain,
           AskWorkspaceAgain, Told
    <3> QED
      BY <3>1, <3>2, <3>3, <3>4 DEF TypeOK, Places, Reads
  <2>6. ASSUME NEW x \in Askers, CannotAsk(x) PROVE TypeOK'
    <3>1. at' \in [People \cup Askers -> Places]
      BY <2>6, GotoType DEF CannotAsk, Places
    <3>2. read' \in [Askers -> Reads]
      BY <2>6 DEF CannotAsk, Unasked, TypeOK, Reads
    <3> QED
      BY <2>6, <3>1, <3>2 DEF CannotAsk, TypeOK, Places, Reads
  <2>7. CASE UNCHANGED vars BY <2>7 DEF vars, TypeOK
  <2> QED BY <2>1, <2>2, <2>3, <2>4, <2>5, <2>6, <2>7 DEF Next, AutoPauseIfNeeded
<1> QED BY <1>1, <1>2, PTL DEF Spec
-----------------------------------------------------------------------------
(* A command that begins keeps SwitchInv.                                  *)
LEMMA CommandKeeps ==
  ASSUME SwitchInv, NEW p \in People, Pause(p) \/ Resume(p), TypeOK'
  PROVE  SwitchInv'
<1> USE DEF SwitchInv, Pausing, Resuming
<1>1. PICK first, others, opposite :
        /\ \/ first = "set flag" /\ others = Resuming /\ opposite = "running"
           \/ first = "delete flag" /\ others = Pausing /\ opposite = "paused"
        /\ Command(p, first, others, opposite)
  BY DEF Pause, Resume
<1>2. at[p] \notin Pausing \cup Resuming
  BY <1>1 DEF Command, Free, Answers
<1>3. /\ \A q \in People : at'[q] = IF q = p THEN first ELSE at[q]
      /\ \A x \in Askers : at'[x] = at[x]
  BY <1>1, GotoMoves, SwitchAssumption DEF Command, SwitchAssumption
<1>4. UNCHANGED <<wsFlag, wsReason, read, again>>
  BY <1>1 DEF Command, keys, asked
<1>5. OverlapIsNoticed'
  <2>1. \A q \in People : q \in overlapped /\ q # p => q \in overlapped'
    BY <1>1 DEF Command
  <2>2. \A q \in People : at[q] \in others => q \in overlapped' /\ p \in overlapped'
    BY <1>1 DEF Command, Busy
  <2> QED BY <1>1, <1>2, <1>3, <2>1, <2>2 DEF OverlapIsNoticed
<1>6. FlagIsMine'
  <2>1. \A q \in People : q \notin overlapped' => q = p \/ q \notin overlapped
    BY <1>1 DEF Command
  <2> QED BY <1>1, <1>3, <1>4, <2>1 DEF FlagIsMine
<1>7. settled' = IF settled = opposite THEN "open" ELSE settled
  BY <1>1 DEF Command
<1>8. SettledHolds'
  BY <1>1, <1>3, <1>4, <1>7 DEF SettledHolds
<1>9. \A x \in Askers : basis'[x] = IF basis[x] = opposite THEN "open" ELSE basis[x]
  BY <1>1 DEF Command
<1>10. BasisIsSettled'
  BY <1>7, <1>9 DEF BasisIsSettled
<1>11. AskedPaused' /\ AskedRunning'
  BY <1>1, <1>3, <1>4, <1>9 DEF AskedPaused, AskedRunning
<1> QED BY <1>5, <1>6, <1>8, <1>10, <1>11

(* A round trip of a command keeps SwitchInv.                              *)
LEMMA SwitchKeeps ==
  ASSUME SwitchInv, NEW p \in People, Switch(p), TypeOK'
  PROVE  SwitchInv'
<1> USE DEF SwitchInv, Pausing, Resuming
<1>1. PICK next \in {"idle", "set reason", "delete reason"} :
        /\ Goto(p, next)
        /\ next = "set reason" => at[p] = "set flag" /\ wsFlag'
        /\ next = "delete reason" => at[p] = "delete flag" /\ ~wsFlag'
  <2>1. CASE SetFlag(p) /\ ~Fails(p, SetFlagKey)
    <3> WITNESS "set reason" \in {"idle", "set reason", "delete reason"}
    <3> QED BY <2>1 DEF SetFlag, SetFlagKey
  <2>2. CASE DeleteFlag(p) /\ ~Fails(p, DeleteFlagKey)
    <3> WITNESS "delete reason" \in {"idle", "set reason", "delete reason"}
    <3> QED BY <2>2 DEF DeleteFlag, DeleteFlagKey
  <2>3. CASE Goto(p, "idle")
    BY <2>3
  <2> QED
    BY <2>1, <2>2, <2>3 DEF Switch, SetFlag, SetReason, DeleteFlag, DeleteReason, Fails
<1>2. \A y \in People \cup Askers : at'[y] = IF y = p THEN next ELSE at[y]
  BY <1>1, GotoMoves
<1>3. /\ \A q \in People : at'[q] = IF q = p THEN next ELSE at[q]
      /\ \A x \in Askers : at'[x] = at[x]
  BY <1>2, SwitchAssumption DEF SwitchAssumption
<1>4. UNCHANGED <<overlapped, basis, read, again>>
  BY DEF Switch, SetFlag, SetReason, DeleteFlag, DeleteReason, Fails, Confirm, history,
     asked
<1>5. wsFlag' # wsFlag => at[p] \in {"set flag", "delete flag"}
  BY DEF Switch, SetFlag, SetReason, DeleteFlag, DeleteReason, Fails, SetReasonKey,
     DeleteReasonKey, keys
<1>6. /\ at[p] # "delete flag" /\ wsFlag => wsFlag'
      /\ at[p] # "set flag" /\ wsFlag' => wsFlag
  <2>1. /\ at[p] = "set flag" => wsFlag' = wsFlag \/ wsFlag' = TRUE
        /\ at[p] = "delete flag" => wsFlag' = wsFlag \/ wsFlag' = FALSE
    BY DEF Switch, SetFlag, SetReason, DeleteFlag, DeleteReason, Fails, SetFlagKey,
       DeleteFlagKey, keys
  <2>2. wsFlag \in BOOLEAN /\ wsFlag' \in BOOLEAN BY DEF TypeOK
  <2> QED BY <1>5, <2>1, <2>2
<1>7. \/ wsReason' = wsReason
      \/ at[p] = "set reason" /\ wsReason' = p
      \/ at[p] = "delete reason"
  BY DEF Switch, SetFlag, SetReason, DeleteFlag, DeleteReason, Fails, SetFlagKey,
     DeleteFlagKey, SetReasonKey, DeleteReasonKey, keys
<1>8. settled' # settled =>
        /\ p \notin overlapped
        /\ \/ at[p] = "set reason" /\ settled' = "paused" /\ wsReason' = p
           \/ at[p] = "delete reason" /\ settled' = "running"
  BY DEF Switch, SetFlag, SetReason, DeleteFlag, DeleteReason, Fails, Confirm, history,
     SetReasonKey, DeleteReasonKey
<1>9. OverlapIsNoticed'
  BY <1>1, <1>3, <1>4 DEF OverlapIsNoticed
<1>10. FlagIsMine'
  <2>1. \A q \in People : q # p /\ q \notin overlapped =>
          /\ at[q] = "set reason" => at[p] # "delete flag"
          /\ at[q] = "delete reason" => at[p] # "set flag"
    BY DEF OverlapIsNoticed
  <2>2. ASSUME NEW q \in People, q # p, q \notin overlapped
        PROVE  /\ at'[q] = "set reason" => wsFlag'
               /\ at'[q] = "delete reason" => ~wsFlag'
    BY <1>3, <1>6, <2>1, <2>2 DEF FlagIsMine
  <2>3. /\ at'[p] = "set reason" => wsFlag'
        /\ at'[p] = "delete reason" => ~wsFlag'
    BY <1>1, <1>3
  <2> QED BY <1>4, <2>2, <2>3 DEF FlagIsMine
<1>11. SettledHolds'
  <2>1. CASE settled' = settled
    <3>1. settled = "paused" => wsFlag' /\ wsReason' # Nobody
      BY <1>6, <1>7, SwitchAssumption DEF SettledHolds, SwitchAssumption
    <3>2. settled = "running" => ~wsFlag'
      BY <1>6 DEF SettledHolds
    <3>3. /\ settled = "paused" => \A q \in People : at'[q] \notin Resuming
          /\ settled = "running" => \A q \in People : at'[q] \notin Pausing
      BY <1>1, <1>3 DEF SettledHolds
    <3> QED BY <2>1, <3>1, <3>2, <3>3 DEF SettledHolds
  <2>2. CASE settled' # settled
    <3>1. wsFlag' = wsFlag BY <1>5, <1>8, <2>2
    <3>2. at[p] = "set reason" => wsFlag /\ \A q \in People : at[q] \notin Resuming
      BY <1>8, <2>2 DEF FlagIsMine, OverlapIsNoticed
    <3>3. at[p] = "delete reason" => ~wsFlag /\ \A q \in People : at[q] \notin Pausing
      BY <1>8, <2>2 DEF FlagIsMine, OverlapIsNoticed
    <3>4. next \in Pausing \cup Resuming => at[p] \notin {"set reason", "delete reason"}
      BY <1>1
    <3> QED
      BY <1>1, <1>3, <1>8, <2>2, <3>1, <3>2, <3>3, <3>4, SwitchAssumption
         DEF SettledHolds, SwitchAssumption
  <2> QED BY <2>1, <2>2
<1>12. BasisIsSettled'
  <2>1. settled' # settled => settled = "open" \/ settled = settled'
    BY <1>8 DEF SettledHolds, TypeOK
  <2> QED BY <1>4, <2>1 DEF BasisIsSettled
<1>13. AskedPaused' /\ AskedRunning'
  BY <1>3, <1>4 DEF AskedPaused, AskedRunning
<1> QED BY <1>9, <1>10, <1>11, <1>12, <1>13

(* A question, and what an asker is told, keep SwitchInv.                  *)
LEMMA AskKeeps ==
  ASSUME SwitchInv, NEW x \in Askers, Question(x) \/ Ask(x) \/ CannotAsk(x), TypeOK'
  PROVE  SwitchInv'
<1> USE DEF SwitchInv
<1>1. PICK next : Goto(x, next)
  BY DEF Question, Ask, AskGlobal, AskWorkspace, AskReason, AskGlobalAgain,
     AskWorkspaceAgain, CannotAsk
<1>2. /\ \A p \in People : at'[p] = at[p]
      /\ \A y \in Askers : at'[y] = IF y = x THEN next ELSE at[y]
  BY <1>1, GotoMoves, SwitchAssumption DEF SwitchAssumption
<1>3. /\ UNCHANGED <<configPause, globalFlag, wsFlag, wsReason, overlapped, settled>>
      /\ \A y \in Askers \ {x} :
           basis'[y] = basis[y] /\ read'[y] = read[y] /\ again'[y] = again[y]
      /\ basis'[x] \in {basis[x], settled}
  <2> USE DEF keys, history, TypeOK
  <2>1. CASE Question(x) BY <2>1 DEF Question
  <2>2. CASE Ask(x)
    BY <2>2 DEF Ask, AskGlobal, AskWorkspace, AskReason, AskGlobalAgain,
       AskWorkspaceAgain, Told, asked
  <2>3. CASE CannotAsk(x) BY <2>3 DEF CannotAsk
  <2> QED BY <2>1, <2>2, <2>3
<1>4. OverlapIsNoticed' /\ FlagIsMine' /\ SettledHolds'
  BY <1>2, <1>3 DEF OverlapIsNoticed, FlagIsMine, SettledHolds, Pausing, Resuming
<1>6. BasisIsSettled'
  BY <1>3 DEF BasisIsSettled
<1>7. basis'[x] = "paused" =>
        /\ at'[x] # "triggered"
        /\ at'[x] \in {"global again", "workspace again", "status"} => read'[x].paused
        /\ at'[x] = "stopped" => read'[x].reason # Nobody
  <2> SUFFICES ASSUME basis'[x] = "paused"
               PROVE  /\ at'[x] # "triggered"
                      /\ at'[x] \in {"global again", "workspace again", "status"}
                           => read'[x].paused
                      /\ at'[x] = "stopped" => read'[x].reason # Nobody
    OBVIOUS
  <2>1. wsFlag /\ wsReason # Nobody
    BY <1>3, <1>6 DEF BasisIsSettled, SettledHolds
  <2>2. CASE Question(x)
    BY <2>2, <1>2 DEF Question, Goto, TypeOK
  <2>3. ASSUME ~Question(x)
        PROVE  basis[x] = "paused"
    BY <2>3 DEF Ask, AskGlobal, AskWorkspace, AskReason, AskGlobalAgain,
       AskWorkspaceAgain, CannotAsk, Told, history
  <2>4. CASE AskGlobal(x)
    BY <2>1, <2>4 DEF AskGlobal, Told, Then, Goto, TypeOK
  <2>5. CASE AskWorkspace(x)
    BY <2>1, <2>5 DEF AskWorkspace, Told, Then, Goto, TypeOK
  <2>6. CASE AskReason(x)
    BY <2>1, <2>6 DEF AskReason, Told, Then, Goto, TypeOK
  <2>7. CASE ~Question(x) /\ (AskGlobalAgain(x) \/ AskWorkspaceAgain(x))
    BY <2>3, <2>7 DEF AskGlobalAgain, AskWorkspaceAgain, Goto, TypeOK, AskedPaused, asked
  <2>8. CASE CannotAsk(x)
    BY <2>8 DEF CannotAsk, Goto, TypeOK
  <2> QED BY <2>2, <2>4, <2>5, <2>6, <2>7, <2>8 DEF Ask
<1>8. basis'[x] = "running" =>
        /\ at'[x] \notin {"reason", "stopped"}
        /\ at'[x] = "status" => ~again'[x]
  <2> SUFFICES ASSUME basis'[x] = "running"
               PROVE  /\ at'[x] \notin {"reason", "stopped"}
                      /\ at'[x] = "status" => ~again'[x]
    OBVIOUS
  <2>1. ~wsFlag
    BY <1>3, <1>6 DEF BasisIsSettled, SettledHolds
  <2>2. CASE Question(x)
    BY <2>2, <1>2 DEF Question, Goto, TypeOK
  <2>3. ASSUME ~Question(x)
        PROVE  basis[x] = "running"
    BY <2>3 DEF Ask, AskGlobal, AskWorkspace, AskReason, AskGlobalAgain,
       AskWorkspaceAgain, CannotAsk, Told, history
  <2>4. CASE AskGlobal(x)
    BY <2>1, <2>4 DEF AskGlobal, Told, Then, Goto, TypeOK
  <2>5. CASE AskWorkspace(x)
    BY <2>1, <2>5 DEF AskWorkspace, Told, Then, Goto, TypeOK
  <2>6. CASE ~Question(x) /\ AskReason(x)
    BY <2>3, <2>6 DEF AskReason, AskedRunning
  <2>7. CASE AskGlobalAgain(x) \/ AskWorkspaceAgain(x)
    BY <2>1, <2>7 DEF AskGlobalAgain, AskWorkspaceAgain, Goto, TypeOK
  <2>8. CASE CannotAsk(x)
    BY <2>8 DEF CannotAsk, Goto, TypeOK
  <2> QED BY <2>2, <2>4, <2>5, <2>6, <2>7, <2>8 DEF Ask
<1>9. AskedPaused' /\ AskedRunning'
  <2>1. \A y \in Askers \ {x} :
          at'[y] = at[y] /\ read'[y] = read[y] /\ again'[y] = again[y] /\ basis'[y] = basis[y]
    BY <1>2, <1>3
  <2>2. AskedPaused'
    <3> SUFFICES ASSUME NEW y \in Askers \ {x}, basis'[y] = "paused"
                 PROVE  /\ at'[y] # "triggered"
                        /\ at'[y] \in {"global again", "workspace again", "status"}
                             => read'[y].paused
                        /\ at'[y] = "stopped" => read'[y].reason # Nobody
      BY <1>7 DEF AskedPaused
    <3> QED BY <2>1 DEF AskedPaused
  <2>3. AskedRunning'
    <3> SUFFICES ASSUME NEW y \in Askers \ {x}, basis'[y] = "running"
                 PROVE  /\ at'[y] \notin {"reason", "stopped"}
                        /\ at'[y] = "status" => ~again'[y]
      BY <1>8 DEF AskedRunning
    <3> QED BY <2>1 DEF AskedRunning
  <2> QED BY <2>2, <2>3
<1> QED BY <1>4, <1>6, <1>9

(* SwitchInv is an invariant.                                              *)
LEMMA SwitchInvHolds == Spec => []SwitchInv
<1>1. Init => SwitchInv
  <2> SUFFICES ASSUME Init PROVE SwitchInv
    OBVIOUS
  <2>1. TypeOK BY DEF Init, TypeOK, Unasked
  <2> QED
    BY <2>1, SwitchAssumption DEF SwitchAssumption, Init, SwitchInv, OverlapIsNoticed,
       FlagIsMine, SettledHolds, BasisIsSettled, AskedPaused, AskedRunning, Pausing,
       Resuming
<1>2. SwitchInv /\ TypeOK' /\ [Next]_vars => SwitchInv'
  <2> SUFFICES ASSUME SwitchInv, TypeOK', [Next]_vars PROVE SwitchInv'
    OBVIOUS
  <2>1. CASE UNCHANGED vars
    BY <2>1 DEF vars, keys, asked, history, SwitchInv, TypeOK, OverlapIsNoticed,
       FlagIsMine, SettledHolds, BasisIsSettled, AskedPaused, AskedRunning
  <2>2. ASSUME NEW p \in People, SwitchGlobal(p) PROVE SwitchInv'
    BY <2>2 DEF SwitchGlobal, keys, asked, history, SwitchInv, OverlapIsNoticed,
       FlagIsMine, SettledHolds, BasisIsSettled, AskedPaused, AskedRunning
  <2> QED
    BY <2>1, <2>2, CommandKeeps, SwitchKeeps, AskKeeps DEF Next, AutoPauseIfNeeded
<1> QED BY <1>1, <1>2, TypeCorrect, PTL DEF Spec

(* A confirmed pause holds until it is resumed, whoever asks: the two keys *)
(* pause_workspace writes one after the other are never read so that a     *)
(* gate goes on, or a reason is missing.                                   *)
THEOREM PauseHoldsAlways == Spec => []PauseHolds
<1>1. SwitchInv => PauseHolds
  BY DEF SwitchInv, AskedPaused, PauseHolds
<1> QED BY <1>1, SwitchInvHolds, PTL

(* A confirmed resume holds until somebody pauses again.                   *)
THEOREM ResumeHoldsAlways == Spec => []ResumeHolds
<1>1. SwitchInv => ResumeHolds
  BY DEF SwitchInv, AskedRunning, ResumeHolds
<1> QED BY <1>1, SwitchInvHolds, PTL
=============================================================================
