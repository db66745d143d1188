------------------------ MODULE ProviderSyncRestart ------------------------
(***************************************************************************)
(* The manager's restart button next to the provider-sync lock             *)
(* (apps/codex-plus-manager/src-tauri/src/commands.rs, restart_codex_plus).*)
(*                                                                         *)
(* The manager polls the lock without taking it, with the same calls as a  *)
(* current process that looks at it.  When the lock looks free or stale    *)
(* every launcher process is killed; when the time runs out the restart is *)
(* given up.                                                               *)
(***************************************************************************)
EXTENDS ProviderSyncLock

CONSTANT
  Launchers    \* the processes stop_launcher_processes_and_wait kills

ASSUME LaunchersAssumption == Launchers \subseteq Pids

VARIABLES
  mgr,     \* where the restart command is
  look,    \* what its present look at the lock has read
  calm     \* history: nobody was inside at some moment of this look

mgrVars == <<mgr, look>>
restartVars == <<vars, mgrVars, calm>>

RestartInit ==
  Init /\ mgr = "idle" /\ look = NothingSeen /\ calm = FALSE

(* The relay switch mutex keeps a second restart out.                      *)
BeginRestart ==
  /\ mgr = "idle"
  /\ mgr' = "exists"
  /\ UNCHANGED <<vars, look>>

(* wait_for_idle_provider_sync: Free or Stale lets the restart go ahead;   *)
(* Held or Indeterminate means another wait or, when the time is up, which *)
(* may be at any poll, a refusal.                                          *)
VerdictAfterTimeout(idle) ==  \* mutant: out of time, the restart goes ahead
  /\ look' = NothingSeen
  /\ mgr' = "stopping" \/ (~ idle /\ mgr' = "exists")

Verdict(idle) ==
  /\ look' = NothingSeen
  /\ \/ idle /\ mgr' = "stopping"
     \/ ~ idle /\ mgr' \in {"exists", "idle"}

(* inspect_lock, call by call, as in the lock's own look.                  *)
PollExists ==
  /\ mgr = "exists"
  /\ \/ Exists /\ mgr' = "read" /\ UNCHANGED look
     \/ ~ Exists /\ Verdict(TRUE)
  /\ UNCHANGED vars

PollOwner ==
  /\ mgr = "read"
  /\ mgr' = "stat"
  /\ look' = [owner |-> owner, age |-> 0]
  /\ UNCHANGED vars

PollAge ==
  /\ mgr = "stat"
  /\ \/ look.owner = NoOwner /\ Verdict(Interrupted(DirAge))
     \/ /\ look.owner # NoOwner
        /\ mgr' = "ask"
        /\ look' = [owner |-> look.owner, age |-> DirAge]
  /\ UNCHANGED vars

PollProcess ==
  /\ mgr = "ask"
  /\ \E r \in Reports(look.owner.pid) : Verdict(OwnerStale(look, r))
  /\ UNCHANGED vars

(* stop_launcher_processes_and_wait: launchers die wherever they are.      *)
StopLaunchers ==
  /\ mgr = "stopping"
  /\ mgr' = "idle"
  /\ LET killed == {p \in Launchers : alive[p]}
     IN  /\ \A p \in killed : birth[p] < MaxBirth
         /\ alive' = [p \in Pids |-> alive[p] /\ p \notin killed]
         /\ pc' = [p \in Pids |-> IF p \in killed THEN "idle" ELSE pc[p]]
         /\ myId' = [p \in Current |-> IF p \in killed THEN NoId ELSE myId[p]]
         /\ seen' = [p \in Current |-> IF p \in killed THEN NothingSeen ELSE seen[p]]
         /\ osLock' = IF osLock \in killed THEN Nobody ELSE osLock
  /\ UNCHANGED <<birth, dirVars, look>>

(* History: a look begins with its call of path.exists and ends with the   *)
(* verdict.                                                                *)
RecordCalm ==
  calm' = (mgr' \in {"read", "stat", "ask", "stopping"} /\
           (calm \/ Inside = {} \/ Inside' = {}))

RestartStep ==
  \/ Next /\ UNCHANGED mgrVars
  \/ BeginRestart \/ PollExists \/ PollOwner \/ PollAge \/ PollProcess
  \/ StopLaunchers

RestartNext == RestartStep /\ RecordCalm

RestartSpec == RestartInit /\ [][RestartNext]_restartVars

FairRestartSpec == RestartSpec /\ Fairness

-----------------------------------------------------------------------------

(* Types of the composed state.                                            *)
RestartTypeOK ==
  /\ TypeOK
  /\ mgr \in {"idle", "exists", "read", "stat", "ask", "stopping"}
  /\ look \in LookRec
  /\ calm \in BOOLEAN

(* The look that lets the restart go ahead never overlooks a sync that is  *)
(* in progress all through it: whatever the system reports about the pid   *)
(* in owner.json and whatever happens between the calls of the look, there *)
(* was a moment in it with no process of either protocol inside.           *)
PollNeverMissesSync ==
  [][mgr # "stopping" /\ mgr' = "stopping" => calm']_restartVars
=============================================================================
