-------------------------- MODULE LauncherLifecycle --------------------------
(***************************************************************************)
(* The launcher process from its start to its end: the single-instance     *)
(* guard and the recovery of a stale launcher, the helper on its fixed     *)
(* port with the token file through which a successor asks it to yield,    *)
(* the launch of Codex, the failure path of a launch, the wait for the     *)
(* end of Codex and the graceful shutdown on a signal                      *)
(* (apps/codex-plus-launcher/src/main.rs, codex-plus-core/src/launcher.rs).*)
(* One helper port; launchers of a kind and Codex processes are numbered   *)
(* in the order they start.                                                *)
(* The steps of a launch that touch neither the port nor Codex (settings,  *)
(* provider sync, themes, bridge script, status texts) are left out; that  *)
(* they may fail is part of LaunchFails and StatusFails.                   *)
(***************************************************************************)
EXTENDS Naturals, FiniteSets

CONSTANTS Mains,        \* launchers started for the user
          Helpers,      \* launchers started with --helper-only
          Nobody,       \* no process
          MaxCodex,     \* bound: Codex processes started in a behaviour
          MaxTrouble    \* bound: kills, signals and terminations that fail

Launchers == Mains \cup Helpers

ASSUME LifecycleAssumption ==
    /\ Launchers \subseteq Nat /\ IsFiniteSet(Launchers)
    /\ Mains \cap Helpers = {}
    /\ Nobody \notin Launchers
    /\ {MaxCodex, MaxTrouble} \subseteq Nat

VARIABLES pc,        \* where each launcher is
          mode,      \* why it stops: "-", "fail", "gone", "signal"
          guard,     \* holder of the single-instance guard
          mayRecover,\* allow_stale_recovery
          listener,  \* launcher whose helper task has the port
          armed,     \* the helper task runs its 50 ms shutdown branch
          flag,      \* shutdown_requested of each helper
          runtime,   \* the helper slot of the hooks is full
          file,      \* the launcher the metadata file names
          unnamed,   \* history: the holder's token could not be written
          token,     \* the token each launcher read from it, for its request
          requests,  \* shutdown requests accepted and not yet handled
          own,       \* the clearing launcher read its own token
          codex,     \* the Codex process that runs, 0 when none
          started,   \* Codex processes started so far
          returning, \* Codex ended to restart itself
          child,     \* Codex process each launcher started or activated
          slot,      \* the child handle is in the hooks' slot
          packaged,  \* Codex was activated as a package, by process id
          keep,      \* keep_launched_on_error
          streak,    \* consecutive observations without Codex
          trouble    \* kills, signals and failed terminations so far

ports == <<listener, armed, flag, runtime, file, unnamed, token, requests, own>>
app == <<codex, started, returning>>
mine == <<child, slot, packaged, keep, streak>>
vars == <<pc, mode, guard, mayRecover, ports, app, mine, trouble>>

Ended == {"done", "failed", "killed"}
Waiting == {"child", "watch", "serve"}
Stopping == {"stop", "clear", "remove", "terminate"}

Init ==
    /\ pc = [l \in Launchers |-> "off"]
    /\ mode = [l \in Launchers |-> "-"]
    /\ guard = Nobody
    /\ mayRecover = [l \in Launchers |-> TRUE]
    /\ listener = Nobody
    /\ armed = FALSE
    /\ flag = [l \in Launchers |-> FALSE]
    /\ runtime = [l \in Launchers |-> FALSE]
    /\ file = Nobody
    /\ unnamed = FALSE
    /\ token = [l \in Launchers |-> Nobody]
    /\ requests = {}
    /\ own = [l \in Launchers |-> FALSE]
    /\ codex = 0 /\ started = 0 /\ returning = FALSE
    /\ child = [l \in Launchers |-> 0]
    /\ slot = [l \in Launchers |-> FALSE]
    /\ packaged = [l \in Launchers |-> FALSE]
    /\ keep = [l \in Launchers |-> FALSE]
    /\ streak = [l \in Launchers |-> 0]
    /\ trouble = 0

Goto(l, place) == pc' = [pc EXCEPT ![l] = place]

-----------------------------------------------------------------------------
(* Start and single-instance guard.                                        *)

(* main: --helper-only goes straight to its helper, without the guard.     *)
Start(l) ==
    /\ pc[l] = "off"
    /\ \A o \in Launchers :
          o < l /\ (o \in Mains <=> l \in Mains) => pc[o] # "off"
    /\ Goto(l, IF l \in Helpers THEN "bind" ELSE "guard")
    /\ UNCHANGED <<mode, guard, mayRecover, ports, app, mine, trouble>>

TakeGuard(l) ==
    /\ pc[l] = "guard"
    /\ guard = Nobody
    /\ guard' = l
    /\ mayRecover' = [mayRecover EXCEPT ![l] = TRUE]  \* not used again
    /\ Goto(l, "bind")
    /\ UNCHANGED <<mode, ports, app, mine, trouble>>

(* The guard is held and no Codex is seen: every other launcher process is *)
(* told to end (on Linux none is), once, and the guard is tried again      *)
(* after a fixed pause.                                                    *)
Recover(l) ==
    /\ pc[l] = "guard"
    /\ guard # Nobody
    /\ mayRecover[l]
    /\ codex = 0
    /\ mayRecover' = [mayRecover EXCEPT ![l] = FALSE]
    /\ \E platformStops \in BOOLEAN :
          pc' = [o \in Launchers |->
                   IF platformStops /\ o # l /\ pc[o] \notin Ended \cup {"off"}
                     THEN "dying" ELSE pc[o]]
    /\ UNCHANGED <<mode, guard, ports, app, mine, trouble>>

(* Codex is started, or the one that runs is brought to the front.         *)
StartCodex ==
    /\ started < MaxCodex
    /\ IF codex = 0
         THEN /\ started' = started + 1
              /\ codex' = started + 1
              /\ returning' = FALSE
         ELSE UNCHANGED app

(* What a process that ended only had in memory.                           *)
Forget(l) ==
    /\ child' = [child EXCEPT ![l] = 0]
    /\ slot' = [slot EXCEPT ![l] = FALSE]
    /\ packaged' = [packaged EXCEPT ![l] = FALSE]
    /\ keep' = [keep EXCEPT ![l] = FALSE]
    /\ streak' = [streak EXCEPT ![l] = 0]
    /\ mode' = [mode EXCEPT ![l] = "-"]
    /\ mayRecover' = [mayRecover EXCEPT ![l] = TRUE]

(* The end of a process gives back its guard and its port, and with it end *)
(* the tasks of its connections.                                           *)
Release(l) ==
    /\ guard' = IF guard = l THEN Nobody ELSE guard
    /\ flag' = [flag EXCEPT ![l] = FALSE]
    /\ runtime' = [runtime EXCEPT ![l] = FALSE]
    /\ Forget(l)
    /\ listener' = IF listener = l THEN Nobody ELSE listener
    /\ armed' = (armed /\ listener # l)
    /\ requests' = {r \in requests : r.to # l}

(* activate_existing_codex_app: Codex is launched once more, without       *)
(* helper or supervision, and the process ends.                            *)
Activate(l) ==
    /\ pc[l] = "guard"
    /\ guard # Nobody
    /\ ~mayRecover[l] \/ codex # 0
    /\ StartCodex
    /\ Goto(l, "done")
    /\ UNCHANGED <<mode, guard, mayRecover, ports, mine, trouble>>

-----------------------------------------------------------------------------
(* The helper and its port.                                                *)

BindHelper(l) ==
    /\ pc[l] \in {"bind", "retry"}
    /\ listener = Nobody
    /\ listener' = l
    /\ Goto(l, "persist")
    /\ UNCHANGED <<mode, guard, mayRecover, armed, flag, runtime, file,
                   unnamed, token, requests, own, app, mine, trouble>>

(* persist_helper_runtime_metadata, then the task is spawned.  An error of *)
(* the write is only logged: the file of a predecessor stays.              *)
Persist(l) ==
    /\ pc[l] = "persist"
    /\ \/ file' = l /\ unnamed' = FALSE
       \/ file' = file /\ unnamed' = TRUE
    /\ runtime' = [runtime EXCEPT ![l] = TRUE]
    /\ Goto(l, IF l \in Helpers THEN "serve" ELSE "launch")
    /\ UNCHANGED <<mode, guard, mayRecover, listener, armed, flag, token,
                   requests, own, app, mine, trouble>>

AskYieldAfterPersisting(l) ==  \* mutant: the token is written before the bind succeeded
    /\ pc[l] = "bind" /\ l \in Mains
    /\ listener # Nobody
    /\ file' = l
    /\ token' = [token EXCEPT ![l] = file]
    /\ Goto(l, IF file = Nobody THEN "retry" ELSE "post")
    /\ UNCHANGED <<mode, guard, mayRecover, listener, armed, flag, runtime,
                   unnamed, requests, own, app, mine, trouble>>

(* The first busy attempt of a main launcher reads the metadata file and   *)
(* asks the helper it names; without a file there is nobody to ask.        *)
AskYield(l) ==
    /\ pc[l] = "bind" /\ l \in Mains
    /\ listener # Nobody
    /\ token' = [token EXCEPT ![l] = file]
    /\ Goto(l, IF file = Nobody THEN "retry" ELSE "post")
    /\ UNCHANGED <<mode, guard, mayRecover, listener, armed, flag, runtime, file,
                   unnamed, requests, own, app, mine, trouble>>

NextTurnKeepsBranch(l) ==  \* mutant: the flag is not looked at again
    armed' = armed

(* One turn of the accept loop: the shutdown flag is looked at only when   *)
(* the select is entered again, after a connection.                        *)
NextTurn(l) == armed' = flag[l]

(* The request reaches whoever has the port by now, or nobody.             *)
Post(l) ==
    /\ pc[l] = "post"
    /\ \/ /\ listener # Nobody
          /\ runtime[listener]
          /\ requests' = requests \cup {[to |-> listener, bearer |-> token[l]]}
          /\ NextTurn(listener)
       \/ listener = Nobody /\ UNCHANGED <<requests, armed>>
    /\ Goto(l, "retry")
    /\ UNCHANGED <<mode, guard, mayRecover, listener, flag, runtime, file, unnamed,
                   token, own, app, mine, trouble>>

HandleShutdownUnchecked ==  \* mutant: any token stops the helper
    \E r \in requests :
        /\ requests' = requests \ {r}
        /\ flag' = [flag EXCEPT ![r.to] = TRUE]
        /\ UNCHANGED <<pc, mode, guard, mayRecover, listener, armed, runtime, file,
                       unnamed, token, own, app, mine, trouble>>

(* The connection's own task compares the token; the request may be        *)
(* handled after the asking launcher stopped waiting for the answer.       *)
HandleShutdown ==
    \E r \in requests :
        /\ requests' = requests \ {r}
        /\ flag' = [flag EXCEPT ![r.to] = @ \/ r.bearer = r.to]
        /\ UNCHANGED <<pc, mode, guard, mayRecover, listener, armed, runtime, file,
                       unnamed, token, own, app, mine, trouble>>

(* Codex, the injected page or the manager connects to the helper.         *)
Call ==
    /\ listener # Nobody
    /\ runtime[listener]
    /\ NextTurn(listener)
    /\ UNCHANGED <<pc, mode, guard, mayRecover, listener, flag, runtime, file, unnamed,
                   token, requests, own, app, mine, trouble>>

(* The 50 ms branch fires: the task ends and the port is free.  The        *)
(* launcher itself goes on as before.                                      *)
Yield ==
    /\ armed
    /\ listener' = Nobody
    /\ armed' = FALSE
    /\ UNCHANGED <<pc, mode, guard, mayRecover, flag, runtime, file, unnamed,
                   token, requests, own, app, mine, trouble>>

(* The port stayed busy for the whole retry time, or there is no retry.    *)
GiveUp(l) ==
    /\ pc[l] \in {"bind", "retry"}
    /\ listener # Nobody
    /\ mode' = [mode EXCEPT ![l] = "fail"]
    /\ Goto(l, "stop")
    /\ UNCHANGED <<guard, mayRecover, ports, app, mine, trouble>>

-----------------------------------------------------------------------------
(* Launch of Codex.                                                        *)

(* Package activation names the process that runs; a plain process that    *)
(* meets a running Codex hands over to it and ends.                        *)
LaunchCodex(l) ==
    /\ pc[l] = "launch"
    /\ StartCodex
    /\ \E asPackage \in BOOLEAN :
          /\ packaged' = [packaged EXCEPT ![l] = asPackage]
          /\ slot' = [slot EXCEPT ![l] = ~asPackage]
          /\ child' = [child EXCEPT ![l] = IF codex = 0 \/ asPackage THEN codex' ELSE 0]
    /\ keep' = [keep EXCEPT ![l] = TRUE]
    /\ Goto(l, "inject")
    /\ UNCHANGED <<mode, guard, mayRecover, ports, streak, trouble>>

LaunchFails(l) ==
    /\ pc[l] = "launch"
    /\ mode' = [mode EXCEPT ![l] = "fail"]
    /\ Goto(l, "stop")
    /\ UNCHANGED <<guard, mayRecover, ports, app, mine, trouble>>

(* ensure_injection: ready, or degraded after the last attempt; also       *)
(* "degraded" when the enhancements are off.  Then the status is saved and *)
(* the launch has succeeded, with which its keep_launched_on_error ends;   *)
(* wait_for_codex_exit takes the child out of the slot to wait for it.     *)
Supervise(l) ==
    /\ pc[l] = "inject"
    /\ keep' = [keep EXCEPT ![l] = FALSE]
    /\ slot' = [slot EXCEPT ![l] = FALSE]
    /\ Goto(l, "child")
    /\ UNCHANGED <<mode, guard, mayRecover, ports, app, child, packaged, streak, trouble>>

(* The watchdog or the status file fails, after the injection.             *)
StatusFails(l) ==
    /\ pc[l] = "inject"
    /\ \E ready \in BOOLEAN : keep' = [keep EXCEPT ![l] = ~ready]
    /\ mode' = [mode EXCEPT ![l] = "fail"]
    /\ Goto(l, "stop")
    /\ UNCHANGED <<guard, mayRecover, ports, app, child, slot, packaged, streak, trouble>>

-----------------------------------------------------------------------------
(* Waiting for the end of Codex.                                           *)

(* The handle of a plain child is gone with the wait.                      *)
GoOnWatching(l) ==
    /\ child' = [child EXCEPT ![l] = IF packaged[l] THEN @ ELSE 0]
    /\ Goto(l, "watch")
    /\ UNCHANGED <<mode, guard, mayRecover, ports, app, slot, packaged, keep,
                   streak, trouble>>

ChildEnded(l) ==
    /\ pc[l] = "child"
    /\ codex = 0 \/ child[l] # codex
    /\ GoOnWatching(l)

(* An error of the wait is dropped and the process counts as ended.        *)
WaitFails(l) ==
    /\ pc[l] = "child"
    /\ GoOnWatching(l)

Gone == 3

ObserveForgets(l) ==  \* mutant: the streak starts again with every look
    /\ pc[l] = "watch"
    /\ streak' = [streak EXCEPT ![l] = 0]
    /\ UNCHANGED <<pc, mode>>
    /\ UNCHANGED <<guard, mayRecover, ports, app, child, slot, packaged, keep, trouble>>

(* Only the looks count, 2 s apart: a Codex that is away for all three     *)
(* while it restarts itself is taken for gone.                             *)
Observe(l) ==
    /\ pc[l] = "watch"
    /\ streak' = [streak EXCEPT ![l] = IF codex # 0 THEN 0 ELSE @ + 1]
    /\ IF streak'[l] = Gone
         THEN mode' = [mode EXCEPT ![l] = "gone"] /\ Goto(l, "stop")
         ELSE UNCHANGED <<mode, pc>>
    /\ UNCHANGED <<guard, mayRecover, ports, app, child, slot, packaged, keep, trouble>>

-----------------------------------------------------------------------------
(* Stopping: shutdown_helper, terminate_codex, the end of the process.     *)

(* The runtime is taken from its slot and its task ended: the port is free.*)
StopHelper(l) ==
    /\ pc[l] = "stop"
    /\ IF runtime[l]
         THEN /\ listener' = IF listener = l THEN Nobody ELSE listener
              /\ armed' = (armed /\ listener # l)
              /\ runtime' = [runtime EXCEPT ![l] = FALSE]
              /\ Goto(l, "clear")
         ELSE /\ UNCHANGED <<listener, armed, runtime>>
              /\ Goto(l, "terminate")
    /\ UNCHANGED <<mode, guard, mayRecover, flag, file, unnamed, token, requests,
                   own, app, mine, trouble>>

(* clear_helper_runtime_metadata: the file is read, which may fail, ...    *)
ReadFile(l) ==
    /\ pc[l] = "clear"
    /\ \E read \in BOOLEAN : own' = [own EXCEPT ![l] = read /\ file = l]
    /\ Goto(l, "remove")
    /\ UNCHANGED <<mode, guard, mayRecover, listener, armed, flag, runtime, file,
                   unnamed, token, requests, app, mine, trouble>>

(* ... and removed when it held the own token; an error is ignored.        *)
RemoveFile(l) ==
    /\ pc[l] = "remove"
    /\ \/ own[l] /\ file' = Nobody
       \/ UNCHANGED file
    /\ own' = [own EXCEPT ![l] = FALSE]
    /\ Goto(l, "terminate")
    /\ UNCHANGED <<mode, guard, mayRecover, listener, armed, flag, runtime, unnamed,
                   token, requests, app, mine, trouble>>

(* terminate_codex kills the child that is still in the slot, or the       *)
(* activated package's process.                                            *)
CanTerminate(l) == child[l] # 0 /\ (packaged[l] \/ slot[l])

Terminates(l) == mode[l] = "signal" \/ (mode[l] = "fail" /\ ~keep[l])

Kills(l) == Terminates(l) /\ CanTerminate(l) /\ codex = child[l]

(* An error of the termination is ignored.                                 *)
Finish(l) ==
    /\ pc[l] = "terminate"
    /\ \/ /\ codex' = IF Kills(l) THEN 0 ELSE codex
          /\ UNCHANGED trouble
       \/ /\ Kills(l)
          /\ trouble < MaxTrouble
          /\ trouble' = trouble + 1
          /\ UNCHANGED codex
    /\ Goto(l, IF mode[l] = "fail" THEN "failed" ELSE "done")
    /\ Release(l)
    /\ UNCHANGED <<file, unnamed, token, own, started, returning>>

(* A signal wins over the wait: graceful_shutdown, unless the wait already *)
(* began the cleanup, then the process ends where it is.  The cleanup can  *)
(* only be left where it awaits, not between ReadFile and RemoveFile.      *)
Signal(l) ==
    /\ trouble < MaxTrouble
    /\ trouble' = trouble + 1
    /\ \/ /\ pc[l] \in Waiting
          /\ mode' = [mode EXCEPT ![l] = IF l \in Mains THEN "signal" ELSE "gone"]
          /\ Goto(l, "stop")
          /\ UNCHANGED <<guard, mayRecover, listener, armed, flag, runtime,
                         requests, mine>>
       \/ /\ l \in Mains /\ pc[l] \in {"stop", "clear"} /\ mode[l] = "gone"
          /\ Goto(l, "done")
          /\ Release(l)
    /\ UNCHANGED <<file, unnamed, token, own, app>>

OvertimeEnds(l) ==  \* mutant: a late cleanup ends without terminating Codex
    /\ pc[l] \in {"stop", "clear"}
    /\ l \in Mains /\ mode[l] = "signal"
    /\ Goto(l, "done")
    /\ Release(l)
    /\ UNCHANGED <<file, unnamed, token, own, app, trouble>>

(* The two seconds of graceful_shutdown are over: only Codex is terminated.*)
Overtime(l) ==
    /\ pc[l] \in {"stop", "clear"}
    /\ l \in Mains /\ mode[l] = "signal"
    /\ Goto(l, "terminate")
    /\ UNCHANGED <<mode, guard, mayRecover, ports, app, mine, trouble>>

(* A process dies at once: told so by Recover, or killed from outside.     *)
Die(l) ==
    /\ \/ pc[l] = "dying" /\ UNCHANGED trouble
       \/ /\ pc[l] \notin Ended \cup {"off", "dying"}
          /\ trouble < MaxTrouble
          /\ trouble' = trouble + 1
    /\ Goto(l, "killed")
    /\ Release(l)
    /\ UNCHANGED <<file, unnamed, token, own, app>>

-----------------------------------------------------------------------------
(* Codex.                                                                  *)

CodexEnds ==
    /\ codex # 0
    /\ codex' = 0
    /\ \E again \in BOOLEAN :
          /\ again => started < MaxCodex
          /\ returning' = again
    /\ UNCHANGED <<pc, mode, guard, mayRecover, ports, started, mine, trouble>>

CodexReturns ==
    /\ returning
    /\ codex = 0
    /\ started' = started + 1
    /\ codex' = started + 1
    /\ returning' = FALSE
    /\ UNCHANGED <<pc, mode, guard, mayRecover, ports, mine, trouble>>

-----------------------------------------------------------------------------
Own(l) ==
    \/ TakeGuard(l) \/ Recover(l) \/ Activate(l)
    \/ BindHelper(l) \/ Persist(l) \/ AskYield(l) \/ Post(l)
    \/ LaunchCodex(l) \/ Supervise(l) \/ ChildEnded(l) \/ Observe(l)
    \/ StopHelper(l) \/ ReadFile(l) \/ RemoveFile(l) \/ Finish(l)

Next ==
    \/ \E l \in Launchers :
          \/ Start(l) \/ Own(l) \/ GiveUp(l) \/ LaunchFails(l) \/ StatusFails(l)
          \/ WaitFails(l)
          \/ Signal(l) \/ Overtime(l) \/ Die(l)
    \/ HandleShutdown \/ Call \/ Yield
    \/ CodexEnds \/ CodexReturns

Spec == Init /\ [][Next]_vars

(* Every task the runtime polls makes its next step; a process told to die *)
(* dies.  Signals, kills, failures, the end of Codex, its coming back and  *)
(* its calls need not happen.                                              *)
FairSpec ==
    /\ Spec
    /\ \A l \in Launchers : WF_vars(Own(l) \/ (pc[l] = "retry" /\ GiveUp(l))
                                      \/ (pc[l] = "dying" /\ Die(l)))
    /\ WF_vars(HandleShutdown) /\ WF_vars(Yield)

-----------------------------------------------------------------------------
(* Properties.                                                             *)

(* Types, and how the pieces of one launcher belong together: a process    *)
(* that ended has neither guard nor port, the shutdown branch runs only in *)
(* a helper that was asked, only a main launcher has the guard or a child. *)
TypeOK ==
    /\ pc \in [Launchers -> Ended \cup Waiting \cup Stopping \cup
                 {"off", "guard", "bind", "persist", "post", "retry", "launch",
                  "inject", "dying"}]
    /\ mode \in [Launchers -> {"-", "fail", "gone", "signal"}]
    /\ guard \in Mains \cup {Nobody}
    /\ listener \in Launchers \cup {Nobody} /\ file \in Launchers \cup {Nobody}
    /\ token \in [Launchers -> Launchers \cup {Nobody}]
    /\ requests \subseteq [to : Launchers, bearer : Launchers \cup {Nobody}]
    /\ \A bits \in {flag, runtime, own, mayRecover, slot, packaged, keep} :
          bits \in [Launchers -> BOOLEAN]
    /\ armed \in BOOLEAN /\ unnamed \in BOOLEAN /\ returning \in BOOLEAN
    /\ codex \in 0..started /\ started \in 0..MaxCodex
    /\ child \in [Launchers -> 0..started]
    /\ streak \in [Launchers -> 0..Gone]
    /\ trouble \in 0..MaxTrouble
    /\ guard # Nobody => pc[guard] \notin Ended \cup {"off", "guard"}
    /\ listener # Nobody => pc[listener] \notin Ended \cup {"off", "guard", "bind"}
    /\ armed => listener # Nobody /\ flag[listener]
    /\ \A l \in Helpers : child[l] = 0

Unserved == {"off", "guard", "bind", "post", "retry", "persist"}

(* Whoever has the port can be asked to yield it, or cannot be asked at    *)
(* all: the metadata file names no older and no younger launcher than the  *)
(* one whose helper listens (persist after the bind, removal only of the   *)
(* own token), unless this helper's own token could not be written.  That  *)
(* the file may be missing is the race between ReadFile and RemoveFile of  *)
(* a predecessor and the Persist of its successor.  Whatever it holds, it  *)
(* is the token of a helper that has had the port, never of one to come.   *)
FileNamesHolder ==
    /\ listener # Nobody /\ runtime[listener] /\ ~unnamed => file \in {listener, Nobody}
    /\ file # Nobody => pc[file] \notin Unserved

(* Some main launcher read the token of l from the metadata file.          *)
Asked(l) == \E o \in Mains : token[o] = l

Served == Waiting \cup {"launch", "inject"}

(* What is true of a launcher at each place: nobody can ask a helper to    *)
(* stop before its metadata is persisted, and it is asked only with its    *)
(* own token; the port is not lost between the bind and the metadata; a    *)
(* launch that fails still has hold of the Codex it started.               *)
Places ==
    \A l \in Launchers :
        /\ pc[l] \in Unserved => ~runtime[l] /\ ~flag[l] /\ \A r \in requests : r.to # l
        /\ pc[l] = "persist" => listener = l
        /\ pc[l] \in Served => runtime[l] /\ (listener = l \/ Asked(l))
        /\ flag[l] => Asked(l)
        /\ pc[l] \in {"off", "guard", "bind"} => token[l] = Nobody
        /\ pc[l] \in {"guard", "post", "launch", "inject", "child", "watch"} => l \in Mains
        /\ pc[l] \in Unserved \cup {"launch"} => child[l] = 0
        /\ pc[l] \in Unserved \cup {"launch", "inject", "child"} => streak[l] = 0
        /\ pc[l] = "watch" => streak[l] < Gone
        /\ pc[l] \notin Stopping \cup {"dying"} => mode[l] = "-"
        /\ pc[l] = "inject" \/ (pc[l] \in Stopping /\ mode[l] = "fail")
              => child[l] = 0 \/ packaged[l] \/ slot[l]

(* A request carries a token that a main launcher read; a Codex that       *)
(* restarts itself has a start left.                                       *)
Outstanding ==
    /\ \A r \in requests : r.bearer # Nobody => Asked(r.bearer)
    /\ returning => started < MaxCodex

(* Port, metadata file and guard belong together, and with the place where *)
(* each launcher is.                                                       *)
LauncherInv == TypeOK /\ FileNamesHolder /\ Places /\ Outstanding

(* The helper of a launcher that waits listens, unless some launcher read  *)
(* this very helper's token: a token left behind by a killed predecessor   *)
(* stops nobody (the Bearer comparison of /helper/shutdown).               *)
ServedUnlessAsked ==
    \A l \in Launchers :
        pc[l] \in Waiting /\ listener # l => \E o \in Mains : token[o] = l

(* A launch that failed after the page was ready, and a signal when Codex  *)
(* was activated as a package, leave no Codex of this launcher behind,     *)
(* whatever the cleanup before it cost, unless the termination itself      *)
(* fails.  (A plain child is not in the slot any more once the wait began, *)
(* so a signal leaves that Codex running.)                                 *)
EndsItsCodex ==
    [][\A l \in Mains :
          \/ pc'[l] = "done" /\ mode[l] = "signal" /\ packaged[l]
          \/ pc'[l] = "failed" /\ ~keep[l]
          => \/ pc[l] \in Ended \/ child[l] = 0
             \/ codex' # child[l]
             \/ trouble' # trouble]_vars

(* Once Codex stays away, every main launcher ends, however often Codex    *)
(* restarted itself before and whatever waits failed.  ("launch" is where  *)
(* a launcher stays that the bound MaxCodex gives no Codex any more.)      *)
LaunchersEnd ==
    <>[](codex = 0)
      => <>[](\A l \in Mains : pc[l] \in Ended \cup {"off", "launch"})

(* A helper that accepted the shutdown request gives up the port as long   *)
(* as it is being connected to: "the old process, on receiving the signal, *)
(* leaves its loop and frees the port".  The branch that leaves the loop   *)
(* is enabled when the loop waits anew, so without another connection it   *)
(* may listen for ever (start_helper).                                     *)
AskedHolder == listener # Nobody /\ flag[listener]

AskedYields ==
    WF_vars(Call) => (AskedHolder ~> ~AskedHolder)
=============================================================================
