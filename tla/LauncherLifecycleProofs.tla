----------------------- MODULE LauncherLifecycleProofs -----------------------
(***************************************************************************)
(* Proofs about LauncherLifecycle, for any finite set of launchers and any *)
(* bounds.                                                                 *)
(***************************************************************************)
EXTENDS LauncherLifecycle, TLAPS

(* The bounds are numbers.                                                 *)
LEMMA Bounds == MaxCodex \in Nat /\ MaxTrouble \in Nat
BY LifecycleAssumption

(* Codex is started once more, within the bound, or goes on running.       *)
LEMMA Starts ==
  ASSUME LauncherInv, StartCodex
  PROVE  /\ started' \in 0..MaxCodex /\ codex' \in 0..started' /\ returning' \in BOOLEAN
         /\ 0..started \subseteq 0..started' /\ codex' # 0
         /\ returning' => started' < MaxCodex
<1>1. /\ started \in Nat /\ codex \in Nat /\ codex <= started /\ started <= MaxCodex
      /\ MaxCodex \in Nat /\ returning \in BOOLEAN /\ (returning => started < MaxCodex)
  BY Bounds DEF LauncherInv, TypeOK, Outstanding
<1>2. \/ codex = 0 /\ started < MaxCodex /\ started' = started + 1 /\ codex' = started + 1 /\ returning' = FALSE
      \/ codex # 0 /\ started < MaxCodex /\ UNCHANGED <<codex, started, returning>>
  BY DEF StartCodex, app
<1>3. CASE codex = 0 /\ started' = started + 1 /\ codex' = started + 1 /\ returning' = FALSE
      /\ started < MaxCodex
  <2>1. started' \in 0..MaxCodex /\ codex' \in 0..started' /\ codex' # 0
    BY <1>1, <1>3
  <2>2. 0..started \subseteq 0..started'
    BY <1>1, <1>3
  <2> QED
    BY <1>3, <2>1, <2>2
<1>4. CASE codex # 0 /\ started < MaxCodex /\ UNCHANGED <<codex, started, returning>>
  BY <1>1, <1>4
<1> QED
  BY <1>2, <1>3, <1>4

(* At the beginning nobody runs and no file names anybody.                 *)
LEMMA InitLauncherInv == Init => LauncherInv
<1> SUFFICES ASSUME Init PROVE LauncherInv
  OBVIOUS
<1> USE LifecycleAssumption, Bounds DEF Init, Launchers
<1>1. TypeOK
  <2>1. guard \in Mains \cup {Nobody} /\ guard = Nobody /\ listener = Nobody /\ ~ armed
    OBVIOUS
  <2>2. codex \in 0..started /\ started \in 0..MaxCodex /\ trouble \in 0..MaxTrouble
        /\ child \in [Launchers -> 0..started] /\ streak \in [Launchers -> 0..Gone]
    BY DEF Gone
  <2>3. \A bits \in {flag, runtime, own, mayRecover, slot, packaged, keep} :
          bits \in [Launchers -> BOOLEAN]
    OBVIOUS
  <2> QED
    BY <2>1, <2>2, <2>3 DEF TypeOK, Ended
<1>2. FileNamesHolder
  BY DEF FileNamesHolder
<1>3. Places
  BY DEF Places, Unserved, Served, Waiting, Stopping
<1> QED
  BY <1>1, <1>2, <1>3 DEF LauncherInv, Outstanding

(* The end of a process, whatever ended it.                                *)
LEMMA Released ==
  ASSUME LauncherInv, NEW l \in Launchers, NEW place \in Ended,
         pc' = [pc EXCEPT ![l] = place], Release(l),
         UNCHANGED <<file, unnamed, token, own, started, returning>>,
         codex' \in {0, codex}, trouble' \in 0..MaxTrouble
  PROVE  LauncherInv'
<1> USE LifecycleAssumption, Bounds DEF LauncherInv, Release, Forget, Ended, Waiting, Stopping, Launchers
<1>1. TypeOK'
  <2>1. /\ codex' \in 0..started' /\ started' \in 0..MaxCodex
        /\ child' \in [Launchers -> 0..started'] /\ streak' \in [Launchers -> 0..Gone]
        /\ \A h \in Helpers : child'[h] = 0
    BY DEF TypeOK, Gone
  <2>2. \A bits \in {flag, runtime, own, mayRecover, slot, packaged, keep} :
          bits \in [Launchers -> BOOLEAN]
    BY DEF TypeOK
  <2>3. armed' \in BOOLEAN
    OBVIOUS
  <2>4. armed' => listener' # Nobody /\ flag'[listener']
    BY DEF TypeOK
  <2>5. pc' \in [Launchers -> Ended \cup Waiting \cup Stopping \cup
                 {"off", "guard", "bind", "persist", "post", "retry", "launch",
                  "inject", "dying"}]
        /\ mode' \in [Launchers -> {"-", "fail", "gone", "signal"}]
    BY DEF TypeOK
  <2>6. /\ guard' # Nobody => pc'[guard'] \notin Ended \cup {"off", "guard"}
        /\ listener' # Nobody => pc'[listener'] \notin Ended \cup {"off", "guard", "bind"}
    BY DEF TypeOK
  <2>7. /\ requests' \subseteq [to : Launchers, bearer : Launchers \cup {Nobody}]
        /\ guard' \in Mains \cup {Nobody} /\ listener' \in Launchers \cup {Nobody}
    BY DEF TypeOK
  <2> QED
    BY <2>1, <2>2, <2>3, <2>4, <2>5, <2>6, <2>7 DEF TypeOK
<1>2. FileNamesHolder'
  BY DEF FileNamesHolder, TypeOK, Unserved
<1>3. Places'
  BY DEF Places, Unserved, Served, TypeOK, Asked
<1>4. Outstanding'
  BY DEF Asked, Outstanding
<1> QED
  BY <1>1, <1>2, <1>3, <1>4

(* Every step keeps what the file, the port and Codex say of each other.   *)
LEMMA NextLauncherInv == LauncherInv /\ [Next]_vars => LauncherInv'
<1> SUFFICES ASSUME LauncherInv, [Next]_vars PROVE LauncherInv'
  OBVIOUS
<1> USE LifecycleAssumption, Bounds DEF LauncherInv, Goto, ports, app, mine, Launchers
<1>1. ASSUME NEW l \in Launchers, Start(l) PROVE LauncherInv'
  <2>1. TypeOK'
    BY <1>1 DEF Start, TypeOK, Ended, Waiting, Stopping, Gone, Places
  <2>2. FileNamesHolder'
    BY <1>1 DEF Start, TypeOK, FileNamesHolder, Places, Unserved
  <2>3. Places'
    BY <1>1 DEF Start, TypeOK, Places, Unserved, Served, Waiting, Stopping, Ended, Asked, Gone
  <2>4. Outstanding'
    BY <1>1 DEF Outstanding, Start, TypeOK, Asked, Places
  <2> QED
    BY <2>1, <2>2, <2>3, <2>4
<1>2. ASSUME NEW l \in Launchers, TakeGuard(l) PROVE LauncherInv'
  <2>1. TypeOK'
    BY <1>2 DEF TakeGuard, TypeOK, Ended, Waiting, Stopping, Gone, Places
  <2>2. FileNamesHolder'
    BY <1>2 DEF TakeGuard, TypeOK, FileNamesHolder, Places, Unserved
  <2>3. Places'
    BY <1>2 DEF TakeGuard, TypeOK, Places, Unserved, Served, Waiting, Stopping, Ended, Asked, Gone
  <2>4. Outstanding'
    BY <1>2 DEF Outstanding, TakeGuard, TypeOK, Asked, Places
  <2> QED
    BY <2>1, <2>2, <2>3, <2>4
<1>3. ASSUME NEW l \in Launchers, Recover(l) PROVE LauncherInv'
  <2>1. TypeOK'
    BY <1>3 DEF Recover, TypeOK, Ended, Waiting, Stopping, Gone, Places
  <2>2. FileNamesHolder'
    BY <1>3 DEF Recover, TypeOK, FileNamesHolder, Places, Unserved
  <2>3. Places'
    BY <1>3 DEF Recover, TypeOK, Places, Unserved, Served, Waiting, Stopping, Ended, Asked, Gone
  <2>4. Outstanding'
    BY <1>3 DEF Outstanding, Recover, TypeOK, Asked, Places
  <2> QED
    BY <2>1, <2>2, <2>3, <2>4
<1>4. ASSUME NEW l \in Launchers, Activate(l) PROVE LauncherInv'
  <2>1. TypeOK'
    <3>1. /\ codex' \in 0..started' /\ started' \in 0..MaxCodex /\ returning' \in BOOLEAN
          /\ child' \in [Launchers -> 0..started']
      BY <1>4, Starts DEF Activate, TypeOK
    <3>2. l # guard /\ l # listener
      BY <1>4 DEF Activate, TypeOK
    <3> QED
      BY <1>4, <3>1, <3>2 DEF Activate, TypeOK, Ended
  <2>2. FileNamesHolder'
    BY <1>4 DEF Activate, StartCodex, TypeOK, FileNamesHolder, Places, Unserved
  <2>3. Places'
    BY <1>4 DEF Activate, StartCodex, TypeOK, Places, Unserved, Served, Waiting, Stopping, Ended, Asked, Gone
  <2>4. Outstanding'
    BY <1>4 DEF Outstanding, Activate, StartCodex, TypeOK, Asked, Places
  <2> QED
    BY <2>1, <2>2, <2>3, <2>4
<1>5. ASSUME NEW l \in Launchers, BindHelper(l) PROVE LauncherInv'
  <2>1. TypeOK'
    BY <1>5 DEF BindHelper, TypeOK, Ended, Waiting, Stopping, Gone, Places
  <2>2. FileNamesHolder'
    BY <1>5 DEF BindHelper, TypeOK, FileNamesHolder, Places, Unserved
  <2>3. Places'
    BY <1>5 DEF BindHelper, TypeOK, Places, Unserved, Served, Waiting, Stopping, Ended, Asked, Gone
  <2>4. Outstanding'
    BY <1>5 DEF Outstanding, BindHelper, TypeOK, Asked, Places
  <2> QED
    BY <2>1, <2>2, <2>3, <2>4
<1>6. ASSUME NEW l \in Launchers, Persist(l) PROVE LauncherInv'
  <2>1. TypeOK'
    <3>1. unnamed' \in BOOLEAN /\ file' \in Launchers \cup {Nobody}
      BY <1>6 DEF Persist, TypeOK
    <3>2. runtime' \in [Launchers -> BOOLEAN]
      BY <1>6 DEF Persist, TypeOK
    <3>3. PICK place \in {"serve", "launch"} : pc' = [pc EXCEPT ![l] = place]
      BY <1>6 DEF Persist
    <3>4. UNCHANGED <<mode, guard, mayRecover, listener, armed, flag, token, requests, own,
                      codex, started, returning, child, slot, packaged, keep, streak, trouble>>
      BY <1>6 DEF Persist
    <3> QED
      BY <3>1, <3>2, <3>3, <3>4 DEF TypeOK, Ended, Waiting, Stopping
  <2>2. FileNamesHolder'
    <3>1. \E place \in {"serve", "launch"} : pc' = [pc EXCEPT ![l] = place]
      BY <1>6 DEF Persist
    <3>2. listener' = l
      BY <1>6 DEF Persist, Places
    <3>3. CASE file' = l
      BY <3>1, <3>2, <3>3 DEF TypeOK, FileNamesHolder, Unserved
    <3>4. CASE file' = file /\ unnamed' = TRUE
      BY <3>1, <3>2, <3>4 DEF TypeOK, FileNamesHolder, Unserved
    <3> QED
      BY <1>6, <3>3, <3>4 DEF Persist
  <2>3. Places'
    BY <1>6 DEF Persist, TypeOK, Places, Unserved, Served, Waiting, Stopping, Ended, Asked, Gone
  <2>4. Outstanding'
    BY <1>6 DEF Outstanding, Persist, TypeOK, Asked, Places
  <2> QED
    BY <2>1, <2>2, <2>3, <2>4
<1>7. ASSUME NEW l \in Launchers, AskYield(l) PROVE LauncherInv'
  <2>1. TypeOK'
    BY <1>7 DEF AskYield, TypeOK, Ended, Waiting, Stopping, Gone, Places
  <2>2. FileNamesHolder'
    BY <1>7 DEF AskYield, TypeOK, FileNamesHolder, Places, Unserved
  <2>3. Places'
    BY <1>7 DEF AskYield, TypeOK, Places, Unserved, Served, Waiting, Stopping, Ended, Asked, Gone
  <2>4. Outstanding'
    BY <1>7 DEF Outstanding, AskYield, TypeOK, Asked, Places
  <2> QED
    BY <2>1, <2>2, <2>3, <2>4
<1>8. ASSUME NEW l \in Launchers, Post(l) PROVE LauncherInv'
  <2>1. TypeOK'
    BY <1>8 DEF Post, NextTurn, TypeOK, Ended, Waiting, Stopping, Gone, Places
  <2>2. FileNamesHolder'
    BY <1>8 DEF Post, NextTurn, TypeOK, FileNamesHolder, Places, Unserved
  <2>3. Places'
    BY <1>8 DEF Post, NextTurn, TypeOK, Places, Unserved, Served, Waiting, Stopping, Ended, Asked, Gone
  <2>4. Outstanding'
    BY <1>8 DEF Outstanding, Post, NextTurn, TypeOK, Asked, Places
  <2> QED
    BY <2>1, <2>2, <2>3, <2>4
<1>9. ASSUME NEW l \in Launchers, GiveUp(l) PROVE LauncherInv'
  <2>1. TypeOK'
    BY <1>9 DEF GiveUp, TypeOK, Ended, Waiting, Stopping, Gone, Places
  <2>2. FileNamesHolder'
    BY <1>9 DEF GiveUp, TypeOK, FileNamesHolder, Places, Unserved
  <2>3. Places'
    BY <1>9 DEF GiveUp, TypeOK, Places, Unserved, Served, Waiting, Stopping, Ended, Asked, Gone
  <2>4. Outstanding'
    BY <1>9 DEF Outstanding, GiveUp, TypeOK, Asked, Places
  <2> QED
    BY <2>1, <2>2, <2>3, <2>4
<1>10. ASSUME NEW l \in Launchers, LaunchCodex(l) PROVE LauncherInv'
  <2>1. TypeOK'
    <3>1. /\ codex' \in 0..started' /\ started' \in 0..MaxCodex /\ returning' \in BOOLEAN
          /\ 0 \in 0..started'
      BY <1>10, Starts, Bounds DEF LaunchCodex
    <3>2. child' \in [Launchers -> 0..started']
      <4>1. child \in [Launchers -> 0..started']
        BY <1>10, Starts DEF LaunchCodex, TypeOK
      <4>2. \E c \in 0..started' : child' = [child EXCEPT ![l] = c]
        BY <1>10, <3>1 DEF LaunchCodex
      <4> QED
        BY <4>1, <4>2
    <3>3. l \in Mains
      BY <1>10 DEF LaunchCodex, Places
    <3>4. /\ packaged' \in [Launchers -> BOOLEAN] /\ slot' \in [Launchers -> BOOLEAN]
          /\ keep' \in [Launchers -> BOOLEAN]
      BY <1>10 DEF LaunchCodex, TypeOK
    <3> QED
      BY <1>10, <3>1, <3>2, <3>3, <3>4 DEF LaunchCodex, TypeOK, Ended, Waiting, Stopping
  <2>2. FileNamesHolder'
    BY <1>10 DEF LaunchCodex, StartCodex, TypeOK, FileNamesHolder, Places, Unserved
  <2>3. Places'
    BY <1>10 DEF LaunchCodex, StartCodex, TypeOK, Places, Unserved, Served, Waiting, Stopping, Ended, Asked, Gone
  <2>4. Outstanding'
    BY <1>10 DEF Outstanding, LaunchCodex, StartCodex, TypeOK, Asked, Places
  <2> QED
    BY <2>1, <2>2, <2>3, <2>4
<1>11. ASSUME NEW l \in Launchers, LaunchFails(l) PROVE LauncherInv'
  <2>1. TypeOK'
    BY <1>11 DEF LaunchFails, TypeOK, Ended, Waiting, Stopping, Gone, Places
  <2>2. FileNamesHolder'
    BY <1>11 DEF LaunchFails, TypeOK, FileNamesHolder, Places, Unserved
  <2>3. Places'
    BY <1>11 DEF LaunchFails, TypeOK, Places, Unserved, Served, Waiting, Stopping, Ended, Asked, Gone
  <2>4. Outstanding'
    BY <1>11 DEF Outstanding, LaunchFails, TypeOK, Asked, Places
  <2> QED
    BY <2>1, <2>2, <2>3, <2>4
<1>12. ASSUME NEW l \in Launchers, Supervise(l) PROVE LauncherInv'
  <2>1. TypeOK'
    BY <1>12 DEF Supervise, TypeOK, Ended, Waiting, Stopping, Gone, Places
  <2>2. FileNamesHolder'
    BY <1>12 DEF Supervise, TypeOK, FileNamesHolder, Places, Unserved
  <2>3. Places'
    BY <1>12 DEF Supervise, TypeOK, Places, Unserved, Served, Waiting, Stopping, Ended, Asked, Gone
  <2>4. Outstanding'
    BY <1>12 DEF Outstanding, Supervise, TypeOK, Asked, Places
  <2> QED
    BY <2>1, <2>2, <2>3, <2>4
<1>13. ASSUME NEW l \in Launchers, StatusFails(l) PROVE LauncherInv'
  <2>1. TypeOK'
    BY <1>13 DEF StatusFails, TypeOK, Ended, Waiting, Stopping, Gone, Places
  <2>2. FileNamesHolder'
    BY <1>13 DEF StatusFails, TypeOK, FileNamesHolder, Places, Unserved
  <2>3. Places'
    BY <1>13 DEF StatusFails, TypeOK, Places, Unserved, Served, Waiting, Stopping, Ended, Asked, Gone
  <2>4. Outstanding'
    BY <1>13 DEF Outstanding, StatusFails, TypeOK, Asked, Places
  <2> QED
    BY <2>1, <2>2, <2>3, <2>4
<1>14. ASSUME NEW l \in Launchers, ChildEnded(l) PROVE LauncherInv'
  <2>1. TypeOK'
    BY <1>14 DEF ChildEnded, GoOnWatching, TypeOK, Ended, Waiting, Stopping, Gone, Places
  <2>2. FileNamesHolder'
    BY <1>14 DEF ChildEnded, GoOnWatching, TypeOK, FileNamesHolder, Places, Unserved
  <2>3. Places'
    BY <1>14 DEF ChildEnded, GoOnWatching, TypeOK, Places, Unserved, Served, Waiting, Stopping, Ended, Asked, Gone
  <2>4. Outstanding'
    BY <1>14 DEF Outstanding, ChildEnded, GoOnWatching, TypeOK, Asked, Places
  <2> QED
    BY <2>1, <2>2, <2>3, <2>4
<1>15. ASSUME NEW l \in Launchers, Observe(l) PROVE LauncherInv'
  <2>1. TypeOK'
    BY <1>15 DEF Observe, TypeOK, Ended, Waiting, Stopping, Gone, Places
  <2>2. FileNamesHolder'
    BY <1>15 DEF Observe, TypeOK, FileNamesHolder, Places, Unserved
  <2>3. Places'
    BY <1>15 DEF Observe, TypeOK, Places, Unserved, Served, Waiting, Stopping, Ended, Asked, Gone
  <2>4. Outstanding'
    BY <1>15 DEF Outstanding, Observe, TypeOK, Asked, Places
  <2> QED
    BY <2>1, <2>2, <2>3, <2>4
<1>16. ASSUME NEW l \in Launchers, StopHelper(l) PROVE LauncherInv'
  <2>1. TypeOK'
    <3>1. armed' \in BOOLEAN
      BY <1>16 DEF StopHelper, TypeOK
    <3>2. /\ runtime' = runtime \/ runtime' = [runtime EXCEPT ![l] = FALSE]
          /\ listener' = listener \/ listener' = Nobody
      BY <1>16 DEF StopHelper
    <3>3. armed' => listener' # Nobody /\ flag'[listener']
      BY <1>16 DEF StopHelper, TypeOK
    <3>4. /\ runtime' \in [Launchers -> BOOLEAN]
          /\ listener' # Nobody => pc'[listener'] \notin Ended \cup {"off", "guard", "bind"}
          /\ guard' # Nobody => pc'[guard'] \notin Ended \cup {"off", "guard"}
      <4>1. \E place \in {"clear", "terminate"} : pc' = [pc EXCEPT ![l] = place]
        BY <1>16 DEF StopHelper
      <4>2. runtime' \in [Launchers -> BOOLEAN]
        BY <3>2 DEF TypeOK
      <4>3. UNCHANGED guard
        BY <1>16 DEF StopHelper
      <4> QED
        BY <3>2, <4>1, <4>2, <4>3 DEF TypeOK, Ended
    <3>5. pc' \in [Launchers -> Ended \cup Waiting \cup Stopping \cup
                 {"off", "guard", "bind", "persist", "post", "retry", "launch",
                  "inject", "dying"}]
      BY <1>16 DEF StopHelper, TypeOK, Ended, Waiting, Stopping
    <3>6. UNCHANGED <<mode, guard, mayRecover, flag, file, unnamed, token, requests, own, codex, started,
                      returning, child, slot, packaged, keep, streak, trouble>>
      BY <1>16 DEF StopHelper
    <3> QED
      BY <3>1, <3>2, <3>3, <3>4, <3>5, <3>6 DEF TypeOK
  <2>2. FileNamesHolder'
    BY <1>16 DEF StopHelper, TypeOK, FileNamesHolder, Places, Unserved
  <2>3. Places'
    BY <1>16 DEF StopHelper, TypeOK, Places, Unserved, Served, Waiting, Stopping, Ended, Asked, Gone
  <2>4. Outstanding'
    BY <1>16 DEF Outstanding, StopHelper, TypeOK, Asked, Places
  <2> QED
    BY <2>1, <2>2, <2>3, <2>4
<1>17. ASSUME NEW l \in Launchers, ReadFile(l) PROVE LauncherInv'
  <2>1. TypeOK'
    BY <1>17 DEF ReadFile, TypeOK, Ended, Waiting, Stopping, Gone, Places
  <2>2. FileNamesHolder'
    BY <1>17 DEF ReadFile, TypeOK, FileNamesHolder, Places, Unserved
  <2>3. Places'
    BY <1>17 DEF ReadFile, TypeOK, Places, Unserved, Served, Waiting, Stopping, Ended, Asked, Gone
  <2>4. Outstanding'
    BY <1>17 DEF Outstanding, ReadFile, TypeOK, Asked, Places
  <2> QED
    BY <2>1, <2>2, <2>3, <2>4
<1>18. ASSUME NEW l \in Launchers, RemoveFile(l) PROVE LauncherInv'
  <2>1. TypeOK'
    BY <1>18 DEF RemoveFile, TypeOK, Ended, Waiting, Stopping, Gone, Places
  <2>2. FileNamesHolder'
    BY <1>18 DEF RemoveFile, TypeOK, FileNamesHolder, Places, Unserved
  <2>3. Places'
    BY <1>18 DEF RemoveFile, TypeOK, Places, Unserved, Served, Waiting, Stopping, Ended, Asked, Gone
  <2>4. Outstanding'
    BY <1>18 DEF Outstanding, RemoveFile, TypeOK, Asked, Places
  <2> QED
    BY <2>1, <2>2, <2>3, <2>4
<1>19. ASSUME NEW l \in Launchers, Finish(l) PROVE LauncherInv'
  <2>1. codex' \in {0, codex} /\ trouble' \in 0..MaxTrouble
    BY <1>19 DEF Finish, TypeOK
  <2>2. PICK place \in Ended : pc' = [pc EXCEPT ![l] = place]
    BY <1>19 DEF Finish, Ended
  <2>3. Release(l) /\ UNCHANGED <<file, unnamed, token, own, started, returning>>
    BY <1>19 DEF Finish
  <2> QED
    BY <2>1, <2>2, <2>3, Released
<1>20. ASSUME NEW l \in Launchers, Signal(l) PROVE LauncherInv'
  <2>1. trouble' \in 0..MaxTrouble
    BY <1>20 DEF Signal, TypeOK
  <2>2. CASE pc' = [pc EXCEPT ![l] = "done"] /\ Release(l)
    <3>1. UNCHANGED <<file, unnamed, token, own, started, returning, codex>>
      BY <1>20 DEF Signal
    <3>2. codex' \in {0, codex} /\ "done" \in Ended
      BY <3>1 DEF Ended
    <3> QED
      BY <2>1, <2>2, <3>1, <3>2, Released
  <2>3. CASE /\ pc[l] \in Waiting
             /\ mode' = [mode EXCEPT ![l] = IF l \in Mains THEN "signal" ELSE "gone"]
             /\ pc' = [pc EXCEPT ![l] = "stop"]
             /\ UNCHANGED <<guard, mayRecover, listener, armed, flag, runtime, requests,
                            child, slot, packaged, keep, streak, file, unnamed, token, own,
                            codex, started, returning>>
    <3>1. TypeOK'
      BY <2>1, <2>3 DEF TypeOK, Ended, Waiting, Stopping
    <3>2. FileNamesHolder'
      BY <2>3 DEF FileNamesHolder, TypeOK, Unserved, Waiting
    <3>3. Places'
      BY <2>3 DEF TypeOK, Places, Unserved, Served, Waiting, Stopping, Asked
    <3> QED
      BY <2>3, <3>1, <3>2, <3>3 DEF Asked, Outstanding
  <2> QED
    BY <1>20, <2>2, <2>3 DEF Signal
<1>21. ASSUME NEW l \in Launchers, Overtime(l) PROVE LauncherInv'
  <2>1. TypeOK'
    BY <1>21 DEF Overtime, TypeOK, Ended, Waiting, Stopping, Gone, Places
  <2>2. FileNamesHolder'
    BY <1>21 DEF Overtime, TypeOK, FileNamesHolder, Places, Unserved
  <2>3. Places'
    BY <1>21 DEF Overtime, TypeOK, Places, Unserved, Served, Waiting, Stopping, Ended, Asked, Gone
  <2>4. Outstanding'
    BY <1>21 DEF Outstanding, Overtime, TypeOK, Asked, Places
  <2> QED
    BY <2>1, <2>2, <2>3, <2>4
<1>22. ASSUME NEW l \in Launchers, Die(l) PROVE LauncherInv'
  <2>1. trouble' \in 0..MaxTrouble /\ codex' = codex
    BY <1>22 DEF Die, TypeOK
  <2> QED
    BY <1>22, <2>1, Released DEF Die, Ended
<1>23. CASE HandleShutdown
  <2>1. TypeOK'
    BY <1>23 DEF HandleShutdown, TypeOK, Ended, Waiting, Stopping, Gone, Places
  <2>2. FileNamesHolder'
    BY <1>23 DEF HandleShutdown, TypeOK, FileNamesHolder, Places, Unserved
  <2>3. Places'
    BY <1>23 DEF Outstanding, HandleShutdown, TypeOK, Places, Unserved, Served, Waiting, Stopping, Ended, Asked, Gone
  <2>4. Outstanding'
    BY <1>23 DEF Outstanding, HandleShutdown, TypeOK, Asked, Places
  <2> QED
    BY <2>1, <2>2, <2>3, <2>4
<1>24. CASE Call
  <2>1. TypeOK'
    BY <1>24 DEF Call, NextTurn, TypeOK, Ended, Waiting, Stopping, Gone, Places
  <2>2. FileNamesHolder'
    BY <1>24 DEF Call, NextTurn, TypeOK, FileNamesHolder, Places, Unserved
  <2>3. Places'
    BY <1>24 DEF Call, NextTurn, TypeOK, Places, Unserved, Served, Waiting, Stopping, Ended, Asked, Gone
  <2>4. Outstanding'
    BY <1>24 DEF Outstanding, Call, NextTurn, TypeOK, Asked, Places
  <2> QED
    BY <2>1, <2>2, <2>3, <2>4
<1>25. CASE Yield
  <2>1. TypeOK'
    BY <1>25 DEF Yield, TypeOK, Ended, Waiting, Stopping, Gone, Places
  <2>2. FileNamesHolder'
    BY <1>25 DEF Yield, TypeOK, FileNamesHolder, Places, Unserved
  <2>3. Places'
    BY <1>25 DEF Yield, TypeOK, Places, Unserved, Served, Waiting, Stopping, Ended, Asked, Gone
  <2>4. Outstanding'
    BY <1>25 DEF Outstanding, Yield, TypeOK, Asked, Places
  <2> QED
    BY <2>1, <2>2, <2>3, <2>4
<1>26. CASE CodexEnds
  <2>1. TypeOK'
    BY <1>26 DEF CodexEnds, TypeOK, Ended, Waiting, Stopping, Gone, Places
  <2>2. FileNamesHolder'
    BY <1>26 DEF CodexEnds, TypeOK, FileNamesHolder, Places, Unserved
  <2>3. Places'
    BY <1>26 DEF CodexEnds, TypeOK, Places, Unserved, Served, Waiting, Stopping, Ended, Asked, Gone
  <2>4. Outstanding'
    BY <1>26 DEF Outstanding, CodexEnds, TypeOK, Asked, Places
  <2> QED
    BY <2>1, <2>2, <2>3, <2>4
<1>27. CASE CodexReturns
  <2>1. TypeOK'
    <3>1. /\ codex' \in 0..started' /\ started' \in 0..MaxCodex /\ 0..started \subseteq 0..started'
      BY <1>27, Bounds DEF Outstanding, CodexReturns, TypeOK
    <3>2. child' \in [Launchers -> 0..started'] /\ returning' = FALSE
      BY <1>27, <3>1 DEF CodexReturns, TypeOK
    <3> QED
      BY <1>27, <3>1, <3>2 DEF CodexReturns, TypeOK
  <2>2. FileNamesHolder'
    BY <1>27 DEF CodexReturns, TypeOK, FileNamesHolder, Places, Unserved
  <2>3. Places'
    BY <1>27 DEF CodexReturns, TypeOK, Places, Unserved, Served, Waiting, Stopping, Ended, Asked, Gone
  <2>4. Outstanding'
    BY <1>27 DEF Outstanding, CodexReturns, TypeOK, Asked, Places
  <2> QED
    BY <2>1, <2>2, <2>3, <2>4
<1>28. CASE UNCHANGED vars
  <2>1. TypeOK'
    BY <1>28 DEF vars, TypeOK, Ended, Waiting, Stopping, Gone, Places
  <2>2. FileNamesHolder'
    BY <1>28 DEF vars, TypeOK, FileNamesHolder, Places, Unserved
  <2>3. Places'
    BY <1>28 DEF vars, TypeOK, Places, Unserved, Served, Waiting, Stopping, Ended, Asked, Gone
  <2>4. Outstanding'
    BY <1>28 DEF Outstanding, vars, TypeOK, Asked, Places
  <2> QED
    BY <2>1, <2>2, <2>3, <2>4
<1>29. ASSUME NEW l \in Launchers, WaitFails(l) PROVE LauncherInv'
  <2>1. TypeOK'
    BY <1>29 DEF WaitFails, GoOnWatching, TypeOK, Ended, Waiting, Stopping, Gone, Places
  <2>2. FileNamesHolder'
    BY <1>29 DEF WaitFails, GoOnWatching, TypeOK, FileNamesHolder, Places, Unserved
  <2>3. Places'
    BY <1>29 DEF WaitFails, GoOnWatching, TypeOK, Places, Unserved, Served, Waiting, Stopping, Ended, Asked, Gone
  <2>4. Outstanding'
    BY <1>29 DEF Outstanding, WaitFails, GoOnWatching, TypeOK, Asked, Places
  <2> QED
    BY <2>1, <2>2, <2>3, <2>4
<1> QED
  BY <1>1, <1>2, <1>3, <1>4, <1>5, <1>6, <1>7, <1>8, <1>9, <1>10, <1>11, <1>12, <1>13, <1>14, <1>15, <1>16, <1>17, <1>18, <1>19, <1>20, <1>21, <1>22, <1>23, <1>24, <1>25, <1>26, <1>27, <1>28, <1>29 DEF Next, Own

(* A launcher that ends where it should have ended its Codex did so.       *)
LEMMA EndsCodex ==
  ASSUME LauncherInv, [Next]_vars, NEW l \in Mains,
         \/ pc'[l] = "done" /\ mode[l] = "signal" /\ packaged[l]
         \/ pc'[l] = "failed" /\ ~keep[l]
  PROVE  pc[l] \in Ended \/ child[l] = 0 \/ codex' # child[l] \/ trouble' # trouble
<1> USE DEF LauncherInv, Goto, Launchers, Ended
<1>1. CASE \E o \in Launchers : Finish(o) /\ o = l
  <2>1. /\ pc[l] = "terminate" /\ pc'[l] = (IF mode[l] = "fail" THEN "failed" ELSE "done")
        /\ codex' = (IF Kills(l) THEN 0 ELSE codex) \/ trouble' = trouble + 1
        /\ trouble \in Nat
    BY <1>1, Bounds DEF Finish, TypeOK
  <2>2. CASE mode[l] = "signal" /\ packaged[l]
    BY <2>1, <2>2 DEF Kills, Terminates, CanTerminate
  <2>3. CASE mode[l] = "fail" /\ ~keep[l]
    BY <2>1, <2>3 DEF Kills, Terminates, CanTerminate, Places, Stopping
  <2> QED
    BY <2>1, <2>2, <2>3
<1>2. CASE \E o \in Launchers : Finish(o) /\ o # l
  BY <1>2 DEF Finish, TypeOK
<1>3. CASE \E o \in Launchers : Activate(o) \/ Signal(o)
  BY <1>3 DEF Activate, Signal, TypeOK, Places, Waiting, Stopping, Release
<1>4. CASE \E o \in Launchers :
             \/ Start(o) \/ TakeGuard(o) \/ Recover(o) \/ BindHelper(o) \/ Persist(o)
             \/ AskYield(o) \/ Post(o) \/ LaunchCodex(o) \/ Supervise(o) \/ ChildEnded(o)
             \/ Observe(o) \/ StopHelper(o) \/ ReadFile(o) \/ RemoveFile(o)
             \/ GiveUp(o) \/ LaunchFails(o) \/ StatusFails(o) \/ WaitFails(o)
             \/ Overtime(o) \/ Die(o)
  <2>1. pc'[l] = pc[l] \/ pc'[l] \notin {"done", "failed"}
    BY <1>4 DEF TypeOK, Start, TakeGuard, Recover, BindHelper, Persist, AskYield, Post, LaunchCodex,
       Supervise, ChildEnded, Observe, StopHelper, ReadFile, RemoveFile, GiveUp, LaunchFails,
       StatusFails, WaitFails, GoOnWatching, Overtime, Die
  <2> QED
    BY <2>1
<1>5. CASE HandleShutdown \/ Call \/ Yield \/ CodexEnds \/ CodexReturns \/ UNCHANGED vars
  <2>1. pc' = pc
    BY <1>5 DEF HandleShutdown, Call, Yield, CodexEnds, CodexReturns, vars
  <2> QED
    BY <2>1
<1> QED
  BY <1>1, <1>2, <1>3, <1>4, <1>5 DEF Next, Own

-----------------------------------------------------------------------------
(* The port, the metadata file, the guard and the place of every launcher  *)
(* belong together: the file names nobody but the one who listens or a     *)
(* predecessor, and a predecessor only when the one who listens could not  *)
(* write it (start_helper, persist_helper_runtime_metadata,                *)
(* clear_helper_runtime_metadata).                                         *)
THEOREM LauncherInvariant == Spec => []LauncherInv
<1>1. Init => LauncherInv
  BY InitLauncherInv
<1>2. LauncherInv /\ [Next]_vars => LauncherInv'
  BY NextLauncherInv
<1> QED
  BY <1>1, <1>2, PTL DEF Spec

(* The helper of a launcher that waits listens, unless a main launcher     *)
(* read its very token: the Bearer comparison of /helper/shutdown keeps a  *)
(* token left behind by a predecessor from stopping it.                    *)
THEOREM HelperServes == Spec => []ServedUnlessAsked
<1>1. LauncherInv => ServedUnlessAsked
  BY DEF LauncherInv, Places, ServedUnlessAsked, Served, Asked
<1> QED
  BY <1>1, LauncherInvariant, PTL

(* A launch that failed after Codex was started, and a signal when Codex   *)
(* was activated as a package, leave no Codex of that launcher behind      *)
(* unless its termination fails (terminate_codex,                          *)
(* keep_launched_on_error).                                                *)
THEOREM CodexEnded == Spec => EndsItsCodex
<1>1. LauncherInv /\ [Next]_vars =>
        [\A l \in Mains :
          \/ pc'[l] = "done" /\ mode[l] = "signal" /\ packaged[l]
          \/ pc'[l] = "failed" /\ ~keep[l]
          => \/ pc[l] \in Ended \/ child[l] = 0
             \/ codex' # child[l]
             \/ trouble' # trouble]_vars
  BY EndsCodex
<1> QED
  BY <1>1, LauncherInvariant, PTL DEF Spec, EndsItsCodex
=============================================================================
