----------------------- MODULE ProviderSyncLockProofs -----------------------
(***************************************************************************)
(* Proofs about ProviderSyncLock, for every set of pids, every set of      *)
(* lockIds and every number of crashes; and, below the line, about         *)
(* ProviderSyncRestart: the invariant of the lock survives a manager that  *)
(* kills launchers at any moment, and the poll that lets a restart go      *)
(* ahead never overlooks a sync in progress.                               *)
(*                                                                         *)
(* Types aside, everything is proved under ~ LegacyWhileLooking: no older  *)
(* launcher makes its directory between a current process's reading of     *)
(* owner.json and the rename it decides on.  The code does not ensure that *)
(* (run lock_race).                                                        *)
(***************************************************************************)
EXTENDS ProviderSyncRestart, TLAPS

(* What the empty values are members of.                                   *)
LEMMA EmptyTypes ==
  /\ NoOwner \in OwnerRec
  /\ NothingSeen \in LookRec
<1>1. NoOwner \in OwnerRec
  BY DEF NoOwner, OwnerRec
<1> QED
  BY <1>1 DEF NothingSeen, LookRec

(* The initial state satisfies the inductive invariant.                    *)
LEMMA InitInv == Init => LockInv
<1> SUFFICES ASSUME Init PROVE LockInv
  OBVIOUS
<1> USE PidsAssumption, IdsAssumption DEF Init
<1>1. TypeOK
  BY EmptyTypes DEF TypeOK, CurrentSteps, LegacySteps, Pids, NoDir
<1>2. OsLockInv
  BY DEF OsLockInv, Pids
<1>3. OwnerInv
  BY DEF OwnerInv, NoOwner
<1>4. Working = {}
  BY DEF Working, WorkSteps
<1>5. WorkInv /\ LookInv /\ RenameInv
  BY <1>4 DEF WorkInv, LookInv, RenameInv, Pids
<1> QED
  BY <1>1, <1>2, <1>3, <1>5 DEF LockInv

(* A missing owner.json and an age past the grace mean that nobody works   *)
(* in the directory.                                                       *)
LEMMA InterruptedMeansNotWorking ==
  ASSUME LockInv, NEW p \in Current, pc[p] = "stat", seen[p].owner = NoOwner,
         Interrupted(DirAge)
  PROVE  Working = {}
<1> SUFFICES ASSUME Working # {} PROVE FALSE
  OBVIOUS
<1>1. age = 0
  BY DEF LockInv, LookInv
<1> QED
  BY <1>1 DEF Interrupted, DirAge

(* The owner read before, found gone or replaced by another process, is    *)
(* not at work.                                                            *)
LEMMA StaleMeansNotWorking ==
  ASSUME LockInv, NEW p \in Current, pc[p] = "ask",
         NEW r \in Reports(seen[p].owner.pid), OwnerStale(seen[p], r)
  PROVE  Working = {}
<1> SUFFICES ASSUME NEW q \in Working PROVE FALSE
  OBVIOUS
<1>1. seen[p].owner.pid = q /\ seen[p].owner.birth = birth[q]
  BY DEF LockInv, LookInv
<1>2. alive[q]
  BY DEF LockInv, OsLockInv, Working, WorkSteps
<1>3. r # "gone"
  BY <1>1, <1>2 DEF Reports
<1> QED
  BY <1>1, <1>3 DEF OwnerStale

(* A lockId read while the OS lock is held belongs to nobody who works.    *)
LEMMA LockIdMeansNotWorking ==
  ASSUME LockInv, NEW p \in Current, pc[p] = "examine", owner.lockId # NoId
  PROVE  Exists /\ Working = {}
<1> USE PidsAssumption
<1>1. Exists
  BY DEF LockInv, OwnerInv, NoOwner
<1>2. ASSUME NEW q \in Working PROVE FALSE
  <2>1. q \in Pids /\ dir = Me(q) /\ pc[q] \in WorkSteps
    BY <1>2 DEF LockInv, WorkInv, Working
  <2>2. owner.pid = q /\ q \in Current
    BY <2>1 DEF LockInv, OwnerInv, Me, NoOwner
  <2>3. osLock = q /\ osLock = p
    BY <2>1, <2>2 DEF LockInv, OsLockInv, WorkSteps
  <2> QED
    BY <2>1, <2>3 DEF WorkSteps
<1> QED
  BY <1>1, <1>2

(* Every step keeps the types.                                             *)
LEMMA NextType ==
  ASSUME TypeOK, [Next]_vars
  PROVE  TypeOK'
<1> USE PidsAssumption, EmptyTypes
    DEF TypeOK, CurrentSteps, LegacySteps, Pids, NoDir, Me, Goto, dirVars, procVars
<1>1. ASSUME NEW p \in Current, NEW from \in {"mkdir", "retry"},
             NEW busy \in {"examine", "unlock"}, CreateDir(p, from, busy)
      PROVE  TypeOK'
  <2>1. CASE ~ Exists
    BY <1>1, <2>1 DEF CreateDir
  <2>2. CASE Exists
    BY <1>1, <2>2 DEF CreateDir
  <2> QED
    BY <2>1, <2>2
<1>2. ASSUME NEW p \in Current, Mkdir(p) \/ Retry(p) PROVE TypeOK'
  BY <1>1, <1>2, Zenon DEF Mkdir, Retry
<1>3. ASSUME NEW p \in Current, TryOsLock(p) PROVE TypeOK'
  BY <1>3 DEF TryOsLock
<1>4. ASSUME NEW p \in Current, WriteOwner(p) PROVE TypeOK'
  <2>1. owner' \in OwnerRec
    BY <1>4 DEF WriteOwner, OwnerRec
  <2> QED
    BY <1>4, <2>1 DEF WriteOwner
<1>5. ASSUME NEW p \in Current, WriteFails(p) PROVE TypeOK'
  BY <1>5 DEF WriteFails
<1>6. ASSUME NEW p \in Current, Examine(p) PROVE TypeOK'
  BY <1>6 DEF Examine
<1>7. ASSUME NEW p \in Current, LookExists(p) PROVE TypeOK'
  BY <1>7 DEF LookExists
<1>8. ASSUME NEW p \in Current, LookOwner(p) PROVE TypeOK'
  <2>1. [owner |-> owner, age |-> 0] \in LookRec
    BY DEF LookRec
  <2> QED
    BY <1>8, <2>1 DEF LookOwner
<1>9. ASSUME NEW p \in Current, LookAge(p) PROVE TypeOK'
  <2>1. [owner |-> seen[p].owner, age |-> DirAge] \in LookRec
    BY DEF LookRec, DirAge
  <2>2. CASE seen[p].owner = NoOwner
    BY <1>9, <2>2 DEF LookAge
  <2>3. CASE seen[p].owner # NoOwner
    BY <1>9, <2>1, <2>3 DEF LookAge
  <2> QED
    BY <2>2, <2>3
<1>10. ASSUME NEW p \in Current, LookProcess(p) PROVE TypeOK'
  <2>1. pc' = [pc EXCEPT ![p] = "rename"] \/ pc' = [pc EXCEPT ![p] = "unlock"]
    BY <1>10 DEF LookProcess
  <2> QED
    BY <1>10, <2>1 DEF LookProcess
<1>11. ASSUME NEW p \in Current, Isolate(p) PROVE TypeOK'
  BY <1>11 DEF Isolate
<1>12. ASSUME NEW p \in Current, IsolateFails(p) PROVE TypeOK'
  BY <1>12 DEF IsolateFails
<1>13. ASSUME NEW p \in Current, Finish(p) PROVE TypeOK'
  BY <1>13 DEF Finish
<1>14. ASSUME NEW p \in Current, CheckOwn(p) PROVE TypeOK'
  BY <1>14 DEF CheckOwn
<1>15. ASSUME NEW p \in Current, RemoveOwner(p) PROVE TypeOK'
  BY <1>15 DEF RemoveOwner
<1>16. ASSUME NEW p \in Current, RemoveOwnerFails(p) PROVE TypeOK'
  BY <1>16 DEF RemoveOwnerFails
<1>17. ASSUME NEW p \in Current, RemoveDir(p) PROVE TypeOK'
  BY <1>17 DEF RemoveDir
<1>18. ASSUME NEW p \in Current, RemoveDirFails(p) PROVE TypeOK'
  BY <1>18 DEF RemoveDirFails
<1>19. ASSUME NEW p \in Current, Unlock(p) PROVE TypeOK'
  BY <1>19 DEF Unlock
<1>20. ASSUME NEW l \in Legacy, LegacyMkdir(l) PROVE TypeOK'
  BY <1>20 DEF LegacyMkdir
<1>21. ASSUME NEW l \in Legacy, LegacyWrite(l) PROVE TypeOK'
  <2>1. owner' \in OwnerRec
    BY <1>21, IdsAssumption DEF LegacyWrite, OwnerRec
  <2> QED
    BY <1>21, <2>1 DEF LegacyWrite
<1>22. ASSUME NEW l \in Legacy, LegacyRemoveOwner(l) PROVE TypeOK'
  BY <1>22 DEF LegacyRemoveOwner
<1>23. ASSUME NEW l \in Legacy, LegacyRemoveDir(l) PROVE TypeOK'
  BY <1>23 DEF LegacyRemoveDir
<1>24. ASSUME NEW p \in Pids, Crash(p) PROVE TypeOK'
  BY <1>24 DEF Crash
<1>25. ASSUME NEW p \in Pids, Restart(p) PROVE TypeOK'
  BY <1>25 DEF Restart
<1>26. CASE Age
  BY <1>26 DEF Age
<1>27. CASE UNCHANGED vars
  BY <1>27 DEF vars
<1> QED
  BY <1>2, <1>3, <1>4, <1>5, <1>6, <1>7, <1>8, <1>9, <1>10, <1>11, <1>12, <1>13,
     <1>14, <1>15, <1>16, <1>17, <1>18, <1>19, <1>20, <1>21, <1>22, <1>23, <1>24, <1>25, <1>26, <1>27
     DEF Next, CurrentStep, LegacyStep

(* The parts of the invariant that do not speak of a look.                 *)
CoreInv == OsLockInv /\ OwnerInv /\ WorkInv

(* Creating the directory, on either attempt, keeps them.                  *)
LEMMA CreateDirCore ==
  ASSUME LockInv, NEW p \in Current, NEW from \in {"mkdir", "retry"},
         NEW busy \in {"examine", "unlock"}, CreateDir(p, from, busy)
  PROVE  CoreInv'
<1> USE PidsAssumption, IdsAssumption
    DEF LockInv, TypeOK, OsLockInv, OwnerInv, WorkInv, CoreInv,
        Working, WorkSteps, CurrentSteps, LegacySteps, Pids, NoDir,
        NoOwner, Exists, Me, Goto, dirVars, procVars
<1>1. CASE ~ Exists
  <2>1. /\ pc' = [pc EXCEPT ![p] = "write"] /\ pc[p] = from
        /\ dir' = Me(p) /\ owner' = NoOwner /\ age' = 0
        /\ UNCHANGED <<alive, birth, myId, seen, osLock>>
    BY <1>1 DEF CreateDir
  <2>2. Working = {}
    BY <1>1
  <2>3. osLock = p /\ \A q \in Current \ {p} : pc[q] = "idle"
    BY <2>1
  <2>4. Working' = {p}
    BY <2>1, <2>2
  <2>5. WorkInv'
    BY <2>1, <2>2, <2>4
  <2> QED
    BY <2>1, <2>3, <2>5
<1>2. CASE Exists
  <2>1. /\ pc' = [pc EXCEPT ![p] = busy] /\ pc[p] = from
        /\ UNCHANGED <<alive, birth, myId, seen, osLock, dir, owner, age>>
    BY <1>2 DEF CreateDir
  <2>2. Working' = Working
    BY <2>1
  <2> QED
    BY <2>1, <2>2
<1> QED
  BY <1>1, <1>2

(* Every step keeps them, given the verdicts on earlier directories.       *)
LEMMA NextCore ==
  ASSUME LockInv, [Next]_vars
  PROVE  CoreInv'
<1>1. ASSUME NEW p \in Current, Mkdir(p) PROVE CoreInv'
  BY <1>1, CreateDirCore, Zenon DEF Mkdir
<1>2. ASSUME NEW p \in Current, Retry(p) PROVE CoreInv'
  BY <1>2, CreateDirCore, Zenon DEF Retry
<1> USE PidsAssumption, IdsAssumption
    DEF LockInv, TypeOK, OsLockInv, OwnerInv, WorkInv, RenameInv, CoreInv,
        Working, WorkSteps, CurrentSteps, LegacySteps, Pids, NoDir,
        NoOwner, Exists, Me, Goto, dirVars, procVars
<1>3. ASSUME NEW p \in Current, TryOsLock(p) PROVE CoreInv'
  BY <1>3 DEF TryOsLock
<1>4. ASSUME NEW p \in Current, WriteOwner(p) PROVE CoreInv'
  BY <1>4 DEF WriteOwner
<1>5. ASSUME NEW p \in Current, WriteFails(p) PROVE CoreInv'
  <2>1. Working = {p}
    BY <1>5 DEF WriteFails
  <2>2. Working' = {}
    BY <1>5, <2>1 DEF WriteFails
  <2> QED
    BY <1>5, <2>1, <2>2 DEF WriteFails
<1>6. ASSUME NEW p \in Current, Examine(p) PROVE CoreInv'
  BY <1>6 DEF Examine
<1>7. ASSUME NEW p \in Current, LookExists(p) PROVE CoreInv'
  BY <1>7 DEF LookExists
<1>8. ASSUME NEW p \in Current, LookOwner(p) PROVE CoreInv'
  BY <1>8 DEF LookOwner
<1>9. ASSUME NEW p \in Current, LookAge(p) PROVE CoreInv'
  <2>1. PICK to \in {"rename", "unlock", "ask"} : pc' = [pc EXCEPT ![p] = to]
    BY <1>9 DEF LookAge
  <2> QED
    BY <1>9, <2>1 DEF LookAge
<1>10. ASSUME NEW p \in Current, LookProcess(p) PROVE CoreInv'
  <2>1. PICK to \in {"rename", "unlock"} : pc' = [pc EXCEPT ![p] = to]
    BY <1>10 DEF LookProcess
  <2> QED
    BY <1>10, <2>1 DEF LookProcess
<1>11. ASSUME NEW p \in Current, Isolate(p) PROVE CoreInv'
  BY <1>11 DEF Isolate
<1>12. ASSUME NEW p \in Current, IsolateFails(p) PROVE CoreInv'
  BY <1>12 DEF IsolateFails
<1>13. ASSUME NEW p \in Current, Finish(p) PROVE CoreInv'
  BY <1>13 DEF Finish
<1>14. ASSUME NEW p \in Current, CheckOwn(p) PROVE CoreInv'
  BY <1>14 DEF CheckOwn
<1>15. ASSUME NEW p \in Current, RemoveOwner(p) PROVE CoreInv'
  BY <1>15 DEF RemoveOwner
<1>16. ASSUME NEW p \in Current, RemoveOwnerFails(p) PROVE CoreInv'
  BY <1>16 DEF RemoveOwnerFails
<1>17. ASSUME NEW p \in Current, RemoveDir(p) PROVE CoreInv'
  BY <1>17 DEF RemoveDir
<1>18. ASSUME NEW p \in Current, RemoveDirFails(p) PROVE CoreInv'
  BY <1>18 DEF RemoveDirFails
<1>19. ASSUME NEW p \in Current, Unlock(p) PROVE CoreInv'
  BY <1>19 DEF Unlock
<1>20. ASSUME NEW l \in Legacy, LegacyMkdir(l) PROVE CoreInv'
  BY <1>20 DEF LegacyMkdir
<1>21. ASSUME NEW l \in Legacy, LegacyWrite(l) PROVE CoreInv'
  BY <1>21 DEF LegacyWrite
<1>22. ASSUME NEW l \in Legacy, LegacyRemoveOwner(l) PROVE CoreInv'
  BY <1>22 DEF LegacyRemoveOwner
<1>23. ASSUME NEW l \in Legacy, LegacyRemoveDir(l) PROVE CoreInv'
  BY <1>23 DEF LegacyRemoveDir
<1>24. ASSUME NEW p \in Pids, Crash(p) PROVE CoreInv'
  <2> USE <1>24 DEF Crash
  <2>1. OsLockInv'
    <3>1. \A q \in Current : (pc[q] # "idle")' <=> osLock' = q
      OBVIOUS
    <3>2. \A q \in Pids : (pc[q] # "idle")' => alive'[q]
      OBVIOUS
    <3> QED
      BY <3>1, <3>2
  <2>2. Working' = Working \ {p}
    OBVIOUS
  <2>3. WorkInv'
    <3>1. \A q \in Working' : (dir = Me(q))'
      BY <2>2
    <3>2. \A q \in Current : pc'[q] \in {"held", "release", "remove", "drop", "dropRemove"} =>
            owner'.pid = q /\ owner'.lockId = myId'[q]
      OBVIOUS
    <3> QED
      BY <3>1, <3>2
  <2> QED
    BY <2>1, <2>3
<1>25. ASSUME NEW p \in Pids, Restart(p) PROVE CoreInv'
  <2> USE <1>25 DEF Restart
  <2>1. pc[p] = "idle" /\ Working' = Working /\ p \notin Working
    OBVIOUS
  <2>2. WorkInv'
    BY <2>1
  <2> QED
    BY <2>1, <2>2
<1>26. CASE Age
  BY <1>26 DEF Age, GraceCovers
<1>27. CASE UNCHANGED vars
  BY <1>27 DEF vars
<1> QED
  BY <1>1, <1>2, <1>3, <1>4, <1>5, <1>6, <1>7, <1>8, <1>9, <1>10, <1>11, <1>12,
     <1>13, <1>14, <1>15, <1>16, <1>17, <1>18, <1>19, <1>20, <1>21, <1>22, <1>23, <1>24, <1>25, <1>26, <1>27
     DEF Next, CurrentStep, LegacyStep

(* A step that leaves the look of p alone, brings nobody new to work and   *)
(* does not age a directory p found without an owner keeps what p knows.   *)
LEMMA LookKept ==
  ASSUME LockInv, NEW p \in Current,
         pc'[p] = pc[p], seen'[p] = seen[p], Working' \subseteq Working,
         \A q \in Working' : birth'[q] = birth[q],
         pc[p] = "stat" /\ Working' # {} => age' \in {0, age}
  PROVE  /\ pc'[p] \in {"stat", "ask"} /\ seen'[p].owner # NoOwner =>
              \A q \in Working' : seen'[p].owner.pid = q /\ seen'[p].owner.birth = birth'[q]
         /\ pc'[p] = "stat" /\ seen'[p].owner = NoOwner /\ Working' # {} => age' = 0
         /\ pc'[p] = "ask" => seen'[p].owner # NoOwner
         /\ pc'[p] = "rename" => Working' = {}
BY DEF LockInv, LookInv, RenameInv

(* Where no older launcher starts while a current process decides, what    *)
(* that process has read keeps its meaning until the rename.               *)
LEMMA NextLook ==
  ASSUME ~ LegacyWhileLooking, LockInv, [Next]_vars
  PROVE  LookInv' /\ RenameInv'
<1> DEFINE Known(p) ==
      /\ pc[p] \in {"stat", "ask"} /\ seen[p].owner # NoOwner =>
           \A q \in Working : seen[p].owner.pid = q /\ seen[p].owner.birth = birth[q]
      /\ pc[p] = "stat" /\ seen[p].owner = NoOwner /\ Working # {} => age = 0
      /\ pc[p] = "ask" => seen[p].owner # NoOwner
      /\ pc[p] = "rename" => Working = {}
<1> SUFFICES ASSUME NEW p \in Current PROVE Known(p)'
  BY DEF LookInv, RenameInv
<1> SUFFICES ASSUME pc'[p] \in {"stat", "ask", "rename"} PROVE Known(p)'
  OBVIOUS
<1>0. /\ pc \in [Pids -> CurrentSteps \cup LegacySteps] /\ seen \in [Current -> LookRec]
      /\ birth \in [Pids -> Nat] /\ p \in Pids
      /\ \A q \in Current : pc[q] # "idle" <=> osLock = q
      /\ \A q \in Pids : pc[q] # "idle" => alive[q]
  BY DEF LockInv, TypeOK, OsLockInv, Pids
<1>1. ASSUME NEW q \in Current, q # p, TryOsLock(q) \/ CurrentStep(q) PROVE Known(p)'
  <2>1. pc'[p] = pc[p]
    BY <1>0, <1>1
       DEF Goto, CurrentStep, TryOsLock, Mkdir, Retry, CreateDir, WriteOwner, WriteFails,
           Examine, LookExists, LookOwner, LookAge, LookProcess, Isolate, IsolateFails,
           Finish, CheckOwn, RemoveOwner, RemoveOwnerFails, RemoveDir, RemoveDirFails,
           Unlock, Pids
  <2>2. osLock = p /\ pc[q] = "idle"
    BY <1>0, <1>1, <2>1
  <2> QED
    BY <1>1, <2>2, PidsAssumption
       DEF Goto, CurrentStep, TryOsLock, Mkdir, Retry, CreateDir, WriteOwner, WriteFails,
           Examine, LookExists, LookOwner, LookAge, LookProcess, Isolate, IsolateFails,
           Finish, CheckOwn, RemoveOwner, RemoveOwnerFails, RemoveDir, RemoveDirFails,
           Unlock, Pids
<1>2. ASSUME TryOsLock(p) \/ Mkdir(p) \/ Retry(p) \/ WriteOwner(p) \/ WriteFails(p)
             \/ LookExists(p) \/ Isolate(p) \/ IsolateFails(p) \/ Finish(p)
      PROVE  FALSE
  BY <1>0, <1>2
     DEF Goto, TryOsLock, Mkdir, Retry, CreateDir, WriteOwner, WriteFails, LookExists,
         Isolate, IsolateFails, Finish
<1>3. ASSUME CheckOwn(p) \/ RemoveOwner(p) \/ RemoveOwnerFails(p) \/ RemoveDir(p)
             \/ RemoveDirFails(p) \/ Unlock(p)
      PROVE  FALSE
  BY <1>0, <1>3
     DEF Goto, CheckOwn, RemoveOwner, RemoveOwnerFails, RemoveDir, RemoveDirFails, Unlock
<1>4. CASE Examine(p)
  <2>1. owner.lockId # NoId /\ pc[p] = "examine" /\ pc'[p] = "rename" /\ Working' = Working
    BY <1>0, <1>4 DEF Examine, Goto, Working, WorkSteps
  <2> QED
    BY <2>1, LockIdMeansNotWorking
<1>5. CASE LookOwner(p)
  <2>1. /\ pc[p] = "read" /\ pc'[p] = "stat" /\ seen'[p].owner = owner
        /\ Working' = Working /\ UNCHANGED <<birth, owner, age, dir>>
    BY <1>0, <1>5 DEF LookOwner, Goto, Working, WorkSteps, procVars, dirVars
  <2>2. ASSUME NEW q \in Working PROVE q \in Legacy /\ pc[q] \in {"lwrite", "lheld", "lrmdir"}
    <3>1. osLock = p /\ q \in Pids /\ pc[q] \in WorkSteps
      BY <1>0, <2>1 DEF Working
    <3>2. q \notin Current
      BY <1>0, <2>1, <3>1 DEF WorkSteps
    <3> QED
      BY <3>1, <3>2 DEF LockInv, TypeOK, WorkSteps, LegacySteps, Pids
  <2>3. ASSUME NEW q \in Working, owner # NoOwner PROVE owner.pid = q /\ owner.birth = birth[q]
    BY <2>2, <2>3, PidsAssumption DEF LockInv, OwnerInv, WorkInv, Me
  <2>4. ASSUME NEW q \in Working, owner = NoOwner PROVE age = 0
    BY <2>2, <2>4, PidsAssumption DEF LockInv, WorkInv, NoOwner, Pids
  <2> QED
    BY <2>1, <2>3, <2>4
<1>6. CASE LookAge(p)
  <2>1. /\ pc[p] = "stat" /\ Working' = Working /\ UNCHANGED birth
        /\ \/ seen[p].owner = NoOwner /\ Interrupted(DirAge) /\ pc'[p] = "rename"
           \/ seen[p].owner # NoOwner /\ pc'[p] = "ask" /\ seen'[p].owner = seen[p].owner
    BY <1>0, <1>6 DEF LookAge, Goto, Working, WorkSteps, procVars
  <2>2. CASE seen[p].owner = NoOwner
    BY <2>1, <2>2, InterruptedMeansNotWorking
  <2>3. CASE seen[p].owner # NoOwner
    BY <2>1, <2>3 DEF LockInv, LookInv
  <2> QED
    BY <2>2, <2>3
<1>7. CASE LookProcess(p)
  <2>1. PICK r \in Reports(seen[p].owner.pid) :
          Goto(p, "ask", IF OwnerStale(seen[p], r) THEN "rename" ELSE "unlock")
    BY <1>7 DEF LookProcess
  <2>2. pc[p] = "ask" /\ OwnerStale(seen[p], r) /\ pc'[p] = "rename" /\ Working' = Working
    BY <1>0, <2>1 DEF Goto, Working, WorkSteps
  <2> QED
    BY <2>1, <2>2, StaleMeansNotWorking
<1>8. ASSUME NEW l \in Legacy, LegacyStep(l) PROVE Known(p)'
  <2>1. pc'[p] = pc[p] /\ l # p
    BY <1>0, <1>8, PidsAssumption
       DEF LegacyStep, LegacyMkdir, LegacyWrite, LegacyRemoveOwner, LegacyRemoveDir, Goto
  <2>2. ~ LegacyMkdir(l)
    BY <2>1 DEF LegacyMkdir, Deciding
  <2>3. Working' \subseteq Working /\ age' = 0 /\ UNCHANGED <<seen, birth>>
    BY <1>0, <1>8, <2>2
       DEF LegacyStep, LegacyWrite, LegacyRemoveOwner, LegacyRemoveDir, Goto, Working,
           WorkSteps, procVars
  <2> QED
    BY <2>1, <2>3, LookKept
<1>9. ASSUME NEW q \in Pids, Crash(q) PROVE Known(p)'
  <2>1. /\ pc'[p] = pc[p] /\ q # p /\ seen'[p] = seen[p] /\ Working' \subseteq Working
        /\ UNCHANGED <<birth, age>>
    BY <1>0, <1>9 DEF Crash, Working, WorkSteps, dirVars
  <2> QED
    BY <2>1, LookKept
<1>10. ASSUME NEW q \in Pids, Restart(q) PROVE Known(p)'
  <2>1. pc[q] = "idle" /\ UNCHANGED <<pc, seen, age>> /\ birth' = [birth EXCEPT ![q] = @ + 1]
    BY <1>0, <1>10 DEF Restart, dirVars
  <2>2. Working' = Working /\ q \notin Working
    BY <2>1 DEF Working, WorkSteps
  <2>3. \A r \in Working' : birth'[r] = birth[r]
    BY <1>0, <2>1, <2>2 DEF Working
  <2> QED
    BY <2>1, <2>2, <2>3, LookKept
<1>11. CASE Age
  <2>1. UNCHANGED <<pc, seen, birth>> /\ Working' = Working /\ pc[p] # "stat"
    BY <1>11 DEF Age, GraceCovers, Working, procVars
  <2> QED
    BY <2>1, LookKept
<1>12. CASE UNCHANGED vars
  <2>1. UNCHANGED <<pc, seen, birth, age>> /\ Working' = Working
    BY <1>12 DEF vars, Working
  <2> QED
    BY <2>1, LookKept
<1>13. CASE TryOsLock(p) \/ CurrentStep(p)
  BY <1>2, <1>3, <1>4, <1>5, <1>6, <1>7, <1>13 DEF CurrentStep
<1> QED
  BY <1>1, <1>8, <1>9, <1>10, <1>11, <1>12, <1>13 DEF Next

(* Together: every step keeps the inductive invariant, where no older      *)
(* launcher starts while a current process decides.                        *)
LEMMA NextInv ==
  ASSUME ~ LegacyWhileLooking, LockInv, [Next]_vars
  PROVE  LockInv'
BY NextType, NextCore, NextLook DEF LockInv, CoreInv

(* LockInv is an invariant where no older launcher makes its directory     *)
(* while a current process decides about an earlier one                    *)
(* (acquire_lock_inner, isolate_stale_lock, release_owned_lock).           *)
THEOREM LockInvariant ==
  ASSUME ~ LegacyWhileLooking
  PROVE  Spec => []LockInv
<1>1. LockInv /\ [Next]_vars => LockInv'
  BY NextInv
<1> QED
  BY <1>1, InitInv, PTL DEF Spec

(* The variables keep their types, whatever older launchers do.            *)
THEOREM TypeCorrect == Spec => []TypeOK
<1>1. Init => TypeOK
  BY InitInv DEF LockInv
<1>2. TypeOK /\ [Next]_vars => TypeOK'
  BY NextType
<1> QED
  BY <1>1, <1>2, PTL DEF Spec

(* A guard still owns its directory whenever its holder comes to release   *)
(* it, under the same condition on older launchers.                        *)
THEOREM HoldersOwn ==
  ASSUME ~ LegacyWhileLooking
  PROVE  Spec => []HolderOwnsDir
<1>1. LockInv => HolderOwnsDir
  BY PidsAssumption DEF LockInv, OsLockInv, WorkInv, HolderOwnsDir, Working, WorkSteps, Pids
<1> QED
  BY <1>1, LockInvariant, PTL

-----------------------------------------------------------------------------
(* The lock implements the exclusive section.                              *)

(* A step into the section starts from an empty section.                   *)
LEMMA EnterWhenEmpty ==
  ASSUME LockInv, LockInv', NEW p \in Pids, Inside' = Inside \cup {p}
  PROVE  Inside' = Inside \/ (Inside = {} /\ Inside' = {p})
<1>1. \A q, r \in Inside' : q = r
  BY DEF LockInv, WorkInv, Working, WorkSteps, Inside, Me
<1> QED
  BY <1>1

(* Every step of the lock is a step of the exclusive section or leaves it  *)
(* alone.                                                                  *)
LEMMA StepSimulation ==
  ASSUME LockInv, LockInv', [Next]_vars
  PROVE  [Section!Next]_Inside
<1> SUFFICES ASSUME Inside' # Inside PROVE Section!Next
  OBVIOUS
<1> USE PidsAssumption DEF LockInv, TypeOK, Inside, Goto, Pids
<1>1. ASSUME NEW p \in Pids, Inside' = Inside \cup {p} PROVE Section!Next
  BY <1>1, EnterWhenEmpty, Zenon DEF Section!Next, Section!Enter
<1>2. ASSUME NEW p \in Pids, p \in Inside, Inside' = Inside \ {p} PROVE Section!Next
  BY <1>2, Zenon DEF Section!Next, Section!Leave
<1>3. ASSUME NEW p \in Current, WriteOwner(p) PROVE Inside' = Inside \cup {p}
  BY <1>3 DEF WriteOwner
<1>4. ASSUME NEW l \in Legacy, LegacyWrite(l) PROVE Inside' = Inside \cup {l}
  BY <1>4 DEF LegacyWrite
<1>5. ASSUME NEW p \in Current, Finish(p) PROVE p \in Inside /\ Inside' = Inside \ {p}
  BY <1>5 DEF Finish
<1>6. ASSUME NEW l \in Legacy, LegacyRemoveOwner(l) PROVE l \in Inside /\ Inside' = Inside \ {l}
  BY <1>6 DEF LegacyRemoveOwner
<1>7. ASSUME NEW p \in Pids, Crash(p) PROVE p \in Inside /\ Inside' = Inside \ {p}
  BY <1>7 DEF Crash
<1>8. ASSUME NEW p \in Current,
             \/ TryOsLock(p) \/ WriteFails(p) \/ Examine(p) \/ LookExists(p)
             \/ LookOwner(p) \/ LookAge(p) \/ LookProcess(p) \/ Isolate(p)
             \/ IsolateFails(p) \/ CheckOwn(p) \/ RemoveOwner(p)
             \/ RemoveOwnerFails(p) \/ RemoveDir(p) \/ RemoveDirFails(p) \/ Unlock(p)
      PROVE  FALSE
  BY <1>8 DEF TryOsLock, WriteFails, Examine, LookExists, LookOwner, LookAge,
              LookProcess, Isolate, IsolateFails, CheckOwn, RemoveOwner,
              RemoveOwnerFails, RemoveDir, RemoveDirFails, Unlock
<1>9. ASSUME NEW p \in Current, Mkdir(p) \/ Retry(p) PROVE FALSE
  BY <1>9 DEF Mkdir, Retry, CreateDir
<1>10. ASSUME NEW l \in Legacy, LegacyMkdir(l) \/ LegacyRemoveDir(l) PROVE FALSE
  BY <1>10 DEF LegacyMkdir, LegacyRemoveDir
<1>11. ASSUME NEW p \in Pids, Restart(p) PROVE FALSE
  BY <1>11 DEF Restart
<1>12. ASSUME Age \/ UNCHANGED vars PROVE FALSE
  BY <1>12 DEF Age, vars
<1> QED
  BY <1>1, <1>2, <1>3, <1>4, <1>5, <1>6, <1>7, <1>8, <1>9, <1>10, <1>11, <1>12, Zenon
     DEF Next, CurrentStep, LegacyStep, Pids

(* A directory that leaves the path was not in use by another process,     *)
(* where no older launcher makes its own while a current process decides   *)
(* about an earlier one.                                                   *)
THEOREM DirectoryKept ==
  ASSUME ~ LegacyWhileLooking
  PROVE  Spec => OnlyOwnOrOrphanLeaves
<1> DEFINE Kept == Exists /\ dir' # dir =>
             \/ ~ InUse
             \/ pc[dir.pid] \in {"write", "rmdir", "lrmdir"} /\ pc'[dir.pid] # pc[dir.pid]
<1> SUFFICES ASSUME LockInv, [Next]_vars PROVE Kept
  BY LockInvariant, PTL DEF Spec, OnlyOwnOrOrphanLeaves
<1> SUFFICES ASSUME Exists, dir' # dir, InUse
             PROVE  pc[dir.pid] \in {"write", "rmdir", "lrmdir"} /\ pc'[dir.pid] # pc[dir.pid]
  OBVIOUS
<1> USE PidsAssumption DEF Pids, Goto, dirVars, procVars
<1> DEFINE q == dir.pid
<1>1. q \in Working
  BY DEF InUse, Working, WorkSteps, LockInv, TypeOK, Exists, NoDir
<1>2. ASSUME NEW p \in Current, WriteFails(p) \/ RemoveDir(p)
      PROVE  pc[q] \in {"write", "rmdir", "lrmdir"} /\ pc'[q] # pc[q]
  <2>1. pc[p] \in {"write", "rmdir"} /\ pc' = [pc EXCEPT ![p] = "unlock"]
    BY <1>2 DEF WriteFails, RemoveDir
  <2>2. q = p
    BY <2>1 DEF LockInv, WorkInv, Working, WorkSteps, Me
  <2> QED
    BY <2>1, <2>2 DEF LockInv, TypeOK
<1>3. ASSUME NEW l \in Legacy, LegacyRemoveDir(l)
      PROVE  pc[q] \in {"write", "rmdir", "lrmdir"} /\ pc'[q] # pc[q]
  <2>1. pc[l] = "lrmdir" /\ pc' = [pc EXCEPT ![l] = "idle"]
    BY <1>3 DEF LegacyRemoveDir
  <2>2. q = l
    BY <2>1 DEF LockInv, WorkInv, Working, WorkSteps, Me
  <2> QED
    BY <2>1, <2>2 DEF LockInv, TypeOK
<1>4. ASSUME NEW p \in Current, Isolate(p) PROVE FALSE
  BY <1>1, <1>4 DEF Isolate, LockInv, RenameInv
<1>5. ASSUME NEW p \in Current, Mkdir(p) \/ Retry(p) PROVE FALSE
  BY <1>5 DEF Mkdir, Retry, CreateDir
<1>6. ASSUME NEW l \in Legacy, LegacyMkdir(l) PROVE FALSE
  BY <1>6 DEF LegacyMkdir
<1>7. ASSUME NEW p \in Current,
             \/ TryOsLock(p) \/ WriteOwner(p) \/ Examine(p) \/ LookExists(p)
             \/ LookOwner(p) \/ LookAge(p) \/ LookProcess(p) \/ IsolateFails(p)
             \/ Finish(p) \/ CheckOwn(p) \/ RemoveOwner(p)
             \/ RemoveOwnerFails(p) \/ RemoveDirFails(p) \/ Unlock(p)
      PROVE  FALSE
  BY <1>7 DEF TryOsLock, WriteOwner, Examine, LookExists, LookOwner, LookAge,
              LookProcess, IsolateFails, Finish, CheckOwn, RemoveOwner,
              RemoveOwnerFails, RemoveDirFails, Unlock
<1>8. ASSUME NEW l \in Legacy, LegacyWrite(l) \/ LegacyRemoveOwner(l) PROVE FALSE
  BY <1>8 DEF LegacyWrite, LegacyRemoveOwner
<1>9. ASSUME NEW p \in Pids, Crash(p) \/ Restart(p) PROVE FALSE
  BY <1>9 DEF Crash, Restart
<1>10. ASSUME Age \/ UNCHANGED vars PROVE FALSE
  BY <1>10 DEF Age, vars
<1> QED
  BY <1>2, <1>3, <1>4, <1>5, <1>6, <1>7, <1>8, <1>9, <1>10, Zenon
     DEF Next, CurrentStep, LegacyStep

(* Old and new launchers together implement the exclusive section, under   *)
(* the same condition on older launchers.                                  *)
THEOREM ImplementsSection ==
  ASSUME ~ LegacyWhileLooking
  PROVE  Spec => Exclusive
<1>1. Init => Section!Init
  BY DEF Init, Section!Init, Inside
<1>2. LockInv /\ LockInv' /\ [Next]_vars => [Section!Next]_Inside
  BY StepSimulation
<1> QED
  BY <1>1, <1>2, LockInvariant, PTL DEF Spec, Exclusive, Section!Spec

-----------------------------------------------------------------------------

(* Killing launchers keeps the types, whatever the state of the lock.      *)
LEMMA StopLaunchersType ==
  ASSUME TypeOK, StopLaunchers
  PROVE  TypeOK'
BY PidsAssumption, EmptyTypes
   DEF StopLaunchers, dirVars, TypeOK, CurrentSteps, LegacySteps, Pids

(* Killing launchers wherever they are keeps the invariant of the lock.    *)
LEMMA StopLaunchersInv ==
  ASSUME LockInv, StopLaunchers
  PROVE  LockInv'
<1> DEFINE killed == {p \in Launchers : alive[p]}
<1>1. /\ alive' = [p \in Pids |-> alive[p] /\ p \notin killed]
      /\ pc' = [p \in Pids |-> IF p \in killed THEN "idle" ELSE pc[p]]
      /\ myId' = [p \in Current |-> IF p \in killed THEN NoId ELSE myId[p]]
      /\ seen' = [p \in Current |-> IF p \in killed THEN NothingSeen ELSE seen[p]]
      /\ osLock' = IF osLock \in killed THEN Nobody ELSE osLock
      /\ UNCHANGED <<birth, dir, owner, age>>
  BY DEF StopLaunchers, dirVars
<1> HIDE DEF killed
<1> USE PidsAssumption DEF Pids
<1>2. TypeOK'
  BY StopLaunchersType DEF LockInv
<1>3. OsLockInv'
  <2>1. \A q \in Current : (pc[q] # "idle")' <=> osLock' = q
    BY <1>1 DEF LockInv, TypeOK, OsLockInv
  <2>2. \A q \in Pids : (pc[q] # "idle")' => alive'[q]
    BY <1>1 DEF LockInv, OsLockInv
  <2> QED
    BY <2>1, <2>2 DEF OsLockInv
<1>4. OwnerInv'
  BY <1>1 DEF LockInv, OwnerInv, Exists
<1>5. Working' = Working \ killed
  BY <1>1 DEF Working, WorkSteps
<1>6. WorkInv'
  <2>1. \A q \in Working' : (dir = Me(q))'
    BY <1>1, <1>5 DEF LockInv, WorkInv, Me
  <2>2. \A q \in Current :
          pc'[q] \in {"held", "release", "remove", "drop", "dropRemove"} =>
          owner'.pid = q /\ owner'.lockId = myId'[q]
    BY <1>1 DEF LockInv, WorkInv
  <2> QED
    BY <1>1, <2>1, <2>2 DEF LockInv, WorkInv
<1>7. LookInv' /\ RenameInv'
  BY <1>1, <1>5 DEF LockInv, LookInv, RenameInv
<1> QED
  BY <1>2, <1>3, <1>4, <1>6, <1>7 DEF LockInv

(* The manager's own steps only look at the lock.                          *)
LEMMA RestartNextInv ==
  ASSUME ~ LegacyWhileLooking, LockInv, [RestartNext]_restartVars
  PROVE  LockInv'
<1>1. CASE Next
  BY <1>1, NextInv
<1>2. CASE StopLaunchers
  BY <1>2, StopLaunchersInv
<1>3. CASE UNCHANGED vars
  BY <1>3, NextInv
<1> QED
  BY <1>1, <1>2, <1>3
     DEF RestartNext, RestartStep, BeginRestart, PollExists, PollOwner, PollAge,
         PollProcess, restartVars

(* The lock keeps its invariant next to the restart command, where no      *)
(* older launcher makes its directory while a current process decides.     *)
THEOREM LockInvUnderRestart ==
  ASSUME ~ LegacyWhileLooking
  PROVE  RestartSpec => []LockInv
<1>1. RestartInit => LockInv
  BY InitInv DEF RestartInit
<1>2. LockInv /\ [RestartNext]_restartVars => LockInv'
  BY RestartNextInv
<1> QED
  BY <1>1, <1>2, PTL DEF RestartSpec

(* The types of the lock and of the restart next to it hold in every state. *)
THEOREM RestartTypeCorrect == RestartSpec => []RestartTypeOK
<1> DEFINE MgrOK ==
      /\ mgr \in {"idle", "exists", "read", "stat", "ask", "stopping"}
      /\ look \in LookRec
<1>1. RestartInit => RestartTypeOK
  <2>1. RestartInit => TypeOK
    BY InitInv DEF RestartInit, LockInv
  <2>2. RestartInit => mgr = "idle" /\ look = NothingSeen /\ calm = FALSE
    BY DEF RestartInit
  <2>3. RestartInit => look \in LookRec
    BY <2>2, EmptyTypes
  <2> QED
    BY <2>1, <2>2, <2>3 DEF RestartTypeOK
<1>2. ASSUME RestartTypeOK, [RestartNext]_restartVars PROVE RestartTypeOK'
  <2>1. TypeOK /\ MgrOK /\ calm \in BOOLEAN /\ DirAge \in 0..2 /\ owner \in OwnerRec
    BY <1>2 DEF RestartTypeOK, TypeOK, DirAge
  <2>2. calm' \in BOOLEAN
    BY <1>2, <2>1 DEF RestartNext, RecordCalm, restartVars
  <2>3. ASSUME NEW idle \in BOOLEAN, Verdict(idle) PROVE MgrOK'
    BY <2>1, <2>3, EmptyTypes DEF Verdict
  <2>4. CASE Next /\ UNCHANGED mgrVars
    <3>1. TypeOK'
      BY <2>1, <2>4, NextType
    <3> QED
      BY <2>1, <2>2, <2>4, <3>1 DEF RestartTypeOK, mgrVars
  <2>5. CASE UNCHANGED vars /\ MgrOK'
    <3>1. TypeOK'
      BY <2>1, <2>5, NextType
    <3> QED
      BY <2>2, <2>5, <3>1 DEF RestartTypeOK
  <2>6. CASE BeginRestart
    BY <2>1, <2>5, <2>6 DEF BeginRestart
  <2>7. CASE PollExists
    BY <2>1, <2>3, <2>5, <2>7 DEF PollExists
  <2>8. CASE PollOwner
    <3>1. [owner |-> owner, age |-> 0] \in LookRec
      BY <2>1 DEF LookRec
    <3> QED
      BY <2>1, <2>5, <2>8, <3>1 DEF PollOwner
  <2>9. CASE PollAge
    <3>1. CASE look.owner = NoOwner
      <4>1. Verdict(Interrupted(DirAge)) /\ Interrupted(DirAge) \in BOOLEAN
        BY <2>9, <3>1 DEF PollAge, Interrupted
      <4>2. UNCHANGED vars
        BY <2>9 DEF PollAge
      <4> QED
        BY <2>3, <2>5, <4>1, <4>2
    <3>2. CASE look.owner # NoOwner
      <4>1. [owner |-> look.owner, age |-> DirAge] \in LookRec
        BY <2>1 DEF LookRec
      <4> QED
        BY <2>1, <2>5, <2>9, <3>2, <4>1 DEF PollAge
    <3> QED
      BY <3>1, <3>2
  <2>10. CASE PollProcess
    BY <2>3, <2>5, <2>10 DEF PollProcess, OwnerStale
  <2>11. CASE StopLaunchers
    <3>1. TypeOK'
      BY <2>1, <2>11, StopLaunchersType
    <3> QED
      BY <2>1, <2>2, <2>11, <3>1 DEF RestartTypeOK, StopLaunchers
  <2>12. CASE UNCHANGED restartVars
    BY <2>1, <2>5, <2>12 DEF restartVars, mgrVars
  <2> QED
    BY <1>2, <2>4, <2>6, <2>7, <2>8, <2>9, <2>10, <2>11, <2>12
       DEF RestartNext, RestartStep
<1> QED
  BY <1>1, <1>2, PTL DEF RestartSpec

(* What the manager has read while somebody was inside all along is the    *)
(* owner.json of that process, and it is still inside.                     *)
LookedAt ==
  mgr \in {"read", "stat", "ask"} /\ ~ calm =>
    /\ Inside # {}
    /\ mgr \in {"stat", "ask"} =>
         \A q \in Inside : look.owner.pid = q /\ look.owner.birth = birth[q]

(* Whoever is inside runs, made the directory and wrote its owner.json.    *)
LEMMA InsideOwns ==
  ASSUME LockInv, NEW q \in Inside
  PROVE  /\ q \in Pids /\ alive[q] /\ Exists
         /\ owner.pid = q /\ owner.birth = birth[q] /\ owner # NoOwner
<1> USE PidsAssumption
<1>1. q \in Pids /\ alive[q] /\ dir = Me(q) /\ owner.pid = q
  BY DEF LockInv, TypeOK, OsLockInv, WorkInv, Working, WorkSteps, Inside, Pids,
         CurrentSteps, LegacySteps
<1>2. owner # NoOwner /\ Exists
  BY <1>1 DEF NoOwner, NoDir, Exists, Me, Pids
<1> QED
  BY <1>1, <1>2 DEF LockInv, OwnerInv, Me

(* A step of the lock that leaves nobody's stay uninterrupted keeps the    *)
(* one who is inside, under the same birth.                                *)
LEMMA StayInside ==
  ASSUME LockInv, LockInv', [Next]_vars, Inside # {}, Inside' # {}
  PROVE  Inside' = Inside /\ \A q \in Inside : birth'[q] = birth[q]
<1>1. Inside' = Inside
  <2>1. [Section!Next]_Inside
    BY StepSimulation
  <2>2. ASSUME NEW q \in Inside, Inside' = Inside \ {q} PROVE Inside' = {}
    <3>1. \A r \in Inside : r = q
      BY InsideOwns
    <3> QED
      BY <2>2, <3>1
  <2> QED
    BY <2>1, <2>2 DEF Section!Next, Section!Enter, Section!Leave
<1>2. ASSUME NEW q \in Inside PROVE birth'[q] = birth[q]
  <2>1. alive[q]
    BY InsideOwns
  <2>2. ASSUME NEW r \in Pids, Restart(r) PROVE r # q /\ birth' = [birth EXCEPT ![r] = @ + 1]
    BY <2>1, <2>2 DEF Restart
  <2>3. ASSUME NEW r \in Pids, Crash(r) PROVE UNCHANGED birth
    BY <2>3 DEF Crash
  <2>4. ASSUME NEW p \in Current, TryOsLock(p) \/ CurrentStep(p) PROVE UNCHANGED birth
    BY <2>4 DEF CurrentStep, TryOsLock, Mkdir, Retry, CreateDir, WriteOwner, WriteFails,
                Examine, LookExists, LookOwner, LookAge, LookProcess, Isolate,
                IsolateFails, Finish, CheckOwn, RemoveOwner, RemoveOwnerFails,
                RemoveDir, RemoveDirFails, Unlock, procVars
  <2>5. ASSUME NEW l \in Legacy, LegacyStep(l) PROVE UNCHANGED birth
    BY <2>5 DEF LegacyStep, LegacyMkdir, LegacyWrite, LegacyRemoveOwner,
                LegacyRemoveDir, procVars
  <2>6. CASE Age \/ UNCHANGED vars
    BY <2>6 DEF Age, vars, procVars
  <2>7. birth \in [Pids -> Nat] /\ q \in Pids
    BY InsideOwns DEF LockInv, TypeOK
  <2> QED
    BY <2>2, <2>3, <2>4, <2>5, <2>6, <2>7 DEF Next
<1> QED
  BY <1>1, <1>2

(* Every step keeps what is known of the manager's look.                   *)
LEMMA LookedAtInv ==
  ASSUME LockInv, LockInv', RestartTypeOK, LookedAt, [RestartNext]_restartVars
  PROVE  LookedAt'
<1> SUFFICES ASSUME mgr' \in {"read", "stat", "ask"}, ~ calm' PROVE LookedAt'
  BY DEF LookedAt
<1>1. CASE UNCHANGED restartVars
  BY <1>1 DEF restartVars, vars, mgrVars, LookedAt, Inside
<1>2. CASE RestartNext
  <2>1. ~ calm /\ Inside # {} /\ Inside' # {}
    BY <1>2 DEF RestartNext, RecordCalm
  <2>2. CASE Next /\ UNCHANGED mgrVars
    <3>1. Inside' = Inside /\ \A q \in Inside : birth'[q] = birth[q]
      BY <2>1, <2>2, StayInside
    <3> QED
      BY <2>1, <2>2, <3>1 DEF LookedAt, mgrVars
  <2>3. CASE PollExists
    BY <2>1, <2>3 DEF PollExists, Verdict, LookedAt
  <2>4. CASE PollOwner
    <3>1. look'.owner = owner /\ Inside' = Inside /\ UNCHANGED birth
      BY <2>4 DEF PollOwner, vars, Inside
    <3> QED
      BY <2>1, <3>1, InsideOwns DEF LookedAt
  <2>5. CASE PollAge
    BY <2>1, <2>5 DEF PollAge, Verdict, LookedAt, Inside, vars
  <2>6. CASE BeginRestart \/ PollProcess \/ StopLaunchers
    BY <2>6 DEF BeginRestart, PollProcess, StopLaunchers, Verdict
  <2> QED
    BY <1>2, <2>2, <2>3, <2>4, <2>5, <2>6 DEF RestartNext, RestartStep
<1> QED
  BY <1>1, <1>2

(* The poll that lets a restart go ahead (wait_for_idle_provider_sync)     *)
(* never overlooks a sync that is in progress all through its look, where  *)
(* no older launcher makes its directory while a current process decides   *)
(* about an earlier one.                                                   *)
THEOREM PollSeesSync ==
  ASSUME ~ LegacyWhileLooking
  PROVE  RestartSpec => PollNeverMissesSync
<1> DEFINE Seen == mgr # "stopping" /\ mgr' = "stopping" => calm'
<1>1. RestartInit => LookedAt
  BY DEF RestartInit, LookedAt
<1>2. LockInv /\ LockInv' /\ RestartTypeOK /\ LookedAt /\ [RestartNext]_restartVars => LookedAt'
  BY LookedAtInv
<1>3. ASSUME LockInv, LookedAt, [RestartNext]_restartVars PROVE Seen
  <2> SUFFICES ASSUME mgr # "stopping", mgr' = "stopping", ~ calm' PROVE FALSE
    OBVIOUS
  <2>1. RestartNext /\ ~ calm /\ Inside # {}
    BY <1>3 DEF RestartNext, RecordCalm, restartVars, mgrVars
  <2>2. PICK q \in Inside : TRUE
    BY <2>1
  <2>3. q \in Pids /\ alive[q] /\ Exists
    BY <1>3, InsideOwns
  <2>4. CASE PollExists
    BY <2>3, <2>4 DEF PollExists
  <2>5. CASE PollAge
    <3>1. mgr = "stat" /\ look.owner = NoOwner
      BY <2>5 DEF PollAge
    <3>2. look.owner.pid = q
      BY <1>3, <2>1, <2>2, <3>1 DEF LookedAt
    <3> QED
      BY <2>3, <3>1, <3>2, PidsAssumption DEF NoOwner, Pids
  <2>6. CASE PollProcess
    <3>1. mgr = "ask" /\ look.owner.pid = q /\ look.owner.birth = birth[q]
      BY <1>3, <2>1, <2>2, <2>6 DEF PollProcess, LookedAt
    <3>2. PICK r \in Reports(q) : Verdict(OwnerStale(look, r))
      BY <2>6, <3>1 DEF PollProcess
    <3>3. OwnerStale(look, r)
      BY <3>2 DEF Verdict
    <3> QED
      BY <2>3, <3>1, <3>3 DEF OwnerStale, Reports
  <2>7. CASE BeginRestart \/ PollOwner \/ StopLaunchers \/ UNCHANGED mgr
    BY <2>7 DEF BeginRestart, PollOwner, StopLaunchers
  <2> QED
    BY <2>1, <2>4, <2>5, <2>6, <2>7 DEF RestartNext, RestartStep, mgrVars
<1> HIDE DEF Seen
<1>4. RestartSpec => [][Seen]_restartVars
  BY <1>1, <1>2, <1>3, LockInvUnderRestart, RestartTypeCorrect, PTL DEF RestartSpec
<1> QED
  BY <1>4 DEF PollNeverMissesSync, Seen
=============================================================================
