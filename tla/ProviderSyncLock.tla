-------------------------- MODULE ProviderSyncLock --------------------------
(***************************************************************************)
(* The lifecycle lock of provider sync                                     *)
(* (crates/codex-plus-data/src/provider_sync.rs).                          *)
(*                                                                         *)
(* Two protocols share one home directory.  The current one takes an OS    *)
(* file lock (provider-sync.lifecycle.lock, dropped by the kernel when the *)
(* process dies) and then creates the compatibility directory              *)
(* provider-sync.lock with an owner.json in it.  Older launchers know only *)
(* the directory: they create it, write an owner.json without a lockId and *)
(* remove whatever is at the path when they are done.  A current process   *)
(* that finds the directory may move an orphan aside and start again.      *)
(*                                                                         *)
(* Every call of the file system and every question about a process is a   *)
(* step of its own; a process can die between any two of them, and its pid *)
(* can be reused by a later process.  Looking at a lock (inspect_lock) is  *)
(* four such steps, and what one of them saw may be over at the next.      *)
(***************************************************************************)
EXTENDS Naturals

CONSTANTS
  Current,    \* pids of processes that run the current protocol
  Legacy,     \* pids of older launchers that know only the directory
  Ids,        \* lockIds (uuids); one that no state mentions can serve again
  Nobody,     \* no process
  NoId,       \* owner.json has no lockId
  MaxBirth,   \* bound: how often one pid dies and is reused
  LegacyWhileLooking  \* may an older launcher make its directory while a
                      \* current process decides about an earlier one

ASSUME PidsAssumption ==
  /\ Current \cap Legacy = {}
  /\ Nobody \notin Current \cup Legacy

ASSUME IdsAssumption == NoId \notin Ids

ASSUME MaxBirthAssumption == MaxBirth \in Nat

ASSUME LookingAssumption == LegacyWhileLooking \in BOOLEAN

Pids == Current \cup Legacy

VARIABLES
  alive,    \* alive[p]: a process with pid p is running
  birth,    \* birth[p]: which process with that pid (its birth id and start)
  pc,       \* pc[p]: where p is in its use of the lock
  myId,     \* myId[p]: the lockId of p's current attempt
  seen,     \* seen[p]: what p has read of the directory in its look
  osLock,   \* holder of provider-sync.lifecycle.lock
  dir,      \* the process that made the directory now at the path
  owner,    \* what owner.json in that directory says
  age       \* 0 fresh, 1 past the interrupted grace, 2 past the pid-reuse age

vars == <<alive, birth, pc, myId, seen, osLock, dir, owner, age>>
dirVars == <<dir, owner, age>>
procVars == <<alive, birth>>

CurrentSteps ==
  {"idle", "mkdir", "write", "examine", "exists", "read", "stat", "ask",
   "rename", "retry", "held", "release", "remove", "drop", "dropRemove",
   "rmdir", "unlock"}
LegacySteps == {"idle", "lwrite", "lheld", "lrmdir"}

NoDir == [pid |-> Nobody, birth |-> 0]
NoOwner == [pid |-> Nobody, birth |-> 0, stamped |-> FALSE, lockId |-> NoId]

NothingSeen == [owner |-> NoOwner, age |-> 0]

Me(p) == [pid |-> p, birth |-> birth[p]]
Exists == dir # NoDir

Init ==
  /\ alive = [p \in Pids |-> TRUE]
  /\ birth = [p \in Pids |-> 0]
  /\ pc = [p \in Pids |-> "idle"]
  /\ myId = [p \in Current |-> NoId]
  /\ seen = [p \in Current |-> NothingSeen]
  /\ osLock = Nobody
  /\ dir = NoDir
  /\ owner = NoOwner
  /\ age = 0

-----------------------------------------------------------------------------
(* Classifying the directory.                                              *)

(* What the system may report of a pid: inspect_process_instance.  It may  *)
(* fail to identify the process, and may fail to answer at all; "near" is  *)
(* a process identified as started within the pid-reuse tolerance.         *)
Reports(p) ==
  {"unknown"} \cup
    IF alive[p] THEN {"anonymous", "near", "identified"} ELSE {"gone"}

(* classify_lock for a readable owner.json: the lock is stale when its pid *)
(* is gone, when the recorded birth (or start) is not the one running now, *)
(* or, for an owner that recorded neither, when the directory is old and   *)
(* the running process started well after the lock was taken.  The owner   *)
(* and the age are those read earlier in the look.                         *)
OwnerStaleUnlessRunning(look, report) ==  \* mutant: no answer counts as not running
  report \in {"gone", "unknown"}

OwnerStale(look, report) ==
  \/ report = "gone"
  \/ /\ report \in {"near", "identified"}
     /\ birth[look.owner.pid] # look.owner.birth
     /\ look.owner.stamped \/ (look.age = 2 /\ report = "identified")

(* classify_lock without a readable owner.json: only the age speaks.       *)
InterruptedAtOnce(a) ==  \* mutant: an unreadable owner.json needs no grace
  TRUE

Interrupted(a) == a >= 1

(* lock_dir_age_secs; of a directory that is gone no age is known, which   *)
(* classify_lock treats as a fresh one.                                    *)
DirAge == IF Exists THEN age ELSE 0

-----------------------------------------------------------------------------
(* The current protocol: acquire_lock_inner, create_lock,                  *)
(* isolate_stale_lock and the guard's release.                             *)

Goto(p, from, to) ==
  /\ pc[p] = from
  /\ pc' = [pc EXCEPT ![p] = to]

(* try_lock_exclusive succeeds and the attempt draws a new uuid.  When the *)
(* file is locked the call fails and changes nothing.                      *)
TryOsLock(p) ==
  /\ alive[p]
  /\ Goto(p, "idle", "mkdir")
  /\ osLock = Nobody
  /\ osLock' = p
  /\ \E id \in Ids \ {owner.lockId} : myId' = [myId EXCEPT ![p] = id]
  /\ UNCHANGED <<procVars, seen, dirVars>>

(* fs::create_dir: AlreadyExists sends the first attempt to                *)
(* isolate_stale_lock and ends the second one.                             *)
CreateDirAll(p, from, busy) ==  \* mutant: an existing directory is no error
  /\ Goto(p, from, IF Exists /\ from = "mkdir" THEN busy ELSE "write")
  /\ IF Exists THEN UNCHANGED dirVars
     ELSE dir' = Me(p) /\ owner' = NoOwner /\ age' = 0
  /\ UNCHANGED <<procVars, myId, seen, osLock>>

CreateDir(p, from, busy) ==
  /\ \/ /\ ~ Exists
        /\ Goto(p, from, "write")
        /\ dir' = Me(p)
        /\ owner' = NoOwner
        /\ age' = 0
     \/ /\ Exists
        /\ Goto(p, from, busy)
        /\ UNCHANGED dirVars
  /\ UNCHANGED <<procVars, myId, seen, osLock>>

Mkdir(p) == CreateDir(p, "mkdir", "examine")
Retry(p) == CreateDir(p, "retry", "unlock")

(* fs::write of owner.json.  The process may not know its own identity.    *)
(* Writing a file into the directory renews the directory's age.           *)
WriteOwner(p) ==
  /\ Goto(p, "write", "held")
  /\ Exists
  /\ \E known \in BOOLEAN :
       owner' = [pid |-> p, birth |-> birth[p], stamped |-> known,
                 lockId |-> myId[p]]
  /\ age' = 0
  /\ UNCHANGED <<procVars, myId, seen, osLock, dir>>

(* The write fails: create_lock removes the directory and reports the      *)
(* failed write, whether the directory could be removed or not.            *)
WriteFails(p) ==
  /\ Goto(p, "write", "unlock")
  /\ \/ dir' = NoDir /\ owner' = NoOwner /\ age' = 0
     \/ UNCHANGED dirVars
  /\ UNCHANGED <<procVars, myId, seen, osLock>>

(* isolate_stale_lock, first read: a lockId proves an orphan of the        *)
(* current protocol, because this process holds the OS lock.               *)
ExamineByPid(p) ==  \* mutant: the lockId proves nothing
  /\ Goto(p, "examine", "exists")
  /\ UNCHANGED <<procVars, myId, seen, osLock, dirVars>>

Examine(p) ==
  /\ \/ owner.lockId # NoId /\ Goto(p, "examine", "rename")
     \/ owner.lockId = NoId /\ Goto(p, "examine", "exists")
  /\ UNCHANGED <<procVars, myId, seen, osLock, dirVars>>

(* Otherwise inspect_lock looks again.  Its first call: path.exists.       *)
LookExists(p) ==
  /\ \/ Exists /\ Goto(p, "exists", "read")
     \/ ~ Exists /\ Goto(p, "exists", "unlock")
  /\ UNCHANGED <<procVars, myId, seen, osLock, dirVars>>

(* Its second call: fs::read of owner.json, which may be gone by now.      *)
LookOwner(p) ==
  /\ Goto(p, "read", "stat")
  /\ seen' = [seen EXCEPT ![p] = [owner |-> owner, age |-> 0]]
  /\ UNCHANGED <<procVars, myId, osLock, dirVars>>

(* Its third call: fs::metadata.  Without an owner the verdict is given.   *)
LookAge(p) ==
  /\ \/ /\ seen[p].owner = NoOwner
        /\ Goto(p, "stat", IF Interrupted(DirAge) THEN "rename" ELSE "unlock")
        /\ UNCHANGED seen
     \/ /\ seen[p].owner # NoOwner
        /\ Goto(p, "stat", "ask")
        /\ seen' = [seen EXCEPT ![p] = [owner |-> seen[p].owner, age |-> DirAge]]
  /\ UNCHANGED <<procVars, myId, osLock, dirVars>>

(* Its last: inspect_process_instance of the pid read before.              *)
LookProcess(p) ==
  /\ pc[p] = "ask"
  /\ \E r \in Reports(seen[p].owner.pid) :
       Goto(p, "ask", IF OwnerStale(seen[p], r) THEN "rename" ELSE "unlock")
  /\ seen' = [seen EXCEPT ![p] = NothingSeen]
  /\ UNCHANGED <<procVars, myId, osLock, dirVars>>

(* fs::rename of whatever is at the path now to a fresh quarantine name.   *)
Isolate(p) ==
  /\ Goto(p, "rename", "retry")
  /\ Exists
  /\ dir' = NoDir
  /\ owner' = NoOwner
  /\ age' = 0
  /\ UNCHANGED <<procVars, myId, seen, osLock>>

(* The rename fails: the directory is gone or something keeps it open.     *)
IsolateFails(p) ==
  /\ Goto(p, "rename", "unlock")
  /\ UNCHANGED <<procVars, myId, seen, osLock, dirVars>>

(* The protected work ends: the guard is released, or only dropped.        *)
Finish(p) ==
  /\ Goto(p, "held", "release") \/ Goto(p, "held", "drop")
  /\ UNCHANGED <<procVars, myId, seen, osLock, dirVars>>

(* release_owned_lock reads owner.json: only a directory with this guard's *)
(* lockId is removed.                                                      *)
CheckOwn(p) ==
  /\ LET own == Exists /\ owner.lockId = myId[p]
     IN  \/ Goto(p, "release", IF own THEN "remove" ELSE "unlock")
         \/ Goto(p, "drop", IF own THEN "dropRemove" ELSE "unlock")
  /\ UNCHANGED <<procVars, myId, seen, osLock, dirVars>>

(* fs::remove_dir_all: owner.json goes first.                              *)
RemoveOwner(p) ==
  /\ Exists
  /\ Goto(p, "remove", "rmdir") \/ Goto(p, "dropRemove", "rmdir")
  /\ owner' = NoOwner
  /\ age' = 0
  /\ UNCHANGED <<procVars, myId, seen, osLock, dir>>

(* It fails before: release gives up and its Drop tries once more.         *)
RemoveOwnerFails(p) ==
  /\ Goto(p, "remove", "drop") \/ Goto(p, "dropRemove", "unlock")
  /\ UNCHANGED <<procVars, myId, seen, osLock, dirVars>>

RemoveDir(p) ==
  /\ Goto(p, "rmdir", "unlock")
  /\ dir' = NoDir
  /\ owner' = NoOwner
  /\ age' = 0
  /\ UNCHANGED <<procVars, myId, seen, osLock>>

(* It fails after owner.json is gone: Drop finds no lockId any more and    *)
(* the directory stays.                                                    *)
RemoveDirFails(p) ==
  /\ Goto(p, "rmdir", "unlock")
  /\ UNCHANGED <<procVars, myId, seen, osLock, dirVars>>

Unlock(p) ==
  /\ Goto(p, "unlock", "idle")
  /\ osLock' = Nobody
  /\ myId' = [myId EXCEPT ![p] = NoId]
  /\ seen' = [seen EXCEPT ![p] = NothingSeen]
  /\ UNCHANGED <<procVars, dirVars>>

CurrentStep(p) ==
  \/ Mkdir(p) \/ Retry(p) \/ WriteOwner(p) \/ WriteFails(p)
  \/ Examine(p) \/ LookExists(p) \/ LookOwner(p) \/ LookAge(p) \/ LookProcess(p)
  \/ Isolate(p) \/ IsolateFails(p)
  \/ Finish(p) \/ CheckOwn(p) \/ RemoveOwner(p) \/ RemoveOwnerFails(p)
  \/ RemoveDir(p) \/ RemoveDirFails(p) \/ Unlock(p)

-----------------------------------------------------------------------------
(* Older launchers: mkdir, write owner.json, work, rmtree.                 *)

(* A current process has read owner.json and has yet to act on it.         *)
Deciding == {p \in Current : pc[p] \in {"stat", "ask", "rename"}}

(* Nothing keeps an older launcher from starting while a current process   *)
(* decides; the properties that this breaks are stated for launchers that  *)
(* happen not to (LegacyWhileLooking).                                     *)
LegacyMkdir(l) ==
  /\ alive[l]
  /\ ~ Exists
  /\ LegacyWhileLooking \/ Deciding = {}
  /\ Goto(l, "idle", "lwrite")
  /\ dir' = Me(l)
  /\ owner' = NoOwner
  /\ age' = 0
  /\ UNCHANGED <<procVars, myId, seen, osLock>>

LegacyWrite(l) ==
  /\ Exists
  /\ Goto(l, "lwrite", "lheld")
  /\ owner' = [pid |-> l, birth |-> birth[l], stamped |-> FALSE, lockId |-> NoId]
  /\ age' = 0
  /\ UNCHANGED <<procVars, myId, seen, osLock, dir>>

LegacyRemoveOwner(l) ==
  /\ Goto(l, "lheld", "lrmdir")
  /\ owner' = NoOwner
  /\ age' = 0
  /\ UNCHANGED <<procVars, myId, seen, osLock, dir>>

LegacyRemoveDir(l) ==
  /\ Goto(l, "lrmdir", "idle")
  /\ dir' = NoDir
  /\ owner' = NoOwner
  /\ age' = 0
  /\ UNCHANGED <<procVars, myId, seen, osLock>>

LegacyStep(l) ==
  LegacyMkdir(l) \/ LegacyWrite(l) \/ LegacyRemoveOwner(l) \/ LegacyRemoveDir(l)

-----------------------------------------------------------------------------
(* Processes die and their pids are used again; time passes.               *)

(* The kernel drops the OS lock; directory and owner.json stay.            *)
Crash(p) ==
  /\ alive[p]
  /\ birth[p] < MaxBirth
  /\ alive' = [alive EXCEPT ![p] = FALSE]
  /\ pc' = [pc EXCEPT ![p] = "idle"]
  /\ myId' = IF p \in Current THEN [myId EXCEPT ![p] = NoId] ELSE myId
  /\ seen' = IF p \in Current THEN [seen EXCEPT ![p] = NothingSeen] ELSE seen
  /\ osLock' = IF osLock = p THEN Nobody ELSE osLock
  /\ UNCHANGED <<birth, dirVars>>

Restart(p) ==
  /\ ~ alive[p]
  /\ alive' = [alive EXCEPT ![p] = TRUE]
  /\ birth' = [birth EXCEPT ![p] = @ + 1]
  /\ UNCHANGED <<pc, myId, seen, osLock, dirVars>>

(* LOCK_INTERRUPTED_GRACE_SECS rests on a minute not passing between two   *)
(* calls of a running process that are milliseconds apart: an older        *)
(* launcher's mkdir and owner.json, the two halves of its rmtree, and a    *)
(* look's reading of owner.json and of the directory's age.                *)
GraceCovers ==
  /\ \A l \in Legacy : pc[l] \in {"lwrite", "lrmdir"} => owner # NoOwner
  /\ \A p \in Current : pc[p] # "stat"

AgeAnyTime ==  \* mutant: a launcher may stall for a minute between the two
  /\ Exists
  /\ age < 2
  /\ age' = age + 1
  /\ UNCHANGED <<procVars, pc, myId, seen, osLock, dir, owner>>

Age ==
  /\ Exists
  /\ age < 2
  /\ GraceCovers
  /\ age' = age + 1
  /\ UNCHANGED <<procVars, pc, myId, seen, osLock, dir, owner>>

Next ==
  \/ \E p \in Current : TryOsLock(p) \/ CurrentStep(p)
  \/ \E l \in Legacy : LegacyStep(l)
  \/ \E p \in Pids : Crash(p) \/ Restart(p)
  \/ Age

Spec == Init /\ [][Next]_vars

(* A process in the middle of the protocol goes on; syncs keep being       *)
(* attempted; a rename does not fail for ever; time passes; a launcher     *)
(* that died is started again.                                             *)
Fairness ==
  /\ \A p \in Current : SF_vars(TryOsLock(p)) /\ WF_vars(CurrentStep(p))
  /\ \A p \in Current : SF_vars(Isolate(p))
  /\ \A p \in Pids : WF_vars(Restart(p))
  /\ \A l \in Legacy : WF_vars(LegacyWrite(l) \/ LegacyRemoveOwner(l) \/ LegacyRemoveDir(l))
  /\ SF_vars(Age)

FairSpec == Spec /\ Fairness

-----------------------------------------------------------------------------
(* Properties.                                                             *)

OwnerRec ==
  [pid : Pids \cup {Nobody}, birth : Nat, stamped : BOOLEAN, lockId : Ids \cup {NoId}]
LookRec == [owner : OwnerRec, age : 0..2]

(* Every variable has its type; a process is only in steps of its own      *)
(* protocol.                                                               *)
TypeOK ==
  /\ alive \in [Pids -> BOOLEAN]
  /\ birth \in [Pids -> Nat]
  /\ pc \in [Pids -> CurrentSteps \cup LegacySteps]
  /\ \A p \in Current : pc[p] \in CurrentSteps
  /\ \A l \in Legacy : pc[l] \in LegacySteps
  /\ myId \in [Current -> Ids \cup {NoId}]
  /\ seen \in [Current -> LookRec]
  /\ osLock \in Current \cup {Nobody}
  /\ dir \in [pid : Pids, birth : Nat] \cup {NoDir}
  /\ owner \in OwnerRec
  /\ age \in 0..2

(* A guard that was handed out still owns the directory when it is         *)
(* released: nobody replaced its owner.json or took the directory away, so *)
(* "provider-sync lock ownership changed before release" does not happen.  *)
HolderOwnsDir ==
  \A p \in Current :
    pc[p] = "held" => dir = Me(p) /\ owner.lockId = myId[p] /\ osLock = p

Inside == {p \in Pids : pc[p] \in {"held", "lheld"}}

Section == INSTANCE ExclusiveSection WITH Processes <- Pids, inside <- Inside

(* Old and new launchers together never have two processes rewriting the   *)
(* history: the lock implements the exclusive section.                     *)
Exclusive == Section!Spec

WorkSteps ==
  {"write", "held", "release", "remove", "drop", "dropRemove", "rmdir",
   "lwrite", "lheld", "lrmdir"}

(* The process that made the directory is running and has not finished     *)
(* with it.                                                                *)
InUse ==
  /\ alive[dir.pid]
  /\ birth[dir.pid] = dir.birth
  /\ pc[dir.pid] \in WorkSteps

(* A directory leaves the path only when the process that made it is gone  *)
(* or has given it up, or when that process itself removes it: nobody      *)
(* takes the lock of a process that is still writing (isolate_stale_lock,  *)
(* release_owned_lock).                                                    *)
OnlyOwnOrOrphanLeaves ==
  [][Exists /\ dir' # dir =>
       \/ ~ InUse
       \/ pc[dir.pid] \in {"write", "rmdir", "lrmdir"} /\ pc'[dir.pid] # pc[dir.pid]]_vars

Orphaned == Exists /\ ~ InUse

(* What a killed process of the current protocol leaves behind, whether it *)
(* had written owner.json or not, does not block provider sync for ever.   *)
OrphanRecovered ==
  (Orphaned /\ (owner = NoOwner \/ owner.lockId # NoId)) ~> ~ Orphaned

-----------------------------------------------------------------------------
(* The inductive invariant behind the safety properties.                   *)

Working == {p \in Pids : pc[p] \in WorkSteps}

(* Only the holder of the OS lock is anywhere in the current protocol, and *)
(* only a running process is in the middle of anything.                    *)
OsLockInv ==
  /\ \A p \in Current : pc[p] # "idle" <=> osLock = p
  /\ \A p \in Pids : pc[p] # "idle" => alive[p]

(* owner.json, where there is one, names the maker of the directory; a     *)
(* lockId is written by the current protocol only.                         *)
OwnerInv ==
  /\ ~ Exists => owner = NoOwner
  /\ owner # NoOwner => owner.pid = dir.pid /\ owner.birth = dir.birth
  /\ owner.lockId # NoId => owner.pid \in Current

(* The directory at the path belongs to every process that works in it,    *)
(* with the owner.json its step implies.                                   *)
WorkInv ==
  /\ \A p \in Working : dir = Me(p)
  /\ \A p \in Pids : pc[p] \in {"write", "rmdir", "lwrite", "lrmdir"} => owner = NoOwner
  /\ \A p \in Current : pc[p] \in {"held", "release", "remove", "drop", "dropRemove"} =>
       owner.pid = p /\ owner.lockId = myId[p]
  /\ \A l \in Legacy : pc[l] = "lheld" => owner.pid = l
  /\ \A l \in Legacy : pc[l] \in {"lwrite", "lrmdir"} => age = 0

(* What a look has read is still the case where it matters: whoever works  *)
(* in the directory is the owner that was read, and where none was read    *)
(* the directory is fresh.                                                 *)
LookInv ==
  \A p \in Current :
    /\ pc[p] \in {"stat", "ask"} /\ seen[p].owner # NoOwner =>
         \A q \in Working : seen[p].owner.pid = q /\ seen[p].owner.birth = birth[q]
    /\ pc[p] = "stat" /\ seen[p].owner = NoOwner /\ Working # {} => age = 0
    /\ pc[p] = "ask" => seen[p].owner # NoOwner

(* The verdict isolate_stale_lock acts on stays true until the rename.     *)
RenameInv ==
  \A p \in Current : pc[p] = "rename" => Working = {}

LockInv == TypeOK /\ OsLockInv /\ OwnerInv /\ WorkInv /\ LookInv /\ RenameInv
=============================================================================
