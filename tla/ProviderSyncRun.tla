-------------------------- MODULE ProviderSyncRun --------------------------
(***************************************************************************)
(* The run of a provider sync (crates/codex-plus-data/src/                 *)
(* provider_sync.rs), between the taking of the lifecycle lock and its     *)
(* release, and the two repairs of a single thread for remote control.     *)
(*                                                                         *)
(* A run rewrites the provider in the session_meta lines of the rollout    *)
(* files, then in the rows of each database, then repairs the local        *)
(* catalogs and normalizes the global state file.  ProviderSyncLock shows  *)
(* that one run at a time does so; Codex does not take that lock and may   *)
(* write everything meanwhile; only on Windows the open rollout file keeps *)
(* it out.  Calls fail and the process may die anywhere.                   *)
(***************************************************************************)
EXTENDS ThreadEvidence, FiniteSets

CONSTANTS
  Files,            \* the threads with a rollout file, in the order of the files
  Catalogs,         \* the databases with a local catalog
  Histories,        \* the histories a behaviour may start from
  BACKUP_KEEP_COUNT,
  MaxRuns,          \* bound: runs begun
  MaxTrouble        \* bound: failures, deaths and writes of Codex in total

ASSUME FilesAssumption == Files \in Seq(Range(Files)) /\ Catalogs \subseteq Dbs
ASSUME BoundsAssumption ==
  BACKUP_KEEP_COUNT \in Nat \ {0} /\ MaxRuns \in Nat /\ MaxTrouble \in Nat

Threads == Range(Files)
Providers == {"target", "openai", "other"}

(* What a history is made of: files and tables keyed by the thread.        *)
Texts == [meta : SUBSET Providers, agent : BOOLEAN, event : BOOLEAN, body : Nat]
ThreadRecs ==
  [provider : Providers, mark : Marks, archived : BOOLEAN, event : BOOLEAN, filed : BOOLEAN, at : Nat]
CatalogRecs == [provider : Providers, mark : Marks]
IsTable(f, Recs) == DOMAIN f \subseteq Threads /\ f \in [DOMAIN f -> Recs]
IsDb(b, d) ==
  /\ b \in [threads : {b.threads}, catalog : {b.catalog}, edges : SUBSET Threads, jobs : SUBSET Threads]
  /\ IsTable(b.threads, ThreadRecs) /\ IsTable(b.catalog, CatalogRecs)
  /\ d \notin Catalogs => b.catalog = <<>>
IsHistory(f, b) ==
  /\ IsTable(f, Texts) /\ \A t \in DOMAIN f : f[t].agent => f[t].meta # {}
  /\ b \in [Dbs -> Range(b)] /\ \A d \in Dbs : IsDb(b[d], d)
GlobalTexts == {"raw", "normal", "cut"}

ASSUME HistoriesAssumption ==
  \A h \in Histories : IsHistory(h.file, h.db) /\ h.global \in GlobalTexts

VARIABLES
  file,      \* rollout files
  db,        \* databases
  global,    \* .codex-global-state.json and its .bak
  backups,   \* backup directories: name, whether complete, original meta lines
  app,       \* whether Codex runs
  job,       \* the run's variables, lost when the process dies
  answer,    \* what the last run returned
  runs,      \* runs begun, which also names the backups
  trouble,   \* failures, deaths and foreign writes so far
  written,   \* history: records Codex has appended to each file
  hit,       \* history: files cut by a death or failure, or appended to
             \*          between the comparison and the end of their rewrite
  start,     \* history: what the run found
  settled    \* history: a sync succeeded and nothing was written since

disk == <<file, db, global, backups>>
history == <<written, hit, start, settled>>
vars == <<disk, app, job, answer, runs, trouble, history>>

Empty == [meta |-> {}, agent |-> FALSE, event |-> FALSE, body |-> 0]
Snapshot == [file |-> file, db |-> db, global |-> global, written |-> written]

(* step: where the run is; todo and paths: files and databases to come;    *)
(* changes: old and new text of the collected files; undo: whether todo is *)
(* being restored; quiet: Codex has written nothing since the run began.   *)
Idle ==
  [kind |-> "none", step |-> "idle", who |-> {}, excluded |-> {}, events |-> {},
   changes |-> <<>>, todo |-> {}, applied |-> {}, skipped |-> {}, undo |-> FALSE,
   paths |-> <<>>, plan |-> <<>>, backup |-> 0, quiet |-> TRUE]

Init ==
  /\ \E h \in Histories : file = h.file /\ db = h.db /\ global = [main |-> h.global, bak |-> "raw"]
  /\ backups = {}
  /\ app = FALSE
  /\ job = Idle
  /\ answer = "none"
  /\ runs = 0 /\ trouble = 0
  /\ written = [t \in DOMAIN file |-> file[t].body]
  /\ hit = {}
  /\ start = Snapshot
  /\ settled = FALSE

At(step) == job.step = step
Goto(step) == job' = [job EXCEPT !.step = step]
Trouble == trouble < MaxTrouble /\ trouble' = trouble + 1

(* The closure of the run returns: answer and release of the lock.  A sync *)
(* has settled the history when it read every file, nothing else wrote,    *)
(* and no row it deleted was its only evidence of an agent.                *)
Return(result) ==
  /\ job' = Idle
  /\ answer' = result
  /\ settled' = (/\ result \in {"synced", "up to date"} /\ job.kind = "sync"
                  /\ job.quiet /\ job.skipped = {}
                  /\ Subagents(db) = Subagents(start.db))
  /\ UNCHANGED <<written, hit, start>>

-----------------------------------------------------------------------------
(* What a run reads.                                                       *)

Begin(kind, who, step) ==
  /\ job = Idle /\ runs < MaxRuns
  /\ runs' = runs + 1
  /\ job' = [Idle EXCEPT !.kind = kind, !.who = who, !.step = step]
  /\ answer' = "none"
  /\ start' = Snapshot
  /\ UNCHANGED <<disk, app, trouble, written, hit, settled>>

(* The App must be stopped when the run begins; nothing keeps it so.       *)
BeginSync == ~ app /\ Begin("sync", Threads, "kinds")
BeginFinalize == \E t \in Threads : Begin("finalize", {t}, "lookup")
BeginRecovery == \E t \in Threads : Begin("recovery", {t}, "known")

ReadKinds ==
  /\ At("kinds")
  /\ job' = [job EXCEPT !.step = "collect", !.excluded = Subagents(db)]
  /\ UNCHANGED <<disk, app, answer, runs, trouble, history>>

(* rewrite_rollout_session_meta_providers; for one thread only the lines   *)
(* of the default provider change.                                         *)
Rewritten(text) ==
  [text EXCEPT !.meta = IF job.kind = "sync" THEN {"target"}
                        ELSE {IF p = "openai" THEN "target" ELSE p : p \in @}]

RewriteNeeded(ids) == {t \in ids : Rewritten(file[t]) # file[t]}

CollectReads(ids, agents, included) ==
  job' = [job EXCEPT
    !.step = "count",
    !.excluded = @ \cup agents,
    !.skipped = DOMAIN file \ ids,
    !.changes = [t \in included |-> [old |-> file[t], new |-> Rewritten(file[t])]],
    !.events = {t \in included : file[t].event},
    !.todo = RewriteNeeded(included)]

CollectExplicitFirst ==  \* mutant: the user marker outweighs what the file says
  /\ At("collect")
  /\ LET ids == {t \in DOMAIN file : file[t].meta # {}}
         agents == {t \in ids : file[t].agent /\ t \notin ExplicitUsers(db)}
     IN  CollectReads(DOMAIN file, agents, ids \ (agents \cup job.excluded))
  /\ UNCHANGED <<disk, app, answer, runs, trouble, history>>

(* collect_session_changes.  A file without session_meta lines is passed   *)
(* over; what the file says of an agent also excludes the thread's rows.   *)
Collect ==
  /\ At("collect")
  /\ LET ids    == {t \in DOMAIN file : file[t].meta # {}}
         agents == {t \in ids : file[t].agent}
     IN  CollectReads(DOMAIN file, agents, ids \ (agents \cup job.excluded))
  /\ UNCHANGED <<disk, app, answer, runs, trouble, history>>

(* A file another program holds open is left out of the run.               *)
CollectLocked ==
  /\ At("collect") /\ Trouble
  /\ \E t \in DOMAIN file :
       LET ids    == {u \in DOMAIN file \ {t} : file[u].meta # {}}
           agents == {u \in ids : file[u].agent}
       IN  CollectReads(DOMAIN file \ {t}, agents, ids \ (agents \cup job.excluded))
  /\ UNCHANGED <<disk, app, answer, runs, history>>

-----------------------------------------------------------------------------
(* What it would write: the same operators serve the count and the write.  *)

AtTarget(rows) ==
  [t \in DOMAIN rows |->
     IF t \in job.excluded THEN rows[t] ELSE [rows[t] EXCEPT !.provider = "target"]]

WithEvents(rows) ==
  [t \in DOMAIN rows |->
     IF t \in job.events \ job.excluded THEN [rows[t] EXCEPT !.event = TRUE] ELSE rows[t]]

(* apply_sqlite_update                                                     *)
Updated(d) ==
  [db[d] EXCEPT !.threads = WithEvents(AtTarget(@)), !.catalog = AtTarget(@)]

RepairedNoDelete(d, plan) ==  \* mutant: the rows to remove are counted and kept
  LET kept == DOMAIN db[d].catalog
      new  == DOMAIN plan.insert \ kept
  IN  IF d \notin Catalogs THEN db[d]
      ELSE [db[d] EXCEPT !.catalog =
             [t \in kept \cup new |->
                IF t \in kept THEN db[d].catalog[t]
                ELSE [provider |-> "target", mark |-> plan.insert[t]]]]

RepairedDeleteLast(d, plan) ==  \* mutant: the rows are inserted first and then removed
  LET all == DOMAIN db[d].catalog \cup DOMAIN plan.insert
  IN  IF d \notin Catalogs THEN db[d]
      ELSE [db[d] EXCEPT !.catalog =
             [t \in all \ (IF job.kind = "sync" THEN plan.remove[d] ELSE {}) |->
                IF t \in DOMAIN db[d].catalog THEN db[d].catalog[t]
                ELSE [provider |-> "target", mark |-> plan.insert[t]]]]

(* The transaction of repair_missing_local_thread_catalog_rows_filtered:   *)
(* only a full sync deletes; an existing row is not replaced.              *)
Repaired(d, plan) ==
  LET kept == DOMAIN db[d].catalog \ (IF job.kind = "sync" THEN plan.remove[d] ELSE {})
      new  == DOMAIN plan.insert \ kept
  IN  IF d \notin Catalogs THEN db[d]
      ELSE [db[d] EXCEPT !.catalog =
             [t \in kept \cup new |->
                IF t \in kept THEN db[d].catalog[t]
                ELSE [provider |-> "target", mark |-> plan.insert[t]]]]

NothingToDo ==
  LET plan == CatalogPlan(db, file, job.who)
  IN  /\ job.todo = {}
      /\ \A d \in Dbs : Updated(d) = db[d]
      /\ \A d \in Catalogs : /\ DOMAIN plan.insert \subseteq DOMAIN db[d].catalog
                             /\ plan.remove[d] \cap DOMAIN db[d].catalog = {}
      /\ global.main = "normal"

(* A global state file that cannot be parsed ends every run here.          *)
CountFails ==
  /\ At("count") /\ global.main = "cut"
  /\ Return("failed")
  /\ UNCHANGED <<disk, app, runs, trouble>>

UpToDate ==
  /\ At("count") /\ global.main # "cut"
  /\ NothingToDo
  /\ Return("up to date")
  /\ UNCHANGED <<disk, app, runs, trouble>>

Count ==
  /\ At("count") /\ global.main # "cut"
  /\ ~ NothingToDo
  /\ Goto("backup")
  /\ UNCHANGED <<disk, app, answer, runs, trouble, history>>

-----------------------------------------------------------------------------
(* create_backup: the marker that makes it complete is written last.       *)

MakeBackup ==
  /\ At("backup")
  /\ backups' = backups \cup {[name |-> runs, complete |-> FALSE, meta |-> <<>>]}
  /\ job' = [job EXCEPT !.step = "marker", !.backup = runs]
  /\ UNCHANGED <<file, db, global, app, answer, runs, trouble, history>>

MarkBackup ==
  /\ At("marker")
  /\ backups' = {b \in backups : b.name # job.backup}
       \cup {[name |-> job.backup, complete |-> TRUE,
              meta |-> [t \in job.todo |-> job.changes[t].old.meta]]}
  /\ Goto("open")
  /\ UNCHANGED <<file, db, global, app, answer, runs, trouble, history>>

BackupFails ==
  /\ job.step \in {"backup", "marker"} /\ Trouble
  /\ Return("failed")
  /\ UNCHANGED <<disk, app, runs>>

-----------------------------------------------------------------------------
(* replace_session_text_if_unchanged, by apply_session_changes and by      *)
(* restore_session_changes: compare, empty the file, write it, read it.    *)

First(threads) ==
  Files[CHOOSE i \in DOMAIN Files : /\ Files[i] \in threads
                                   /\ \A j \in DOMAIN Files : Files[j] \in threads => i <= j]
This == First(job.todo)
Old(t) == IF job.undo THEN job.changes[t].new ELSE job.changes[t].old
New(t) == IF job.undo THEN job.changes[t].old ELSE job.changes[t].new
Opened == At("open") /\ job.todo # {}
Held(t) == job.step \in {"truncate", "write"} /\ t = This

OpenUncompared ==  \* mutant: the text is not compared before it is replaced
  /\ Opened
  /\ Goto("truncate")
  /\ UNCHANGED <<disk, app, answer, runs, trouble, history>>

Open ==
  /\ Opened /\ file[This] = Old(This)
  /\ Goto("truncate")
  /\ UNCHANGED <<disk, app, answer, runs, trouble, history>>

OpenChangedStops ==  \* mutant: a restore ends at the first file that has changed
  /\ Opened /\ file[This] # Old(This)
  /\ job' = [job EXCEPT !.todo = IF job.undo THEN {} ELSE @ \ {This},
                        !.skipped = IF job.undo THEN @ ELSE @ \cup {This}]
  /\ UNCHANGED <<disk, app, answer, runs, trouble, history>>

(* Changed since it was read: applying reports it as skipped, restoring    *)
(* leaves it as it is.                                                     *)
OpenChanged ==
  /\ Opened /\ file[This] # Old(This)
  /\ job' = [job EXCEPT !.todo = @ \ {This}, !.skipped = IF job.undo THEN @ ELSE @ \cup {This}]
  /\ UNCHANGED <<disk, app, answer, runs, trouble, history>>

OpenLocked ==
  /\ Opened /\ ~ job.undo /\ Trouble
  /\ job' = [job EXCEPT !.todo = @ \ {This}, !.skipped = @ \cup {This}]
  /\ UNCHANGED <<disk, app, answer, runs, history>>

Truncate ==
  /\ At("truncate")
  /\ file' = [file EXCEPT ![This] = Empty]
  /\ Goto("write")
  /\ UNCHANGED <<db, global, backups, app, answer, runs, trouble, history>>

(* What was appended to the emptied file lies under the new text.          *)
Write ==
  /\ At("write")
  /\ file' = [file EXCEPT ![This] = New(This)]
  /\ Goto("verify")
  /\ UNCHANGED <<db, global, backups, app, answer, runs, trouble, history>>

Verify ==
  /\ At("verify") /\ file[This] = New(This)
  /\ job' = [job EXCEPT !.step = "open", !.todo = @ \ {This},
                        !.applied = IF job.undo THEN @ ELSE @ \cup {This}]
  /\ UNCHANGED <<disk, app, answer, runs, trouble, history>>

(* The error of one file leaves apply_session_changes, and the run, with   *)
(* the files before it rewritten; the error of a restore ends the restore. *)
VerifyFails ==
  /\ At("verify") /\ file[This] # New(This)
  /\ Return("failed")
  /\ UNCHANGED <<disk, app, runs, trouble>>

OpenFails ==
  /\ Opened /\ Trouble
  /\ Return("failed")
  /\ UNCHANGED <<disk, app, runs>>

WriteFails ==
  /\ At("write") /\ Trouble
  /\ job' = Idle /\ answer' = "failed" /\ settled' = FALSE
  /\ hit' = hit \cup {This}
  /\ UNCHANGED <<disk, app, runs, written, start>>

Restored ==
  /\ At("open") /\ job.todo = {} /\ job.undo
  /\ Return("failed")
  /\ UNCHANGED <<disk, app, runs, trouble>>

-----------------------------------------------------------------------------
(* The databases, one transaction each, and the global state file.         *)

Path == Head(job.paths)
NextPath == job' = [job EXCEPT !.paths = Tail(@)]
Enter(step) == job' = [job EXCEPT !.step = step, !.paths = Paths]

PhaseDone ==
  /\ \/ At("open") /\ job.todo = {} /\ ~ job.undo
        /\ Enter(IF job.kind = "sync" THEN "update" ELSE "match")
     \/ At("update") /\ job.paths = <<>> /\ Enter("plan")
     \/ At("repair") /\ job.paths = <<>>
        /\ Enter(IF job.kind = "sync" THEN "global" ELSE "rows")
     \/ At("rows") /\ job.paths = <<>> /\ job.kind = "finalize" /\ Enter("prune")
  /\ UNCHANGED <<disk, app, answer, runs, trouble, history>>

UpdateDb ==
  /\ At("update") /\ job.paths # <<>>
  /\ db' = [db EXCEPT ![Path] = Updated(Path)]
  /\ NextPath
  /\ UNCHANGED <<file, global, backups, app, answer, runs, trouble, history>>

(* The plan is made from all databases before the first is repaired.       *)
Plan ==
  /\ At("plan")
  /\ job' = [job EXCEPT !.step = "repair", !.plan = CatalogPlan(db, file, job.who)]
  /\ UNCHANGED <<disk, app, answer, runs, trouble, history>>

RepairDb ==
  /\ At("repair") /\ job.paths # <<>>
  /\ db' = [db EXCEPT ![Path] = Repaired(Path, job.plan)]
  /\ NextPath
  /\ UNCHANGED <<file, global, backups, app, answer, runs, trouble, history>>

(* apply_remote_control_recovery_sqlite_updates moves the rows of the      *)
(* default provider, apply_remote_control_catalog_updates any catalog row. *)
Moved(rows, from) ==
  [t \in DOMAIN rows |-> IF t \in job.who /\ rows[t].provider \in from
                         THEN [rows[t] EXCEPT !.provider = "target"] ELSE rows[t]]

MovedDb(d) ==
  IF job.kind = "finalize"
  THEN [db[d] EXCEPT !.threads = Moved(@, {"openai"}), !.catalog = Moved(@, {"openai"})]
  ELSE [db[d] EXCEPT !.catalog = Moved(@, Providers)]

MoveRows ==
  /\ At("rows") /\ job.paths # <<>>
  /\ db' = [db EXCEPT ![Path] = MovedDb(Path)]
  /\ NextPath
  /\ UNCHANGED <<file, global, backups, app, answer, runs, trouble, history>>

(* fs::write of the file and of its copy, each of which empties it first.  *)
NormalizeGlobal ==
  /\ \/ /\ At("global")
        /\ IF global.main = "normal" THEN Goto("prune") /\ UNCHANGED global
           ELSE Goto("text") /\ global' = [global EXCEPT !.main = "cut"]
     \/ At("text") /\ Goto("copy") /\ global' = [global EXCEPT !.main = "normal"]
     \/ At("copy") /\ Goto("copy text") /\ global' = [global EXCEPT !.bak = "cut"]
     \/ At("copy text") /\ Goto("prune") /\ global' = [global EXCEPT !.bak = "normal"]
  /\ UNCHANGED <<file, db, backups, app, answer, runs, trouble, history>>

PruneOldest ==  \* mutant: the sort order is reversed
  /\ At("prune")
  /\ backups' = {b \in backups : b.complete =>
       Cardinality({c \in backups : c.complete /\ c.name < b.name}) < BACKUP_KEEP_COUNT}
  /\ Return("synced")
  /\ UNCHANGED <<file, db, global, app, runs, trouble>>

(* prune_backups keeps the newest complete ones and all incomplete ones.   *)
Prune ==
  /\ At("prune")
  /\ backups' = {b \in backups : b.complete =>
       Cardinality({c \in backups : c.complete /\ c.name > b.name}) < BACKUP_KEEP_COUNT}
  /\ Return("synced")
  /\ UNCHANGED <<file, db, global, app, runs, trouble>>

(* An error after the files were rewritten: a sync restores them, but not  *)
(* the databases that have committed; the repairs of one thread return.    *)
LaterStepFails ==
  /\ job.step \in {"update", "plan", "repair", "rows", "global", "text", "copy",
                   "copy text", "prune"}
  /\ Trouble
  /\ IF job.kind = "sync"
     THEN /\ job' = [job EXCEPT !.step = "open", !.undo = TRUE, !.todo = job.applied]
          /\ UNCHANGED <<answer, history>>
     ELSE Return("failed")
  /\ UNCHANGED <<disk, app, runs>>

-----------------------------------------------------------------------------
(* The repairs of one thread.                                              *)

ThreadRows(t) == {db[d].threads[t] : d \in {d \in Dbs : t \in DOMAIN db[d].threads}}

RolloutReady(t) == t \in DOMAIN file /\ file[t].meta # {}
                     /\ file[t].meta \subseteq {"openai", "target"}
RolloutForeign(t) == t \in DOMAIN file /\ ~ file[t].meta \subseteq {"openai", "target"}

(* remote_control_rollout_for_thread: one row that fits and names its      *)
(* rollout is enough.                                                      *)
Lookup(t) ==
  LET open    == {r \in ThreadRows(t) : ~ r.archived}
      fitting == {r \in open : r.provider \in {"openai", "target"}}
      named   == \E r \in fitting : r.filed
  IN  IF named /\ RolloutReady(t) THEN "ready"
      ELSE IF open # fitting \/ (named /\ RolloutForeign(t)) THEN "ignored"
      ELSE IF ThreadRows(t) # open THEN "ignored" ELSE "deferred"

LookUp ==
  /\ At("lookup")
  /\ \A t \in job.who :
       IF Lookup(t) = "ready"
       THEN /\ job' = [job EXCEPT
                !.step = "backup",
                !.changes = [u \in {t} |-> [old |-> file[t], new |-> Rewritten(file[t])]],
                !.todo = RewriteNeeded({t})]
            /\ UNCHANGED <<answer, history>>
       ELSE Return(Lookup(t))
  /\ UNCHANGED <<disk, app, runs, trouble>>

(* A rollout that is not at the target by now leaves the rest for later.   *)
Match ==
  /\ At("match")
  /\ \A t \in job.who :
       IF t \in DOMAIN file /\ file[t].meta = {"target"}
       THEN Goto("plan") /\ UNCHANGED <<answer, history>>
       ELSE Return("deferred")
  /\ UNCHANGED <<disk, app, runs, trouble>>

(* remote_control_catalog_recovery_thread_ids: a thread no catalog lists   *)
(* with the target provider.                                               *)
Known ==
  /\ At("known")
  /\ \A t \in job.who :
       IF /\ ThreadRows(t) # {} /\ Catalogs # {}
          /\ \A d \in Catalogs : t \in DOMAIN db[d].catalog =>
                                   db[d].catalog[t].provider # "target"
       THEN Enter("plan") /\ UNCHANGED <<answer, history>>
       ELSE Return("up to date")
  /\ UNCHANGED <<disk, app, runs, trouble>>

RecoveryDone ==
  /\ At("rows") /\ job.paths = <<>> /\ job.kind = "recovery"
  /\ Return("synced")
  /\ UNCHANGED <<disk, app, runs, trouble>>

-----------------------------------------------------------------------------
(* Codex, which takes no lock, and the death of the process.               *)

CodexStartsOrStops ==
  /\ app' = ~ app
  /\ UNCHANGED <<disk, job, answer, runs, trouble, history>>

Disturbed == job' = IF job = Idle THEN Idle ELSE [job EXCEPT !.quiet = FALSE]

CodexAppends ==
  /\ app /\ Trouble
  /\ \E t \in DOMAIN file :
       /\ file' = [file EXCEPT ![t].body = @ + 1]
       /\ written' = [written EXCEPT ![t] = @ + 1]
       /\ hit' = IF Held(t) THEN hit \cup {t} ELSE hit
  /\ Disturbed /\ settled' = FALSE
  /\ UNCHANGED <<db, global, backups, app, answer, runs, start>>

CodexArchives ==
  /\ app /\ Trouble
  /\ \E d \in Dbs : \E t \in DOMAIN db[d].threads :
       db' = [db EXCEPT ![d].threads[t] = [@ EXCEPT !.archived = TRUE, !.at = 1]]
  /\ Disturbed /\ settled' = FALSE
  /\ UNCHANGED <<file, global, backups, app, answer, runs, written, hit, start>>

CodexSavesGlobal ==
  /\ app /\ Trouble
  /\ global' = [global EXCEPT !.main = "raw"]
  /\ Disturbed /\ settled' = FALSE
  /\ UNCHANGED <<file, db, backups, app, answer, runs, written, hit, start>>

Crash ==
  /\ job # Idle /\ Trouble
  /\ job' = Idle
  /\ answer' = "none"
  /\ settled' = FALSE
  /\ hit' = IF At("write") THEN hit \cup {This} ELSE hit
  /\ UNCHANGED <<disk, app, runs, written, start>>

Next ==
  \/ BeginSync \/ BeginFinalize \/ BeginRecovery
  \/ ReadKinds \/ Collect \/ CollectLocked
  \/ CountFails \/ UpToDate \/ Count
  \/ MakeBackup \/ MarkBackup \/ BackupFails
  \/ Open \/ OpenChanged \/ OpenLocked \/ OpenFails
  \/ Truncate \/ Write \/ WriteFails \/ Verify \/ VerifyFails \/ Restored
  \/ PhaseDone \/ UpdateDb \/ Plan \/ RepairDb \/ MoveRows
  \/ NormalizeGlobal \/ Prune \/ LaterStepFails
  \/ LookUp \/ Match \/ Known \/ RecoveryDone
  \/ CodexStartsOrStops \/ CodexAppends \/ CodexArchives \/ CodexSavesGlobal
  \/ Crash

Spec == Init /\ [][Next]_vars

-----------------------------------------------------------------------------

(* Where each kind of run may be.                                          *)
RewriteSteps == {"open", "truncate", "write", "verify"}
GlobalSteps == {"global", "text", "copy", "copy text"}
SyncSteps == {"kinds", "collect", "count", "backup", "marker", "update", "plan", "repair", "prune"}
               \cup RewriteSteps \cup GlobalSteps
RepairSteps(kind) ==
  IF kind = "recovery" THEN {"known", "plan", "repair", "rows"}
  ELSE {"lookup", "backup", "marker", "match", "plan", "repair", "rows", "prune"} \cup RewriteSteps
Steps == {"idle"} \cup SyncSteps \cup RepairSteps("finalize") \cup RepairSteps("recovery")

(* The types.                                                              *)
IsPlan(plan) ==
  /\ plan \in [insert : {plan.insert}, remove : [Dbs -> SUBSET Threads]]
  /\ IsTable(plan.insert, Marks)
TypeOK ==
  /\ IsHistory(file, db) /\ IsHistory(start.file, start.db) /\ DOMAIN start.file = DOMAIN file
  /\ written \in [DOMAIN file -> Nat] /\ start.written \in [DOMAIN file -> Nat]
  /\ \A t \in DOMAIN file : file[t].body <= written[t] /\ start.written[t] <= written[t]
  /\ global \in [main : GlobalTexts, bak : GlobalTexts]
  /\ \A b \in backups : /\ b \in [name : 1..runs, complete : BOOLEAN, meta : {b.meta}]
                        /\ IsTable(b.meta, SUBSET Providers)
  /\ job \in [kind : {"none", "sync", "finalize", "recovery"}, step : Steps, who : SUBSET Threads,
              excluded : SUBSET Threads, events : SUBSET Threads, changes : {job.changes},
              todo : SUBSET Threads, applied : SUBSET Threads, skipped : SUBSET Threads,
              undo : BOOLEAN, paths : Seq(Dbs), plan : {job.plan}, backup : Nat, quiet : BOOLEAN]
  /\ IsTable(job.changes, [old : Texts, new : Texts])
  /\ At("repair") => IsPlan(job.plan)
  /\ app \in BOOLEAN /\ settled \in BOOLEAN /\ hit \subseteq DOMAIN file
  /\ answer \in {"none", "synced", "up to date", "ignored", "deferred", "failed"}
  /\ runs \in 0..MaxRuns /\ trouble \in 0..MaxTrouble

(* What a run has in hand where it is.                                     *)
Rewriting == job.step \in {"truncate", "write", "verify"}
Phases ==
  /\ job.kind = "none" => job = Idle
  /\ job.kind = "sync" => job.step \in SyncSteps /\ job.who = Threads
  /\ job.kind \in {"finalize", "recovery"} =>
       job.step \in RepairSteps(job.kind) /\ \E t \in Threads : job.who = {t}
  /\ job # Idle => answer = "none"
  /\ job.undo => job.kind = "sync" /\ job.step \in RewriteSteps
  /\ Rewriting => job.todo # {}
  /\ job.step \notin {"count", "backup", "marker"} \cup RewriteSteps => job.todo = {}
  /\ job.step \in {"kinds", "collect", "lookup", "known"} => job.changes = <<>>
  /\ job.step \in {"count", "backup", "marker"} => job.applied = {}
  /\ job.undo => job.todo \subseteq job.applied
  /\ ~ job.undo => job.todo \cap job.applied = {}
  /\ job.todo \cup job.applied \subseteq DOMAIN job.changes
  /\ job.step \in {"match", "plan"} => job.paths = Paths
  /\ \A i, j \in DOMAIN job.paths : job.paths[i] = job.paths[j] => i = j

(* A step of the run, not of Codex.                                        *)
OwnStep == trouble' = trouble

(* A rollout file loses records only when the process dies or the write    *)
(* fails while the file is empty, or when Codex appends after the          *)
(* comparison: whatever it appended before is found by the comparison, and *)
(* no other file is at stake at that moment.                               *)
RecordsKept ==
  \A t \in DOMAIN file :
    file[t].body < written[t] => t \in hit \/ Held(t)

(* What the run has in hand of the files: a new text differs from the old  *)
(* one in its meta lines only, and that of the file being rewritten has    *)
(* all its records.                                                        *)
TextsInHand ==
  /\ \A t \in DOMAIN job.changes :
       /\ t \in DOMAIN file /\ job.changes[t].old.body <= written[t]
       /\ job.changes[t].old.meta # {}
       /\ job.changes[t].new = Rewritten(job.changes[t].old)
       /\ t \in job.todo \cup job.applied => job.changes[t].new # job.changes[t].old
  /\ job.step \in {"truncate", "write"} /\ This \notin hit => Old(This).body = written[This]
  /\ At("truncate") /\ This \notin hit => file[This].body = written[This]

(* The old meta lines of what is rewritten are in the backup of the run,   *)
(* which is the newest.                                                    *)
BackupInv ==
  /\ job # Idle => runs > 0
  /\ At("marker") => job.backup = runs
  /\ job.kind # "recovery" /\ job.step \in {"update", "match", "plan", "repair", "rows", "prune"}
                                            \cup RewriteSteps \cup GlobalSteps =>
       \E b \in backups :
         /\ b.complete /\ b.name = runs
         /\ \A t \in job.todo \cup job.applied :
              t \in DOMAIN b.meta /\ b.meta[t] = job.changes[t].old.meta

(* Threads of agents keep their provider, in the file and in their rows.   *)
(* The evidence is what the run found: it deletes catalog rows that are    *)
(* evidence.  The file is evidence unless it was locked: then the rows of  *)
(* a thread that only its file calls an agent's move like a user's.        *)
AgentEvidence(t) ==
  \/ t \in Subagents(start.db)
  \/ t \in DOMAIN file \ job.skipped /\ file[t].agent

(* What a sync leaves alone is what the evidence says, from the moment it  *)
(* has read everything, and it accounts for every file.                    *)
Collected == job.kind = "sync" /\ job.step \notin {"kinds", "collect"}
Reading == job.kind = "sync" /\ job.step \in {"kinds", "collect", "count"}
EvidenceInv ==
  /\ Reading => Subagents(db) = Subagents(start.db)
  /\ job.kind = "sync" /\ At("collect") => job.excluded = Subagents(start.db)
  /\ Collected =>
       /\ \A t \in Threads : t \in job.excluded <=> AgentEvidence(t)
       /\ \A t \in DOMAIN job.changes : t \notin job.excluded /\ ~ job.changes[t].old.agent
       /\ job.events \subseteq DOMAIN job.changes
       /\ \A t \in DOMAIN file \ (job.excluded \cup job.skipped \cup DOMAIN job.changes) :
            file[t].meta = {}
       /\ \A t \in DOMAIN job.changes :
            /\ t \in job.skipped \/ t \in job.todo \cup job.applied
                 \/ job.changes[t].new = job.changes[t].old
            /\ t \in job.events <=> job.changes[t].old.event

(* The text of a file that nobody else wrote during the sync.              *)
Steady(t) == job.quiet \/ (written[t] = start.written[t] /\ t \notin hit)
Expected(t) ==
  IF At("write") /\ t = This THEN Empty
  ELSE IF At("verify") /\ t = This THEN New(t)
  ELSE IF t \in job.applied /\ (job.undo => t \in job.todo) THEN job.changes[t].new
  ELSE start.file[t]
FilesInv ==
  job.kind = "sync" =>
    \A t \in DOMAIN file : Steady(t) =>
      /\ file[t] = Expected(t)
      /\ t \in DOMAIN job.changes => job.changes[t].old = start.file[t]

(* What the databases look like behind the updating: rows of users' are at *)
(* the target and the events of their files are known.                     *)
RowsAtTarget(d, excluded, events) ==
  /\ \A t \in DOMAIN db[d].threads \ excluded :
       db[d].threads[t].provider = "target" /\ (t \in events => db[d].threads[t].event)
  /\ \A t \in DOMAIN db[d].catalog \ excluded : db[d].catalog[t].provider = "target"
RowsInv ==
  job.kind = "sync" /\ job.step \in {"update", "plan", "repair", "prune"} \cup GlobalSteps =>
    \A d \in Dbs : (At("update") /\ d \in Range(job.paths)) \/ RowsAtTarget(d, job.excluded, job.events)

(* The plan a sync made stays the plan it would make now, for every        *)
(* catalog it has not repaired; for the others there is nothing to do.     *)
ListedWell(d, plan) ==
  DOMAIN plan.insert \subseteq DOMAIN db[d].catalog /\ plan.remove[d] \cap DOMAIN db[d].catalog = {}
PlanInv ==
  LET now == CatalogPlan(db, file, Threads)
  IN  job.kind = "sync" /\ job.quiet /\ job.step \in {"repair", "prune"} \cup GlobalSteps =>
        /\ \A d \in Catalogs :
             \/ At("repair") /\ d \in Range(job.paths) /\ job.plan.remove[d] = now.remove[d]
             \/ (At("repair") => d \notin Range(job.paths)) /\ ListedWell(d, now)
        /\ At("repair") => job.plan.insert = now.insert
        /\ job.step \in {"copy", "copy text", "prune"} => global.main = "normal"

(* A settled history is one that a sync would not change.                  *)
SettledInv ==
  settled /\ (job = Idle \/ Reading) =>
    LET excluded == Subagents(db) \cup {t \in DOMAIN file : file[t].agent}
    IN  /\ job.quiet
        /\ \A t \in DOMAIN file \ excluded : file[t].meta \in {{}, {"target"}}
        /\ \A d \in Dbs :
             RowsAtTarget(d, excluded, {t \in DOMAIN file : file[t].meta # {} /\ file[t].event})
        /\ \A d \in Catalogs : ListedWell(d, CatalogPlan(db, file, Threads))
        /\ global.main = "normal"

(* The home a run works on and leaves behind.                              *)
HomeInv ==
  /\ TypeOK /\ Phases
  /\ RecordsKept /\ TextsInHand
  /\ BackupInv
  /\ EvidenceInv /\ FilesInv
  /\ RowsInv /\ PlanInv /\ SettledInv

(* Before the lines of a file change, their old form is in a complete      *)
(* backup, and it is still there when the run ends well.                   *)
RewritesBackedUp ==
  [][/\ OwnStep /\ ~ job.undo
     /\ At("truncate") \/ (job.kind # "recovery" /\ job # Idle /\ answer' = "synced")
     => \A t \in job.applied \cup (IF At("truncate") THEN {This} ELSE {}) :
          \E b \in backups' : /\ b.complete /\ t \in DOMAIN b.meta
                              /\ b.meta[t] = job.changes[t].old.meta]_vars

(* Threads of agents keep their provider, in the file and in their rows.   *)
AgentsUntouched ==
  [][OwnStep /\ job.kind = "sync" =>
       \A t \in Threads : AgentEvidence(t) =>
         /\ t \in DOMAIN file => file'[t] = file[t]
         /\ \A d \in Dbs : t \in DOMAIN db[d].threads => db'[d].threads[t] = db[d].threads[t]
    ]_<<file, db>>

(* What "synced" promises when nothing else wrote: all users' threads are  *)
(* at the target wherever they are recorded, every catalog lists those     *)
(* that all rows call live, and none lists one all rows call dead.         *)
Live(r) == ~ r.archived /\ r.event /\ r.mark \in {"user", "plain"}
Consistent ==
  \A t \in Threads :
    /\ t \in DOMAIN file \ job.skipped /\ file[t].meta # {} /\ ~ AgentEvidence(t)
         => file[t].meta = {"target"}
    /\ ~ AgentEvidence(t) =>
         \A d \in Dbs : /\ t \in DOMAIN db[d].threads => db[d].threads[t].provider = "target"
                        /\ t \in DOMAIN db[d].catalog => db[d].catalog[t].provider = "target"
    /\ ThreadRows(t) # {} =>
         \A d \in Catalogs :
           /\ (/\ \A e \in Dbs : t \notin Filtered(e, db)
               /\ \A r \in ThreadRows(t) : Live(r) /\ (r.filed => t \in DOMAIN file))
                => t \in DOMAIN db[d].catalog
           /\ (\A r \in ThreadRows(t) : r.archived) /\ (\A e \in Dbs : t \notin Filtered(e, db))
                => t \notin DOMAIN db[d].catalog
SyncedIsSynced ==
  [][job.kind = "sync" /\ job.quiet /\ answer' \in {"synced", "up to date"}
     => Consistent]_vars

(* A second sync has nothing to do: the counts and the writes agree, and   *)
(* the inserting and the deleting of catalog rows do not take turns.       *)
SecondSyncIdle ==
  [][job.kind = "sync" /\ At("count") /\ settled /\ job.skipped = {} => job'.step # "backup"]_vars

(* However the restore of a failed sync ends, every rollout file is as the *)
(* sync found it or entirely as the sync rewrote it, the latter only if    *)
(* the restore ended before its turn.  What Codex has written since, and a *)
(* file that was cut, are left as they are.                                *)
FilesRestored ==
  [][job.undo /\ job' = Idle =>
       \A t \in DOMAIN file :
         \/ file'[t] = start.file[t]
         \/ t \in job.todo /\ file'[t] = job.changes[t].new
         \/ written[t] # start.written[t] \/ t \in hit']_vars

(* "6. On failure before commit, rollback SQLite.  7. Restore any rollout  *)
(* files already rewritten.  8. Restore global state files from backup if  *)
(* they were changed before failure." (target selection design)            *)
FailedRunChangesNothing ==
  [][job.kind = "sync" /\ job.quiet /\ answer' = "failed" =>
       /\ \A t \in job.applied : file'[t] = start.file[t]
       /\ db' = start.db
       /\ global' = start.global]_vars
=============================================================================
