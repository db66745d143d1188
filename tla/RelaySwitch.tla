---------------------------- MODULE RelaySwitch ----------------------------
(***************************************************************************)
(* Switching the provider and undoing the switch                           *)
(* (crates/codex-plus-core/src/relay_switch.rs).                           *)
(*                                                                         *)
(* A switch rewrites settings.json, auth.json and config.toml one after    *)
(* the other.  Before the first write it keeps the old contents in a       *)
(* snapshot file, after the last one it adds the fingerprints of what the  *)
(* files hold then.  The undo token names the snapshot.  Every file        *)
(* operation is a step of its own and may fail; the manager may die        *)
(* between two of them; Codex, an editor or the launcher may write the     *)
(* files.  Within the manager relay_switch_mutex lets one operation run.   *)
(***************************************************************************)
EXTENDS Naturals, Sequences

CONSTANTS
  Initial,         \* contents the files have at first
  Targets,         \* contents a switch writes: one per provider profile
  Edits,           \* contents other programs write
  Tokens,          \* undo tokens (uuids); an unused one can serve again
  None,            \* no contents, no token
  EditsWhileBusy   \* whether others write while an operation is running

ASSUME EditsWhileBusyAssumption == EditsWhileBusy \in BOOLEAN

VARIABLES
  files,    \* contents of settings.json, config.toml and auth.json
  snaps,    \* the snapshot files
  op,       \* the operation that runs
  answer,   \* what the last operation returned
  owed      \* history: contents an interrupted operation has to bring back

vars == <<files, snaps, op, answer, owed>>

Order == <<"settings", "config", "auth">>
Files == {"settings", "config", "auth"}
Values == {Initial} \cup Targets \cup Edits
Confs == [Files -> Values]
Blank == [f \in Files |-> None]

ASSUME NoneAssumption == None \notin Confs /\ None \notin Values \cup Tokens

Idle ==
  [kind |-> "none", step |-> "idle", todo |-> <<>>, read |-> Blank,
   token |-> None, target |-> None, base |-> Blank]

Init ==
  /\ files = [f \in Files |-> Initial]
  /\ snaps = {}
  /\ op = Idle
  /\ answer = "ok"
  /\ owed = None

-----------------------------------------------------------------------------
(* Snapshot files.                                                         *)

Has(token) == \E s \in snaps : s.token = token
Snap(token) == CHOOSE s \in snaps : s.token = token
Without(token) == {s \in snaps : s.token # token}
WithAfter(token, after) ==
  Without(token) \cup {[s EXCEPT !.after = after] : s \in snaps \ Without(token)}

-----------------------------------------------------------------------------
(* How an operation moves on and ends.                                     *)

At(step) == op.step = step
Goto(step) == op' = [op EXCEPT !.step = step]
GotoFiles(step) == op' = [op EXCEPT !.step = step, !.todo = Order]
Finished == op.todo = <<>>
File == Head(op.todo)

Return(what) == op' = Idle /\ answer' = what

(* The operation has taken effect: the switch is recorded with its         *)
(* fingerprints, or the undo has written the last file.                    *)
Committed == At("prune") \/ (op.kind = "undo" /\ At("restore") /\ Finished)

(* What the snapshot of an operation that breaks off is there to restore.  *)
Owe ==
  owed' = IF Committed \/ files' = op.base THEN owed
          ELSE IF op.kind = "undo" THEN Snap(op.token).before ELSE op.base

Read(step) ==
  /\ At(step)
  /\ ~ Finished
  /\ op' = [op EXCEPT !.read[File] = files[File], !.todo = Tail(@)]
  /\ UNCHANGED <<files, snaps, answer, owed>>

Write(step, contents) ==
  /\ At(step)
  /\ ~ Finished
  /\ files' = [files EXCEPT ![File] = contents[File]]
  /\ op' = [op EXCEPT !.todo = Tail(@)]
  /\ UNCHANGED <<snaps, answer>>

-----------------------------------------------------------------------------
(* switch_relay_profile_in_home_with_backup_dir.                           *)

BeginSwitch(token, target) ==
  /\ op = Idle
  /\ ~ Has(token)
  /\ op' = [kind |-> "switch", step |-> "capture", todo |-> Order, read |-> Blank,
            token |-> token, target |-> target, base |-> files]
  /\ UNCHANGED <<files, snaps, answer, owed>>

Capture == Read("capture")

Persist ==
  /\ At("capture") /\ Finished
  /\ snaps' = snaps \cup {[token |-> op.token, before |-> op.read, after |-> None]}
  /\ op' = [op EXCEPT !.step = "backfill", !.read = Blank]
  /\ UNCHANGED <<files, answer, owed>>

(* Reading a file or writing the snapshot fails: nothing was changed.      *)
CaptureFails ==
  /\ At("capture")
  /\ Return("failed")
  /\ UNCHANGED <<files, snaps, owed>>

Backfill ==
  /\ At("backfill")
  /\ Goto("save")
  /\ UNCHANGED <<files, snaps, answer, owed>>

(* The backfill or store.save fails: the snapshot goes, if it can.         *)
GiveUp ==
  /\ At("backfill") \/ At("save")
  /\ snaps' \in {snaps, Without(op.token)}
  /\ Return("failed")
  /\ UNCHANGED <<files, owed>>

Save ==
  /\ At("save")
  /\ files' = [files EXCEPT !["settings"] = op.target]
  /\ Goto("reload")
  /\ UNCHANGED <<snaps, answer, owed>>

(* store.load, then apply_selected_relay_profile: validation of the        *)
(* profile; write_codex_live_atomic reads both live files.                 *)
Prepare ==
  /\ At("reload")
  /\ op' = [op EXCEPT !.step = "auth", !.read = [files EXCEPT !["settings"] = None]]
  /\ UNCHANGED <<files, snaps, answer, owed>>

(* write_codex_live_atomic: auth.json first, if the profile changes it.    *)
WriteAuth ==
  /\ At("auth")
  /\ \/ /\ files' = [files EXCEPT !["auth"] = op.target]
        /\ Goto("config")
     \/ /\ op' = [op EXCEPT !.step = "config", !.read["auth"] = None]
        /\ UNCHANGED files
  /\ UNCHANGED <<snaps, answer, owed>>

WriteConfig ==
  /\ At("config")
  /\ files' = [files EXCEPT !["config"] = op.target]
  /\ op' = [op EXCEPT !.step = "fingerprint", !.todo = Order, !.read = Blank]
  /\ UNCHANGED <<snaps, answer, owed>>

(* Writing config.toml fails: write_codex_live_atomic puts back what it    *)
(* read, as far as it can, and fail_after_mutation follows.                *)
ConfigFails ==
  /\ At("config")
  /\ \E back \in SUBSET {f \in Files : op.read[f] # None} :
       files' = [f \in Files |-> IF f \in back THEN op.read[f] ELSE files[f]]
  /\ op' = [op EXCEPT !.step = "recapture", !.todo = Order, !.read = Blank]
  /\ UNCHANGED <<snaps, answer, owed>>

Fingerprint == Read("fingerprint")

Record ==
  /\ At("fingerprint") /\ Finished
  /\ snaps' = WithAfter(op.token, op.read)
  /\ Goto("prune")
  /\ owed' = None
  /\ UNCHANGED <<files, answer>>

(* prune_other_snapshots stops at the first file it cannot remove, and     *)
(* nobody looks at its result.                                             *)
Prune ==
  /\ At("prune")
  /\ \E gone \in SUBSET Without(op.token) : snaps' = snaps \ gone
  /\ Return("ok")
  /\ UNCHANGED <<files, owed>>

FailDropsSnapshot ==  \* mutant: the snapshot goes before the files are restored
  /\ snaps' = Without(op.token)
  /\ op' = [op EXCEPT !.step = "recapture", !.todo = Order, !.read = Blank]
  /\ UNCHANGED <<files, answer, owed>>

(* fail_after_mutation begins: settings.json at least was written.         *)
FailAfterMutation ==
  /\ op' = [op EXCEPT !.step = "recapture", !.todo = Order, !.read = Blank]
  /\ UNCHANGED <<files, snaps, answer, owed>>

ReloadFails == At("reload") /\ FailAfterMutation

(* An invalid profile, a failing read or write of auth.json, or a result   *)
(* that does not count as configured.                                      *)
ApplyFails ==
  /\ At("reload") \/ At("auth") \/ (At("fingerprint") /\ op.todo = Order)
  /\ FailAfterMutation

(* The fingerprints or the second write of the snapshot fail.              *)
RecordFails == At("fingerprint") /\ FailAfterMutation

-----------------------------------------------------------------------------
(* restore_last_switch_in_home.                                            *)

BeginUndo(token) ==
  /\ op = Idle
  /\ Has(token)
  /\ op' = [kind |-> "undo", step |-> "verify", todo |-> Order, read |-> Blank,
            token |-> token, target |-> None, base |-> files]
  /\ UNCHANGED <<files, snaps, answer, owed>>

(* A snapshot without fingerprints cannot be undone automatically.         *)
RefuseUndo ==
  /\ At("verify")
  /\ Snap(op.token).after = None
  /\ Return("recovery")
  /\ UNCHANGED <<files, snaps, owed>>

Verify == At("verify") /\ Snap(op.token).after # None /\ Read("verify")

Verified ==
  /\ At("verify") /\ Finished
  /\ op.read = Snap(op.token).after
  /\ op' = [op EXCEPT !.step = "recapture", !.todo = Order, !.read = Blank]
  /\ UNCHANGED <<files, snaps, answer, owed>>

(* A file differs or cannot be read.                                       *)
Conflict ==
  /\ At("verify")
  /\ Snap(op.token).after # None
  /\ Finished => op.read # Snap(op.token).after
  /\ Return("failed")
  /\ UNCHANGED <<files, snaps, owed>>

-----------------------------------------------------------------------------
(* restore_snapshot_files, for the undo and for a switch that failed.      *)

Recapture == Read("recapture")

RecaptureFails ==
  /\ At("recapture")
  /\ Return("recovery")
  /\ UNCHANGED <<files, snaps>>
  /\ Owe

Recaptured ==
  /\ At("recapture") /\ Finished
  /\ GotoFiles("restore")
  /\ UNCHANGED <<files, snaps, answer, owed>>

RestoreConfigOnly ==  \* mutant: settings.json is not put back
  /\ At("restore") /\ ~ Finished
  /\ files' = IF File = "settings" THEN files
              ELSE [files EXCEPT ![File] = Snap(op.token).before[File]]
  /\ op' = [op EXCEPT !.todo = Tail(@)]
  /\ owed' = IF Len(op.todo) = 1 /\ op.kind = "undo" THEN None ELSE owed
  /\ UNCHANGED <<snaps, answer>>

Restore ==
  /\ Write("restore", Snap(op.token).before)
  /\ owed' = IF Len(op.todo) = 1 /\ op.kind = "undo" THEN None ELSE owed

RestoreFails ==
  /\ At("restore") /\ ~ Finished
  /\ GotoFiles("unwind")
  /\ UNCHANGED <<files, snaps, answer, owed>>

(* The contents from before the restore are written back.                  *)
Unwind == Write("unwind", op.read) /\ UNCHANGED owed

(* Back at those contents, or stopped at the first that cannot be written. *)
Unwound ==
  /\ At("unwind")
  /\ Return("recovery")
  /\ UNCHANGED <<files, snaps>>
  /\ Owe

(* fail_after_mutation after a complete restore.                           *)
RolledBack ==
  /\ op.kind = "switch" /\ At("restore") /\ Finished
  /\ snaps' \in {snaps, Without(op.token)}
  /\ Return("failed")
  /\ UNCHANGED <<files, owed>>

(* The undo is complete; settings.json may be unreadable afterwards.       *)
Undone ==
  /\ op.kind = "undo" /\ At("restore") /\ Finished
  /\ \/ /\ snaps' = Without(op.token)
        /\ \E what \in {"ok", "restored"} : Return(what)
     \/ UNCHANGED snaps /\ Return("recovery")
  /\ UNCHANGED <<files, owed>>

-----------------------------------------------------------------------------
(* The manager dies; the files stay as they are.                           *)
Crash ==
  /\ op # Idle
  /\ Return("lost")
  /\ UNCHANGED <<files, snaps>>
  /\ Owe

(* The contents that some file, snapshot or operation knows.               *)
Contents == {files, op.base, op.read} \cup {s.before : s \in snaps}
              \cup {s.after : s \in {x \in snaps : x.after # None}}
Seen == {known[f] : known \in Contents, f \in Files}

(* Another program writes contents no file and no snapshot has had.        *)
Edit(f) ==
  /\ EditsWhileBusy \/ op = Idle
  /\ \E e \in Edits \ Seen : files' = [files EXCEPT ![f] = e]
  /\ UNCHANGED <<snaps, op, answer, owed>>

Next ==
  \/ \E token \in Tokens : (\E target \in Targets : BeginSwitch(token, target))
                           \/ BeginUndo(token)
  \/ Capture \/ Persist \/ CaptureFails \/ Backfill \/ GiveUp \/ Save \/ Prepare
  \/ WriteAuth \/ WriteConfig \/ ConfigFails \/ Fingerprint \/ Record \/ Prune
  \/ ReloadFails \/ ApplyFails \/ RecordFails
  \/ RefuseUndo \/ Verify \/ Verified \/ Conflict
  \/ Recapture \/ RecaptureFails \/ Recaptured
  \/ Restore \/ RestoreFails \/ Unwind \/ Unwound \/ RolledBack \/ Undone
  \/ Crash
  \/ \E f \in Files : Edit(f)

Spec == Init /\ [][Next]_vars

-----------------------------------------------------------------------------
(* Properties.                                                             *)

SwitchSteps ==
  {"capture", "backfill", "save", "reload", "auth", "config", "fingerprint", "prune"}
RestoreSteps == {"recapture", "restore", "unwind"}

Maybe == [Files -> Values \cup {None}]
Suffixes == {Order, <<"config", "auth">>, <<"auth">>, <<>>}
Snapshots == [token : Tokens, before : Confs, after : Confs \cup {None}]
Operations ==
  [kind : {"none", "switch", "undo"}, todo : Suffixes,
   step : SwitchSteps \cup RestoreSteps \cup {"idle", "verify"},
   read : Maybe, token : Tokens \cup {None}, target : Targets \cup {None}, base : Maybe]

(* Files the current pass has not reached yet.                             *)
Left(todo) == {todo[i] : i \in DOMAIN todo}
Pending == Left(op.todo)

TypeOK ==
  /\ files \in Confs
  /\ snaps \subseteq Snapshots
  /\ op \in Operations
  /\ answer \in {"ok", "failed", "restored", "recovery", "lost"}
  /\ owed \in Confs \cup {None}

(* No two snapshots have the same token, and the operation that runs has   *)
(* its snapshot on disk from the moment it may write until it ends,        *)
(* whatever else failed: a restore always finds what to write.             *)
SnapshotHeld ==
  /\ \A s, t \in snaps : s.token = t.token => s = t
  /\ op = Idle <=> op.step = "idle"
  /\ op # Idle => op.token \in Tokens /\ op.base \in Confs /\ op.kind # "none"
  /\ op.step \in SwitchSteps => op.kind = "switch" /\ op.target \in Targets
  /\ op.step = "verify" => op.kind = "undo"
  /\ op.step \notin {"idle", "capture"} => Has(op.token)
  /\ op.step = "capture" => ~ Has(op.token)
  /\ op.step \in {"capture", "fingerprint", "verify", "recapture"} =>
       \A f \in Files \ Pending : op.read[f] \in Values
  /\ op.step \in {"restore", "unwind"} => op.read \in Confs

(* Where a running operation is, when nobody else writes: what it has read *)
(* or restored so far is what the files hold; its snapshot holds what the  *)
(* files held before; and what an interruption left to restore is not in   *)
(* the one snapshot that this operation may drop.                          *)
Phases ==
  /\ op.step \in {"capture", "backfill", "save", "verify"} => files = op.base
  /\ op.step \in {"capture", "fingerprint", "verify", "recapture"} =>
       \A f \in Files \ Pending : op.read[f] = files[f]
  /\ op.step = "restore" =>
       \A s \in snaps, f \in Files \ Pending : s.token = op.token => files[f] = s.before[f]
  /\ \A s \in snaps : s.token = op.token =>
       /\ op.kind = "switch" =>
            s.before = op.base /\ s.after = IF At("prune") THEN files ELSE None
       /\ op.kind = "undo" /\ op.step # "verify" => s.after = op.base
  /\ owed # None =>
       \E s \in snaps : s.before = owed /\ (op.kind = "switch" => s.token # op.token)
  /\ Committed => owed = None

(* The invariant behind the refinement: snapshots and operation fit        *)
(* together at every step, and, with nobody else writing, so do the files. *)
SwitchInv == TypeOK /\ SnapshotHeld /\ (EditsWhileBusy \/ Phases)

Undos ==
  {[before |-> s.before, after |-> s.after] : s \in {x \in snaps : x.after # None}}

Switching == INSTANCE UndoableSwitch WITH
  conf  <- IF op = Idle \/ Committed THEN files ELSE op.base,
  undos <- Undos,
  saved <- {s.before : s \in snaps},
  busy  <- op # Idle,
  done  <- Committed,
  torn  <- owed

(* With nobody else writing during an operation, the sequence of file      *)
(* operations, whatever fails and wherever the manager dies, is a switch   *)
(* that happens entirely or not at all and can be undone exactly.          *)
Undoable == Switching!Spec
=============================================================================
