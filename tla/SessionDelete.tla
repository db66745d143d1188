--------------------------- MODULE SessionDelete ---------------------------
(***************************************************************************)
(* Deleting a local session and undoing the deletion                       *)
(* (crates/codex-plus-data/src/storage.rs, backup.rs and the session-index *)
(* helpers of provider_sync.rs).                                           *)
(*                                                                         *)
(* A session is a row in one or more SQLite databases, a rollout file and  *)
(* a line of session_index.jsonl.  delete_local_from_paths goes through    *)
(* the databases in turn; for each it writes a backup, deletes the row in  *)
(* a transaction, removes the file and the line.  The undo token names the *)
(* backups.  Any call may fail, the process may die between two of them,   *)
(* and Codex may write row, file and index.                                *)
(***************************************************************************)
EXTENDS Naturals, Sequences, SequencesExt

CONSTANTS
  Dbs,               \* the databases, in the order they are visited
  Threads,           \* those with the threads schema, whose rows own the file
  MaxBackups,        \* bound: backups ever written; then writing one fails
  MaxAppends,        \* bound: lines other sessions append to the index
  WhileBusy          \* bound: sets of what Codex writes while an operation runs

ASSUME DbsAssumption ==
  Dbs \in Seq(Range(Dbs)) /\ "none" \notin Range(Dbs) /\ Threads \subseteq Range(Dbs)
ASSUME BoundsAssumption == MaxBackups \in Nat /\ MaxAppends \in Nat
Kinds == {"row", "file", "line", "append"}
ASSUME WhileBusyAssumption == WhileBusy \subseteq SUBSET Kinds

VARIABLES
  rows,     \* rows[d]: the session's row in database d
  file,     \* its rollout file
  idx,      \* its line in session_index.jsonl, and the lines appended since
  lost,     \* history: appended lines that were overwritten
  backups,  \* backup files in the order they were written; token = position
  op,       \* the operation that runs
  answer,   \* status and undo tokens of the last operation
  busy      \* what Codex may write also while an operation is running

data == <<rows, file, idx>>
vars == <<rows, file, idx, lost, backups, op, answer, busy>>

DbSet == Range(Dbs)
Copy == {"orig", "new", "part", "none"}   \* the session deleted first, another
                                          \* one, a file cut off, nothing

Failed == [status |-> "failed", toks |-> <<>>]
Unread == [line |-> "none", tail |-> 0]
Data == [rows |-> rows, file |-> file, line |-> idx.line]

(* at is the position in Dbs, token the backup of this database (in an     *)
(* undo the position in toks), passes the index cleanings to come, seen    *)
(* what was read of the index, removed whether its line was removed, count *)
(* the databases deleted from.  base, a history field, is the data an undo *)
(* found.                                                                  *)
Idle ==
  [kind |-> "none", step |-> "idle", at |-> 0, token |-> 0, passes |-> 0,
   seen |-> Unread, removed |-> FALSE, count |-> 0, result |-> Failed, toks |-> <<>>,
   base |-> [rows |-> [d \in DbSet |-> "none"], file |-> "none", line |-> "none"]]

Init ==
  /\ rows \in [DbSet -> {"orig", "none"}]
  /\ file \in {"orig", "none"}
  /\ idx \in [line : {"orig", "none"}, tail : {0}]
  /\ lost = 0
  /\ backups = <<>>
  /\ op = Idle
  /\ answer = Failed
  /\ busy \in WhileBusy

At(step) == op.step = step
Db == Dbs[op.at]

(* A row of the other schemas owns no file, and the index is cleaned for   *)
(* it only once, by delete_local.                                          *)
FileOf(d) == IF d \in Threads THEN file ELSE "none"
Cleanings(d) == IF d \in Threads THEN 2 ELSE 1
Backup(token) == backups[token]

-----------------------------------------------------------------------------
(* delete_local_from_paths: the loop over the databases.                   *)

(* What the loop makes of the result for one database: a success counts    *)
(* and replaces the result; a failure replaces it while nothing counts.    *)
Collect(status, toks) ==
  IF status = "deleted"
  THEN [op EXCEPT !.count = @ + 1,
                  !.result = [status |-> "deleted",
                              toks |-> IF op.count = 0 THEN toks ELSE @.toks \o toks]]
  ELSE IF op.count = 0 THEN [op EXCEPT !.result = [status |-> status, toks |-> toks]]
       ELSE op

(* The next database, or the fallback to the index when every database     *)
(* failed, or the end.                                                     *)
NextDb(status, toks) ==
  LET o == Collect(status, toks)
      n == [o EXCEPT !.token = 0, !.passes = 0, !.seen = Unread, !.removed = FALSE, !.toks = <<>>]
  IN  IF op.at < Len(Dbs)
      THEN op' = [n EXCEPT !.step = "select", !.at = @ + 1] /\ UNCHANGED answer
      ELSE IF o.count = 0 /\ o.result.status = "failed"
           THEN op' = [n EXCEPT !.step = "fallback"] /\ UNCHANGED answer
           ELSE op' = Idle /\ answer' = o.result

BeginDelete ==
  /\ op = Idle
  /\ op' = IF Dbs = <<>> THEN [Idle EXCEPT !.kind = "delete", !.step = "fallback"]
           ELSE [Idle EXCEPT !.kind = "delete", !.step = "select", !.at = 1]
  /\ answer' = Failed
  /\ UNCHANGED <<data, lost, backups>>

(* The row is not in this database, or the database cannot be read or the  *)
(* backup not be written.                                                  *)
NotDeleted ==
  /\ At("select")
  /\ NextDb("failed", <<>>)
  /\ UNCHANGED <<data, lost, backups>>

BackupAfterDelete ==  \* mutant: the row is deleted before its backup is written
  /\ At("select") /\ rows[Db] # "none" /\ Len(backups) < MaxBackups
  /\ rows' = [rows EXCEPT ![Db] = "none"]
  /\ backups' = Append(backups, [db |-> Db, row |-> rows[Db], file |-> "none", line |-> "none"])
  /\ op' = [op EXCEPT !.step = "delete", !.token = Len(backups) + 1]
  /\ UNCHANGED <<file, idx, lost, answer>>

(* select_dicts, rollout_file_backups and capture_session_index_backup     *)
(* read the three places, write_backup keeps them.  A file that cannot be  *)
(* read is left out, and so is an index that cannot be read.               *)
WriteBackup ==
  /\ At("select") /\ rows[Db] # "none" /\ Len(backups) < MaxBackups
  /\ \E f \in {"none", FileOf(Db)}, l \in {"none", idx.line} :
       backups' = Append(backups, [db |-> Db, row |-> rows[Db], file |-> f, line |-> l])
  /\ op' = [op EXCEPT !.step = "delete", !.token = Len(backups) + 1]
  /\ UNCHANGED <<data, lost, answer>>

(* The transaction: rows and related rows go together.                     *)
DeleteRow ==
  /\ At("delete")
  /\ rows' = [rows EXCEPT ![Db] = "none"]
  /\ op' = [op EXCEPT !.step = IF Backup(op.token).file = "none" THEN "index" ELSE "file",
                      !.passes = Cleanings(Db)]
  /\ UNCHANGED <<file, idx, lost, backups, answer>>

DeleteRowFails ==
  /\ At("delete")
  /\ NextDb("failed", <<op.token>>)
  /\ UNCHANGED <<data, lost, backups>>

(* Only a file that is in the backup is removed.                           *)
RemoveFile ==
  /\ At("file")
  /\ file' = "none"
  /\ op' = [op EXCEPT !.step = "index"]
  /\ UNCHANGED <<rows, idx, lost, backups, answer>>

(* The file stays: the deletion is to be rolled back through undo.         *)
RemoveFileFails ==
  /\ At("file") /\ file # "none"
  /\ op' = [op EXCEPT !.step = "check", !.toks = <<op.token>>]
  /\ UNCHANGED <<data, lost, backups, answer>>

-----------------------------------------------------------------------------
(* remove_session_index_entry: read, compare, replace the file.            *)

RemoveLineRead ==
  /\ At("index") /\ idx.line # "none"
  /\ op' = [op EXCEPT !.step = "compare", !.seen = idx]
  /\ UNCHANGED <<data, lost, backups, answer>>

RemoveLineCompare ==
  /\ At("compare") /\ idx = op.seen
  /\ op' = [op EXCEPT !.step = "rewrite"]
  /\ UNCHANGED <<data, lost, backups, answer>>

(* What Codex appended after the comparison is gone with the old file.     *)
Replace(line) ==
  /\ idx' = [line |-> line, tail |-> op.seen.tail]
  /\ lost' = lost + (idx.tail - op.seen.tail)

RemoveLine ==
  /\ At("rewrite")
  /\ Replace("none")
  /\ op' = [op EXCEPT !.step = "cleaned", !.seen = Unread, !.removed = TRUE]
  /\ UNCHANGED <<rows, file, backups, answer>>

(* No line for the session, the file changed since it was read, or a call  *)
(* failed: nothing is written, and the deletion goes on all the same.      *)
LineStays ==
  /\ op.step \in {"index", "compare", "rewrite"}
  /\ op' = [op EXCEPT !.step = "cleaned", !.seen = Unread]
  /\ UNCHANGED <<data, lost, backups, answer>>

(* delete_codex_thread cleans the index and delete_local cleans it again.  *)
CleanAgain ==
  /\ At("cleaned") /\ op.passes > 1
  /\ op' = [op EXCEPT !.step = "index", !.passes = @ - 1]
  /\ UNCHANGED <<data, lost, backups, answer>>

Deleted ==
  /\ At("cleaned") /\ op.passes = 1
  /\ NextDb("deleted", <<op.token>>)
  /\ UNCHANGED <<data, lost, backups>>

-----------------------------------------------------------------------------
(* No database had the session: only its index line is removed.            *)

Fallback ==
  /\ At("fallback")
  /\ IF idx.line = "none" THEN UNCHANGED backups /\ op' = [op EXCEPT !.step = "index"]
     ELSE /\ Len(backups) < MaxBackups
          /\ backups' = Append(backups, [db |-> "none", row |-> "none", file |-> "none",
                                         line |-> idx.line])
          /\ op' = [op EXCEPT !.step = "index", !.token = Len(backups) + 1]
  /\ UNCHANGED <<data, lost, answer>>

FallbackFails ==
  /\ At("fallback")
  /\ op' = Idle /\ answer' = op.result
  /\ UNCHANGED <<data, lost, backups>>

FallbackDone ==
  /\ At("cleaned") /\ op.passes = 0
  /\ op' = Idle
  /\ answer' = IF op.removed
               THEN [status |-> "deleted",
                     toks |-> IF op.token = 0 THEN op.result.toks ELSE <<op.token>>]
               ELSE op.result
  /\ UNCHANGED <<data, lost, backups>>

-----------------------------------------------------------------------------
(* undo and restore_backups, from the undo button or from the rollback.    *)

BeginUndo ==
  /\ op = Idle
  /\ answer.toks # <<>>
  /\ op' = [Idle EXCEPT !.kind = "undo", !.step = "check", !.toks = answer.toks,
                        !.token = 1, !.base = Data]
  /\ UNCHANGED <<data, lost, backups, answer>>

(* The backup restore_backups is at: op.token counts through op.toks when  *)
(* the undo runs alone; the rollback has just the one.                     *)
Position == IF op.kind = "undo" THEN op.token ELSE 1
Current == Backup(op.toks[Position])
More == Position < Len(op.toks)

Conflict(b) ==
  \/ b.file # "none" /\ file # "none"
  \/ b.line # "none" /\ idx.line # "none"
  \/ b.db # "none" /\ rows[b.db] # "none"

EndRestore(ok) ==
  IF op.kind = "undo"
  THEN /\ op' = Idle
       /\ answer' = [status |-> IF ok THEN "undone" ELSE "failed", toks |-> op.toks]
  ELSE NextDb(IF ok THEN "failed" ELSE "recovery", <<op.token>>)

CheckEachBeforeItsRestore ==  \* mutant: the first backup is restored before the second is checked
  /\ At("check") /\ ~ Conflict(Current)
  /\ op' = [op EXCEPT !.step = "insert"]
  /\ UNCHANGED <<data, lost, backups, answer>>

(* First every backup is checked, then the first one is restored.          *)
CheckPasses ==
  /\ At("check") /\ ~ Conflict(Current)
  /\ op' = IF More THEN [op EXCEPT !.token = @ + 1]
           ELSE [op EXCEPT !.step = "insert",
                           !.token = IF op.kind = "undo" THEN 1 ELSE @]
  /\ UNCHANGED <<data, lost, backups, answer>>

(* A conflict, or a database that cannot be opened.                        *)
CheckRefuses ==
  /\ At("check")
  /\ EndRestore(FALSE)
  /\ UNCHANGED <<data, lost, backups>>

InsertOrReplace ==  \* mutant: INSERT OR REPLACE
  /\ At("insert")
  /\ rows' = IF Current.db = "none" THEN rows ELSE [rows EXCEPT ![Current.db] = Current.row]
  /\ op' = [op EXCEPT !.step = "write"]
  /\ UNCHANGED <<file, idx, lost, backups, answer>>

InsertRow ==
  /\ At("insert")
  /\ \/ Current.db = "none" /\ UNCHANGED rows
     \/ /\ Current.db # "none"
        /\ rows[Current.db] = "none"
        /\ rows' = [rows EXCEPT ![Current.db] = Current.row]
  /\ op' = [op EXCEPT !.step = "write"]
  /\ UNCHANGED <<file, idx, lost, backups, answer>>

WriteFile ==
  /\ At("write")
  /\ file' = IF Current.file = "none" THEN file ELSE Current.file
  /\ op' = [op EXCEPT !.step = IF Current.line = "none" THEN "restored" ELSE "reindex"]
  /\ UNCHANGED <<rows, idx, lost, backups, answer>>

(* restore_session_index_entries: read, compare, replace.                  *)
AddLineRead ==
  /\ At("reindex") /\ idx.line = "none"
  /\ op' = [op EXCEPT !.step = "recompare", !.seen = idx]
  /\ UNCHANGED <<data, lost, backups, answer>>

AddLineCompare ==
  /\ At("recompare") /\ idx = op.seen
  /\ op' = [op EXCEPT !.step = "append"]
  /\ UNCHANGED <<data, lost, backups, answer>>

AddLine ==
  /\ At("append")
  /\ Replace(Current.line)
  /\ op' = [op EXCEPT !.step = "restored", !.seen = Unread]
  /\ UNCHANGED <<rows, file, backups, answer>>

(* A line with the id is there, or the index changed since it was read:    *)
(* nothing is written and nothing is said.                                 *)
LineNotAdded ==
  /\ \/ At("reindex") /\ idx.line # "none"
     \/ At("recompare") /\ idx # op.seen
  /\ op' = [op EXCEPT !.step = "restored", !.seen = Unread]
  /\ UNCHANGED <<data, lost, backups, answer>>

(* A write of the file that does not come to its end leaves a part of it.  *)
CutOff == IF At("write") /\ Current.file # "none" THEN {file, "part"} ELSE {file}

RestoreFails ==
  /\ op.step \in {"insert", "write", "reindex", "recompare", "append"}
  /\ At("insert") => Current.db # "none"
  /\ At("write") => Current.file # "none"
  /\ file' \in CutOff
  /\ EndRestore(FALSE)
  /\ UNCHANGED <<rows, idx, lost, backups>>

RestoredFirst ==  \* mutant: only the first backup of a token list is restored
  /\ At("restored")
  /\ EndRestore(TRUE)
  /\ UNCHANGED <<data, lost, backups>>

Restored ==
  /\ At("restored")
  /\ IF More THEN op' = [op EXCEPT !.step = "insert", !.token = @ + 1] /\ UNCHANGED answer
     ELSE EndRestore(TRUE)
  /\ UNCHANGED <<data, lost, backups>>

-----------------------------------------------------------------------------

Crash ==
  /\ op # Idle
  /\ op' = Idle
  /\ answer' = [status |-> "lost", toks |-> <<>>]
  /\ file' \in CutOff
  /\ UNCHANGED <<rows, idx, lost, backups>>

(* Codex registers, writes or lists a session of this id again, or lists   *)
(* another one.                                                            *)
OthersMay(what) == what \in busy \/ op = Idle

OtherRow ==
  /\ OthersMay("row")
  /\ \E d \in DbSet : rows[d] = "none" /\ rows' = [rows EXCEPT ![d] = "new"]
  /\ UNCHANGED <<file, idx, lost, backups, op, answer>>

OtherFile ==
  /\ OthersMay("file")
  /\ file = "none" /\ file' = "new"
  /\ UNCHANGED <<rows, idx, lost, backups, op, answer>>

OtherLine ==
  /\ OthersMay("line")
  /\ idx.line = "none" /\ idx' = [idx EXCEPT !.line = "new"]
  /\ UNCHANGED <<rows, file, lost, backups, op, answer>>

OtherAppend ==
  /\ OthersMay("append")
  /\ idx.tail + lost < MaxAppends /\ idx' = [idx EXCEPT !.tail = @ + 1]
  /\ UNCHANGED <<rows, file, lost, backups, op, answer>>

NextStep ==
  \/ BeginDelete \/ NotDeleted \/ WriteBackup \/ DeleteRow \/ DeleteRowFails
  \/ RemoveFile \/ RemoveFileFails
  \/ RemoveLineRead \/ RemoveLineCompare \/ RemoveLine \/ LineStays \/ CleanAgain \/ Deleted
  \/ Fallback \/ FallbackFails \/ FallbackDone
  \/ BeginUndo \/ CheckPasses \/ CheckRefuses \/ InsertRow \/ WriteFile
  \/ AddLineRead \/ AddLineCompare \/ AddLine \/ LineNotAdded \/ RestoreFails \/ Restored
  \/ Crash
  \/ OtherRow \/ OtherFile \/ OtherLine \/ OtherAppend

Next == NextStep /\ UNCHANGED busy

Spec == Init /\ [][Next]_vars

-----------------------------------------------------------------------------
(* Properties.                                                             *)

(* Every variable keeps its type; a token that is handed out always names  *)
(* a backup that was written.                                              *)
Steps == {"idle", "select", "delete", "file", "index", "compare", "rewrite", "cleaned",
          "fallback", "check", "insert", "write", "reindex", "recompare", "append", "restored"}
Tokens == 1..Len(backups)
Results ==
  [status : {"failed", "deleted", "recovery", "undone", "lost"}, toks : Seq(Tokens)]
Index == [line : Copy, tail : 0..MaxAppends]
Found == [rows : [DbSet -> Copy], file : Copy, line : Copy]
Saved == [db : DbSet \cup {"none"}, row : Copy, file : Copy, line : Copy]
Operations ==
  [kind : {"none", "delete", "undo"}, step : Steps, at : 0..Len(Dbs), token : Nat,
   passes : 0..2, seen : Index, removed : BOOLEAN, count : 0..Len(Dbs), result : Results,
   toks : Seq(Tokens), base : Found]
TypeOK ==
  /\ rows \in [DbSet -> Copy] /\ file \in Copy
  /\ idx \in Index /\ lost \in 0..MaxAppends
  /\ backups \in Seq(Saved) /\ Len(backups) <= MaxBackups
  /\ op \in Operations /\ answer \in Results

(* Where an operation is: at a database, whose backup it has in hand once  *)
(* it is written, at the index alone, or at the restoring of a backup.  The *)
(* rollback of a deletion never gets beyond its check: the file that could *)
(* not be removed is itself the conflict.                                  *)
RestoreSteps == {"insert", "write", "reindex", "recompare", "append", "restored"}
AtDb == op.step \in {"select", "delete"} \/ op.passes > 0

DeletePlaces ==
  op.kind = "delete" =>
    /\ op.step \notin RestoreSteps
    /\ IF AtDb THEN op.at \in DOMAIN Dbs /\ op.count < op.at ELSE op.count = 0
    /\ op.step \in {"select", "delete", "fallback"} => op.passes = 0
    /\ op.step \in {"select", "fallback"} => op.token = 0
    /\ op.step = "delete" \/ op.passes > 0 => op.token # 0
    /\ op.token <= Len(backups)
    /\ op.step \in {"file", "check"} => op.passes > 0 /\ Backup(op.token).file # "none"
    /\ op.step = "check" => op.toks = <<op.token>> /\ file # "none"
UndoPlaces ==
  op.kind = "undo" => op.step \in RestoreSteps \cup {"check"} /\ op.token \in DOMAIN op.toks
IndexSeen ==
  /\ idx.tail + lost <= MaxAppends
  /\ op.step \in {"compare", "rewrite", "recompare", "append"} => op.seen.tail <= idx.tail
Places ==
  /\ op.kind = "none" <=> op = Idle
  /\ op.step = "idle" <=> op = Idle
  /\ DeletePlaces /\ UndoPlaces /\ IndexSeen

(* What a backup holds is what is deleted, until it is deleted.            *)
BackedUp ==
  /\ \A i \in DOMAIN backups : backups[i].db # "none" => backups[i].row # "none"
  /\ op.step = "delete" =>
       LET b == Backup(op.token) IN b.db = Db /\ b.row = rows[Db]
  /\ op.step \in {"delete", "file"} =>
       LET b == Backup(op.token) IN b.file # "none" => b.file = file

(* What an undo has restored when it is at a step of a backup.             *)
Past(i, steps) == i < op.token \/ (i = op.token /\ op.step \notin steps \cup {"check"})
RowDone(i) == Past(i, {"insert"})
FileDone(i) == Past(i, {"insert", "write"})
LineDone(i) == Past(i, RestoreSteps \ {"restored"})
Restoring == op.step \in RestoreSteps
Checked(i) == Restoring \/ i < op.token

(* The rows: none that is to be restored was there when the undo looked,   *)
(* and what was restored stays.                                            *)
RowsInv ==
  op.kind = "undo" =>
    /\ \A i \in DOMAIN op.toks :
         LET b == Backup(op.toks[i])
         IN  b.db # "none" =>
               /\ Checked(i) => op.base.rows[b.db] = "none"
               /\ Restoring /\ RowDone(i) => rows[b.db] = b.row
    /\ ~ Restoring => \A d \in DbSet :
         \/ rows[d] = op.base.rows[d]
         \/ op.base.rows[d] = "none" /\ rows[d] = "new"

(* The rollout file: one deletion backs it up once at most, or nothing of  *)
(* the deletion counts, and it is where the steps of an undo put it.       *)
OneFile(toks) ==
  \A i, j \in DOMAIN toks :
    Backup(toks[i]).file # "none" /\ Backup(toks[j]).file # "none" => i = j
FilesInv ==
  /\ OneFile(answer.toks)
  /\ op.kind = "delete" =>
       /\ OneFile(op.result.toks)
       /\ op.count = 0 => Len(op.result.toks) <= 1
       /\ op.count > 0 /\ (\E i \in DOMAIN op.result.toks : Backup(op.result.toks[i]).file # "none")
            => file = "none" /\ (op.token # 0 => Backup(op.token).file = "none")
       /\ op.step \in {"index", "compare", "rewrite", "cleaned"} /\ op.token # 0 =>
            Backup(op.token).file = "none" \/ file = "none"
  /\ op.kind = "undo" =>
       /\ OneFile(op.toks)
       /\ ~ Restoring => file = op.base.file
       /\ \A i \in DOMAIN op.toks :
            LET b == Backup(op.toks[i])
            IN  b.file # "none" =>
                  /\ Checked(i) => op.base.file = "none"
                  /\ Restoring => file = IF FileDone(i) THEN b.file ELSE "none"

(* The index line: all backups of one deletion that have it have the same, *)
(* and it is nothing else while they are restored.                         *)
OneLine(tokens) ==
  \A t, u \in tokens :
    Backup(t).line # "none" /\ Backup(u).line # "none" => Backup(t).line = Backup(u).line
InHand == ToSet(op.result.toks) \cup ({op.token} \ {0})
LinesInv ==
  /\ OneLine(ToSet(answer.toks))
  /\ op.kind = "delete" =>
       /\ OneLine(InHand)
       /\ \A t \in InHand : Backup(t).line # "none" => idx.line \in {"none", Backup(t).line}
  /\ op.kind = "undo" =>
       /\ OneLine(ToSet(op.toks))
       /\ ~ Restoring => idx.line = op.base.line
       /\ op.step \in {"recompare", "append"} =>
            idx.line = "none" /\ ("append" \notin busy => op.seen = idx)
       /\ \A i \in DOMAIN op.toks :
            LET b == Backup(op.toks[i])
            IN  b.line # "none" =>
                  /\ Checked(i) => op.base.line = "none"
                  /\ Restoring => idx.line \in {"none", b.line}
                  /\ Restoring /\ LineDone(i) /\ "append" \notin busy => idx.line = b.line

(* Whatever fails and wherever the process dies, a row is never taken away *)
(* or replaced before a backup on disk holds it, nor is the rollout file   *)
(* where Codex does not write it in the middle of an operation.            *)
Held(d, copy) == \E i \in DOMAIN backups : backups[i].db = d /\ backups[i].row = copy
NothingLost ==
  [][/\ \A d \in DbSet : rows[d] \in {"none", rows'[d]} \/ Held(d, rows[d])
     /\ \/ "file" \in busy \/ file \in {"none", file'}
        \/ \E i \in DOMAIN backups : backups[i].file = file]_vars

(* An undo that reports success has brought back the row, the file and the *)
(* index line of every backup its token names, where Codex writes at most  *)
(* rows in the middle of an operation.                                     *)
IsBack(b) ==
  /\ b.db # "none" => rows'[b.db] = b.row
  /\ b.file # "none" => file' = b.file
  /\ b.line # "none" => idx'.line = b.line
UndoExact ==
  [][busy \subseteq {"row"} /\ op.kind = "undo" /\ op'.kind = "none" /\ answer'.status = "undone"
     => \A i \in DOMAIN op.toks : IsBack(Backup(op.toks[i]))]_vars

(* Whatever Codex writes meanwhile, an undo never replaces a row, nor a    *)
(* file or an index line that was there when it began: what was written    *)
(* since the deletion.                                                     *)
UndoSpares ==
  [][op.kind = "undo" => /\ \A d \in DbSet : rows[d] \in {"none", rows'[d]}
                         /\ op.base.file # "none" => file' = file
                         /\ op.base.line # "none" => idx'.line = idx.line]_vars

(* An undo that finds a conflict with any of its backups, the last one     *)
(* included, restores none of them; a row that appears is Codex's own.     *)
Conflicted(b, base) ==
  \/ b.file # "none" /\ base.file # "none"
  \/ b.line # "none" /\ base.line # "none"
  \/ b.db # "none" /\ base.rows[b.db] # "none"
ConflictRestoresNothing ==
  op.kind = "undo" /\ (\E i \in DOMAIN op.toks : Conflicted(Backup(op.toks[i]), op.base))
  => /\ file = op.base.file /\ idx.line = op.base.line
     /\ \A d \in DbSet : rows[d] \in {op.base.rows[d], "new"}

(* The automatic rollback of a deletion whose rollout file could not be    *)
(* removed meets a conflict, whatever Codex writes meanwhile: it restores  *)
(* nothing, although it was called to bring the row back.                  *)
RollbackRefused == op.kind = "delete" /\ At("check") => Conflict(Current)

(* What a deletion and an undo have in hand and have done by then: the     *)
(* rows always, file and index line where Codex does not write them in the *)
(* middle of an operation.                                                 *)
UndoInv ==
  /\ TypeOK /\ busy \in WhileBusy /\ Places /\ BackedUp /\ RowsInv
  /\ "file" \notin busy => FilesInv
  /\ "line" \notin busy => LinesInv
  /\ {"file", "line"} \cap busy = {} => ConflictRestoresNothing
  /\ RollbackRefused
=============================================================================
