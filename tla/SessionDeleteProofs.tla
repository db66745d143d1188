------------------------ MODULE SessionDeleteProofs ------------------------
(***************************************************************************)
(* Proofs about SessionDelete, for every list of databases, any number of  *)
(* backups and of lines other sessions append.                             *)
(***************************************************************************)
EXTENDS SessionDelete, SequenceTheorems, TLAPS

(* The databases, in their order.                                          *)
LEMMA Databases ==
  /\ Len(Dbs) \in Nat /\ DOMAIN Dbs = 1..Len(Dbs)
  /\ \A i \in 1..Len(Dbs) : Dbs[i] \in DbSet
  /\ "none" \notin DbSet
  /\ Dbs # <<>> => Len(Dbs) > 0
<1>1. Len(Dbs) \in Nat /\ DOMAIN Dbs = 1..Len(Dbs)
  BY DbsAssumption, LenProperties
<1>2. \A i \in 1..Len(Dbs) : Dbs[i] \in DbSet
  BY <1>1, DbsAssumption, ElementOfSeq DEF DbSet
<1>3. Dbs # <<>> => Len(Dbs) > 0
  BY <1>1, DbsAssumption, EmptySeq
<1> QED BY <1>1, <1>2, <1>3, DbsAssumption DEF DbSet

-----------------------------------------------------------------------------
(* Types and places.                                                       *)

Typed == TypeOK /\ Places

(* The operation ends, or another begins or goes on: what it is while no   *)
(* backup is written.                                                      *)
LEMMA Step ==
  ASSUME Typed, rows' \in [DbSet -> Copy], file' \in Copy, idx' \in Index, lost' \in 0..MaxAppends,
         UNCHANGED backups, op' \in Operations, answer' \in Results
  PROVE  TypeOK'
<1>1. Tokens' = Tokens
  BY DEF Tokens
<1>2. Results' = Results
  BY <1>1 DEF Results
<1>3. Operations' = Operations
  BY <1>1, <1>2 DEF Operations
<1> QED BY <1>2, <1>3 DEF Typed, TypeOK

(* The places an operation can be at.                                      *)
LEMMA StepNames ==
  /\ "idle" \in Steps /\ "select" \in Steps /\ "delete" \in Steps /\ "file" \in Steps
  /\ "index" \in Steps /\ "compare" \in Steps /\ "rewrite" \in Steps /\ "cleaned" \in Steps
  /\ "fallback" \in Steps /\ "check" \in Steps /\ "insert" \in Steps /\ "write" \in Steps
  /\ "reindex" \in Steps /\ "recompare" \in Steps /\ "append" \in Steps
  /\ "restored" \in Steps
BY DEF Steps

(* Between operations.                                                     *)
LEMMA IdleTyped ==
  /\ Idle \in Operations /\ Failed \in Results /\ Unread \in Index
  /\ Idle.kind = "none" /\ Idle.step = "idle" /\ Idle.toks = <<>> /\ Idle.passes = 0
<1>1. <<>> \in Seq(Tokens)
  BY EmptySeq
<1>2. Failed \in Results
  BY <1>1 DEF Failed, Results
<1>3. Unread \in Index
  BY BoundsAssumption DEF Unread, Index, Copy
<1>4. 0 \in 0..Len(Dbs) /\ 0 \in 0..2 /\ 0 \in Nat
  BY Databases
<1>5. Idle.base \in Found
  BY DEF Idle, Found, Copy
<1> QED BY <1>1, <1>2, <1>3, <1>4, <1>5 DEF Idle, Operations, Steps

(* One backup more: the tokens handed out before still name theirs.        *)
LEMMA OneMore ==
  ASSUME Typed, NEW b \in Saved,
         Len(backups) < MaxBackups, backups' = Append(backups, b)
  PROVE  /\ backups' \in Seq(Saved)
         /\ Len(backups') = Len(backups) + 1 /\ Len(backups') <= MaxBackups
         /\ Len(backups) \in Nat /\ DOMAIN backups = Tokens
         /\ backups'[Len(backups) + 1] = b /\ \A t \in Tokens : backups'[t] = backups[t]
         /\ Tokens' = Tokens \cup {Len(backups) + 1}
         /\ Seq(Tokens) \subseteq Seq(Tokens')
         /\ op \in Operations' /\ answer \in Results'
<1>1. backups \in Seq(Saved) /\ Len(backups) \in Nat /\ DOMAIN backups = 1..Len(backups)
  BY LenProperties DEF Typed, TypeOK
<1>2. /\ backups' \in Seq(Saved) /\ Len(backups') = Len(backups) + 1
      /\ \A t \in 1..Len(backups) : backups'[t] = backups[t]
      /\ backups'[Len(backups) + 1] = b
  BY <1>1, AppendProperties
<1>3. Tokens' = Tokens \cup {Len(backups) + 1}
  BY <1>1, <1>2 DEF Tokens
<1>4. Seq(Tokens) \subseteq Seq(Tokens')
  <2> SUFFICES ASSUME NEW s \in Seq(Tokens) PROVE s \in Seq(Tokens')
    OBVIOUS
  <2>1. \A i \in 1..Len(s) : s[i] \in Tokens'
    BY <1>3, ElementOfSeq
  <2> QED BY <2>1, SeqDef, LenProperties
<1>5. Results \subseteq Results'
  BY <1>4 DEF Results
<1>6. op \in Operations' /\ answer \in Results'
  BY <1>4, <1>5 DEF Typed, TypeOK, Operations
<1>7. Len(backups') <= MaxBackups
  BY <1>1, <1>2, BoundsAssumption
<1> QED BY <1>1, <1>2, <1>3, <1>4, <1>6, <1>7 DEF Tokens

(* What delete_local_from_paths has after the result for one database.     *)
Counted(status) == IF status = "deleted" THEN op.count + 1 ELSE op.count
Kept(status, toks) ==
  IF status = "deleted"
  THEN [status |-> "deleted", toks |-> IF op.count = 0 THEN toks ELSE op.result.toks \o toks]
  ELSE IF op.count = 0 THEN [status |-> status, toks |-> toks] ELSE op.result

(* Then it goes on with the next database or with the index, or it ends.   *)
LEMMA NextDbOutcome ==
  ASSUME Typed, op.kind = "delete", AtDb, NEW status \in {"failed", "deleted", "recovery"},
         NEW toks \in Seq(Tokens), NextDb(status, toks)
  PROVE  /\ op' \in Operations /\ answer' \in Results
         /\ \/ op' = Idle /\ answer' = Kept(status, toks)
            \/ /\ op' # Idle /\ answer' = answer
               /\ op'.kind = "delete" /\ op'.token = 0 /\ op'.passes = 0 /\ op'.toks = <<>>
               /\ op'.count = Counted(status) /\ op'.result = Kept(status, toks)
               /\ \/ op'.step = "select" /\ op'.at \in DOMAIN Dbs /\ op'.count < op'.at
                  \/ op'.step = "fallback" /\ op'.count = 0
<1>1. /\ op \in Operations /\ op.at \in 1..Len(Dbs) /\ op.count < op.at /\ answer \in Results
      /\ op.result \in Results /\ op.count \in Nat
  BY Databases DEF Typed, TypeOK, Places, DeletePlaces, UndoPlaces, IndexSeen, Operations
<1>2. Kept(status, toks) \in Results
  <2>1. op.result.toks \o toks \in Seq(Tokens)
    BY <1>1, ConcatProperties DEF Results
  <2> QED BY <1>1, <2>1 DEF Kept, Results
<1>3. Counted(status) \in 0..Len(Dbs) /\ Counted(status) < op.at + 1
  BY <1>1, Databases DEF Counted
<1> DEFINE o == Collect(status, toks)
           n == [o EXCEPT !.token = 0, !.passes = 0, !.seen = Unread, !.removed = FALSE, !.toks = <<>>]
<1>4. o = [op EXCEPT !.count = Counted(status), !.result = Kept(status, toks)]
  BY <1>1 DEF Collect, Counted, Kept, Operations, Results
<1> HIDE DEF o
<1>5. /\ n = [op EXCEPT !.count = Counted(status), !.result = Kept(status, toks), !.token = 0,
                        !.passes = 0, !.seen = Unread, !.removed = FALSE, !.toks = <<>>]
      /\ o.result = Kept(status, toks) /\ o.count = Counted(status)
  BY <1>1, <1>4 DEF Operations
<1>6. <<>> \in Seq(Tokens) /\ Unread \in Index
  BY EmptySeq, BoundsAssumption DEF Unread, Index, Copy
<1> HIDE DEF n
<1>7. /\ n.kind = "delete" /\ n.step = op.step /\ n.at = op.at /\ n.token = 0 /\ n.passes = 0
      /\ n.toks = <<>> /\ n.count = Counted(status) /\ n.result = Kept(status, toks)
      /\ n \in Operations
  <2>1. n = [kind |-> op.kind, step |-> op.step, at |-> op.at, token |-> 0, passes |-> 0,
             seen |-> Unread, removed |-> FALSE, count |-> Counted(status),
             result |-> Kept(status, toks), toks |-> <<>>, base |-> op.base]
    BY <1>1, <1>5 DEF Operations
  <2>2. /\ op.kind \in {"none", "delete", "undo"} /\ op.step \in Steps /\ op.at \in 0..Len(Dbs)
        /\ op.base \in Found
    BY <1>1 DEF Operations
  <2> QED BY <1>2, <1>3, <1>6, <2>1, <2>2 DEF Operations
<1>8. \/ op.at < Len(Dbs) /\ op' = [n EXCEPT !.step = "select", !.at = op.at + 1] /\ answer' = answer
      \/ Counted(status) = 0 /\ op' = [n EXCEPT !.step = "fallback"] /\ answer' = answer
      \/ op' = Idle /\ answer' = Kept(status, toks)
  <2>1. n.at = op.at
    BY <1>1, <1>5 DEF Operations
  <2> QED BY <1>5, <2>1 DEF NextDb, o, n
<1>9. CASE op.at < Len(Dbs) /\ op' = [n EXCEPT !.step = "select", !.at = op.at + 1] /\ answer' = answer
  <2>1. op.at + 1 \in 1..Len(Dbs) /\ op.at + 1 \in 0..Len(Dbs) /\ "select" \in Steps
    BY <1>1, <1>9, Databases DEF Steps
  <2>2. /\ op' \in Operations /\ op'.kind = "delete" /\ op'.token = 0 /\ op'.passes = 0
        /\ op'.toks = <<>> /\ op'.count = Counted(status) /\ op'.result = Kept(status, toks)
        /\ op'.step = "select" /\ op'.at = op.at + 1
    BY <1>7, <1>9, <2>1 DEF Operations
  <2> QED BY <1>1, <1>3, <1>9, <2>1, <2>2, Databases, IdleTyped
<1>10. CASE Counted(status) = 0 /\ op' = [n EXCEPT !.step = "fallback"] /\ answer' = answer
  BY <1>1, <1>3, <1>7, <1>10 DEF Operations, Idle, Steps
<1>11. CASE op' = Idle /\ answer' = Kept(status, toks)
  BY <1>2, <1>11, IdleTyped
<1> QED BY <1>8, <1>9, <1>10, <1>11

(* What is overwritten is counted.                                         *)
LEMMA Replaced ==
  ASSUME Typed, NEW line \in Copy, op.step \in {"compare", "rewrite", "recompare", "append"},
         Replace(line)
  PROVE  idx' \in Index /\ idx'.line = line /\ lost' \in Nat /\ idx'.tail + lost' = idx.tail + lost
<1>1. /\ op.seen \in Index /\ idx \in Index /\ lost \in Nat
      /\ op.seen.tail <= idx.tail
  BY BoundsAssumption DEF Typed, TypeOK, Operations, Places, IndexSeen
<1>2. op.seen.tail \in 0..MaxAppends /\ idx.tail \in 0..MaxAppends
  BY <1>1 DEF Index
<1>3. idx' = [line |-> line, tail |-> op.seen.tail] /\ lost' = lost + (idx.tail - op.seen.tail)
  BY DEF Replace
<1> QED BY <1>1, <1>2, <1>3, BoundsAssumption DEF Index

(* The end of an operation, whatever it was.                               *)
LEMMA EndTyped ==
  ASSUME Typed, op' = Idle, answer' \in Results, file' \in Copy, UNCHANGED <<rows, idx, lost, backups>>
  PROVE  Typed'
<1>1. TypeOK'
  BY IdleTyped, Step DEF Typed, TypeOK
<1>2. DeletePlaces' /\ UndoPlaces'
  BY IdleTyped DEF DeletePlaces, UndoPlaces
<1>3. IndexSeen'
  BY IdleTyped DEF Typed, Places, IndexSeen
<1> QED BY <1>1, <1>2, <1>3, IdleTyped DEF Typed, Places

(* A database is done with.                                                *)
LEMMA NextDbTyped ==
  ASSUME Typed, op.kind = "delete", AtDb, NEW status \in {"failed", "deleted", "recovery"},
         (NextDb(status, <<op.token>>) /\ op.token # 0) \/ NextDb(status, <<>>),
         UNCHANGED <<data, lost, backups>>
  PROVE  Typed'
<1>1. op.token \in Nat /\ op.token <= Len(backups) /\ Len(backups) \in Nat
  BY LenProperties DEF Typed, TypeOK, Places, DeletePlaces, UndoPlaces, IndexSeen, Operations
<1>2. <<>> \in Seq(Tokens) /\ (op.token # 0 => <<op.token>> \in Seq(Tokens))
  BY <1>1, EmptySeq, SeqDef DEF Tokens
<1>3. PICK toks \in Seq(Tokens) : NextDb(status, toks)
  BY <1>2
<1>4. TypeOK'
  BY <1>3, NextDbOutcome, Step DEF Typed, TypeOK, data
<1>5. op' = Idle \/ (op' # Idle /\ op'.kind = "delete" /\ op'.step \in {"select", "fallback"})
  BY <1>3, NextDbOutcome
<1>6. DeletePlaces'
  BY <1>1, <1>3, NextDbOutcome, IdleTyped DEF DeletePlaces, data, AtDb, RestoreSteps
<1>7. UndoPlaces' /\ IndexSeen'
  BY <1>5, IdleTyped DEF Typed, Places, UndoPlaces, IndexSeen, data
<1> QED BY <1>4, <1>5, <1>6, <1>7, IdleTyped DEF Typed, Places

(* The changes of an operation that the steps make.                        *)
LEMMA Moves ==
  ASSUME Typed
  PROVE  /\ \A t \in Nat : [op EXCEPT !.token = t] \in Operations
         /\ \A s \in Steps :
              /\ [op EXCEPT !.step = s] \in Operations
              /\ \A p \in 0..2 : [op EXCEPT !.step = s, !.passes = p] \in Operations
              /\ \A t \in Nat : [op EXCEPT !.step = s, !.token = t] \in Operations
              /\ \A k \in Seq(Tokens) : [op EXCEPT !.step = s, !.toks = k] \in Operations
              /\ \A x \in Index :
                   /\ [op EXCEPT !.step = s, !.seen = x] \in Operations
                   /\ [op EXCEPT !.step = s, !.seen = x, !.removed = TRUE] \in Operations
<1>1. op \in Operations
  BY DEF Typed, TypeOK
<1>2. \A t \in Nat : [op EXCEPT !.token = t] \in Operations
  BY <1>1 DEF Operations
<1>3. ASSUME NEW s \in Steps
      PROVE  /\ [op EXCEPT !.step = s] \in Operations
             /\ \A p \in 0..2 : [op EXCEPT !.step = s, !.passes = p] \in Operations
             /\ \A t \in Nat : [op EXCEPT !.step = s, !.token = t] \in Operations
  BY <1>1 DEF Operations
<1>4. ASSUME NEW s \in Steps
      PROVE  /\ \A k \in Seq(Tokens) : [op EXCEPT !.step = s, !.toks = k] \in Operations
             /\ \A x \in Index : [op EXCEPT !.step = s, !.seen = x] \in Operations
  BY <1>1 DEF Operations
<1>5. ASSUME NEW s \in Steps
      PROVE  \A x \in Index : [op EXCEPT !.step = s, !.seen = x, !.removed = TRUE] \in Operations
  BY <1>1 DEF Operations
<1> QED BY <1>2, <1>3, <1>4, <1>5

(* Facts about the state that the steps use.                               *)
LEMMA Parts ==
  ASSUME Typed
  PROVE  /\ op \in Operations /\ answer \in Results /\ op.token \in Nat
         /\ Len(backups) \in Nat /\ DOMAIN backups = Tokens
         /\ \A t \in Tokens :
              Backup(t) \in Saved
         /\ op.kind = "delete" /\ AtDb => Db \in DbSet
         /\ op.kind = "delete" /\ op.token # 0 => op.token \in Tokens
         /\ op.toks \in Seq(Tokens) /\ op.result \in Results
         /\ Len(op.toks) \in Nat /\ DOMAIN op.toks = 1..Len(op.toks)
         /\ \A i \in DOMAIN op.toks : op.toks[i] \in Tokens
<1>1. backups \in Seq(Saved)
  BY DEF Typed, TypeOK
<1>2. /\ op \in Operations /\ answer \in Results /\ op.token \in Nat
      /\ op.toks \in Seq(Tokens) /\ op.result \in Results
  BY DEF Typed, TypeOK, Operations
<1>3. Len(backups) \in Nat /\ DOMAIN backups = Tokens
  BY <1>1, LenProperties DEF Tokens
<1>4. \A t \in Tokens :
        Backup(t) \in Saved
  BY <1>1, <1>3, ElementOfSeq DEF Backup, Tokens
<1>5. op.kind = "delete" /\ AtDb => Db \in DbSet
  BY Databases DEF Typed, Places, DeletePlaces, UndoPlaces, IndexSeen, Db
<1>6. op.kind = "delete" /\ op.token # 0 => op.token \in Tokens
  BY <1>2, <1>3 DEF Typed, Places, DeletePlaces, UndoPlaces, IndexSeen, Tokens
<1>7. Len(op.toks) \in Nat /\ DOMAIN op.toks = 1..Len(op.toks)
  BY <1>2, LenProperties
<1>8. \A i \in DOMAIN op.toks : op.toks[i] \in Tokens
  BY <1>2, <1>7, ElementOfSeq
<1> QED BY <1>1, <1>2, <1>3, <1>4, <1>5, <1>6, <1>7, <1>8

(* A deletion that is rolled back is at a check that must refuse; so what  *)
(* is restored belongs to an undo.                                         *)
LEMMA OnlyUndoRestores ==
  ASSUME Typed
  PROVE  /\ op.kind = "delete" /\ At("check") => Conflict(Current)
         /\ op.step \in RestoreSteps => op.kind = "undo"
         /\ op.kind = "undo" => Position = op.token /\ op.toks[Position] \in Tokens
         /\ op.kind \in {"none", "delete", "undo"}
<1>1. op.kind = "delete" /\ At("check") => Conflict(Current)
  <2> SUFFICES ASSUME op.kind = "delete", At("check") PROVE Conflict(Current)
    OBVIOUS
  <2>1. op.toks = <<op.token>> /\ Position = 1 /\ Backup(op.token).file # "none" /\ file # "none"
    BY DEF Typed, Places, DeletePlaces, UndoPlaces, IndexSeen, At, Position
  <2> QED BY <2>1 DEF Conflict, Current
<1>2. op.kind \in {"none", "delete", "undo"}
  BY Parts DEF Operations
<1>3. op.step \in RestoreSteps => op.kind = "undo"
  BY <1>2, IdleTyped DEF Typed, Places, DeletePlaces, UndoPlaces, IndexSeen, RestoreSteps
<1>4. op.kind = "undo" => Position = op.token /\ op.toks[Position] \in Tokens
  BY Parts DEF Typed, Places, DeletePlaces, UndoPlaces, IndexSeen, Position
<1> QED BY <1>1, <1>2, <1>3, <1>4

(* A deletion that goes on at the index.                                   *)
LEMMA AtIndex ==
  ASSUME Typed, op.kind = "delete", op.step \in {"file", "index", "compare", "rewrite", "cleaned"},
         op' \in Operations, op'.step \in {"index", "compare", "rewrite", "cleaned"},
         op'.kind = "delete", op'.token = op.token, op'.at = op.at, op'.count = op.count,
         op'.passes = op.passes \/ (op.passes > 1 /\ op'.passes = op.passes - 1),
         file' \in Copy, idx' \in Index, lost' \in Nat, UNCHANGED <<rows, backups, answer>>,
         idx'.tail + lost' = idx.tail + lost,
         op'.step \in {"compare", "rewrite"} => op'.seen.tail <= idx'.tail
  PROVE  Typed'
<1>1. idx'.tail + lost' <= MaxAppends /\ idx'.tail \in Nat
  BY BoundsAssumption DEF Typed, Places, IndexSeen, Index
<1>2. lost' \in 0..MaxAppends
  BY <1>1, BoundsAssumption
<1>3. TypeOK'
  BY <1>2, Step DEF Typed, TypeOK
<1>4. op.passes \in Nat
  BY Parts DEF Operations
<1>5. DeletePlaces'
  BY <1>4 DEF Typed, Places, DeletePlaces, AtDb, RestoreSteps
<1>6. UndoPlaces' /\ IndexSeen'
  BY <1>1 DEF UndoPlaces, IndexSeen
<1> QED BY <1>3, <1>5, <1>6, IdleTyped DEF Typed, Places

(* Steps of a deletion.                                                    *)
LEMMA DeletionTyped ==
  ASSUME Typed
  PROVE  /\ BeginDelete \/ NotDeleted \/ WriteBackup \/ DeleteRow \/ DeleteRowFails => Typed'
         /\ RemoveFile \/ RemoveFileFails => Typed'
         /\ RemoveLineRead \/ RemoveLineCompare \/ RemoveLine \/ LineStays \/ CleanAgain => Typed'
         /\ Deleted \/ Fallback \/ FallbackFails \/ FallbackDone => Typed'
<1>0. /\ op.kind \in {"none", "delete", "undo"} /\ op.step \in Steps /\ op.passes \in 0..2
      /\ \A step \in Steps \ {"idle"} : At(step) => op.kind # "none"
      /\ \A step \in Steps \ (RestoreSteps \cup {"idle", "check"}) : At(step) => op.kind = "delete"
  BY Parts, IdleTyped DEF Operations, Typed, Places, DeletePlaces, UndoPlaces, IndexSeen, At
<1>1. ASSUME BeginDelete PROVE Typed'
  <2>1. CASE Dbs = <<>>
    <3>1. op' = [Idle EXCEPT !.kind = "delete", !.step = "fallback"] /\ answer' = Failed
      BY <1>1, <2>1 DEF BeginDelete
    <3>2. /\ op' \in Operations /\ op'.kind = "delete" /\ op'.step = "fallback" /\ op'.token = 0
          /\ op'.passes = 0 /\ op'.count = 0
      BY <3>1, IdleTyped, StepNames DEF Operations, Idle
    <3>3. TypeOK'
      BY <1>1, <3>1, <3>2, IdleTyped, Step DEF BeginDelete, data, Typed, TypeOK
    <3>4. DeletePlaces' /\ UndoPlaces'
      BY <1>1, <3>2, Parts DEF BeginDelete, DeletePlaces, UndoPlaces, AtDb, RestoreSteps
    <3>5. IndexSeen'
      BY <1>1, <3>2 DEF BeginDelete, data, Typed, Places, IndexSeen
    <3> QED BY <3>2, <3>3, <3>4, <3>5, IdleTyped DEF Typed, Places
  <2>2. CASE Dbs # <<>>
    <3>1. op' = [Idle EXCEPT !.kind = "delete", !.step = "select", !.at = 1] /\ answer' = Failed
      BY <1>1, <2>2 DEF BeginDelete
    <3>2. 1 \in 0..Len(Dbs) /\ 1 \in DOMAIN Dbs
      BY <2>2, Databases
    <3>3. /\ op' \in Operations /\ op'.kind = "delete" /\ op'.step = "select" /\ op'.token = 0
          /\ op'.passes = 0 /\ op'.count = 0 /\ op'.at = 1
      BY <3>1, <3>2, IdleTyped, StepNames DEF Operations, Idle
    <3>4. TypeOK'
      BY <1>1, <3>1, <3>3, IdleTyped, Step DEF BeginDelete, data, Typed, TypeOK
    <3>5. DeletePlaces' /\ UndoPlaces'
      BY <1>1, <3>2, <3>3, Parts DEF BeginDelete, DeletePlaces, UndoPlaces, AtDb, RestoreSteps
    <3>6. IndexSeen'
      BY <1>1, <3>3 DEF BeginDelete, data, Typed, Places, IndexSeen
    <3> QED BY <3>3, <3>4, <3>5, <3>6, IdleTyped DEF Typed, Places
  <2> QED BY <2>1, <2>2
<1>2. ASSUME NotDeleted PROVE Typed'
  <2>1. op.kind = "delete" /\ AtDb
    BY <1>0, <1>2, StepNames DEF NotDeleted, At, AtDb, RestoreSteps
  <2> QED BY <1>2, <2>1, NextDbTyped DEF NotDeleted
<1>3. ASSUME DeleteRowFails PROVE Typed'
  <2>1. op.kind = "delete" /\ AtDb /\ op.token # 0
    BY <1>0, <1>3, StepNames DEF DeleteRowFails, Typed, Places, DeletePlaces, UndoPlaces, IndexSeen, At, AtDb, RestoreSteps
  <2> QED BY <1>3, <2>1, NextDbTyped DEF DeleteRowFails
<1>4. ASSUME Deleted PROVE Typed'
  <2>1. op.kind = "delete" /\ AtDb /\ op.token # 0
    BY <1>0, <1>4, StepNames DEF Deleted, Typed, Places, DeletePlaces, UndoPlaces, IndexSeen, At, AtDb, RestoreSteps
  <2> QED BY <1>4, <2>1, NextDbTyped DEF Deleted
<1>5. ASSUME WriteBackup PROVE Typed'
  <2>1. op.kind = "delete" /\ op.step = "select" /\ AtDb /\ Db \in DbSet
    BY <1>0, <1>5, StepNames, Parts DEF WriteBackup, At, AtDb, RestoreSteps
  <2>2. PICK f \in {"none", FileOf(Db)}, l \in {"none", idx.line} :
          backups' = Append(backups, [db |-> Db, row |-> rows[Db], file |-> f, line |-> l])
    BY <1>5 DEF WriteBackup
  <2> DEFINE b == [db |-> Db, row |-> rows[Db], file |-> f, line |-> l]
  <2>3. b \in Saved
    BY <2>1 DEF FileOf, Typed, TypeOK, Index, Saved, Copy
  <2> HIDE DEF b
  <2>4. /\ backups' \in Seq(Saved) /\ Len(backups') = Len(backups) + 1 /\ Len(backups') <= MaxBackups
        /\ Len(backups) \in Nat /\ op \in Operations' /\ answer \in Results'
    BY <1>5, <2>2, <2>3, OneMore DEF WriteBackup, b
  <2>5. op' = [op EXCEPT !.step = "delete", !.token = Len(backups) + 1]
    BY <1>5 DEF WriteBackup
  <2>6. /\ op'.step = "delete" /\ op'.token = Len(backups) + 1 /\ op'.kind = "delete"
        /\ op'.at = op.at /\ op'.count = op.count /\ op'.passes = op.passes
    BY <2>1, <2>5, Parts DEF Operations
  <2>10. op' \in Operations'
    <3>1. Len(backups) + 1 \in Nat /\ "delete" \in Steps
      BY <2>4, StepNames
    <3> QED BY <2>4, <2>5, <3>1 DEF Operations
  <2>7. TypeOK'
    BY <1>5, <2>4, <2>10 DEF WriteBackup, data, Typed, TypeOK
  <2>8. DeletePlaces' /\ UndoPlaces'
    BY <2>1, <2>4, <2>6 DEF Typed, Places, DeletePlaces, UndoPlaces, AtDb, RestoreSteps
  <2>9. IndexSeen'
    BY <1>5, <2>6 DEF WriteBackup, data, Typed, Places, IndexSeen
  <2> QED BY <2>6, <2>7, <2>8, <2>9, IdleTyped DEF Typed, Places
<1>6. ASSUME DeleteRow PROVE Typed'
  <2>1. op.kind = "delete" /\ AtDb /\ op.token # 0 /\ op.step = "delete"
    BY <1>0, <1>6, StepNames DEF DeleteRow, Typed, Places, DeletePlaces, UndoPlaces, IndexSeen, At, AtDb, RestoreSteps
  <2> DEFINE s == IF Backup(op.token).file = "none" THEN "index" ELSE "file"
  <2>2. op' = [op EXCEPT !.step = s, !.passes = Cleanings(Db)]
    BY <1>6 DEF DeleteRow
  <2>3. s \in Steps /\ (s = "index" \/ (s = "file" /\ Backup(op.token).file # "none"))
    BY StepNames
  <2>4. Cleanings(Db) \in 0..2 /\ Cleanings(Db) > 0
    BY DEF Cleanings
  <2> HIDE DEF s
  <2>5. op' \in Operations /\ answer' \in Results
    <3>1. op' \in Operations
      BY <2>2, <2>3, <2>4, Moves
    <3>2. answer' \in Results
      BY <1>6, Parts DEF DeleteRow
    <3> QED BY <3>1, <3>2
  <2>6. /\ op'.step = s /\ op'.passes = Cleanings(Db) /\ op'.kind = op.kind /\ op'.token = op.token
        /\ op'.count = op.count /\ op'.at = op.at
    BY <2>2, Parts DEF Operations
  <2>7. rows' \in [DbSet -> Copy]
    BY <1>6 DEF DeleteRow, Typed, TypeOK, Copy
  <2>8. TypeOK'
    BY <1>6, <2>5, <2>7, Step DEF DeleteRow, Typed, TypeOK
  <2>9. DeletePlaces' /\ UndoPlaces'
    BY <1>6, <2>1, <2>3, <2>4, <2>6
    DEF DeleteRow, Typed, Places, DeletePlaces, UndoPlaces, AtDb, RestoreSteps, Backup
  <2>10. IndexSeen'
    BY <1>6, <2>3, <2>6 DEF DeleteRow, Typed, Places, IndexSeen
  <2> QED BY <2>1, <2>3, <2>6, <2>8, <2>9, <2>10, IdleTyped DEF Typed, Places
<1>7. ASSUME RemoveFile PROVE Typed'
  <2>1. op.kind = "delete" /\ op.step = "file"
    BY <1>0, <1>7, StepNames DEF RemoveFile, At, RestoreSteps
  <2>2. op' = [op EXCEPT !.step = "index"] /\ file' = "none" /\ UNCHANGED <<rows, idx, lost, backups, answer>>
    BY <1>7 DEF RemoveFile
  <2>3. op' \in Operations
    BY <2>2, Moves, StepNames
  <2>4. /\ op'.step = "index" /\ op'.kind = op.kind /\ op'.token = op.token /\ op'.at = op.at
        /\ op'.count = op.count /\ op'.passes = op.passes
    BY <2>2, Parts DEF Operations
  <2>5. file' \in Copy /\ idx' \in Index /\ lost' \in Nat
    BY <2>2, BoundsAssumption DEF Typed, TypeOK, Copy
  <2> QED BY <2>1, <2>2, <2>3, <2>4, <2>5, AtIndex
<1>8. ASSUME RemoveFileFails PROVE Typed'
  <2>1. op.kind = "delete" /\ op.step = "file" /\ file # "none"
    BY <1>0, <1>8, StepNames DEF RemoveFileFails, At, RestoreSteps
  <2>2. op.token \in Tokens
    BY <2>1, Parts DEF Typed, Places, DeletePlaces
  <2>3. <<op.token>> \in Seq(Tokens)
    BY <2>2, SeqDef
  <2>4. op' = [op EXCEPT !.step = "check", !.toks = <<op.token>>] /\ UNCHANGED <<data, lost, backups, answer>>
    BY <1>8 DEF RemoveFileFails
  <2>5. op' \in Operations
    BY <2>3, <2>4, Moves, StepNames
  <2>6. /\ op'.step = "check" /\ op'.kind = op.kind /\ op'.token = op.token /\ op'.at = op.at
        /\ op'.count = op.count /\ op'.passes = op.passes /\ op'.toks = <<op.token>>
    BY <2>4, Parts DEF Operations
  <2>7. TypeOK'
    BY <2>4, <2>5, Step DEF data, Typed, TypeOK
  <2>8. DeletePlaces' /\ UndoPlaces'
    BY <2>1, <2>4, <2>6 DEF data, Typed, Places, DeletePlaces, UndoPlaces, AtDb, RestoreSteps, Backup
  <2>9. IndexSeen'
    BY <2>4, <2>6 DEF data, Typed, Places, IndexSeen
  <2> QED BY <2>1, <2>6, <2>7, <2>8, <2>9, IdleTyped DEF Typed, Places
<1>9. ASSUME RemoveLineRead PROVE Typed'
  <2>1. op.kind = "delete" /\ op.step = "index"
    BY <1>0, <1>9, StepNames DEF RemoveLineRead, At, RestoreSteps
  <2>2. op' = [op EXCEPT !.step = "compare", !.seen = idx] /\ UNCHANGED <<data, lost, backups, answer>>
    BY <1>9 DEF RemoveLineRead
  <2>3. idx \in Index /\ file \in Copy /\ lost \in Nat
    BY BoundsAssumption DEF Typed, TypeOK
  <2>4. op' \in Operations
    BY <2>2, <2>3, Moves, StepNames
  <2>5. /\ op'.step = "compare" /\ op'.kind = op.kind /\ op'.token = op.token /\ op'.at = op.at
        /\ op'.count = op.count /\ op'.passes = op.passes /\ op'.seen = idx
    BY <2>2, Parts DEF Operations
  <2>6. op'.seen.tail <= idx.tail
    BY <2>3, <2>5, BoundsAssumption DEF Index
  <2> QED BY <2>1, <2>2, <2>3, <2>4, <2>5, <2>6, AtIndex DEF data
<1>10. ASSUME RemoveLineCompare PROVE Typed'
  <2>1. op.kind = "delete" /\ op.step = "compare"
    BY <1>0, <1>10, StepNames DEF RemoveLineCompare, At, RestoreSteps
  <2>2. op' = [op EXCEPT !.step = "rewrite"] /\ UNCHANGED <<data, lost, backups, answer>>
    BY <1>10 DEF RemoveLineCompare
  <2>3. idx \in Index /\ file \in Copy /\ lost \in Nat /\ op.seen.tail <= idx.tail
    BY <2>1, BoundsAssumption DEF Typed, TypeOK, Places, IndexSeen
  <2>4. op' \in Operations
    BY <2>2, Moves, StepNames
  <2>5. /\ op'.step = "rewrite" /\ op'.kind = op.kind /\ op'.token = op.token /\ op'.at = op.at
        /\ op'.count = op.count /\ op'.passes = op.passes /\ op'.seen = op.seen
    BY <2>2, Parts DEF Operations
  <2> QED BY <2>1, <2>2, <2>3, <2>4, <2>5, AtIndex DEF data
<1>11. ASSUME RemoveLine PROVE Typed'
  <2>1. op.kind = "delete" /\ op.step = "rewrite"
    BY <1>0, <1>11, StepNames DEF RemoveLine, At, RestoreSteps
  <2>2. /\ op' = [op EXCEPT !.step = "cleaned", !.seen = Unread, !.removed = TRUE]
        /\ Replace("none") /\ UNCHANGED <<rows, file, backups, answer>>
    BY <1>11 DEF RemoveLine
  <2>3. op' \in Operations /\ "none" \in Copy
    BY <2>2, Moves, StepNames, IdleTyped DEF Copy
  <2>4. /\ op'.step = "cleaned" /\ op'.kind = op.kind /\ op'.token = op.token /\ op'.at = op.at
        /\ op'.count = op.count /\ op'.passes = op.passes
    BY <2>2, Parts DEF Operations
  <2>5. file' \in Copy /\ idx' \in Index /\ lost' \in Nat /\ idx'.tail + lost' = idx.tail + lost
    BY <2>1, <2>2, <2>3, Replaced DEF Typed, TypeOK
  <2> QED BY <2>1, <2>2, <2>3, <2>4, <2>5, AtIndex
<1>12. ASSUME LineStays PROVE Typed'
  <2>1. op.kind = "delete" /\ op.step \in {"index", "compare", "rewrite"}
    BY <1>0, <1>12, StepNames DEF LineStays, At, RestoreSteps
  <2>2. op' = [op EXCEPT !.step = "cleaned", !.seen = Unread] /\ UNCHANGED <<data, lost, backups, answer>>
    BY <1>12 DEF LineStays
  <2>3. op' \in Operations
    BY <2>2, Moves, StepNames, IdleTyped
  <2>4. /\ op'.step = "cleaned" /\ op'.kind = op.kind /\ op'.token = op.token /\ op'.at = op.at
        /\ op'.count = op.count /\ op'.passes = op.passes
    BY <2>2, Parts DEF Operations
  <2>5. idx \in Index /\ file \in Copy /\ lost \in Nat
    BY BoundsAssumption DEF Typed, TypeOK
  <2> QED BY <2>1, <2>2, <2>3, <2>4, <2>5, AtIndex DEF data
<1>13. ASSUME CleanAgain PROVE Typed'
  <2>1. op.kind = "delete" /\ op.step = "cleaned" /\ op.passes > 1
    BY <1>0, <1>13, StepNames DEF CleanAgain, At, RestoreSteps
  <2>2. op' = [op EXCEPT !.step = "index", !.passes = op.passes - 1] /\ UNCHANGED <<data, lost, backups, answer>>
    BY <1>13 DEF CleanAgain
  <2>3. op' \in Operations
    <3>1. op.passes - 1 \in 0..2
      BY <1>0, <2>1
    <3> QED BY <2>2, <3>1, Moves, StepNames
  <2>4. /\ op'.step = "index" /\ op'.kind = op.kind /\ op'.token = op.token /\ op'.at = op.at
        /\ op'.count = op.count /\ op'.passes = op.passes - 1
    BY <2>2, Parts DEF Operations
  <2>5. idx \in Index /\ file \in Copy /\ lost \in Nat
    BY BoundsAssumption DEF Typed, TypeOK
  <2> QED BY <2>1, <2>2, <2>3, <2>4, <2>5, AtIndex DEF data
<1>14. ASSUME Fallback PROVE Typed'
  <2>1. op.kind = "delete" /\ op.step = "fallback" /\ op.passes = 0 /\ op.count = 0 /\ op.token = 0
    BY <1>0, <1>14, StepNames DEF Fallback, At, RestoreSteps, Typed, Places, DeletePlaces, AtDb
  <2>2. UNCHANGED <<data, lost, answer>>
    BY <1>14 DEF Fallback
  <2>3. CASE UNCHANGED backups /\ op' = [op EXCEPT !.step = "index"]
    <3>1. op' \in Operations
      BY <2>3, Moves, StepNames
    <3>2. /\ op'.step = "index" /\ op'.kind = "delete" /\ op'.token = 0 /\ op'.passes = 0 /\ op'.count = 0
      BY <2>1, <2>3, Parts DEF Operations
    <3>3. TypeOK'
      BY <2>2, <2>3, <3>1, Step DEF data, Typed, TypeOK
    <3>4. DeletePlaces' /\ UndoPlaces'
      BY <3>2, <2>3, Parts DEF DeletePlaces, UndoPlaces, AtDb, RestoreSteps
    <3>5. IndexSeen'
      BY <2>2, <3>2 DEF data, Typed, Places, IndexSeen
    <3> QED BY <3>2, <3>3, <3>4, <3>5, IdleTyped DEF Typed, Places
  <2>4. CASE /\ Len(backups) < MaxBackups
             /\ backups' = Append(backups, [db |-> "none", row |-> "none", file |-> "none",
                                            line |-> idx.line])
             /\ op' = [op EXCEPT !.step = "index", !.token = Len(backups) + 1]
    <3> DEFINE b == [db |-> "none", row |-> "none", file |-> "none", line |-> idx.line]
    <3>1. b \in Saved
      BY DEF Typed, TypeOK, Index, Saved, Copy
    <3> HIDE DEF b
    <3>2. /\ backups' \in Seq(Saved) /\ Len(backups') = Len(backups) + 1 /\ Len(backups') <= MaxBackups
          /\ Len(backups) \in Nat /\ op \in Operations' /\ answer \in Results'
      BY <2>4, <3>1, OneMore DEF b
    <3>3. /\ op'.step = "index" /\ op'.token = Len(backups) + 1 /\ op'.kind = "delete"
          /\ op'.count = 0 /\ op'.passes = 0
      BY <2>1, <2>4, Parts DEF Operations
    <3>4. op' \in Operations'
      <4>1. Len(backups) + 1 \in Nat /\ "index" \in Steps
        BY <3>2, StepNames
      <4> QED BY <2>4, <3>2, <4>1 DEF Operations
    <3>5. TypeOK'
      BY <2>2, <3>2, <3>4 DEF data, Typed, TypeOK
    <3>6. DeletePlaces' /\ UndoPlaces'
      BY <3>2, <3>3 DEF DeletePlaces, UndoPlaces, AtDb, RestoreSteps
    <3>7. IndexSeen'
      BY <2>2, <3>3 DEF data, Typed, Places, IndexSeen
    <3> QED BY <3>3, <3>5, <3>6, <3>7, IdleTyped DEF Typed, Places
  <2> QED BY <1>14, <2>3, <2>4 DEF Fallback
<1>15. ASSUME FallbackFails PROVE Typed'
  <2>1. op' = Idle /\ answer' \in Results
    BY <1>15, Parts DEF FallbackFails
  <2> QED BY <1>15, <2>1, EndTyped DEF FallbackFails, data, Typed, TypeOK
<1>16. ASSUME FallbackDone PROVE Typed'
  <2>1. op.kind = "delete"
    BY <1>0, <1>16, StepNames DEF FallbackDone, At, RestoreSteps
  <2>2. (op.token # 0 => <<op.token>> \in Seq(Tokens)) /\ op.result.toks \in Seq(Tokens)
    BY <2>1, Parts, SeqDef DEF Results
  <2>3. op' = Idle /\ answer' \in Results
    BY <1>16, <2>2, Parts DEF FallbackDone, Results
  <2> QED BY <1>16, <2>3, EndTyped DEF FallbackDone, data, Typed, TypeOK
<1> QED BY <1>1, <1>2, <1>3, <1>4, <1>5, <1>6, <1>7, <1>8, <1>9, <1>10, <1>11, <1>12, <1>13, <1>14,
           <1>15, <1>16

(* A restore that goes on with an undo.                                    *)
LEMMA AtRestore ==
  ASSUME Typed, op.kind = "undo", op' \in Operations, op'.kind = "undo", op'.toks = op.toks,
         op'.step \in RestoreSteps \cup {"check"}, op'.token \in DOMAIN op.toks,
         rows' \in [DbSet -> Copy], file' \in Copy, idx' \in Index, lost' \in Nat,
         UNCHANGED <<backups, answer>>, idx'.tail + lost' = idx.tail + lost,
         op'.step \in {"recompare", "append"} => op'.seen.tail <= idx'.tail
  PROVE  Typed'
<1>1. idx'.tail + lost' <= MaxAppends /\ idx'.tail \in Nat
  BY BoundsAssumption DEF Typed, Places, IndexSeen, Index
<1>2. lost' \in 0..MaxAppends
  BY <1>1, BoundsAssumption
<1>3. TypeOK'
  BY <1>2, Step DEF Typed, TypeOK
<1>4. DeletePlaces' /\ UndoPlaces' /\ IndexSeen'
  BY <1>1 DEF DeletePlaces, UndoPlaces, IndexSeen, RestoreSteps
<1>5. op'.step # "idle"
  BY DEF RestoreSteps
<1> QED BY <1>3, <1>4, <1>5, IdleTyped DEF Typed, Places

(* The end of restore_backups, of an undo or of a rollback.                *)
LEMMA EndRestoreTyped ==
  ASSUME Typed, NEW ok \in BOOLEAN, EndRestore(ok), op.step \in RestoreSteps \cup {"check"},
         file' \in Copy, op.kind = "delete" => file' = file, UNCHANGED <<rows, idx, lost, backups>>
  PROVE  Typed'
<1>1. CASE op.kind = "undo"
  <2>1. op' = Idle /\ answer' = [status |-> IF ok THEN "undone" ELSE "failed", toks |-> op.toks]
    BY <1>1 DEF EndRestore
  <2>2. answer' \in Results
    BY <2>1, Parts DEF Results
  <2> QED BY <2>1, <2>2, EndTyped
<1>2. CASE op.kind # "undo"
  <2>1. op.kind = "delete" /\ AtDb /\ op.token # 0
    BY <1>2, Parts, IdleTyped DEF Operations, Typed, Places, DeletePlaces, AtDb, RestoreSteps
  <2>2. PICK status \in {"failed", "recovery"} : NextDb(status, <<op.token>>)
    BY <1>2 DEF EndRestore
  <2> QED BY <2>1, <2>2, NextDbTyped DEF data
<1> QED BY <1>1, <1>2

(* Steps of an undo.                                                       *)
LEMMA RestoreTyped ==
  ASSUME Typed
  PROVE  /\ BeginUndo \/ CheckPasses \/ CheckRefuses \/ InsertRow \/ WriteFile => Typed'
         /\ AddLineRead \/ AddLineCompare \/ AddLine \/ LineNotAdded => Typed'
         /\ RestoreFails \/ Restored => Typed'
<1>0. /\ op \in Operations /\ rows \in [DbSet -> Copy] /\ file \in Copy /\ idx \in Index /\ lost \in Nat
      /\ op.token \in Nat /\ op.token + 1 \in Nat /\ 1 \in Nat /\ "insert" \in Steps
  BY BoundsAssumption DEF Typed, TypeOK, Operations, Steps
<1>1. ASSUME NEW step, At(step), step \in RestoreSteps
      PROVE  /\ op.kind = "undo" /\ op.step = step /\ op.step \in RestoreSteps \cup {"check"}
             /\ op.token \in DOMAIN op.toks /\ Position = op.token
             /\ Current \in Saved
  BY <1>1, OnlyUndoRestores, Parts DEF At, Typed, Places, UndoPlaces, Current
<1>2. \A step \in {"insert", "write", "reindex", "recompare", "append", "restored"} : step \in RestoreSteps
  BY DEF RestoreSteps
<1>3. ASSUME BeginUndo PROVE Typed'
  <2>1. /\ op' = [Idle EXCEPT !.kind = "undo", !.step = "check", !.toks = answer.toks,
                              !.token = 1, !.base = Data]
        /\ UNCHANGED <<data, lost, backups, answer>>
    BY <1>3 DEF BeginUndo
  <2>2. Data \in Found
    BY <1>0 DEF Data, Found, Index
  <2>3. answer.toks \in Seq(Tokens) /\ answer.toks # <<>> /\ 1 \in DOMAIN answer.toks
    BY <1>3, Parts, EmptySeq, LenProperties DEF BeginUndo, Results
  <2>4. op' \in Operations
    BY <2>1, <2>2, <2>3, IdleTyped, StepNames DEF Operations
  <2>5. op'.kind = "undo" /\ op'.step = "check" /\ op'.toks = answer.toks /\ op'.token = 1
    BY <2>1, IdleTyped DEF Operations
  <2>6. TypeOK'
    BY <2>1, <2>4, Step DEF data, Typed, TypeOK
  <2>7. DeletePlaces' /\ UndoPlaces'
    BY <2>3, <2>5 DEF DeletePlaces, UndoPlaces
  <2>8. IndexSeen'
    BY <2>1, <2>5 DEF data, Typed, Places, IndexSeen
  <2> QED BY <2>5, <2>6, <2>7, <2>8, IdleTyped DEF Typed, Places
<1>4. ASSUME CheckPasses PROVE Typed'
  <2>1. op.kind = "undo" /\ Position = op.token /\ op.token \in DOMAIN op.toks /\ op.step = "check"
    BY <1>4, OnlyUndoRestores, IdleTyped DEF CheckPasses, At, Typed, Places, UndoPlaces
  <2>2. 1 \in DOMAIN op.toks /\ (More => op.token + 1 \in DOMAIN op.toks)
    BY <2>1, Parts DEF More
  <2>3. UNCHANGED <<data, lost, backups, answer>>
    BY <1>4 DEF CheckPasses
  <2>4. CASE More
    <3>1. op' = [op EXCEPT !.token = op.token + 1]
      BY <1>4, <2>4 DEF CheckPasses
    <3>2. op' \in Operations
      BY <1>0, <3>1, Moves
    <3>3. op'.kind = "undo" /\ op'.toks = op.toks /\ op'.step = "check" /\ op'.token = op.token + 1
      BY <1>0, <2>1, <3>1 DEF Operations
    <3> QED BY <1>0, <2>1, <2>2, <2>3, <2>4, <3>2, <3>3, AtRestore DEF data
  <2>5. CASE ~ More
    <3>1. op' = [op EXCEPT !.step = "insert", !.token = 1]
      BY <1>4, <2>1, <2>5 DEF CheckPasses
    <3>2. op' \in Operations
      BY <1>0, <3>1, Moves
    <3>3. op'.kind = "undo" /\ op'.toks = op.toks /\ op'.step = "insert" /\ op'.token = 1
      BY <1>0, <2>1, <3>1 DEF Operations
    <3> QED BY <1>0, <1>2, <2>1, <2>2, <2>3, <3>2, <3>3, AtRestore DEF data
  <2> QED BY <2>4, <2>5
<1>5. ASSUME CheckRefuses PROVE Typed'
  BY <1>0, <1>5, EndRestoreTyped DEF CheckRefuses, At, data
<1>6. ASSUME NEW step, op' = [op EXCEPT !.step = step], step \in RestoreSteps,
             op.step \in RestoreSteps, step \in {"recompare", "append"} => op.seen.tail <= idx'.tail
      PROVE  /\ op.kind = "undo" /\ op' \in Operations /\ op'.kind = "undo" /\ op'.toks = op.toks
             /\ op'.step = step /\ op'.token = op.token /\ op'.token \in DOMAIN op.toks
             /\ op'.step \in {"recompare", "append"} => op'.seen.tail <= idx'.tail
  <2>1. step \in Steps
    BY <1>6, StepNames DEF RestoreSteps
  <2>2. op' \in Operations
    BY <1>6, <2>1, Moves
  <2>3. /\ op'.kind = op.kind /\ op'.toks = op.toks /\ op'.step = step /\ op'.token = op.token
        /\ op'.seen = op.seen
    BY <1>0, <1>6 DEF Operations
  <2> QED BY <1>6, <2>2, <2>3, OnlyUndoRestores DEF Typed, Places, UndoPlaces
<1>7. ASSUME InsertRow PROVE Typed'
  <2>1. op.step = "insert" /\ Current \in Saved
    BY <1>1, <1>2, <1>7 DEF InsertRow, At
  <2>2. rows' \in [DbSet -> Copy]
    BY <1>0, <1>7, <2>1 DEF InsertRow, Saved
  <2> QED BY <1>0, <1>2, <1>6, <1>7, <2>1, <2>2, AtRestore DEF InsertRow
<1>8. ASSUME WriteFile PROVE Typed'
  <2>1. op.step = "write" /\ Current \in Saved
    BY <1>1, <1>2, <1>8 DEF WriteFile, At
  <2>2. file' \in Copy
    BY <1>0, <1>8, <2>1 DEF WriteFile, Saved
  <2>3. PICK step \in {"restored", "reindex"} : op' = [op EXCEPT !.step = step]
    BY <1>8 DEF WriteFile
  <2> QED BY <1>0, <1>2, <1>6, <1>8, <2>1, <2>2, <2>3, AtRestore DEF WriteFile
<1>9. ASSUME NEW step \in {"recompare", "restored"}, NEW seen \in Index,
             op' = [op EXCEPT !.step = step, !.seen = seen], op.step \in RestoreSteps,
             step = "recompare" => seen.tail <= idx'.tail
      PROVE  /\ op.kind = "undo" /\ op' \in Operations /\ op'.kind = "undo" /\ op'.toks = op.toks
             /\ op'.step = step /\ op'.token = op.token /\ op'.token \in DOMAIN op.toks
             /\ op'.step \in {"recompare", "append"} => op'.seen.tail <= idx'.tail
  <2>1. step \in Steps
    BY StepNames
  <2>2. op' \in Operations
    BY <1>9, <2>1, Moves
  <2>3. /\ op'.kind = op.kind /\ op'.toks = op.toks /\ op'.step = step /\ op'.token = op.token
        /\ op'.seen = seen
    BY <1>0, <1>9 DEF Operations
  <2> QED BY <1>9, <2>2, <2>3, OnlyUndoRestores DEF Typed, Places, UndoPlaces
<1>10. ASSUME AddLineRead PROVE Typed'
  <2>1. op.step = "reindex" /\ op' = [op EXCEPT !.step = "recompare", !.seen = idx]
    BY <1>10 DEF AddLineRead, At
  <2>2. UNCHANGED <<data, lost, backups, answer>>
    BY <1>10 DEF AddLineRead
  <2>3. idx.tail <= idx'.tail
    BY <1>0, <2>2, BoundsAssumption DEF Index, data
  <2> QED BY <1>0, <1>2, <1>9, <2>1, <2>2, <2>3, AtRestore DEF data
<1>11. ASSUME AddLineCompare PROVE Typed'
  <2>1. op.step = "recompare" /\ op' = [op EXCEPT !.step = "append"]
    BY <1>11 DEF AddLineCompare, At
  <2>2. UNCHANGED <<data, lost, backups, answer>>
    BY <1>11 DEF AddLineCompare
  <2>3. op.seen.tail <= idx'.tail
    BY <2>1, <2>2 DEF Typed, Places, IndexSeen, data
  <2> QED BY <1>0, <1>2, <1>6, <2>1, <2>2, <2>3, AtRestore DEF data
<1>12. ASSUME AddLine PROVE Typed'
  <2>1. op.step = "append" /\ op' = [op EXCEPT !.step = "restored", !.seen = Unread]
    BY <1>12 DEF AddLine, At
  <2>2. Current.line \in Copy
    BY <1>1, <1>2, <2>1 DEF At, Saved
  <2>3. idx' \in Index /\ lost' \in Nat /\ idx'.tail + lost' = idx.tail + lost
    BY <1>12, <2>1, <2>2, Replaced DEF AddLine
  <2> QED BY <1>0, <1>2, <1>9, <1>12, <2>1, <2>3, IdleTyped, AtRestore DEF AddLine
<1>13. ASSUME LineNotAdded PROVE Typed'
  <2>1. op.step \in {"reindex", "recompare"} /\ op' = [op EXCEPT !.step = "restored", !.seen = Unread]
    BY <1>13 DEF LineNotAdded, At
  <2>2. UNCHANGED <<data, lost, backups, answer>>
    BY <1>13 DEF LineNotAdded
  <2> QED BY <1>0, <1>2, <1>9, <2>1, <2>2, IdleTyped, AtRestore DEF data
<1>14. ASSUME RestoreFails PROVE Typed'
  <2>1. op.step \in RestoreSteps /\ op.kind = "undo"
    BY <1>2, <1>14, OnlyUndoRestores DEF RestoreFails
  <2>2. file' \in Copy
    BY <1>0, <1>14 DEF RestoreFails, CutOff, Copy
  <2> QED BY <1>14, <2>1, <2>2, EndRestoreTyped DEF RestoreFails
<1>15. ASSUME Restored PROVE Typed'
  <2>1. op.step \in RestoreSteps /\ op.kind = "undo" /\ Position = op.token /\ op.token \in DOMAIN op.toks
    BY <1>1, <1>2, <1>15 DEF Restored, At
  <2>2. UNCHANGED <<data, lost, backups>>
    BY <1>15 DEF Restored
  <2>3. CASE More
    <3>1. op' = [op EXCEPT !.step = "insert", !.token = op.token + 1] /\ answer' = answer
      BY <1>15, <2>3 DEF Restored
    <3>2. op' \in Operations
      BY <1>0, <3>1, Moves
    <3>3. op'.kind = "undo" /\ op'.toks = op.toks /\ op'.step = "insert" /\ op'.token = op.token + 1
      BY <1>0, <2>1, <3>1 DEF Operations
    <3>4. op.token + 1 \in DOMAIN op.toks
      BY <2>1, <2>3, Parts DEF More
    <3> QED BY <1>0, <1>2, <2>1, <2>2, <3>1, <3>2, <3>3, <3>4, AtRestore DEF data
  <2>4. CASE ~ More
    BY <1>0, <1>15, <2>1, <2>2, <2>4, EndRestoreTyped DEF Restored, data
  <2> QED BY <2>3, <2>4
<1> QED BY <1>3, <1>4, <1>5, <1>7, <1>8, <1>10, <1>11, <1>12, <1>13, <1>14, <1>15

(* Every step keeps the types and the places.                              *)
LEMMA TypedStep ==
  ASSUME Typed, [Next]_vars
  PROVE  Typed'
<1>0. /\ rows \in [DbSet -> Copy] /\ file \in Copy /\ idx \in Index /\ lost \in 0..MaxAppends
      /\ op \in Operations /\ answer \in Results
  BY DEF Typed, TypeOK
<1>1. ASSUME NEW what, OthersMay(what), rows' \in [DbSet -> Copy], file' \in Copy, idx' \in Index,
             file' # file => file = "none", idx'.tail >= idx.tail, idx'.tail + lost <= MaxAppends,
             UNCHANGED <<lost, backups, op, answer>>
      PROVE  Typed'
  <2>1. TypeOK'
    BY <1>0, <1>1, Step
  <2>2. DeletePlaces' /\ UndoPlaces'
    BY <1>1 DEF Typed, Places, DeletePlaces, UndoPlaces, AtDb, Backup
  <2>3. IndexSeen'
    <3>1. CASE op.step \in {"compare", "rewrite", "recompare", "append"}
      <4>1. op.seen.tail <= idx.tail /\ idx.tail \in Nat /\ idx'.tail \in Nat /\ op.seen.tail \in Nat
        BY <1>0, <1>1, <3>1, BoundsAssumption DEF Typed, Places, IndexSeen, Index, Operations
      <4> QED BY <1>1, <4>1 DEF IndexSeen
    <3>2. CASE op.step \notin {"compare", "rewrite", "recompare", "append"}
      BY <1>1, <3>2 DEF IndexSeen
    <3> QED BY <3>1, <3>2
  <2> QED BY <1>1, <2>1, <2>2, <2>3 DEF Typed, Places
<1>2. idx.tail \in Nat /\ idx.tail + lost <= MaxAppends /\ lost \in Nat
  BY <1>0, BoundsAssumption DEF Typed, Places, IndexSeen, Index
<1>3. CASE OtherRow
  <2>1. rows' \in [DbSet -> Copy]
    BY <1>0, <1>3 DEF OtherRow, Copy
  <2> QED BY <1>0, <1>1, <1>2, <1>3, <2>1 DEF OtherRow
<1>4. CASE OtherFile
  <2>1. file' \in Copy
    BY <1>4 DEF OtherFile, Copy
  <2> QED BY <1>0, <1>1, <1>2, <1>4, <2>1 DEF OtherFile
<1>5. CASE OtherLine
  <2>1. idx' \in Index /\ idx'.tail = idx.tail
    BY <1>0, <1>5 DEF OtherLine, Index, Copy
  <2> QED BY <1>0, <1>1, <1>2, <1>5, <2>1 DEF OtherLine
<1>6. CASE OtherAppend
  <2>1. idx' = [idx EXCEPT !.tail = idx.tail + 1] /\ idx.tail + lost < MaxAppends
    BY <1>6 DEF OtherAppend
  <2>2. idx' \in Index /\ idx'.tail = idx.tail + 1
    BY <1>0, <1>2, <2>1, BoundsAssumption DEF Index
  <2> QED BY <1>0, <1>1, <1>2, <1>6, <2>1, <2>2, BoundsAssumption DEF OtherAppend
<1>7. CASE Crash
  <2>1. file' \in Copy
    BY <1>0, <1>7 DEF Crash, CutOff, Copy
  <2>2. answer' \in Results
    BY <1>7, EmptySeq DEF Crash, Results
  <2> QED BY <1>7, <2>1, <2>2, EndTyped DEF Crash
<1>8. CASE UNCHANGED vars
  <2>1. TypeOK'
    BY <1>0, <1>8, Step DEF vars, data
  <2> QED BY <1>8, <2>1 DEF vars, data, Typed, Places, DeletePlaces, UndoPlaces, IndexSeen, AtDb, Backup
<1> QED BY <1>3, <1>4, <1>5, <1>6, <1>7, <1>8, DeletionTyped, RestoreTyped DEF Next, NextStep

-----------------------------------------------------------------------------
(* What the steps of a deletion do to what the other invariants are about. *)

(* The tokens an operation has in hand.                                    *)
InHandToks(toks) ==
  \/ toks = <<>> \/ toks = op.result.toks
  \/ op.token # 0 /\ toks = <<op.token>>
  \/ op.token # 0 /\ op.step = "cleaned" /\ op.count > 0 /\ toks = op.result.toks \o <<op.token>>

(* The loop is through with a database.                                    *)
Counts ==
  \/ op'.count = op.count /\ op'.result = op.result
  \/ /\ op.count = 0 /\ op'.count = 0
     /\ op'.result.toks = <<>> \/ (op.token # 0 /\ op'.result.toks = <<op.token>>)
  \/ /\ op.token # 0 /\ op.step = "cleaned" /\ op'.count = op.count + 1
     /\ op'.result.toks = IF op.count = 0 THEN <<op.token>> ELSE op.result.toks \o <<op.token>>
NextPlace ==
  /\ op.kind = "delete" /\ UNCHANGED <<data, backups>>
  /\ \/ op' = Idle /\ InHandToks(answer'.toks)
     \/ /\ op' # Idle /\ op'.kind = "delete" /\ op'.step \in {"select", "fallback"} /\ op'.token = 0
        /\ op'.toks = <<>> /\ answer' = answer /\ Counts

(* An answer of one database leads to the next one, or ends the deletion.  *)
LEMMA Looped ==
  ASSUME Typed, op.kind = "delete", AtDb, NEW status \in {"failed", "deleted", "recovery"},
         NEW toks, NextDb(status, toks), toks = <<>> \/ (op.token # 0 /\ toks = <<op.token>>),
         status = "deleted" => op.step = "cleaned" /\ op.token # 0 /\ toks = <<op.token>>,
         UNCHANGED <<data, backups>>
  PROVE  NextPlace
<1>1. toks \in Seq(Tokens)
  <2>1. op.token # 0 => op.token \in Tokens
    BY Parts
  <2>2. op.token # 0 => <<op.token>> \in Seq(Tokens)
    BY <2>1, SeqDef
  <2> QED BY <2>2, EmptySeq
<1>2. op.count \in Nat
  BY Parts, Databases DEF Operations
<1>3. InHandToks(Kept(status, toks).toks)
  <2>1. CASE status = "deleted"
    <3>1. Kept(status, toks).toks = IF op.count = 0 THEN toks ELSE op.result.toks \o toks
      BY <2>1 DEF Kept
    <3>2. CASE op.count = 0
      BY <2>1, <3>1, <3>2 DEF InHandToks
    <3>3. CASE op.count > 0
      <4>1. toks = <<op.token>> /\ op.token # 0 /\ op.step = "cleaned"
        BY <2>1
      <4> QED BY <3>1, <3>3, <4>1 DEF InHandToks
    <3> QED BY <1>2, <3>2, <3>3
  <2>2. CASE status # "deleted"
    <3>1. Kept(status, toks).toks = IF op.count = 0 THEN toks ELSE op.result.toks
      BY <2>2 DEF Kept
    <3> QED BY <3>1 DEF InHandToks
  <2> QED BY <2>1, <2>2
<1>4. ASSUME op'.count = Counted(status), op'.result = Kept(status, toks) PROVE Counts
  <2>1. CASE status = "deleted"
    <3>1. /\ op'.count = op.count + 1
          /\ op'.result.toks = IF op.count = 0 THEN toks ELSE op.result.toks \o toks
      BY <1>4, <2>1 DEF Counted, Kept
    <3>2. toks = <<op.token>> /\ op.token # 0 /\ op.step = "cleaned"
      BY <2>1
    <3>3. op'.result.toks = IF op.count = 0 THEN <<op.token>> ELSE op.result.toks \o <<op.token>>
      BY <3>1, <3>2
    <3>4. op.token # 0 /\ op.step = "cleaned" /\ op'.count = op.count + 1
      BY <3>1, <3>2
    <3> QED BY <3>3, <3>4 DEF Counts
  <2>2. CASE status # "deleted"
    <3>1. /\ op'.count = op.count
          /\ (op.count = 0 /\ op'.result.toks = toks) \/ op'.result = op.result
      BY <1>4, <2>2 DEF Counted, Kept
    <3> QED BY <3>1 DEF Counts
  <2> QED BY <2>1, <2>2
<1> QED BY <1>1, <1>3, <1>4, NextDbOutcome DEF NextPlace

(* A deletion goes on at a database or at the index.                       *)
SameHand ==
  /\ op.kind = "delete" /\ op'.kind = "delete" /\ op'.count = op.count /\ op'.result = op.result
  /\ op'.at = op.at /\ answer' = answer
BackupWritten ==
  /\ SameHand /\ op.token = 0 /\ op'.token = Len(backups) + 1 /\ op'.toks = op.toks /\ UNCHANGED data
  /\ \E b \in Saved :
       /\ Len(backups) < MaxBackups /\ backups' = Append(backups, b)
       /\ \/ /\ op'.step = "delete" /\ b.db = Db /\ b.row = rows[Db] /\ b.row # "none"
             /\ b.file \in {"none", file} /\ b.line \in {"none", idx.line}
          \/ op'.step = "index" /\ b.db = "none" /\ b.file = "none" /\ b.line = idx.line
WithoutToken ==
  SameHand /\ op.token = 0 /\ op'.token = 0 /\ op'.step = "index" /\ op'.toks = op.toks
  /\ UNCHANGED <<data, backups>>
RowDeleted ==
  /\ SameHand /\ op'.token = op.token /\ op.token # 0 /\ op'.toks = op.toks
  /\ UNCHANGED <<file, idx, backups>>
  /\ op.step = "delete" /\ rows' = [rows EXCEPT ![Db] = "none"]
  /\ op'.step = IF Backup(op.token).file = "none" THEN "index" ELSE "file"
FileRemoved ==
  /\ SameHand /\ op'.token = op.token /\ op.token # 0 /\ op'.toks = op.toks
  /\ UNCHANGED <<rows, idx, backups>>
  /\ op.step = "file" /\ file' = "none" /\ op'.step = "index"
RollsBack ==
  /\ SameHand /\ op'.token = op.token /\ op.token # 0 /\ op'.toks = <<op.token>>
  /\ UNCHANGED <<data, backups>>
  /\ op'.step = "check"
AtLine ==
  /\ SameHand /\ op'.token = op.token /\ op'.toks = op.toks /\ UNCHANGED <<rows, file, backups>>
  /\ idx'.line \in {idx.line, "none"}
  /\ op.step \in {"index", "compare", "rewrite", "cleaned"}
  /\ op'.step \in {"index", "compare", "rewrite", "cleaned"}
DeletionEnds ==
  /\ op.kind = "delete" /\ op' = Idle /\ UNCHANGED <<data, backups>>
  /\ InHandToks(answer'.toks)

(* Every step of a deletion is one of these.                               *)
DeletionShape ==
  \/ NextPlace \/ BackupWritten \/ WithoutToken \/ RowDeleted \/ FileRemoved \/ RollsBack \/ AtLine
  \/ DeletionEnds

(* The steps of a deletion, as few shapes.                                 *)
LEMMA DeletionShapes ==
  ASSUME Typed
  PROVE  /\ NotDeleted \/ WriteBackup \/ DeleteRow \/ DeleteRowFails => DeletionShape
         /\ RemoveFile \/ RemoveFileFails => DeletionShape
         /\ RemoveLineRead \/ RemoveLineCompare \/ RemoveLine \/ LineStays \/ CleanAgain => DeletionShape
         /\ Deleted \/ Fallback \/ FallbackFails \/ FallbackDone => DeletionShape
<1>0. /\ op \in Operations /\ op.kind \in {"none", "delete", "undo"} /\ op.step \in Steps /\ op.passes \in 0..2
      /\ \A step \in Steps \ (RestoreSteps \cup {"idle", "check"}) : At(step) => op.kind = "delete"
  BY Parts, IdleTyped DEF Operations, Typed, Places, DeletePlaces, UndoPlaces, IndexSeen, At
<1>1. ASSUME NotDeleted PROVE DeletionShape
  <2>1. op.kind = "delete" /\ AtDb
    BY <1>0, <1>1, StepNames DEF NotDeleted, At, AtDb, RestoreSteps
  <2> QED BY <1>1, <2>1, Looped DEF NotDeleted, data, DeletionShape
<1>2. ASSUME DeleteRowFails PROVE DeletionShape
  <2>1. op.kind = "delete" /\ AtDb /\ op.token # 0
    BY <1>0, <1>2, StepNames DEF DeleteRowFails, Typed, Places, DeletePlaces, At, AtDb, RestoreSteps
  <2> QED BY <1>2, <2>1, Looped DEF DeleteRowFails, data, DeletionShape
<1>3. ASSUME Deleted PROVE DeletionShape
  <2>1. op.kind = "delete" /\ AtDb /\ op.token # 0 /\ op.step = "cleaned"
    BY <1>0, <1>3, StepNames DEF Deleted, Typed, Places, DeletePlaces, At, AtDb, RestoreSteps
  <2> QED BY <1>3, <2>1, Looped DEF Deleted, data, DeletionShape
<1>4. ASSUME WriteBackup PROVE DeletionShape
  <2>1. op.kind = "delete" /\ op.step = "select" /\ AtDb /\ Db \in DbSet /\ op.token = 0
    BY <1>0, <1>4, StepNames, Parts DEF WriteBackup, At, AtDb, RestoreSteps, Typed, Places, DeletePlaces
  <2>2. PICK f \in {"none", FileOf(Db)}, l \in {"none", idx.line} :
          backups' = Append(backups, [db |-> Db, row |-> rows[Db], file |-> f, line |-> l])
    BY <1>4 DEF WriteBackup
  <2> DEFINE b == [db |-> Db, row |-> rows[Db], file |-> f, line |-> l]
  <2>3. b \in Saved
    BY <2>1 DEF FileOf, Typed, TypeOK, Index, Saved, Copy
  <2>4. /\ b.db = Db /\ b.row = rows[Db] /\ b.row # "none" /\ b.file \in {"none", file}
        /\ b.line \in {"none", idx.line} /\ backups' = Append(backups, b)
    BY <1>4, <2>2 DEF WriteBackup, FileOf
  <2> HIDE DEF b
  <2>5. op' = [op EXCEPT !.step = "delete", !.token = Len(backups) + 1]
    BY <1>4 DEF WriteBackup
  <2>6. /\ op'.step = "delete" /\ op'.token = Len(backups) + 1 /\ op'.kind = op.kind
        /\ op'.at = op.at /\ op'.count = op.count /\ op'.result = op.result /\ op'.toks = op.toks
    BY <1>0, <2>5 DEF Operations
  <2> QED BY <1>4, <2>1, <2>3, <2>4, <2>6 DEF WriteBackup, BackupWritten, SameHand, DeletionShape
<1>5. ASSUME DeleteRow PROVE DeletionShape
  <2>1. op.kind = "delete" /\ op.token # 0 /\ op.step = "delete"
    BY <1>0, <1>5, StepNames DEF DeleteRow, Typed, Places, DeletePlaces, At, RestoreSteps
  <2>2. op' = [op EXCEPT !.step = IF Backup(op.token).file = "none" THEN "index" ELSE "file",
                         !.passes = Cleanings(Db)]
    BY <1>5 DEF DeleteRow
  <2>3. /\ op'.step = IF Backup(op.token).file = "none" THEN "index" ELSE "file"
        /\ op'.token = op.token /\ op'.kind = op.kind
        /\ op'.at = op.at /\ op'.count = op.count /\ op'.result = op.result /\ op'.toks = op.toks
    BY <1>0, <2>2 DEF Operations
  <2> QED BY <1>5, <2>1, <2>3 DEF DeleteRow, RowDeleted, SameHand, DeletionShape
<1>6. ASSUME RemoveFile PROVE DeletionShape
  <2>1. op.kind = "delete" /\ op.token # 0 /\ op.step = "file"
    BY <1>0, <1>6, StepNames DEF RemoveFile, Typed, Places, DeletePlaces, At, RestoreSteps
  <2>2. op' = [op EXCEPT !.step = "index"]
    BY <1>6 DEF RemoveFile
  <2>3. /\ op'.step = "index" /\ op'.token = op.token /\ op'.kind = op.kind
        /\ op'.at = op.at /\ op'.count = op.count /\ op'.result = op.result /\ op'.toks = op.toks
    BY <1>0, <2>2 DEF Operations
  <2> QED BY <1>6, <2>1, <2>3 DEF RemoveFile, FileRemoved, SameHand, DeletionShape
<1>7. ASSUME RemoveFileFails PROVE DeletionShape
  <2>1. op.kind = "delete" /\ op.token # 0 /\ op.step = "file"
    BY <1>0, <1>7, StepNames DEF RemoveFileFails, Typed, Places, DeletePlaces, At, RestoreSteps
  <2>2. op' = [op EXCEPT !.step = "check", !.toks = <<op.token>>]
    BY <1>7 DEF RemoveFileFails
  <2>3. /\ op'.step = "check" /\ op'.token = op.token /\ op'.kind = op.kind
        /\ op'.at = op.at /\ op'.count = op.count /\ op'.result = op.result /\ op'.toks = <<op.token>>
    BY <1>0, <2>2 DEF Operations
  <2> QED BY <1>7, <2>1, <2>3 DEF RemoveFileFails, RollsBack, SameHand, DeletionShape
<1>8. ASSUME RemoveLineRead PROVE DeletionShape
  <2>1. op.kind = "delete" /\ op.step = "index"
    BY <1>0, <1>8, StepNames DEF RemoveLineRead, At, RestoreSteps
  <2>2. op' = [op EXCEPT !.step = "compare", !.seen = idx]
    BY <1>8 DEF RemoveLineRead
  <2>3. /\ op'.step = "compare" /\ op'.token = op.token /\ op'.kind = op.kind
        /\ op'.at = op.at /\ op'.count = op.count /\ op'.result = op.result /\ op'.toks = op.toks
    BY <1>0, <2>2 DEF Operations
  <2> QED BY <1>8, <2>1, <2>3 DEF RemoveLineRead, data, AtLine, SameHand, DeletionShape
<1>9. ASSUME RemoveLineCompare PROVE DeletionShape
  <2>1. op.kind = "delete" /\ op.step = "compare"
    BY <1>0, <1>9, StepNames DEF RemoveLineCompare, At, RestoreSteps
  <2>2. op' = [op EXCEPT !.step = "rewrite"]
    BY <1>9 DEF RemoveLineCompare
  <2>3. /\ op'.step = "rewrite" /\ op'.token = op.token /\ op'.kind = op.kind
        /\ op'.at = op.at /\ op'.count = op.count /\ op'.result = op.result /\ op'.toks = op.toks
    BY <1>0, <2>2 DEF Operations
  <2> QED BY <1>9, <2>1, <2>3 DEF RemoveLineCompare, data, AtLine, SameHand, DeletionShape
<1>10. ASSUME RemoveLine PROVE DeletionShape
  <2>1. op.kind = "delete" /\ op.step = "rewrite"
    BY <1>0, <1>10, StepNames DEF RemoveLine, At, RestoreSteps
  <2>2. op' = [op EXCEPT !.step = "cleaned", !.seen = Unread, !.removed = TRUE] /\ idx'.line = "none"
    BY <1>10 DEF RemoveLine, Replace
  <2>3. /\ op'.step = "cleaned" /\ op'.token = op.token /\ op'.kind = op.kind
        /\ op'.at = op.at /\ op'.count = op.count /\ op'.result = op.result /\ op'.toks = op.toks
    BY <1>0, <2>2 DEF Operations
  <2> QED BY <1>10, <2>1, <2>2, <2>3 DEF RemoveLine, AtLine, SameHand, DeletionShape
<1>11. ASSUME LineStays PROVE DeletionShape
  <2>1. op.kind = "delete" /\ op.step \in {"index", "compare", "rewrite"}
    BY <1>0, <1>11, StepNames DEF LineStays, At, RestoreSteps
  <2>2. op' = [op EXCEPT !.step = "cleaned", !.seen = Unread]
    BY <1>11 DEF LineStays
  <2>3. /\ op'.step = "cleaned" /\ op'.token = op.token /\ op'.kind = op.kind
        /\ op'.at = op.at /\ op'.count = op.count /\ op'.result = op.result /\ op'.toks = op.toks
    BY <1>0, <2>2 DEF Operations
  <2> QED BY <1>11, <2>1, <2>3 DEF LineStays, data, AtLine, SameHand, DeletionShape
<1>12. ASSUME CleanAgain PROVE DeletionShape
  <2>1. op.kind = "delete" /\ op.step = "cleaned"
    BY <1>0, <1>12, StepNames DEF CleanAgain, At, RestoreSteps
  <2>2. op' = [op EXCEPT !.step = "index", !.passes = op.passes - 1]
    BY <1>12 DEF CleanAgain
  <2>3. /\ op'.step = "index" /\ op'.token = op.token /\ op'.kind = op.kind
        /\ op'.at = op.at /\ op'.count = op.count /\ op'.result = op.result /\ op'.toks = op.toks
    BY <1>0, <2>2 DEF Operations
  <2> QED BY <1>12, <2>1, <2>3 DEF CleanAgain, data, AtLine, SameHand, DeletionShape
<1>13. ASSUME Fallback PROVE DeletionShape
  <2>1. op.kind = "delete" /\ op.token = 0
    BY <1>0, <1>13, StepNames DEF Fallback, At, RestoreSteps, Typed, Places, DeletePlaces
  <2>2. CASE UNCHANGED backups /\ op' = [op EXCEPT !.step = "index"]
    <3>1. /\ op'.step = "index" /\ op'.token = op.token /\ op'.kind = op.kind
          /\ op'.at = op.at /\ op'.count = op.count /\ op'.result = op.result /\ op'.toks = op.toks
      BY <1>0, <2>2 DEF Operations
    <3> QED BY <1>13, <2>1, <2>2, <3>1 DEF Fallback, data, WithoutToken, SameHand, DeletionShape
  <2>3. CASE /\ Len(backups) < MaxBackups
             /\ backups' = Append(backups, [db |-> "none", row |-> "none", file |-> "none",
                                            line |-> idx.line])
             /\ op' = [op EXCEPT !.step = "index", !.token = Len(backups) + 1]
    <3> DEFINE b == [db |-> "none", row |-> "none", file |-> "none", line |-> idx.line]
    <3>1. b \in Saved
      BY DEF Typed, TypeOK, Index, Saved, Copy
    <3>2. b.db = "none" /\ b.file = "none" /\ b.line = idx.line
      OBVIOUS
    <3> HIDE DEF b
    <3>3. /\ op'.step = "index" /\ op'.token = Len(backups) + 1 /\ op'.kind = op.kind
          /\ op'.at = op.at /\ op'.count = op.count /\ op'.result = op.result /\ op'.toks = op.toks
      BY <1>0, <2>3 DEF Operations
    <3>4. backups' = Append(backups, b)
      BY <2>3 DEF b
    <3> QED BY <1>13, <2>1, <2>3, <3>1, <3>2, <3>3, <3>4
            DEF Fallback, BackupWritten, SameHand, DeletionShape
  <2> QED BY <1>13, <2>2, <2>3 DEF Fallback
<1>14. ASSUME FallbackFails PROVE DeletionShape
  BY <1>0, <1>14, StepNames DEF FallbackFails, At, RestoreSteps, InHandToks, DeletionEnds, DeletionShape, data
<1>15. ASSUME FallbackDone PROVE DeletionShape
  <2>1. op.kind = "delete"
    BY <1>0, <1>15, StepNames DEF FallbackDone, At, RestoreSteps
  <2>2. InHandToks(answer'.toks)
    BY <1>15 DEF FallbackDone, InHandToks
  <2> QED BY <1>15, <2>1, <2>2 DEF FallbackDone, DeletionEnds, DeletionShape, data
<1> QED BY <1>1, <1>2, <1>3, <1>4, <1>5, <1>6, <1>7, <1>8, <1>9, <1>10, <1>11, <1>12, <1>13, <1>14,
           <1>15

(* What the steps of an undo do.                                           *)
Here == Backup(op.toks[op.token])
SameUndo ==
  /\ op.kind = "undo" /\ op'.kind = "undo" /\ op'.toks = op.toks /\ op'.base = op.base
  /\ op.token \in DOMAIN op.toks /\ UNCHANGED <<backups, answer>>
UndoBegins ==
  /\ op = Idle /\ op'.kind = "undo" /\ op'.step = "check" /\ op'.toks = answer.toks /\ op'.token = 1
  /\ op'.base = Data /\ UNCHANGED <<data, backups, answer>>
CheckedOne ==
  /\ SameUndo /\ op.step = "check" /\ UNCHANGED data /\ ~ Conflict(Here)
  /\ \/ op.token < Len(op.toks) /\ op'.step = "check" /\ op'.token = op.token + 1
     \/ op.token = Len(op.toks) /\ op'.step = "insert" /\ op'.token = 1
RowBack ==
  /\ SameUndo /\ op.step = "insert" /\ op'.step = "write" /\ op'.token = op.token
  /\ UNCHANGED <<file, idx>>
  /\ \/ Here.db = "none" /\ UNCHANGED rows
     \/ Here.db # "none" /\ rows[Here.db] = "none" /\ rows' = [rows EXCEPT ![Here.db] = Here.row]
FileBack ==
  /\ SameUndo /\ op.step = "write" /\ op'.token = op.token /\ UNCHANGED <<rows, idx>>
  /\ file' = IF Here.file = "none" THEN file ELSE Here.file
  /\ op'.step = IF Here.line = "none" THEN "restored" ELSE "reindex"
LineRead ==
  /\ SameUndo /\ op'.token = op.token /\ UNCHANGED data
  /\ \/ op.step = "reindex" /\ op'.step = "recompare" /\ idx.line = "none" /\ op'.seen = idx
     \/ op.step = "recompare" /\ op'.step = "append" /\ op'.seen = op.seen
     \/ /\ (op.step = "reindex" /\ idx.line # "none") \/ (op.step = "recompare" /\ idx # op.seen)
        /\ op'.step = "restored"
LineBack ==
  /\ SameUndo /\ op'.token = op.token /\ UNCHANGED <<rows, file>>
  /\ op.step = "append" /\ op'.step = "restored" /\ idx'.line = Here.line
NextBackup ==
  /\ SameUndo /\ op.step = "restored" /\ op'.step = "insert" /\ op.token < Len(op.toks)
  /\ op'.token = op.token + 1 /\ UNCHANGED data
MayCut == file' = file \/ (op.kind = "undo" /\ op.step = "write" /\ Here.file # "none")
UndoEnds ==
  /\ op.kind = "undo" /\ op' = Idle /\ UNCHANGED <<rows, idx, backups>> /\ MayCut
  /\ answer'.toks = op.toks /\ op.token \in DOMAIN op.toks
  /\ answer'.status = "undone" => op.step = "restored" /\ op.token = Len(op.toks) /\ file' = file

(* Every step of an undo is one of these, or goes on with a deletion.      *)
UndoShape ==
  \/ UndoBegins \/ CheckedOne \/ RowBack \/ FileBack \/ LineRead \/ LineBack \/ NextBackup \/ UndoEnds
  \/ NextPlace

(* The steps of an undo, as one shape.                                     *)
LEMMA UndoShapes ==
  ASSUME Typed
  PROVE  /\ BeginUndo \/ CheckPasses \/ CheckRefuses \/ InsertRow \/ WriteFile => UndoShape
         /\ AddLineRead \/ AddLineCompare \/ AddLine \/ LineNotAdded => UndoShape
         /\ RestoreFails \/ Restored => UndoShape
<1>0. op \in Operations
  BY DEF Typed, TypeOK
<1>1. ASSUME op.kind = "undo" \/ op.step \in RestoreSteps
      PROVE  /\ op.kind = "undo" /\ op.token \in DOMAIN op.toks /\ Position = op.token
             /\ Current = Here /\ op.token \in Nat /\ Len(op.toks) \in Nat /\ op.token <= Len(op.toks)
  BY <1>1, OnlyUndoRestores, Parts DEF Typed, Places, UndoPlaces, Current, Here
<1>2. \A step \in {"insert", "write", "reindex", "recompare", "append", "restored"} : step \in RestoreSteps
  BY DEF RestoreSteps
<1>3. ASSUME BeginUndo PROVE UndoShape
  <2>1. op' = [Idle EXCEPT !.kind = "undo", !.step = "check", !.toks = answer.toks,
                           !.token = 1, !.base = Data]
    BY <1>3 DEF BeginUndo
  <2>2. /\ op'.kind = "undo" /\ op'.step = "check" /\ op'.toks = answer.toks /\ op'.token = 1
        /\ op'.base = Data
    BY <2>1, IdleTyped DEF Operations
  <2> QED BY <1>3, <2>2 DEF BeginUndo, UndoBegins, UndoShape
<1>4. ASSUME CheckPasses PROVE UndoShape
  <2>1. op.kind = "undo" /\ op.step = "check" /\ ~ Conflict(Current)
    BY <1>4, OnlyUndoRestores, IdleTyped DEF CheckPasses, At, Typed, Places
  <2>2. CASE More
    <3>1. op' = [op EXCEPT !.token = op.token + 1]
      BY <1>4, <2>2 DEF CheckPasses
    <3>2. /\ op'.kind = "undo" /\ op'.toks = op.toks /\ op'.step = "check" /\ op'.token = op.token + 1
          /\ op'.base = op.base
      BY <1>0, <2>1, <3>1 DEF Operations
    <3> QED BY <1>1, <1>4, <2>1, <2>2, <3>2 DEF CheckPasses, CheckedOne, SameUndo, More, UndoShape
  <2>3. CASE ~ More
    <3>1. op' = [op EXCEPT !.step = "insert", !.token = 1]
      BY <1>4, <2>1, <2>3 DEF CheckPasses
    <3>2. /\ op'.kind = "undo" /\ op'.toks = op.toks /\ op'.step = "insert" /\ op'.token = 1
          /\ op'.base = op.base
      BY <1>0, <2>1, <3>1 DEF Operations
    <3> QED BY <1>1, <1>4, <2>1, <2>3, <3>2 DEF CheckPasses, CheckedOne, SameUndo, More, UndoShape
  <2> QED BY <2>2, <2>3
<1>5. ASSUME NEW ok \in BOOLEAN, op.kind = "undo", EndRestore(ok), UNCHANGED <<rows, idx, backups>>, MayCut,
             ok => op.step = "restored" /\ op.token = Len(op.toks) /\ file' = file
      PROVE  UndoShape
  BY <1>1, <1>5 DEF EndRestore, UndoEnds, UndoShape
<1>6. ASSUME CheckRefuses PROVE UndoShape
  <2>1. op.step = "check" /\ EndRestore(FALSE) /\ UNCHANGED <<data, lost, backups>>
    BY <1>6 DEF CheckRefuses, At
  <2>2. CASE op.kind = "undo"
    BY <1>5, <2>1, <2>2 DEF data, MayCut
  <2>3. CASE op.kind # "undo"
    <3>1. op.kind = "delete" /\ AtDb /\ op.token # 0
      BY <2>1, <2>3, OnlyUndoRestores, IdleTyped DEF Typed, Places, DeletePlaces, AtDb
    <3>2. NextDb("recovery", <<op.token>>)
      BY <2>1, <2>3 DEF EndRestore
    <3> QED BY <2>1, <3>1, <3>2, Looped DEF data, UndoShape
  <2> QED BY <2>2, <2>3
<1>7. ASSUME NEW step, op' = [op EXCEPT !.step = step]
      PROVE  /\ op'.kind = op.kind /\ op'.toks = op.toks /\ op'.step = step /\ op'.token = op.token
             /\ op'.seen = op.seen /\ op'.base = op.base
  BY <1>0, <1>7 DEF Operations
<1>8. ASSUME NEW step, NEW seen, op' = [op EXCEPT !.step = step, !.seen = seen]
      PROVE  /\ op'.kind = op.kind /\ op'.toks = op.toks /\ op'.step = step /\ op'.token = op.token
             /\ op'.seen = seen /\ op'.base = op.base
  BY <1>0, <1>8 DEF Operations
<1>9. ASSUME InsertRow PROVE UndoShape
  <2>1. op.step = "insert" /\ op' = [op EXCEPT !.step = "write"]
    BY <1>9 DEF InsertRow, At
  <2> QED BY <1>1, <1>2, <1>7, <1>9, <2>1 DEF InsertRow, RowBack, SameUndo, UndoShape
<1>10. ASSUME WriteFile PROVE UndoShape
  <2>1. op.step = "write"
    BY <1>10 DEF WriteFile, At
  <2>2. op' = [op EXCEPT !.step = IF Here.line = "none" THEN "restored" ELSE "reindex"]
    BY <1>1, <1>2, <1>10, <2>1 DEF WriteFile
  <2>3. op'.step = IF Here.line = "none" THEN "restored" ELSE "reindex"
    BY <1>7, <2>2
  <2> QED BY <1>1, <1>2, <1>7, <1>10, <2>1, <2>2, <2>3 DEF WriteFile, FileBack, SameUndo, UndoShape
<1>11. ASSUME AddLineRead PROVE UndoShape
  <2>1. op.step = "reindex" /\ op' = [op EXCEPT !.step = "recompare", !.seen = idx]
    BY <1>11 DEF AddLineRead, At
  <2>2. /\ op'.kind = op.kind /\ op'.toks = op.toks /\ op'.step = "recompare" /\ op'.token = op.token
        /\ op'.seen = idx /\ op'.base = op.base
    BY <1>8, <2>1
  <2>3. SameUndo /\ op'.token = op.token /\ op'.step = "recompare" /\ op'.seen = idx
    BY <1>1, <1>2, <1>11, <2>1, <2>2 DEF AddLineRead, SameUndo
  <2>4. LineRead
    BY <1>11, <2>1, <2>3 DEF AddLineRead, LineRead
  <2> QED BY <2>4 DEF UndoShape
<1>12. ASSUME AddLineCompare PROVE UndoShape
  <2>1. op.step = "recompare" /\ op' = [op EXCEPT !.step = "append"]
    BY <1>12 DEF AddLineCompare, At
  <2>2. /\ op'.kind = op.kind /\ op'.toks = op.toks /\ op'.step = "append" /\ op'.token = op.token
        /\ op'.seen = op.seen /\ op'.base = op.base
    BY <1>7, <2>1
  <2>3. SameUndo /\ op'.token = op.token /\ op'.step = "append" /\ op'.seen = op.seen
    BY <1>1, <1>2, <1>12, <2>1, <2>2 DEF AddLineCompare, SameUndo
  <2>4. LineRead
    BY <1>12, <2>1, <2>3 DEF AddLineCompare, LineRead
  <2> QED BY <2>4 DEF UndoShape
<1>13. ASSUME AddLine PROVE UndoShape
  <2>1. op.step = "append" /\ op' = [op EXCEPT !.step = "restored", !.seen = Unread]
    BY <1>13 DEF AddLine, At
  <2>2. idx'.line = Here.line
    BY <1>1, <1>2, <1>13, <2>1 DEF AddLine, Replace
  <2>3. /\ op'.kind = op.kind /\ op'.toks = op.toks /\ op'.step = "restored" /\ op'.token = op.token
        /\ op'.base = op.base
    BY <1>8, <2>1
  <2>4. SameUndo /\ op'.token = op.token /\ op'.step = "restored"
    BY <1>1, <1>2, <1>13, <2>1, <2>3 DEF AddLine, SameUndo
  <2>5. LineBack
    BY <1>13, <2>1, <2>2, <2>4 DEF AddLine, LineBack
  <2> QED BY <2>5 DEF UndoShape
<1>14. ASSUME LineNotAdded PROVE UndoShape
  <2>1. (op.step = "reindex" /\ idx.line # "none") \/ (op.step = "recompare" /\ idx # op.seen)
    BY <1>14 DEF LineNotAdded, At
  <2>2. op.step \in RestoreSteps /\ op' = [op EXCEPT !.step = "restored", !.seen = Unread]
    BY <1>2, <1>14, <2>1 DEF LineNotAdded
  <2>3. /\ op'.kind = op.kind /\ op'.toks = op.toks /\ op'.step = "restored" /\ op'.token = op.token
        /\ op'.base = op.base
    BY <1>8, <2>2
  <2>4. SameUndo /\ op'.token = op.token /\ op'.step = "restored"
    BY <1>1, <1>14, <2>2, <2>3 DEF LineNotAdded, SameUndo
  <2>5. LineRead
    <3>1. UNCHANGED data
      BY <1>14 DEF LineNotAdded
    <3>2. SameUndo /\ op'.token = op.token /\ UNCHANGED data
      BY <2>4, <3>1
    <3>3. op'.step = "restored"
      BY <2>4
    <3> QED BY <2>1, <3>2, <3>3 DEF LineRead
  <2> QED BY <2>5 DEF UndoShape
<1>15. ASSUME RestoreFails PROVE UndoShape
  <2>1. op.step \in RestoreSteps
    BY <1>2, <1>15 DEF RestoreFails
  <2>2. MayCut
    BY <1>1, <1>15, <2>1 DEF RestoreFails, CutOff, At, MayCut
  <2> QED BY <1>1, <1>5, <1>15, <2>1, <2>2 DEF RestoreFails
<1>16. ASSUME Restored PROVE UndoShape
  <2>1. op.step = "restored" /\ UNCHANGED <<data, lost, backups>>
    BY <1>16 DEF Restored, At
  <2>2. CASE More
    <3>1. op' = [op EXCEPT !.step = "insert", !.token = op.token + 1] /\ answer' = answer
      BY <1>16, <2>2 DEF Restored
    <3>2. /\ op'.kind = op.kind /\ op'.toks = op.toks /\ op'.step = "insert" /\ op'.token = op.token + 1
          /\ op'.base = op.base
      BY <1>0, <3>1 DEF Operations
    <3> QED BY <1>1, <1>2, <2>1, <2>2, <3>1, <3>2 DEF More, NextBackup, SameUndo, UndoShape
  <2>3. CASE ~ More
    <3>1. op.kind = "undo" /\ op.token = Len(op.toks)
      BY <1>1, <1>2, <2>1, <2>3 DEF More
    <3>2. EndRestore(TRUE) /\ UNCHANGED <<rows, file, idx, backups>>
      BY <1>16, <2>1, <2>3 DEF Restored, data
    <3> QED BY <1>5, <2>1, <3>1, <3>2 DEF MayCut
  <2> QED BY <2>2, <2>3
<1> QED BY <1>3, <1>4, <1>6, <1>9, <1>10, <1>11, <1>12, <1>13, <1>14, <1>15, <1>16

(* Every other step begins a deletion, ends an operation, or is Codex's.   *)
DeletionBegins ==
  /\ op = Idle /\ op'.kind = "delete" /\ op'.step \in {"select", "fallback"} /\ op'.token = 0
  /\ op'.toks = <<>> /\ op'.count = 0 /\ op'.result.toks = <<>> /\ answer'.toks = <<>>
  /\ UNCHANGED <<data, backups>>
Dies ==
  /\ op' = Idle /\ UNCHANGED <<rows, idx, backups>> /\ MayCut /\ answer'.toks = <<>>
  /\ answer'.status # "undone"
CodexWrites ==
  /\ UNCHANGED <<backups, op, answer>>
  /\ \/ /\ UNCHANGED <<file, idx>>
        /\ \E d \in DbSet : rows[d] = "none" /\ rows' = [rows EXCEPT ![d] = "new"]
     \/ OthersMay("file") /\ file = "none" /\ file' = "new" /\ UNCHANGED <<rows, idx>>
     \/ OthersMay("line") /\ idx.line = "none" /\ idx'.line = "new" /\ UNCHANGED <<rows, file>>
     \/ OthersMay("append") /\ idx'.line = idx.line /\ UNCHANGED <<rows, file>>

(* Every step is one of these shapes.                                      *)
LEMMA Shapes ==
  ASSUME Typed, [Next]_vars
  PROVE  \/ DeletionShape \/ UndoShape \/ DeletionBegins \/ Dies \/ CodexWrites
         \/ UNCHANGED <<data, backups, op, answer>>
<1>1. CASE BeginDelete
  <2>1. /\ op' = IF Dbs = <<>> THEN [Idle EXCEPT !.kind = "delete", !.step = "fallback"]
                 ELSE [Idle EXCEPT !.kind = "delete", !.step = "select", !.at = 1]
    BY <1>1 DEF BeginDelete
  <2>2. /\ op'.kind = "delete" /\ op'.step \in {"select", "fallback"} /\ op'.token = 0
        /\ op'.toks = <<>> /\ op'.count = 0 /\ op'.result = Failed
    BY <2>1 DEF Idle
  <2> QED BY <1>1, <2>2 DEF BeginDelete, DeletionBegins, Failed
<1>2. CASE Crash
  <2>1. MayCut
    <3>1. CASE At("write")
      BY <1>2, <3>1, OnlyUndoRestores DEF Crash, CutOff, MayCut, At, RestoreSteps, Current, Here
    <3>2. CASE ~ At("write")
      BY <1>2, <3>2 DEF Crash, CutOff, MayCut
    <3> QED BY <3>1, <3>2
  <2> QED BY <1>2, <2>1 DEF Crash, Dies
<1>3. CASE OtherRow \/ OtherFile
  BY <1>3 DEF OtherRow, OtherFile, CodexWrites
<1>4. CASE OtherLine \/ OtherAppend
  BY <1>4 DEF OtherLine, OtherAppend, CodexWrites, Typed, TypeOK, Index
<1>5. CASE UNCHANGED vars
  BY <1>5 DEF vars, data
<1> QED BY <1>1, <1>2, <1>3, <1>4, <1>5, DeletionShapes, UndoShapes DEF Next, NextStep

(* The steps of the operation that goes on.                                *)
LEMMA Undoing ==
  ASSUME Typed, [Next]_vars, op'.kind = "undo"
  PROVE  /\ UNCHANGED backups
         /\ \/ UndoBegins \/ CheckedOne \/ RowBack \/ FileBack \/ LineRead \/ LineBack \/ NextBackup
            \/ op.kind = "undo" /\ (CodexWrites \/ UNCHANGED <<data, backups, op, answer>>)
BY Shapes, IdleTyped
DEF DeletionShape, UndoShape, NextPlace, BackupWritten, WithoutToken, RowDeleted, FileRemoved, RollsBack,
    AtLine, DeletionEnds, SameHand, UndoEnds, DeletionBegins, Dies, UndoBegins, CheckedOne, RowBack,
    FileBack, LineRead, LineBack, NextBackup, SameUndo, CodexWrites

(* The steps after which a deletion is running.                            *)
LEMMA Deleting ==
  ASSUME Typed, [Next]_vars, op'.kind = "delete"
  PROVE  \/ NextPlace \/ BackupWritten \/ WithoutToken \/ RowDeleted \/ FileRemoved \/ RollsBack \/ AtLine
         \/ DeletionBegins
         \/ op.kind = "delete" /\ (CodexWrites \/ UNCHANGED <<data, backups, op, answer>>)
BY Shapes, IdleTyped
DEF DeletionShape, UndoShape, DeletionEnds, UndoEnds, Dies, UndoBegins, CheckedOne, RowBack,
    FileBack, LineRead, LineBack, NextBackup, SameUndo, CodexWrites

(* A backup that was written stays as it is.                               *)
LEMMA BackupsStay ==
  ASSUME Typed, [Next]_vars
  PROVE  /\ \A t \in Tokens : backups'[t] = backups[t]
         /\ UNCHANGED backups \/ BackupWritten
<1>1. UNCHANGED backups \/ BackupWritten
  BY Shapes DEF DeletionShape, UndoShape, NextPlace, WithoutToken, RowDeleted, FileRemoved, RollsBack,
    AtLine, DeletionEnds, UndoEnds, DeletionBegins, Dies, UndoBegins, CheckedOne, RowBack,
    FileBack, LineRead, LineBack, NextBackup, SameUndo, CodexWrites
<1>2. ASSUME BackupWritten PROVE \A t \in Tokens : backups'[t] = backups[t]
  BY <1>2, OneMore DEF BackupWritten
<1> QED BY <1>1, <1>2

-----------------------------------------------------------------------------
(* Backups hold what is deleted.                                           *)

(* Every step keeps what is known of the backups.                          *)
LEMMA BackedUpStep ==
  ASSUME Typed, BackedUp, [Next]_vars
  PROVE  BackedUp'
<1>0. DOMAIN backups = Tokens /\ Len(backups) \in Nat
  BY Parts
<1>1. CASE BackupWritten
  <2>1. PICK b \in Saved :
       /\ Len(backups) < MaxBackups /\ backups' = Append(backups, b)
       /\ \/ /\ op'.step = "delete" /\ b.db = Db /\ b.row = rows[Db] /\ b.row # "none"
             /\ b.file \in {"none", file} /\ b.line \in {"none", idx.line}
          \/ op'.step = "index" /\ b.db = "none" /\ b.file = "none" /\ b.line = idx.line
    BY <1>1 DEF BackupWritten
  <2>2. /\ DOMAIN backups' = Tokens \cup {Len(backups) + 1} /\ backups'[Len(backups) + 1] = b
        /\ \A t \in Tokens : backups'[t] = backups[t]
    <3>1. DOMAIN backups' = 1..Len(backups')
      BY <2>1, OneMore, LenProperties
    <3> QED BY <2>1, <3>1, OneMore DEF Tokens
  <2>3. \A i \in DOMAIN backups' : backups'[i].db # "none" => backups'[i].row # "none"
    BY <1>0, <2>1, <2>2 DEF BackedUp
  <2>4. op'.token = Len(backups) + 1 /\ UNCHANGED data /\ Db' = Db
    BY <1>1 DEF BackupWritten, SameHand, Db
  <2> QED BY <2>1, <2>2, <2>3, <2>4 DEF BackedUp, Backup, data
<1>2. ASSUME UNCHANGED backups, op'.step \notin {"delete", "file"} PROVE BackedUp'
  BY <1>2 DEF BackedUp
<1>3. CASE RowDeleted
  BY <1>3 DEF RowDeleted, BackedUp, Backup
<1>4. CASE CodexWrites
  <2>1. op' = op /\ UNCHANGED backups
    BY <1>4 DEF CodexWrites
  <2>2. ASSUME op.step = "delete" PROVE backups[op.token].db = Db /\ backups[op.token].row = rows'[Db]
    <3>1. backups[op.token].db = Db /\ backups[op.token].row = rows[Db]
      BY <2>2 DEF BackedUp, Backup
    <3>2. op.kind = "delete" /\ op.token # 0 /\ AtDb /\ op.token \in Tokens /\ Db \in DbSet /\ Db # "none"
      BY <2>2, Parts, IdleTyped, Databases
      DEF Operations, Typed, Places, DeletePlaces, UndoPlaces, AtDb, RestoreSteps
    <3>3. rows[Db] # "none"
      BY <1>0, <3>1, <3>2 DEF BackedUp
    <3>4. rows'[Db] = rows[Db]
      <4>1. rows \in [DbSet -> Copy]
        BY DEF Typed, TypeOK
      <4>2. rows' = rows \/ \E d \in DbSet : rows[d] = "none" /\ rows' = [rows EXCEPT ![d] = "new"]
        BY <1>4 DEF CodexWrites
      <4> QED BY <3>2, <3>3, <4>1, <4>2
    <3> QED BY <3>1, <3>4
  <2>3. ASSUME op.step \in {"delete", "file"}, backups[op.token].file # "none"
        PROVE  backups[op.token].file = file'
    <3>1. backups[op.token].file = file
      BY <2>3 DEF BackedUp, Backup
    <3>2. file' = file
      BY <1>4, <2>3, <3>1 DEF CodexWrites
    <3> QED BY <3>1, <3>2
  <2>4. Db' = Db
    BY <2>1 DEF Db
  <2> QED BY <2>1, <2>2, <2>3, <2>4 DEF BackedUp, Backup
<1>5. CASE UNCHANGED <<data, backups, op, answer>>
  BY <1>5 DEF BackedUp, Backup, Db, data
<1>6. CASE NextPlace \/ WithoutToken \/ FileRemoved \/ RollsBack \/ AtLine \/ DeletionEnds
  BY <1>2, <1>6, IdleTyped DEF NextPlace, WithoutToken, FileRemoved, RollsBack, AtLine, DeletionEnds
<1>7. CASE UndoBegins \/ CheckedOne \/ RowBack \/ FileBack \/ LineRead \/ LineBack \/ NextBackup \/ UndoEnds
  BY <1>2, <1>7, IdleTyped DEF UndoBegins, CheckedOne, RowBack, FileBack, LineRead, LineBack, NextBackup,
     UndoEnds, SameUndo
<1>8. CASE DeletionBegins \/ Dies
  BY <1>2, <1>8, IdleTyped DEF DeletionBegins, Dies
<1> QED BY <1>1, <1>3, <1>4, <1>5, <1>6, <1>7, <1>8, Shapes DEF DeletionShape, UndoShape

-----------------------------------------------------------------------------
(* What an undo has done to the rows.                                      *)

(* The numbers of the backups of an undo.                                  *)
LEMMA Numbers ==
  ASSUME Typed, op.kind = "undo"
  PROVE  /\ op.token \in Nat /\ Len(op.toks) \in Nat /\ op.token <= Len(op.toks)
         /\ \A i \in DOMAIN op.toks :
              /\ i \in Nat /\ 1 <= i /\ i <= Len(op.toks)
              /\ op.toks[i] \in Tokens /\ Backup(op.toks[i]) \in Saved
         /\ op.token \in DOMAIN op.toks
BY Parts DEF Typed, Places, UndoPlaces

(* Every step keeps what is known of the rows.                             *)
LEMMA RowsStep ==
  ASSUME Typed, BackedUp, RowsInv, [Next]_vars
  PROVE  RowsInv'
<1> SUFFICES ASSUME op'.kind = "undo" PROVE RowsInv'
  BY DEF RowsInv
<1>0. UNCHANGED backups /\ rows \in [DbSet -> Copy]
  BY Undoing DEF Typed, TypeOK
<1>1. CASE UndoBegins
  <2>1. answer.toks \in Seq(Tokens)
    BY Parts DEF Results
  <2>2. \A i \in DOMAIN op'.toks : i \in Nat /\ 1 <= i
    BY <1>1, <2>1, LenProperties DEF UndoBegins
  <2>3. op'.base.rows = rows'
    BY <1>1 DEF UndoBegins, Data, data
  <2>4. op'.token = 1 /\ op'.step = "check"
    BY <1>1 DEF UndoBegins
  <2> QED BY <2>2, <2>3, <2>4 DEF RowsInv, Checked, Restoring, RestoreSteps
<1>2. ASSUME op.kind = "undo", op'.toks = op.toks, op'.base = op.base, rows' = rows,
             \A i \in DOMAIN op.toks : Checked(i)' => Checked(i),
             \A i \in DOMAIN op.toks : Restoring' /\ RowDone(i)' => Restoring /\ RowDone(i),
             ~ Restoring' => ~ Restoring
      PROVE  RowsInv'
  BY <1>0, <1>2 DEF RowsInv, Backup
<1>3. CASE CheckedOne
  <2>1. SameUndo /\ op.step = "check" /\ rows' = rows /\ ~ Conflict(Here) /\ ~ Restoring
    BY <1>3 DEF CheckedOne, data, Restoring, RestoreSteps
  <2>2. \A i \in DOMAIN op.toks : Checked(i)' => i < op.token \/ i = op.token
    BY <1>3, <2>1, Numbers DEF CheckedOne, SameUndo, Checked, Restoring, RestoreSteps
  <2>3. \A i \in DOMAIN op.toks : i < op.token => Checked(i)
    BY DEF Checked
  <2>4. Here.db # "none" => op.base.rows[Here.db] = "none"
    <3>1. Here \in Saved
      BY <2>1, Numbers DEF SameUndo, Here
    <3>2. Here.db # "none" => Here.db \in DbSet /\ rows[Here.db] = "none"
      BY <2>1, <3>1 DEF Saved, Conflict
    <3> QED BY <2>1, <3>2 DEF RowsInv, SameUndo
  <2>5. \A i \in DOMAIN op.toks : ~ (Restoring /\ RowDone(i))'
    BY <1>3, <2>1, Numbers DEF CheckedOne, SameUndo, Restoring, RowDone, Past, RestoreSteps
  <2>6. \A i \in DOMAIN op.toks :
          Checked(i)' /\ Backup(op.toks[i]).db # "none" => op.base.rows[Backup(op.toks[i]).db] = "none"
    BY <2>1, <2>2, <2>3, <2>4 DEF RowsInv, SameUndo, Here
  <2> QED BY <1>0, <2>1, <2>5, <2>6 DEF SameUndo, RowsInv, Backup
<1>4. CASE RowBack
  <2>1. SameUndo /\ op.step = "insert" /\ op'.step = "write" /\ op'.token = op.token /\ Restoring /\ Restoring'
    BY <1>4 DEF RowBack, Restoring, RestoreSteps
  <2>2. \A i \in DOMAIN op.toks : RowDone(i)' => RowDone(i) \/ i = op.token
    BY <2>1 DEF RowDone, Past
  <2>3. Here \in Saved
    BY <2>1, Numbers DEF SameUndo, Here
  <2>4. ASSUME NEW i \in DOMAIN op.toks, Backup(op.toks[i]).db # "none"
        PROVE  op.base.rows[Backup(op.toks[i]).db] = "none"
    BY <2>1, <2>4 DEF RowsInv, SameUndo, Checked
  <2>5. ASSUME NEW i \in DOMAIN op.toks, Backup(op.toks[i]).db # "none", RowDone(i)'
        PROVE  rows'[Backup(op.toks[i]).db] = Backup(op.toks[i]).row
    <3>1. Backup(op.toks[i]) \in Saved /\ op.toks[i] \in DOMAIN backups
      BY <2>1, Numbers, Parts DEF SameUndo
    <3>2. Backup(op.toks[i]).row # "none" /\ Backup(op.toks[i]).db \in DbSet
      BY <2>5, <3>1 DEF BackedUp, Backup, Saved
    <3>3. CASE i = op.token
      BY <1>0, <1>4, <2>3, <2>5, <3>2, <3>3 DEF RowBack, Here
    <3>4. CASE i # op.token
      <4>1. rows[Backup(op.toks[i]).db] = Backup(op.toks[i]).row
        BY <2>1, <2>2, <2>5, <3>4 DEF RowsInv, SameUndo
      <4> QED BY <1>0, <1>4, <3>2, <4>1 DEF RowBack
    <3> QED BY <3>3, <3>4
  <2>6. op'.toks = op.toks /\ op'.base = op.base
    BY <2>1 DEF SameUndo
  <2>7. Restoring'
    BY <2>1
  <2>8. \A i \in DOMAIN op'.toks :
          LET b == backups'[op'.toks[i]]
          IN  b.db # "none" => /\ op'.base.rows[b.db] = "none"
                               /\ RowDone(i)' => rows'[b.db] = b.row
    BY <1>0, <2>4, <2>5, <2>6 DEF Backup
  <2> QED BY <2>7, <2>8 DEF RowsInv, Backup
<1>5. CASE FileBack
  BY <1>2, <1>5 DEF FileBack, SameUndo, Checked, Restoring, RowDone, Past, RestoreSteps
<1>6. CASE LineRead \/ LineBack
  BY <1>2, <1>6 DEF LineRead, LineBack, data, SameUndo, Checked, Restoring, RowDone, Past, RestoreSteps
<1>7. CASE NextBackup
  <2>1. SameUndo /\ op.step = "restored" /\ op'.step = "insert" /\ op'.token = op.token + 1 /\ rows' = rows
    BY <1>7 DEF NextBackup, data
  <2>2. \A i \in DOMAIN op.toks : RowDone(i)' => RowDone(i)
    BY <2>1, Numbers DEF SameUndo, RowDone, Past
  <2> QED BY <1>2, <2>1, <2>2 DEF SameUndo, Checked, Restoring, RestoreSteps
<1>8. CASE op.kind = "undo" /\ CodexWrites
  <2>1. op' = op
    BY <1>8 DEF CodexWrites
  <2>2. CASE rows' = rows
    BY <1>2, <1>8, <2>1, <2>2 DEF Checked, Restoring, RowDone, Past
  <2>3. ASSUME NEW d \in DbSet, rows[d] = "none", rows' = [rows EXCEPT ![d] = "new"] PROVE RowsInv'
    <3>1. \A e \in DbSet : rows[e] # "none" => rows'[e] = rows[e]
      BY <1>0, <2>3
    <3>2. \A i \in DOMAIN op.toks :
            LET b == Backup(op.toks[i])
            IN  b.db # "none" /\ Restoring /\ RowDone(i) => rows'[b.db] = b.row
      <4> SUFFICES ASSUME NEW i \in DOMAIN op.toks, Backup(op.toks[i]).db # "none", Restoring, RowDone(i)
                   PROVE  rows'[Backup(op.toks[i]).db] = Backup(op.toks[i]).row
        OBVIOUS
      <4>1. Backup(op.toks[i]) \in Saved /\ op.toks[i] \in DOMAIN backups
        BY <1>8, Numbers, Parts
      <4>2. Backup(op.toks[i]).row # "none" /\ Backup(op.toks[i]).db \in DbSet
        BY <4>1 DEF BackedUp, Backup, Saved
      <4>3. rows[Backup(op.toks[i]).db] = Backup(op.toks[i]).row
        BY <1>8 DEF RowsInv
      <4> QED BY <3>1, <4>2, <4>3
    <3>3. ~ Restoring => \A e \in DbSet : rows'[e] = op.base.rows[e] \/ (op.base.rows[e] = "none" /\ rows'[e] = "new")
      <4> SUFFICES ASSUME ~ Restoring, NEW e \in DbSet
                   PROVE  rows'[e] = op.base.rows[e] \/ (op.base.rows[e] = "none" /\ rows'[e] = "new")
        OBVIOUS
      <4>1. rows[e] = op.base.rows[e] \/ (op.base.rows[e] = "none" /\ rows[e] = "new")
        BY <1>8 DEF RowsInv
      <4> QED BY <1>0, <2>3, <4>1
    <3> QED BY <1>0, <1>8, <2>1, <3>2, <3>3
            DEF RowsInv, Backup, Checked, Restoring, RowDone, Past
  <2> QED BY <1>8, <2>2, <2>3 DEF CodexWrites
<1>9. CASE op.kind = "undo" /\ UNCHANGED <<data, backups, op, answer>>
  BY <1>2, <1>9 DEF data, Checked, Restoring, RowDone, Past
<1> QED BY <1>1, <1>3, <1>4, <1>5, <1>6, <1>7, <1>8, <1>9, Undoing

-----------------------------------------------------------------------------
(* What becomes of the rollout file while nobody else writes it.           *)

FileAlone == "file" \notin busy

(* What Codex may write in the middle of an operation is settled at first. *)
LEMMA BusyStays ==
  ASSUME [Next]_vars
  PROVE  busy' = busy
BY DEF Next, vars

(* The tokens in hand at the end of a deletion.                            *)
LEMMA InHandTyped ==
  ASSUME Typed, op.kind = "delete", NEW toks, InHandToks(toks)
  PROVE  toks \in Seq(Tokens) /\ Len(toks) \in Nat /\ DOMAIN toks = 1..Len(toks)
<1>1. op.result.toks \in Seq(Tokens) /\ (op.token # 0 => <<op.token>> \in Seq(Tokens))
  BY Parts, SeqDef DEF Results
<1>2. op.token # 0 => op.result.toks \o <<op.token>> \in Seq(Tokens)
  BY <1>1, ConcatProperties
<1>3. toks \in Seq(Tokens)
  BY <1>1, <1>2, EmptySeq DEF InHandToks
<1> QED BY <1>3, LenProperties

(* The backups a deletion has in hand hold the rollout file once at most.  *)
LEMMA OneFileInHand ==
  ASSUME Typed, FilesInv, op.kind = "delete", NEW toks, InHandToks(toks)
  PROVE  OneFile(toks)
<1>1. CASE toks = <<>> \/ toks = op.result.toks \/ toks = <<op.token>>
  BY <1>1 DEF FilesInv, OneFile
<1>2. CASE op.token # 0 /\ op.count > 0 /\ toks = op.result.toks \o <<op.token>>
  <2>1. op.result.toks \in Seq(Tokens) /\ <<op.token>> \in Seq(Tokens)
    BY <1>2, Parts, SeqDef DEF Results
  <2>2. /\ Len(op.result.toks) \in Nat /\ DOMAIN op.result.toks = 1..Len(op.result.toks)
        /\ DOMAIN toks = 1..(Len(op.result.toks) + 1)
        /\ \A i \in DOMAIN op.result.toks : toks[i] = op.result.toks[i]
        /\ toks[Len(op.result.toks) + 1] = op.token
    BY <1>2, <2>1, ConcatProperties, LenProperties
  <2>3. (\E i \in DOMAIN op.result.toks : Backup(op.result.toks[i]).file # "none")
          => Backup(op.token).file = "none"
    BY <1>2 DEF FilesInv
  <2>4. OneFile(op.result.toks)
    BY DEF FilesInv
  <2>5. \A i \in DOMAIN toks : i \in DOMAIN op.result.toks \/ i = Len(op.result.toks) + 1
    BY <2>2
  <2> QED BY <2>2, <2>3, <2>4, <2>5 DEF OneFile
<1> QED BY <1>1, <1>2 DEF InHandToks

(* The tokens handed out go on naming the same backups.                    *)
LEMMA OneFileStays ==
  ASSUME Typed, [Next]_vars, NEW toks \in Seq(Tokens), OneFile(toks)
  PROVE  \A i, j \in DOMAIN toks :
           backups'[toks[i]].file # "none" /\ backups'[toks[j]].file # "none" => i = j
<1>1. \A i \in DOMAIN toks : toks[i] \in Tokens
  BY LenProperties, ElementOfSeq
<1> QED BY <1>1, BackupsStay DEF OneFile, Backup

(* The backups that an answer names hold the rollout file once at most.    *)
LEMMA AnswerOneFile ==
  ASSUME Typed, FilesInv, [Next]_vars
  PROVE  OneFile(answer.toks)'
<1>1. answer'.toks \in Seq(Tokens) /\ OneFile(answer'.toks)
  <2>1. ASSUME op.kind = "delete", InHandToks(answer'.toks)
        PROVE  answer'.toks \in Seq(Tokens) /\ OneFile(answer'.toks)
    BY <2>1, InHandTyped, OneFileInHand
  <2>2. ASSUME answer'.toks = answer.toks \/ answer'.toks = <<>> \/ (op.kind = "undo" /\ answer'.toks = op.toks)
        PROVE  answer'.toks \in Seq(Tokens) /\ OneFile(answer'.toks)
    <3>1. answer.toks \in Seq(Tokens) /\ op.toks \in Seq(Tokens) /\ <<>> \in Seq(Tokens)
      BY Parts, EmptySeq DEF Results
    <3>2. OneFile(answer.toks) /\ OneFile(<<>>) /\ (op.kind = "undo" => OneFile(op.toks))
      BY DEF FilesInv, OneFile
    <3> QED BY <2>2, <3>1, <3>2
  <2>3. \/ op.kind = "delete" /\ InHandToks(answer'.toks)
        \/ answer'.toks = answer.toks \/ answer'.toks = <<>> \/ (op.kind = "undo" /\ answer'.toks = op.toks)
    BY Shapes DEF DeletionShape, UndoShape, NextPlace, BackupWritten, WithoutToken, RowDeleted, FileRemoved,
       RollsBack, AtLine, DeletionEnds, SameHand, UndoEnds, DeletionBegins, Dies, UndoBegins, CheckedOne,
       RowBack, FileBack, LineRead, LineBack, NextBackup, SameUndo, CodexWrites
  <2> QED BY <2>1, <2>2, <2>3
<1> QED BY <1>1, OneFileStays DEF OneFile, Backup

(* The deletion's part of the invariant, for the operation that follows.   *)
LEMMA FilesStepDelete ==
  ASSUME Typed, FilesInv, FileAlone, [Next]_vars, op'.kind = "delete"
  PROVE  /\ OneFile(op.result.toks)'
         /\ op'.count = 0 => Len(op'.result.toks) <= 1
         /\ op'.count > 0 /\ (\E i \in DOMAIN op'.result.toks : backups'[op'.result.toks[i]].file # "none")
              => file' = "none" /\ (op'.token # 0 => backups'[op'.token].file = "none")
         /\ op'.step \in {"index", "compare", "rewrite", "cleaned"} /\ op'.token # 0 =>
              backups'[op'.token].file = "none" \/ file' = "none"
<1> DEFINE Goal ==
      /\ OneFile(op.result.toks)'
      /\ op'.count = 0 => Len(op'.result.toks) <= 1
      /\ op'.count > 0 /\ (\E i \in DOMAIN op'.result.toks : backups'[op'.result.toks[i]].file # "none")
           => file' = "none" /\ (op'.token # 0 => backups'[op'.token].file = "none")
      /\ op'.step \in {"index", "compare", "rewrite", "cleaned"} /\ op'.token # 0 =>
           backups'[op'.token].file = "none" \/ file' = "none"
<1>1. op.result.toks \in Seq(Tokens) /\ op.count \in Nat
  BY Parts, Databases DEF Results, Operations
<1>2. \A i \in DOMAIN op.result.toks :
        op.result.toks[i] \in Tokens /\ backups'[op.result.toks[i]] = backups[op.result.toks[i]]
  BY <1>1, LenProperties, ElementOfSeq, BackupsStay
<1>3. ASSUME op.kind = "delete", op'.count = op.count, op'.result = op.result,
             file' = file \/ file' = "none",
             \/ op'.token = 0
             \/ op'.token = op.token /\ op.token # 0 /\ UNCHANGED backups
             \/ backups'[op'.token].file \in {"none", file},
             op'.step \in {"index", "compare", "rewrite", "cleaned"} /\ op'.token # 0 =>
               backups'[op'.token].file = "none" \/ file' = "none"
      PROVE  Goal
  <2>1. OneFile(op.result.toks)'
    BY <1>1, <1>3, OneFileStays DEF FilesInv, OneFile, Backup
  <2>2. op'.count = 0 => Len(op'.result.toks) <= 1
    BY <1>3 DEF FilesInv
  <2>3. ASSUME op'.count > 0, \E i \in DOMAIN op'.result.toks : backups'[op'.result.toks[i]].file # "none"
        PROVE  file' = "none" /\ (op'.token # 0 => backups'[op'.token].file = "none")
    <3>1. file = "none" /\ (op.token # 0 => Backup(op.token).file = "none")
      BY <1>2, <1>3, <2>3 DEF FilesInv, Backup
    <3> QED BY <1>3, <3>1 DEF Backup
  <2> QED BY <1>3, <2>1, <2>2, <2>3
<1>4. CASE NextPlace
  <2>1. op.kind = "delete" /\ UNCHANGED <<data, backups>> /\ op'.token = 0 /\ Counts
    BY <1>4, IdleTyped DEF NextPlace
  <2>2. CASE op'.count = op.count /\ op'.result = op.result
    BY <1>3, <2>1, <2>2 DEF data
  <2>3. CASE op'.count = 0 /\ (op'.result.toks = <<>> \/ op'.result.toks = <<op.token>>)
    <3>1. Len(op'.result.toks) <= 1 /\ \A i \in DOMAIN op'.result.toks : i = 1
      <4>1. CASE op'.result.toks = <<>>
        BY <4>1
      <4>2. CASE op'.result.toks = <<op.token>>
        BY <4>2
      <4> QED BY <2>3, <4>1, <4>2
    <3>2. OneFile(op.result.toks)'
      BY <3>1 DEF OneFile
    <3> QED BY <2>1, <2>3, <3>1, <3>2
  <2>4. CASE /\ op.token # 0 /\ op.step = "cleaned" /\ op'.count = op.count + 1
             /\ op'.result.toks = IF op.count = 0 THEN <<op.token>> ELSE op.result.toks \o <<op.token>>
    <3>1. InHandToks(op'.result.toks)
      <4>1. CASE op.count = 0
        BY <2>4, <4>1 DEF InHandToks
      <4>2. CASE op.count > 0
        <5>1. op.token # 0 /\ op.step = "cleaned" /\ op'.result.toks = op.result.toks \o <<op.token>>
          BY <2>4, <4>2
        <5> QED BY <4>2, <5>1 DEF InHandToks
      <4> QED BY <1>1, <4>1, <4>2
    <3>2. OneFile(op'.result.toks)
      BY <2>1, <3>1, OneFileInHand
    <3>3. OneFile(op.result.toks)'
      BY <2>1, <3>2 DEF OneFile, Backup
    <3>4. op'.count > 0
      BY <1>1, <2>4
    <3>5. ASSUME \E i \in DOMAIN op'.result.toks : backups'[op'.result.toks[i]].file # "none"
          PROVE  file' = "none"
      <4>1. PICK i \in DOMAIN op'.result.toks : Backup(op'.result.toks[i]).file # "none"
        BY <2>1, <3>5 DEF Backup
      <4>2. CASE op'.result.toks[i] = op.token
        BY <2>1, <2>4, <4>1, <4>2 DEF FilesInv, data
      <4>3. CASE op'.result.toks[i] # op.token
        <5>1. op.count > 0 /\ op'.result.toks = op.result.toks \o <<op.token>>
          <6>1. op.count # 0
            BY <2>4, <4>1, <4>3
          <6>2. op.count > 0
            BY <1>1, <6>1
          <6> QED BY <2>4, <6>1, <6>2
        <5>2. <<op.token>> \in Seq(Tokens)
          BY <2>1, <2>4, Parts, SeqDef
        <5>3. i \in DOMAIN op.result.toks /\ op'.result.toks[i] = op.result.toks[i]
          BY <1>1, <4>3, <5>1, <5>2, ConcatProperties, LenProperties
        <5> QED BY <2>1, <4>1, <5>1, <5>3 DEF FilesInv, data
      <4> QED BY <4>2, <4>3
    <3> QED BY <2>1, <3>3, <3>4, <3>5
  <2> QED BY <2>1, <2>2, <2>3, <2>4 DEF Counts
<1>5. CASE BackupWritten
  <2>1. PICK b \in Saved :
          /\ Len(backups) < MaxBackups /\ backups' = Append(backups, b) /\ b.file \in {"none", file}
          /\ op'.step = "delete" \/ b.file = "none"
    BY <1>5 DEF BackupWritten
  <2>2. backups'[op'.token] = b
    BY <1>5, <2>1, OneMore DEF BackupWritten
  <2>3. op'.step \in {"index", "compare", "rewrite", "cleaned"} => b.file = "none"
    BY <2>1
  <2> QED BY <1>3, <1>5, <2>1, <2>2, <2>3 DEF BackupWritten, SameHand, data
<1>6. CASE WithoutToken
  BY <1>3, <1>6 DEF WithoutToken, SameHand, data
<1>7. CASE RowDeleted \/ FileRemoved \/ RollsBack
  BY <1>3, <1>7 DEF RowDeleted, FileRemoved, RollsBack, SameHand, data, Backup
<1>8. CASE AtLine
  BY <1>3, <1>8 DEF AtLine, SameHand, FilesInv, Backup
<1>9. CASE DeletionBegins
  BY <1>9 DEF DeletionBegins, OneFile
<1>10. CASE op.kind = "delete" /\ (CodexWrites \/ UNCHANGED <<data, backups, op, answer>>)
  <2>1. op # Idle
    BY <1>10, IdleTyped
  <2>2. UNCHANGED <<file, backups, op>>
    BY <1>10, <2>1 DEF CodexWrites, OthersMay, FileAlone, data
  <2> QED BY <1>3, <1>10, <2>2 DEF FilesInv, Backup
<1> QED BY <1>4, <1>5, <1>6, <1>7, <1>8, <1>9, <1>10, Deleting

(* The undo's part.                                                        *)
LEMMA FilesStepUndo ==
  ASSUME Typed, FilesInv, FileAlone, [Next]_vars, op'.kind = "undo"
  PROVE  /\ OneFile(op.toks)'
         /\ ~ Restoring' => file' = op'.base.file
         /\ \A i \in DOMAIN op'.toks :
              LET b == backups'[op'.toks[i]]
              IN  b.file # "none" =>
                    /\ Checked(i)' => op'.base.file = "none"
                    /\ Restoring' => file' = IF FileDone(i)' THEN b.file ELSE "none"
<1> DEFINE Goal ==
      /\ OneFile(op.toks)'
      /\ ~ Restoring' => file' = op'.base.file
      /\ \A i \in DOMAIN op'.toks :
           LET b == backups'[op'.toks[i]]
           IN  b.file # "none" =>
                 /\ Checked(i)' => op'.base.file = "none"
                 /\ Restoring' => file' = IF FileDone(i)' THEN b.file ELSE "none"
<1>0. UNCHANGED backups
  BY Undoing
<1>1. CASE UndoBegins
  <2>1. answer.toks \in Seq(Tokens)
    BY Parts DEF Results
  <2>2. \A i \in DOMAIN op'.toks : i \in Nat /\ 1 <= i
    BY <1>1, <2>1, LenProperties DEF UndoBegins
  <2>3. op'.base.file = file'
    BY <1>1 DEF UndoBegins, Data, data
  <2>4. op'.token = 1 /\ op'.step = "check" /\ op'.toks = answer.toks
    BY <1>1 DEF UndoBegins
  <2>5. OneFile(op.toks)'
    BY <1>0, <2>4 DEF FilesInv, OneFile, Backup
  <2> QED BY <2>2, <2>3, <2>4, <2>5 DEF Checked, Restoring, RestoreSteps
<1>2. ASSUME op.kind = "undo", op'.toks = op.toks, op'.base = op.base, file' = file,
             \A i \in DOMAIN op.toks : Checked(i)' => Checked(i),
             \A i \in DOMAIN op.toks : FileDone(i)' <=> FileDone(i),
             Restoring' <=> Restoring
      PROVE  Goal
  BY <1>0, <1>2 DEF FilesInv, OneFile, Backup
<1>3. CASE CheckedOne
  <2>1. SameUndo /\ op.step = "check" /\ file' = file /\ ~ Conflict(Here) /\ ~ Restoring
    BY <1>3 DEF CheckedOne, data, Restoring, RestoreSteps
  <2>2. \A i \in DOMAIN op.toks : Checked(i)' => i < op.token \/ i = op.token
    BY <1>3, <2>1, Numbers DEF CheckedOne, SameUndo, Checked, Restoring, RestoreSteps
  <2>3. Here.file # "none" => op.base.file = "none"
    BY <2>1 DEF FilesInv, SameUndo, Conflict
  <2>4. \A i \in DOMAIN op.toks : Restoring' => ~ FileDone(i)'
    BY <1>3, <2>1, Numbers DEF CheckedOne, SameUndo, Restoring, FileDone, Past, RestoreSteps
  <2>5. \A i \in DOMAIN op.toks :
          Checked(i)' /\ Backup(op.toks[i]).file # "none" => op.base.file = "none"
    BY <2>1, <2>2, <2>3 DEF FilesInv, SameUndo, Here, Checked
  <2>6. file = op.base.file
    BY <2>1 DEF FilesInv, SameUndo
  <2>7. \A i \in DOMAIN op.toks : Restoring' => Checked(i)'
    BY DEF Checked
  <2>8. OneFile(op.toks)'
    BY <1>0, <2>1 DEF FilesInv, OneFile, SameUndo, Backup
  <2> QED BY <1>0, <2>1, <2>4, <2>5, <2>6, <2>7, <2>8 DEF SameUndo, Backup
<1>4. CASE RowBack
  BY <1>2, <1>4 DEF RowBack, SameUndo, Checked, Restoring, FileDone, Past, RestoreSteps
<1>5. CASE FileBack
  <2>1. /\ SameUndo /\ op.step = "write" /\ op'.token = op.token /\ Restoring /\ Restoring'
        /\ op'.step \in {"restored", "reindex"}
        /\ file' = IF Here.file = "none" THEN file ELSE Here.file
    BY <1>5 DEF FileBack, Restoring, RestoreSteps
  <2>2. \A i \in DOMAIN op.toks : FileDone(i)' <=> FileDone(i) \/ i = op.token
    BY <2>1 DEF FileDone, Past
  <2>3. ~ FileDone(op.token)
    BY <2>1, Numbers DEF SameUndo, FileDone, Past
  <2>4. OneFile(op.toks)
    BY <2>1 DEF SameUndo, FilesInv
  <2>5. ASSUME NEW i \in DOMAIN op.toks, Backup(op.toks[i]).file # "none"
        PROVE  /\ op.base.file = "none"
               /\ file' = IF FileDone(i)' THEN Backup(op.toks[i]).file ELSE "none"
    <3>1. op.base.file = "none" /\ file = IF FileDone(i) THEN Backup(op.toks[i]).file ELSE "none"
      BY <2>1, <2>5 DEF FilesInv, SameUndo, Checked
    <3>2. CASE i = op.token
      BY <2>1, <2>2, <2>5, <3>1, <3>2 DEF Here
    <3>3. CASE i # op.token
      <4>1. Here.file = "none"
        BY <2>1, <2>4, <2>5, <3>3 DEF OneFile, Here, SameUndo
      <4> QED BY <2>1, <2>2, <3>1, <3>3, <4>1
    <3> QED BY <3>1, <3>2, <3>3
  <2>6. OneFile(op.toks)'
    BY <1>0, <2>1, <2>4 DEF OneFile, SameUndo, Backup
  <2> QED BY <1>0, <2>1, <2>5, <2>6 DEF SameUndo, Backup
<1>6. CASE LineRead \/ LineBack
  BY <1>2, <1>6 DEF LineRead, LineBack, data, SameUndo, Checked, Restoring, FileDone, Past, RestoreSteps
<1>7. CASE NextBackup
  <2>1. SameUndo /\ op.step = "restored" /\ op'.step = "insert" /\ op'.token = op.token + 1 /\ file' = file
    BY <1>7 DEF NextBackup, data
  <2>2. \A i \in DOMAIN op.toks : FileDone(i)' <=> FileDone(i)
    BY <2>1, Numbers DEF SameUndo, FileDone, Past
  <2> QED BY <1>2, <2>1, <2>2 DEF SameUndo, Checked, Restoring, RestoreSteps
<1>8. CASE op.kind = "undo" /\ (CodexWrites \/ UNCHANGED <<data, backups, op, answer>>)
  <2>1. op # Idle
    BY <1>8, IdleTyped
  <2>2. UNCHANGED <<file, op>>
    BY <1>8, <2>1 DEF CodexWrites, OthersMay, FileAlone, data
  <2> QED BY <1>2, <1>8, <2>2 DEF Checked, Restoring, FileDone, Past
<1> QED BY <1>1, <1>3, <1>4, <1>5, <1>6, <1>7, <1>8, Undoing

(* Every step keeps what is known of the rollout file, when nobody else    *)
(* writes it during an operation.                                          *)
LEMMA FilesStep ==
  ASSUME Typed, FilesInv, FileAlone, [Next]_vars
  PROVE  FilesInv'
BY AnswerOneFile, FilesStepDelete, FilesStepUndo DEF FilesInv, Backup

-----------------------------------------------------------------------------
(* What becomes of the index line while nobody else writes it.             *)

LineAlone == "line" \notin busy

(* The tokens in hand name backups.                                        *)
LEMMA HandTokens ==
  ASSUME Typed, op.kind = "delete"
  PROVE  /\ InHand \subseteq Tokens /\ ToSet(op.result.toks) \subseteq Tokens
         /\ \A toks : InHandToks(toks) => ToSet(toks) \subseteq InHand
<1>1. op.result.toks \in Seq(Tokens) /\ (op.token # 0 => op.token \in Tokens)
  BY Parts DEF Results
<1>2. ToSet(op.result.toks) \subseteq Tokens
  BY <1>1, LenProperties, ElementOfSeq DEF ToSet
<1>3. InHand \subseteq Tokens
  BY <1>1, <1>2 DEF InHand
<1>4. ASSUME NEW toks, InHandToks(toks) PROVE ToSet(toks) \subseteq InHand
  <2>1. CASE toks = <<>> \/ toks = op.result.toks \/ (op.token # 0 /\ toks = <<op.token>>)
    BY <2>1 DEF InHand, ToSet
  <2>2. CASE op.token # 0 /\ toks = op.result.toks \o <<op.token>>
    <3>1. <<op.token>> \in Seq(Tokens)
      BY <1>1, <2>2, SeqDef
    <3>2. /\ Len(op.result.toks) \in Nat /\ DOMAIN op.result.toks = 1..Len(op.result.toks)
          /\ DOMAIN toks = 1..(Len(op.result.toks) + 1)
          /\ \A i \in DOMAIN op.result.toks : toks[i] = op.result.toks[i]
          /\ toks[Len(op.result.toks) + 1] = op.token
      <4>1. Len(<<op.token>>) = 1 /\ <<op.token>>[1] = op.token
        OBVIOUS
      <4> DEFINE rs == op.result.toks
                 one == <<op.token>>
      <4>2. rs \in Seq(Tokens) /\ one \in Seq(Tokens) /\ Len(one) = 1 /\ one[1] = op.token /\ toks = rs \o one
        BY <1>1, <2>2, <3>1, <4>1
      <4> HIDE DEF rs, one
      <4>3. /\ Len(toks) = Len(rs) + 1 /\ toks \in Seq(Tokens) /\ Len(rs) \in Nat
            /\ \A i \in 1..(Len(rs) + 1) : toks[i] = IF i <= Len(rs) THEN rs[i] ELSE one[i - Len(rs)]
        <5>1. /\ rs \o one \in Seq(Tokens) /\ Len(rs \o one) = Len(rs) + Len(one)
              /\ \A i \in 1..(Len(rs) + Len(one)) : (rs \o one)[i] = IF i <= Len(rs) THEN rs[i] ELSE one[i - Len(rs)]
          BY ONLY <4>2, ConcatProperties, Zenon
        <5>2. Len(rs) \in Nat
          BY ONLY <4>2, LenProperties
        <5> QED
          BY ONLY <4>2, <5>1, <5>2
      <4>4. DOMAIN rs = 1..Len(rs) /\ DOMAIN toks = 1..(Len(rs) + 1)
        BY ONLY <4>2, <4>3, LenProperties
      <4> QED
        BY <4>2, <4>3, <4>4 DEF rs
    <3>3. \A i \in DOMAIN toks : i \in DOMAIN op.result.toks \/ toks[i] = op.token
      BY <3>2
    <3>4. \A i \in DOMAIN toks : toks[i] \in ToSet(op.result.toks) \/ toks[i] = op.token
      BY <3>2, <3>3 DEF ToSet
    <3> QED BY <2>2, <3>4 DEF InHand, ToSet
  <2> QED BY <1>4, <2>1, <2>2 DEF InHandToks
<1> QED BY <1>2, <1>3, <1>4

(* Backups that agree on the index line go on to agree.                    *)
LEMMA OneLineStays ==
  ASSUME Typed, [Next]_vars, NEW tokens \in SUBSET Tokens, OneLine(tokens)
  PROVE  \A t, u \in tokens :
           backups'[t].line # "none" /\ backups'[u].line # "none" => backups'[t].line = backups'[u].line
<1>1. \A t \in tokens : backups'[t] = backups[t]
  BY BackupsStay
<1> QED BY <1>1 DEF OneLine, Backup

(* The backups that an answer names agree on the index line.               *)
LEMMA AnswerOneLine ==
  ASSUME Typed, LinesInv, [Next]_vars
  PROVE  OneLine(ToSet(answer.toks))'
<1>1. ToSet(answer'.toks) \subseteq Tokens /\ OneLine(ToSet(answer'.toks))
  <2>1. ASSUME op.kind = "delete", InHandToks(answer'.toks)
        PROVE  ToSet(answer'.toks) \subseteq Tokens /\ OneLine(ToSet(answer'.toks))
    <3>1. ToSet(answer'.toks) \subseteq InHand /\ InHand \subseteq Tokens
      BY <2>1, HandTokens
    <3> QED BY <2>1, <3>1 DEF LinesInv, OneLine
  <2>2. CASE answer'.toks = answer.toks \/ (op.kind = "undo" /\ answer'.toks = op.toks)
    <3>1. answer.toks \in Seq(Tokens) /\ op.toks \in Seq(Tokens)
      BY Parts DEF Results
    <3>2. ToSet(answer.toks) \subseteq Tokens /\ ToSet(op.toks) \subseteq Tokens
      BY <3>1, LenProperties, ElementOfSeq DEF ToSet
    <3> QED BY <2>2, <3>2 DEF LinesInv
  <2>3. CASE answer'.toks = <<>>
    BY <2>3 DEF ToSet, OneLine
  <2>4. \/ op.kind = "delete" /\ InHandToks(answer'.toks)
        \/ answer'.toks = answer.toks \/ answer'.toks = <<>> \/ (op.kind = "undo" /\ answer'.toks = op.toks)
    BY Shapes DEF DeletionShape, UndoShape, NextPlace, BackupWritten, WithoutToken, RowDeleted, FileRemoved,
       RollsBack, AtLine, DeletionEnds, SameHand, UndoEnds, DeletionBegins, Dies, UndoBegins, CheckedOne,
       RowBack, FileBack, LineRead, LineBack, NextBackup, SameUndo, CodexWrites
  <2> QED BY <2>1, <2>2, <2>3, <2>4
<1> QED BY <1>1, OneLineStays DEF OneLine, Backup

(* The deletion's part of the invariant, for the operation that follows.   *)
LEMMA LinesStepDelete ==
  ASSUME Typed, LinesInv, LineAlone, [Next]_vars, op'.kind = "delete"
  PROVE  /\ OneLine(InHand)'
         /\ \A t \in InHand' : backups'[t].line # "none" => idx'.line \in {"none", backups'[t].line}
<1> DEFINE Goal ==
      /\ OneLine(InHand)'
      /\ \A t \in InHand' : backups'[t].line # "none" => idx'.line \in {"none", backups'[t].line}
<1>1. ASSUME op.kind = "delete", InHand' \subseteq InHand, idx'.line \in {idx.line, "none"}
      PROVE  Goal
  <2>1. InHand \subseteq Tokens /\ OneLine(InHand)
    BY <1>1, HandTokens DEF LinesInv
  <2>2. \A t \in InHand : backups'[t] = backups[t]
    BY <2>1, BackupsStay
  <2>3. OneLine(InHand)'
    BY <1>1, <2>1, <2>2 DEF OneLine, Backup
  <2>4. \A t \in InHand : Backup(t).line # "none" => idx.line \in {"none", Backup(t).line}
    BY <1>1 DEF LinesInv
  <2> QED BY <1>1, <2>2, <2>3, <2>4 DEF Backup
<1>2. CASE NextPlace
  <2>1. op.kind = "delete" /\ UNCHANGED data /\ op'.token = 0 /\ Counts
    BY <1>2, IdleTyped DEF NextPlace
  <2>2. op'.result = op.result \/ InHandToks(op'.result.toks)
    <3>1. op.count \in Nat
      BY Parts, Databases DEF Operations
    <3>2. CASE op.count = 0
      BY <2>1, <3>2 DEF Counts, InHandToks
    <3>3. CASE op.count > 0
      BY <2>1, <3>3 DEF Counts, InHandToks
    <3> QED BY <3>1, <3>2, <3>3
  <2>3. InHand' = ToSet(op'.result.toks)
    BY <2>1 DEF InHand
  <2>4. ToSet(op'.result.toks) \subseteq InHand
    BY <2>1, <2>2, HandTokens DEF InHand
  <2> QED BY <1>1, <2>1, <2>3, <2>4 DEF data
<1>3. CASE BackupWritten
  <2>1. PICK b \in Saved :
          /\ Len(backups) < MaxBackups /\ backups' = Append(backups, b) /\ b.line \in {"none", idx.line}
    BY <1>3 DEF BackupWritten
  <2>2. backups'[op'.token] = b /\ idx' = idx /\ op.kind = "delete" /\ op'.result = op.result /\ op.token = 0
    BY <1>3, <2>1, OneMore DEF BackupWritten, SameHand, data
  <2>3. InHand' \subseteq InHand \cup {op'.token}
    BY <2>2 DEF InHand
  <2>4. InHand \subseteq Tokens /\ OneLine(InHand)
    BY <2>2, HandTokens DEF LinesInv
  <2>5. \A t \in InHand : backups'[t] = backups[t]
    BY <2>4, BackupsStay
  <2>6. \A t \in InHand : backups[t].line # "none" => idx.line \in {"none", backups[t].line}
    BY <2>2 DEF LinesInv, Backup
  <2>7. \A t \in InHand' : backups'[t].line # "none" => idx'.line \in {"none", backups'[t].line}
    BY <2>1, <2>2, <2>3, <2>5, <2>6
  <2>8. ASSUME NEW t \in InHand', NEW u \in InHand', backups'[t].line # "none", backups'[u].line # "none"
        PROVE  backups'[t].line = backups'[u].line
    <3>1. CASE t \in InHand /\ u \in InHand
      BY <2>4, <2>5, <2>8, <3>1 DEF OneLine, Backup
    <3>2. CASE t \notin InHand \/ u \notin InHand
      BY <2>1, <2>2, <2>3, <2>5, <2>6, <2>8, <3>2
    <3> QED BY <3>1, <3>2
  <2> QED BY <2>7, <2>8 DEF OneLine, Backup
<1>4. CASE WithoutToken \/ RowDeleted \/ FileRemoved \/ RollsBack \/ AtLine
  BY <1>1, <1>4 DEF WithoutToken, RowDeleted, FileRemoved, RollsBack, AtLine, SameHand, data, InHand
<1>5. CASE DeletionBegins
  BY <1>5 DEF DeletionBegins, InHand, ToSet, OneLine
<1>6. CASE op.kind = "delete" /\ (CodexWrites \/ UNCHANGED <<data, backups, op, answer>>)
  <2>1. op # Idle
    BY <1>6, IdleTyped
  <2>2. idx'.line = idx.line /\ op' = op
    BY <1>6, <2>1 DEF CodexWrites, OthersMay, LineAlone, data
  <2> QED BY <1>1, <1>6, <2>2 DEF InHand
<1> QED BY <1>2, <1>3, <1>4, <1>5, <1>6, Deleting

(* The undo's part.                                                        *)
LEMMA LinesStepUndo ==
  ASSUME Typed, LinesInv, LineAlone, [Next]_vars, op'.kind = "undo"
  PROVE  /\ OneLine(ToSet(op.toks))'
         /\ ~ Restoring' => idx'.line = op'.base.line
         /\ op'.step \in {"recompare", "append"} =>
              idx'.line = "none" /\ ("append" \notin busy => op'.seen = idx')
         /\ \A i \in DOMAIN op'.toks :
              LET b == backups'[op'.toks[i]]
              IN  b.line # "none" =>
                    /\ Checked(i)' => op'.base.line = "none"
                    /\ Restoring' => idx'.line \in {"none", b.line}
                    /\ Restoring' /\ LineDone(i)' /\ "append" \notin busy => idx'.line = b.line
<1> DEFINE Goal ==
      /\ OneLine(ToSet(op.toks))'
      /\ ~ Restoring' => idx'.line = op'.base.line
      /\ op'.step \in {"recompare", "append"} =>
           idx'.line = "none" /\ ("append" \notin busy => op'.seen = idx')
      /\ \A i \in DOMAIN op'.toks :
           LET b == backups'[op'.toks[i]]
           IN  b.line # "none" =>
                 /\ Checked(i)' => op'.base.line = "none"
                 /\ Restoring' => idx'.line \in {"none", b.line}
                 /\ Restoring' /\ LineDone(i)' /\ "append" \notin busy => idx'.line = b.line
<1>0. UNCHANGED backups
  BY Undoing
<1>1. CASE UndoBegins
  <2>1. answer.toks \in Seq(Tokens)
    BY Parts DEF Results
  <2>2. \A i \in DOMAIN op'.toks : i \in Nat /\ 1 <= i
    BY <1>1, <2>1, LenProperties DEF UndoBegins
  <2>3. op'.base.line = idx'.line
    BY <1>1 DEF UndoBegins, Data, data
  <2>4. op'.token = 1 /\ op'.step = "check" /\ op'.toks = answer.toks
    BY <1>1 DEF UndoBegins
  <2>5. OneLine(ToSet(op.toks))'
    BY <1>0, <2>4 DEF LinesInv, OneLine, Backup
  <2> QED BY <2>2, <2>3, <2>4, <2>5 DEF Checked, Restoring, RestoreSteps
<1>2. ASSUME op.kind = "undo", op'.toks = op.toks, op'.base = op.base, idx'.line = idx.line,
             op'.step \in {"recompare", "append"} =>
               idx'.line = "none" /\ ("append" \notin busy => op'.seen = idx'),
             \A i \in DOMAIN op.toks : Checked(i)' => Checked(i),
             \A i \in DOMAIN op.toks :
               LineDone(i)' => LineDone(i) \/ Backup(op.toks[i]).line \in {"none", idx.line}
                                           \/ "append" \in busy,
             Restoring' <=> Restoring
      PROVE  Goal
  <2>1. OneLine(ToSet(op.toks))'
    BY <1>0, <1>2 DEF LinesInv, OneLine, Backup
  <2>2. ~ Restoring' => idx'.line = op'.base.line
    BY <1>2 DEF LinesInv
  <2>3. ASSUME NEW i \in DOMAIN op'.toks, backups'[op'.toks[i]].line # "none"
        PROVE  /\ Checked(i)' => op'.base.line = "none"
               /\ Restoring' => idx'.line \in {"none", backups'[op'.toks[i]].line}
               /\ Restoring' /\ LineDone(i)' /\ "append" \notin busy
                    => idx'.line = backups'[op'.toks[i]].line
    <3>1. /\ Checked(i) => op.base.line = "none"
          /\ Restoring => idx.line \in {"none", Backup(op.toks[i]).line}
          /\ Restoring /\ LineDone(i) /\ "append" \notin busy => idx.line = Backup(op.toks[i]).line
      BY <1>0, <1>2, <2>3 DEF LinesInv, Backup
    <3> QED BY <1>0, <1>2, <2>3, <3>1 DEF Backup
  <2> QED BY <1>2, <2>1, <2>2, <2>3
<1>3. CASE CheckedOne
  <2>1. SameUndo /\ op.step = "check" /\ idx' = idx /\ ~ Conflict(Here) /\ ~ Restoring
    BY <1>3 DEF CheckedOne, data, Restoring, RestoreSteps
  <2>2. \A i \in DOMAIN op.toks : Checked(i)' => i < op.token \/ i = op.token
    BY <1>3, <2>1, Numbers DEF CheckedOne, SameUndo, Checked, Restoring, RestoreSteps
  <2>3. Here.line # "none" => op.base.line = "none"
    BY <2>1 DEF LinesInv, SameUndo, Conflict
  <2>4. \A i \in DOMAIN op.toks : Restoring' => ~ LineDone(i)'
    BY <1>3, <2>1, Numbers DEF CheckedOne, SameUndo, Restoring, LineDone, Past, RestoreSteps
  <2>5. \A i \in DOMAIN op.toks :
          Checked(i)' /\ Backup(op.toks[i]).line # "none" => op.base.line = "none"
    BY <2>1, <2>2, <2>3 DEF LinesInv, SameUndo, Here, Checked
  <2>6. idx.line = op.base.line
    BY <2>1 DEF LinesInv, SameUndo
  <2>7. \A i \in DOMAIN op.toks : Restoring' => Checked(i)'
    BY DEF Checked
  <2>8. OneLine(ToSet(op.toks))'
    BY <1>0, <2>1 DEF LinesInv, OneLine, SameUndo, Backup
  <2>9. op'.step \notin {"recompare", "append"}
    BY <1>3 DEF CheckedOne
  <2> QED BY <1>0, <2>1, <2>4, <2>5, <2>6, <2>7, <2>8, <2>9 DEF SameUndo, Backup
<1>4. CASE RowBack
  BY <1>2, <1>4 DEF RowBack, SameUndo, Checked, Restoring, LineDone, Past, RestoreSteps
<1>5. CASE FileBack
  <2>1. /\ SameUndo /\ op.step = "write" /\ op'.token = op.token /\ Restoring /\ Restoring' /\ idx' = idx
        /\ op'.step \in {"restored", "reindex"} /\ (op'.step = "restored" => Here.line = "none")
    BY <1>5 DEF FileBack, Restoring, RestoreSteps
  <2>2. \A i \in DOMAIN op.toks : LineDone(i)' => LineDone(i) \/ (i = op.token /\ op'.step = "restored")
    BY <2>1 DEF LineDone, Past, RestoreSteps
  <2> QED BY <1>2, <2>1, <2>2 DEF SameUndo, Here, Checked
<1>6. CASE LineRead
  <2>1. SameUndo /\ op'.token = op.token /\ idx' = idx
    BY <1>6 DEF LineRead, data
  <2>2. \A i \in DOMAIN op.toks : LineDone(i)' => LineDone(i) \/ (i = op.token /\ op'.step = "restored")
    BY <1>6, <2>1 DEF LineRead, LineDone, Past, RestoreSteps
  <2>3. Restoring /\ Restoring'
    BY <1>6 DEF LineRead, Restoring, RestoreSteps
  <2>4. op'.step \in {"recompare", "append"} =>
          idx'.line = "none" /\ ("append" \notin busy => op'.seen = idx')
    BY <1>6, <2>1 DEF LineRead, LinesInv, SameUndo
  <2>5. op'.step = "restored" => Here.line \in {"none", idx.line} \/ "append" \in busy
    <3> SUFFICES ASSUME op'.step = "restored", "append" \notin busy, Here.line # "none"
                 PROVE  Here.line = idx.line
      OBVIOUS
    <3>1. idx.line \in {"none", Here.line}
      BY <2>1, <2>3 DEF LinesInv, SameUndo, Here
    <3>2. idx.line # "none"
      BY <1>6, <2>1 DEF LineRead, LinesInv, SameUndo
    <3> QED BY <3>1, <3>2
  <2> QED BY <1>2, <2>1, <2>2, <2>3, <2>4, <2>5 DEF SameUndo, Here, Checked
<1>7. CASE LineBack
  <2>1. /\ SameUndo /\ op'.token = op.token /\ op.step = "append" /\ op'.step = "restored"
        /\ idx'.line = Here.line /\ Restoring /\ Restoring' /\ idx.line = "none"
    BY <1>7 DEF LineBack, SameUndo, LinesInv, Restoring, RestoreSteps
  <2>2. \A i \in DOMAIN op.toks : LineDone(i)' => LineDone(i) \/ i = op.token
    BY <2>1 DEF LineDone, Past, RestoreSteps
  <2>3. OneLine(ToSet(op.toks))
    BY <2>1 DEF LinesInv, SameUndo
  <2>4. ASSUME NEW i \in DOMAIN op.toks, Backup(op.toks[i]).line # "none"
        PROVE  /\ op.base.line = "none"
               /\ idx'.line \in {"none", Backup(op.toks[i]).line}
               /\ LineDone(i)' /\ "append" \notin busy => idx'.line = Backup(op.toks[i]).line
    <3>1. op.base.line = "none" /\ (LineDone(i) => "append" \in busy)
      BY <2>1, <2>4 DEF LinesInv, SameUndo, Checked
    <3>2. Here.line \in {"none", Backup(op.toks[i]).line}
      BY <2>1, <2>3, <2>4 DEF SameUndo, OneLine, ToSet, Here
    <3> QED BY <2>1, <2>2, <2>4, <3>1, <3>2 DEF Here
  <2>5. OneLine(ToSet(op.toks))'
    BY <1>0, <2>1, <2>3 DEF OneLine, SameUndo, Backup
  <2> QED BY <1>0, <2>1, <2>4, <2>5 DEF SameUndo, Backup
<1>8. CASE NextBackup
  <2>1. SameUndo /\ op.step = "restored" /\ op'.step = "insert" /\ op'.token = op.token + 1 /\ idx' = idx
    BY <1>8 DEF NextBackup, data
  <2>2. \A i \in DOMAIN op.toks : LineDone(i)' => LineDone(i)
    BY <2>1, Numbers DEF SameUndo, LineDone, Past, RestoreSteps
  <2> QED BY <1>2, <2>1, <2>2 DEF SameUndo, Checked, Restoring, RestoreSteps
<1>9. CASE op.kind = "undo" /\ (CodexWrites \/ UNCHANGED <<data, backups, op, answer>>)
  <2>1. op # Idle
    BY <1>9, IdleTyped
  <2>2. op' = op /\ idx'.line = idx.line /\ ("append" \notin busy => idx' = idx)
    BY <1>9, <2>1 DEF CodexWrites, OthersMay, LineAlone, data
  <2>3. op'.step \in {"recompare", "append"} =>
          idx'.line = "none" /\ ("append" \notin busy => op'.seen = idx')
    BY <1>9, <2>2 DEF LinesInv
  <2> QED BY <1>2, <1>9, <2>2, <2>3 DEF Checked, Restoring, LineDone, Past
<1> QED BY <1>1, <1>3, <1>4, <1>5, <1>6, <1>7, <1>8, <1>9, Undoing

(* Every step keeps what is known of the index line, when nobody else      *)
(* writes it during an operation.                                          *)
LEMMA LinesStep ==
  ASSUME Typed, LinesInv, LineAlone, [Next]_vars
  PROVE  LinesInv'
BY AnswerOneLine, LinesStepDelete, LinesStepUndo, BusyStays DEF LinesInv, Backup

-----------------------------------------------------------------------------
(* The invariant.                                                          *)

(* The invariant holds at first.                                           *)
LEMMA Initially ==
  Init => Typed /\ BackedUp /\ RowsInv /\ FilesInv /\ LinesInv
<1> SUFFICES ASSUME Init PROVE Typed /\ BackedUp /\ RowsInv /\ FilesInv /\ LinesInv
  OBVIOUS
<1>1. op = Idle /\ answer = Failed /\ backups = <<>> /\ lost = 0 /\ idx.tail = 0
  BY DEF Init
<1>2. backups \in Seq(Saved) /\ Len(backups) = 0
  BY <1>1, EmptySeq
<1>3. rows \in [DbSet -> Copy] /\ file \in Copy /\ idx \in Index /\ lost \in 0..MaxAppends
  BY BoundsAssumption DEF Init, Copy, Index
<1>4. TypeOK
  BY <1>1, <1>2, <1>3, IdleTyped, BoundsAssumption DEF TypeOK
<1>5. DeletePlaces /\ UndoPlaces /\ IndexSeen
  BY <1>1, IdleTyped, BoundsAssumption DEF DeletePlaces, UndoPlaces, IndexSeen
<1>6. BackedUp
  BY <1>1, IdleTyped DEF BackedUp
<1>7. answer.toks = <<>> /\ op.kind = "none"
  BY <1>1, IdleTyped DEF Failed
<1>8. RowsInv /\ FilesInv /\ LinesInv
  BY <1>7 DEF RowsInv, FilesInv, LinesInv, OneFile, OneLine, ToSet
<1> QED BY <1>1, <1>4, <1>5, <1>6, <1>8, IdleTyped DEF Typed, Places

(* The parts that hold whatever Codex writes meanwhile, and those about    *)
(* the file and the index line when it does not write them.                *)
DeleteInv ==
  /\ Typed /\ BackedUp /\ RowsInv /\ busy \in WhileBusy
  /\ FileAlone => FilesInv
  /\ LineAlone => LinesInv

(* It holds at every step of a deletion and of an undo (storage.rs,        *)
(* delete_local_from_paths and restore_backups).                           *)
THEOREM DeleteInvariant == Spec => []DeleteInv
<1>1. Init => DeleteInv
  BY Initially DEF DeleteInv, Init
<1>2. DeleteInv /\ [Next]_vars => DeleteInv'
  <2> SUFFICES ASSUME DeleteInv, [Next]_vars PROVE DeleteInv'
    OBVIOUS
  <2>1. Typed' /\ BackedUp' /\ RowsInv'
    BY TypedStep, BackedUpStep, RowsStep DEF DeleteInv
  <2>2. FileAlone => FilesInv'
    BY FilesStep DEF DeleteInv
  <2>3. LineAlone => LinesInv'
    BY LinesStep DEF DeleteInv
  <2>4. busy' \in WhileBusy /\ FileAlone' = FileAlone /\ LineAlone' = LineAlone
    BY BusyStays DEF DeleteInv, FileAlone, LineAlone
  <2> QED BY <2>1, <2>2, <2>3, <2>4 DEF DeleteInv
<1> QED BY <1>1, <1>2, PTL DEF Spec

(* An undo that gets beyond its checks has found no conflict.              *)
LEMMA NoConflict ==
  ASSUME Typed, RowsInv, FilesInv, LinesInv
  PROVE  ConflictRestoresNothing
<1> SUFFICES ASSUME op.kind = "undo", NEW i \in DOMAIN op.toks, Conflicted(Backup(op.toks[i]), op.base)
             PROVE  /\ file = op.base.file /\ idx.line = op.base.line
                    /\ \A d \in DbSet : rows[d] \in {op.base.rows[d], "new"}
  BY DEF ConflictRestoresNothing
<1>1. ~ Restoring
  <2> SUFFICES ASSUME Restoring PROVE FALSE
    OBVIOUS
  <2>1. Checked(i)
    BY DEF Checked
  <2>2. Backup(op.toks[i]).db # "none" => op.base.rows[Backup(op.toks[i]).db] = "none"
    BY <2>1 DEF RowsInv
  <2>3. Backup(op.toks[i]).file # "none" => op.base.file = "none"
    BY <2>1 DEF FilesInv
  <2>4. Backup(op.toks[i]).line # "none" => op.base.line = "none"
    BY <2>1 DEF LinesInv
  <2> QED BY <2>2, <2>3, <2>4 DEF Conflicted
<1> QED BY <1>1 DEF RowsInv, FilesInv, LinesInv

(* What a deletion and an undo have in hand and have done is as it should  *)
(* be, and an undo that finds a conflict restores nothing, as far as Codex *)
(* does not write the file or the line in the middle of an operation       *)
(* (storage.rs, delete_local_from_paths and restore_backups).              *)
THEOREM UndoInvariant == Spec => []UndoInv
<1>1. DeleteInv => UndoInv
  <2> SUFFICES ASSUME DeleteInv PROVE UndoInv
    OBVIOUS
  <2>1. ASSUME {"file", "line"} \cap busy = {} PROVE ConflictRestoresNothing
    <3>1. FileAlone /\ LineAlone
      BY <2>1 DEF FileAlone, LineAlone
    <3> QED BY <3>1, NoConflict DEF DeleteInv
  <2>2. RollbackRefused
    BY OnlyUndoRestores DEF DeleteInv, RollbackRefused
  <2> QED BY <2>1, <2>2 DEF DeleteInv, Typed, FileAlone, LineAlone, UndoInv
<1> QED BY <1>1, DeleteInvariant, PTL

(* The rollback of a deletion whose rollout file could not be removed      *)
(* always refuses: the restore finds that very file (storage.rs, the call  *)
(* of undo in delete_codex_thread).                                        *)
THEOREM RollbackRefuses == Spec => []RollbackRefused
<1>1. DeleteInv => RollbackRefused
  BY OnlyUndoRestores DEF DeleteInv, RollbackRefused
<1> QED BY <1>1, DeleteInvariant, PTL

-----------------------------------------------------------------------------
(* What no step does.                                                      *)

(* A file is replaced or taken away in the two steps that are meant to.    *)
LEMMA FileChanges ==
  ASSUME Typed, [Next]_vars, file' # file
  PROVE  \/ FileRemoved \/ file = "none"
         \/ op.kind = "undo" /\ op.step = "write" /\ op.token \in DOMAIN op.toks /\ Here.file # "none"
<1>1. op.kind = "undo" => op.token \in DOMAIN op.toks
  BY Numbers
<1> QED
  BY <1>1, Shapes
  DEF DeletionShape, UndoShape, NextPlace, BackupWritten, WithoutToken, RowDeleted, RollsBack, AtLine,
      DeletionEnds, UndoEnds, DeletionBegins, Dies, UndoBegins, CheckedOne, RowBack, FileBack, LineRead,
      LineBack, NextBackup, SameUndo, CodexWrites, MayCut, data

(* An undo writes the file only where there is none.                       *)
LEMMA NoFileThere ==
  ASSUME Typed, FilesInv, op.kind = "undo", op.step = "write", op.token \in DOMAIN op.toks,
         Here.file # "none"
  PROVE  file = "none"
<1>1. ~ FileDone(op.token) /\ Restoring
  BY Numbers DEF FileDone, Past, Restoring, RestoreSteps
<1> QED BY <1>1 DEF FilesInv, Here

(* A row that is there changes only when a deletion takes it.              *)
LEMMA RowChanges ==
  ASSUME Typed, [Next]_vars, NEW d \in DbSet, rows[d] # "none", rows'[d] # rows[d]
  PROVE  RowDeleted /\ d = Db
<1>0. rows \in [DbSet -> Copy]
  BY DEF Typed, TypeOK
<1>1. rows' = rows \/ RowDeleted \/ RowBack \/ \E e \in DbSet : rows[e] = "none" /\ rows' = [rows EXCEPT ![e] = "new"]
  BY Shapes
  DEF DeletionShape, UndoShape, NextPlace, BackupWritten, WithoutToken, FileRemoved, RollsBack, AtLine,
      DeletionEnds, UndoEnds, DeletionBegins, Dies, UndoBegins, CheckedOne, FileBack, LineRead,
      LineBack, NextBackup, CodexWrites, data
<1>2. CASE RowDeleted
  BY <1>0, <1>2 DEF RowDeleted
<1>3. CASE RowBack
  BY <1>0, <1>3 DEF RowBack
<1> QED BY <1>0, <1>1, <1>2, <1>3

(* No row is taken away or replaced that no backup holds, and no rollout   *)
(* file where Codex does not write it in the middle of an operation: of    *)
(* storage.rs, backup.rs and the rollback.                                 *)
THEOREM NothingIsLost == Spec => NothingLost
<1>1. DeleteInv /\ [Next]_vars
        => [/\ \A d \in DbSet : rows[d] \in {"none", rows'[d]} \/ Held(d, rows[d])
            /\ \/ "file" \in busy \/ file \in {"none", file'}
               \/ \E i \in DOMAIN backups : backups[i].file = file]_vars
  <2> SUFFICES ASSUME DeleteInv, [Next]_vars
               PROVE  /\ \A d \in DbSet : rows[d] \in {"none", rows'[d]} \/ Held(d, rows[d])
                      /\ \/ "file" \in busy \/ file \in {"none", file'}
                         \/ \E i \in DOMAIN backups : backups[i].file = file
    OBVIOUS
  <2>0. Typed /\ BackedUp
    BY DEF DeleteInv
  <2>1. ASSUME RowDeleted \/ FileRemoved PROVE op.token \in DOMAIN backups
    BY <2>0, <2>1, Parts DEF RowDeleted, FileRemoved, SameHand
  <2>2. ASSUME NEW d \in DbSet, rows[d] # "none", rows'[d] # rows[d] PROVE Held(d, rows[d])
    <3>1. RowDeleted /\ d = Db
      BY <2>0, <2>2, RowChanges
    <3>2. Backup(op.token).db = d /\ Backup(op.token).row = rows[d]
      BY <2>0, <3>1 DEF RowDeleted, BackedUp
    <3> QED BY <2>1, <3>1, <3>2 DEF Held, Backup
  <2>3. ASSUME "file" \notin busy, file # "none", file' # file
        PROVE  \E i \in DOMAIN backups : backups[i].file = file
    <3>0. FilesInv
      BY <2>3 DEF DeleteInv, FileAlone
    <3>1. FileRemoved
      BY <2>0, <2>3, <3>0, FileChanges, NoFileThere
    <3>2. Backup(op.token).file = file
      BY <2>0, <3>1 DEF FileRemoved, SameHand, BackedUp, Typed, Places, DeletePlaces
    <3> QED BY <2>1, <3>1, <3>2 DEF Backup
  <2> QED BY <2>2, <2>3
<1> QED BY <1>1, DeleteInvariant, PTL DEF Spec, NothingLost

(* An undo that reports success has brought back all its backups hold:     *)
(* restore_backups checks all of them before it restores the first; where  *)
(* Codex writes at most rows in the middle of an operation.                *)
THEOREM UndoIsExact == Spec => UndoExact
<1>1. DeleteInv /\ [Next]_vars
        => [busy \subseteq {"row"} /\ op.kind = "undo" /\ op'.kind = "none" /\ answer'.status = "undone"
            => \A i \in DOMAIN op.toks : IsBack(Backup(op.toks[i]))]_vars
  <2> SUFFICES ASSUME DeleteInv, [Next]_vars, busy \subseteq {"row"},
                      op.kind = "undo", op'.kind = "none", answer'.status = "undone", NEW i \in DOMAIN op.toks
               PROVE  IsBack(Backup(op.toks[i]))
    OBVIOUS
  <2>0. Typed /\ RowsInv /\ FilesInv /\ LinesInv /\ "append" \notin busy
    BY DEF DeleteInv, FileAlone, LineAlone
  <2>1. UndoEnds
    BY <2>0, Shapes
    DEF DeletionShape, UndoShape, NextPlace, BackupWritten, WithoutToken, RowDeleted, FileRemoved, RollsBack,
        AtLine, DeletionEnds, SameHand, DeletionBegins, Dies, UndoBegins, CheckedOne, RowBack,
        FileBack, LineRead, LineBack, NextBackup, SameUndo, CodexWrites
  <2>2. /\ op.step = "restored" /\ op.token = Len(op.toks) /\ file' = file /\ UNCHANGED <<rows, idx>>
        /\ Restoring
    BY <2>1 DEF UndoEnds, Restoring, RestoreSteps
  <2>3. i < op.token \/ i = op.token
    BY <2>0, <2>2, Numbers
  <2>4. RowDone(i) /\ FileDone(i) /\ LineDone(i)
    BY <2>2, <2>3 DEF RowDone, FileDone, LineDone, Past, RestoreSteps
  <2>5. Backup(op.toks[i]).db # "none" => rows'[Backup(op.toks[i]).db] = Backup(op.toks[i]).row
    BY <2>0, <2>2, <2>4 DEF RowsInv
  <2>6. Backup(op.toks[i]).file # "none" => file' = Backup(op.toks[i]).file
    BY <2>0, <2>2, <2>4 DEF FilesInv
  <2>7. Backup(op.toks[i]).line # "none" => idx'.line = Backup(op.toks[i]).line
    BY <2>0, <2>2, <2>4 DEF LinesInv
  <2> QED BY <2>5, <2>6, <2>7 DEF IsBack
<1> QED BY <1>1, DeleteInvariant, PTL DEF Spec, UndoExact

(* What an undo found when it began is as it was, and no backup it has     *)
(* checked would be put in its place, whatever Codex writes meanwhile.     *)
SparedInv ==
  op.kind = "undo" =>
    /\ op.base.file # "none" => file = op.base.file
    /\ op.base.line # "none" => idx.line = op.base.line
    /\ \A i \in DOMAIN op.toks :
         Checked(i) => /\ Backup(op.toks[i]).file # "none" => op.base.file = "none"
                       /\ Backup(op.toks[i]).line # "none" => op.base.line = "none"
    /\ op.step \in {"reindex", "recompare", "append"} => Here.line # "none"

(* The step at hand of an undo is of a backup that is checked.             *)
LEMMA HereChecked ==
  ASSUME Typed, SparedInv, op.kind = "undo", op.step \in {"write", "append"}, op.token \in DOMAIN op.toks
  PROVE  /\ Here.file # "none" => op.base.file = "none"
         /\ Here.line # "none" => op.base.line = "none"
BY DEF SparedInv, Checked, Restoring, RestoreSteps, Here

(* A step of an undo leaves alone what the undo found.                     *)
LEMMA FoundStays ==
  ASSUME Typed, SparedInv, [Next]_vars, op.kind = "undo"
  PROVE  /\ op.base.file # "none" => file' = file
         /\ op.base.line # "none" => idx'.line = idx.line
<1>1. ASSUME op.base.file # "none" PROVE file' = file
  <2>1. file # "none"
    BY <1>1 DEF SparedInv
  <2>2. file' = file \/ (op.step = "write" /\ op.token \in DOMAIN op.toks /\ Here.file # "none")
    BY <2>1, FileChanges DEF FileRemoved, SameHand
  <2> QED BY <1>1, <2>2, HereChecked
<1>2. ASSUME op.base.line # "none" PROVE idx'.line = idx.line
  <2>1. idx.line # "none"
    BY <1>2 DEF SparedInv
  <2>2. idx'.line = idx.line \/ LineBack
    BY <2>1, Shapes
    DEF DeletionShape, UndoShape, NextPlace, BackupWritten, WithoutToken, RowDeleted, FileRemoved, RollsBack,
        AtLine, DeletionEnds, SameHand, UndoEnds, DeletionBegins, Dies, UndoBegins, CheckedOne, RowBack,
        FileBack, LineRead, NextBackup, CodexWrites, data
  <2>3. CASE LineBack
    <3>1. op.step = "append" /\ op.token \in DOMAIN op.toks
      BY <2>3 DEF LineBack, SameUndo
    <3>2. Here.line # "none"
      BY <3>1 DEF SparedInv
    <3> QED BY <1>2, <3>1, <3>2, HereChecked
  <2> QED BY <2>2, <2>3
<1> QED BY <1>1, <1>2

(* Every step keeps it.                                                    *)
LEMMA SparedStep ==
  ASSUME Typed, SparedInv, [Next]_vars
  PROVE  SparedInv'
<1> SUFFICES ASSUME op'.kind = "undo" PROVE SparedInv'
  BY DEF SparedInv
<1>0. UNCHANGED backups
  BY Undoing
<1>1. CASE UndoBegins
  <2>1. \A i \in DOMAIN op'.toks : i \in Nat /\ 1 <= i
    BY <1>1, Parts, LenProperties DEF UndoBegins, Results
  <2>2. op'.token = 1 /\ op'.step = "check" /\ op'.base.file = file' /\ op'.base.line = idx'.line
    BY <1>1 DEF UndoBegins, Data, data
  <2> QED BY <2>1, <2>2 DEF SparedInv, Checked, Restoring, RestoreSteps
<1>2. ASSUME op.kind = "undo", op'.toks = op.toks, op'.base = op.base,
             \A i \in DOMAIN op.toks : Checked(i)' =>
               \/ Checked(i)
               \/ /\ Backup(op.toks[i]).file # "none" => op.base.file = "none"
                  /\ Backup(op.toks[i]).line # "none" => op.base.line = "none",
             op'.step \in {"reindex", "recompare", "append"} => Backup(op.toks[op'.token]).line # "none"
      PROVE  SparedInv'
  <2>1. /\ op'.base.file # "none" => file' = op'.base.file
        /\ op'.base.line # "none" => idx'.line = op'.base.line
    BY <1>2, FoundStays DEF SparedInv
  <2>2. \A i \in DOMAIN op'.toks :
          Checked(i)' => /\ Backup(op.toks[i]).file # "none" => op.base.file = "none"
                         /\ Backup(op.toks[i]).line # "none" => op.base.line = "none"
    BY <1>2 DEF SparedInv
  <2> QED BY <1>0, <1>2, <2>1, <2>2 DEF SparedInv, Backup, Here
<1>3. CASE CheckedOne
  <2>1. SameUndo /\ op.step = "check" /\ ~ Conflict(Here) /\ op'.step \in {"check", "insert"}
    BY <1>3 DEF CheckedOne
  <2>2. \A i \in DOMAIN op.toks : Checked(i)' => i < op.token \/ i = op.token
    BY <1>3, <2>1, Numbers DEF CheckedOne, SameUndo, Checked, Restoring, RestoreSteps
  <2>3. /\ Here.file # "none" => op.base.file = "none"
        /\ Here.line # "none" => op.base.line = "none"
    BY <2>1 DEF SparedInv, SameUndo, Conflict
  <2>4. \A i \in DOMAIN op.toks : Checked(i)' =>
           \/ Checked(i)
           \/ /\ Backup(op.toks[i]).file # "none" => op.base.file = "none"
              /\ Backup(op.toks[i]).line # "none" => op.base.line = "none"
    BY <2>2, <2>3 DEF Checked, Here
  <2> QED BY <1>2, <2>1, <2>4 DEF SameUndo, SparedInv, Here, Backup
<1>4. CASE RowBack \/ NextBackup
  <2>1. SameUndo /\ Restoring /\ op'.step \in {"write", "insert"}
    BY <1>4 DEF RowBack, NextBackup, Restoring, RestoreSteps
  <2> QED BY <1>2, <2>1 DEF SameUndo, Checked, SparedInv, Here, Backup
<1>5. CASE FileBack
  <2>1. SameUndo /\ Restoring /\ op'.token = op.token
        /\ (op'.step \in {"reindex", "recompare", "append"} => Here.line # "none")
    BY <1>5 DEF FileBack, Restoring, RestoreSteps
  <2> QED BY <1>2, <2>1 DEF SameUndo, Checked, SparedInv, Here, Backup
<1>6. CASE LineRead \/ LineBack
  <2>1. SameUndo /\ Restoring /\ op'.token = op.token /\ op.step \in {"reindex", "recompare", "append"}
    BY <1>6 DEF LineRead, LineBack, Restoring, RestoreSteps
  <2>2. Here.line # "none"
    BY <2>1 DEF SparedInv, SameUndo
  <2> QED BY <1>2, <2>1, <2>2 DEF SameUndo, Checked, SparedInv, Here, Backup
<1>7. CASE op.kind = "undo" /\ (CodexWrites \/ UNCHANGED <<data, backups, op, answer>>)
  <2>1. op' = op
    BY <1>7 DEF CodexWrites
  <2>2. op'.step \in {"reindex", "recompare", "append"} => Backup(op.toks[op'.token]).line # "none"
    BY <1>7, <2>1 DEF SparedInv, Here
  <2>3. \A i \in DOMAIN op.toks : Checked(i)' => Checked(i)
    BY <2>1 DEF Checked, Restoring
  <2> QED BY <1>2, <1>7, <2>1, <2>2, <2>3
<1> QED BY <1>1, <1>3, <1>4, <1>5, <1>6, <1>7, Undoing

(* Whatever Codex writes meanwhile, an undo replaces no row, and no file   *)
(* and no index line that was there when it began (storage.rs,             *)
(* restore_backups: every backup is checked before one is restored).       *)
THEOREM UndoSparesNew == Spec => UndoSpares
<1>1. Init => SparedInv
  BY IdleTyped DEF Init, SparedInv
<1>2. DeleteInv /\ SparedInv /\ [Next]_vars => SparedInv'
  BY SparedStep DEF DeleteInv
<1>3. DeleteInv /\ SparedInv /\ [Next]_vars
        => [op.kind = "undo" => /\ \A d \in DbSet : rows[d] \in {"none", rows'[d]}
                                /\ op.base.file # "none" => file' = file
                                /\ op.base.line # "none" => idx'.line = idx.line]_vars
  <2> SUFFICES ASSUME DeleteInv, SparedInv, [Next]_vars, op.kind = "undo"
               PROVE  /\ \A d \in DbSet : rows[d] \in {"none", rows'[d]}
                      /\ op.base.file # "none" => file' = file
                      /\ op.base.line # "none" => idx'.line = idx.line
    OBVIOUS
  <2>1. \A d \in DbSet : rows[d] \in {"none", rows'[d]}
    BY RowChanges DEF DeleteInv, RowDeleted, SameHand
  <2> QED BY <2>1, FoundStays DEF DeleteInv
<1> QED BY <1>1, <1>2, <1>3, DeleteInvariant, PTL DEF Spec, UndoSpares
=============================================================================
