-------------------------- MODULE RelaySwitchProofs --------------------------
(***************************************************************************)
(* Proofs about RelaySwitch, for any contents of the files and any number  *)
(* of undo tokens.                                                         *)
(***************************************************************************)
EXTENDS RelaySwitch, TLAPS

(* A pass over the files begins with all of them and takes them one by one. *)
LEMMA Pass ==
  /\ Order \in Suffixes /\ Order # <<>> /\ Left(Order) = Files
  /\ \A t \in Suffixes :
       /\ Left(t) \subseteq Files
       /\ t = <<>> => Left(t) = {}
       /\ t # <<>> =>
            /\ Head(t) \in Left(t) /\ Tail(t) \in Suffixes
            /\ Left(Tail(t)) = Left(t) \ {Head(t)}
            /\ Len(t) = 1 <=> Tail(t) = <<>>
<1>1. /\ DOMAIN <<"settings", "config", "auth">> = {1, 2, 3} /\ DOMAIN <<"config", "auth">> = {1, 2}
      /\ DOMAIN <<"auth">> = {1} /\ DOMAIN <<>> = {}
  OBVIOUS
<1>2. /\ Left(Order) = Files /\ Left(<<"config", "auth">>) = {"config", "auth"}
      /\ Left(<<"auth">>) = {"auth"} /\ Left(<<>>) = {}
  BY <1>1 DEF Left, Order, Files
<1>3. /\ Head(Order) = "settings" /\ Tail(Order) = <<"config", "auth">> /\ Len(Order) # 1
      /\ Head(<<"config", "auth">>) = "config" /\ Tail(<<"config", "auth">>) = <<"auth">>
      /\ Len(<<"config", "auth">>) = 2
      /\ Head(<<"auth">>) = "auth" /\ Tail(<<"auth">>) = <<>> /\ Len(<<"auth">>) = 1
      /\ Order # <<>> /\ <<"config", "auth">> # <<>> /\ <<"auth">> # <<>>
  BY DEF Order
<1>4. ASSUME NEW t \in Suffixes
      PROVE  /\ Left(t) \subseteq Files
             /\ t = <<>> => Left(t) = {}
             /\ t # <<>> =>
                  /\ Head(t) \in Left(t) /\ Tail(t) \in Suffixes
                  /\ Left(Tail(t)) = Left(t) \ {Head(t)}
                  /\ Len(t) = 1 <=> Tail(t) = <<>>
  <2>1. CASE t = Order
    <3>1. /\ t # <<>> /\ Left(t) = Files /\ Head(t) = "settings" /\ Len(t) # 1
          /\ Tail(t) = <<"config", "auth">> /\ Left(Tail(t)) = {"config", "auth"} /\ Tail(t) # <<>>
      BY <2>1, <1>2, <1>3, Zenon
    <3>2. Files \ {"settings"} = {"config", "auth"} /\ "settings" \in Files
      BY DEF Files
    <3>3. Tail(t) \in Suffixes
      BY <3>1 DEF Suffixes
    <3> QED
      BY <3>1, <3>2, <3>3
  <2>2. CASE t = <<"config", "auth">>
    BY <2>2, <1>2, <1>3 DEF Suffixes, Files
  <2>3. CASE t = <<"auth">>
    BY <2>3, <1>2, <1>3 DEF Suffixes, Files
  <2>4. CASE t = <<>>
    BY <2>4, <1>2 DEF Files
  <2> QED
    BY <2>1, <2>2, <2>3, <2>4 DEF Suffixes
<1> QED
  BY <1>2, <1>3, <1>4 DEF Suffixes

(* The snapshot of a token is the one that has it.                         *)
LEMMA SnapHas ==
  ASSUME NEW token, Has(token)
  PROVE  Snap(token) \in snaps /\ Snap(token).token = token
BY DEF Has, Snap

(* At the beginning no operation runs and there is no snapshot.            *)
LEMMA InitSwitchInv == Init => SwitchInv
<1> SUFFICES ASSUME Init PROVE SwitchInv
  OBVIOUS
<1> USE DEF Init, Idle, Blank
<1>1. TypeOK
  BY DEF TypeOK, Operations, Suffixes, Maybe, Confs, Values
<1>2. SnapshotHeld
  BY DEF SnapshotHeld, SwitchSteps
<1>3. Phases
  BY DEF Phases, Committed, At
<1> QED
  BY <1>1, <1>2, <1>3 DEF SwitchInv

(* An operation that ends leaves the invariant right if what is still to   *)
(* be restored is in a snapshot.                                           *)
LEMMA Ends ==
  ASSUME SwitchInv, op' = Idle, files' = files, snaps' \subseteq snaps,
         answer' \in {"ok", "failed", "restored", "recovery", "lost"},
         owed' \in Confs \cup {None},
         EditsWhileBusy \/ owed' = None \/ \E s \in snaps' : s.before = owed'
  PROVE  SwitchInv'
<1> USE DEF Idle, Blank, SwitchInv
<1>1. TypeOK'
  BY DEF TypeOK, Operations, Suffixes, Maybe
<1>2. SnapshotHeld'
  BY DEF SnapshotHeld, SwitchSteps
<1>3. EditsWhileBusy' \/ Phases'
  BY NoneAssumption DEF Phases, Committed, At, TypeOK, Snapshots
<1> QED
  BY <1>1, <1>2, <1>3

(* Without steps of others the interrupted contents stay in a snapshot.    *)
LEMMA NextEnds ==
  ASSUME SwitchInv,
         \/ CaptureFails \/ GiveUp \/ Prune \/ RefuseUndo \/ Conflict
         \/ RecaptureFails \/ Unwound \/ RolledBack \/ Undone \/ Crash
  PROVE  SwitchInv'
<1> USE DEF SwitchInv, Return
<1>1. CASE CaptureFails \/ RefuseUndo \/ Conflict
  BY <1>1, Ends DEF CaptureFails, RefuseUndo, Conflict, Read, Phases, TypeOK
<1>2. CASE GiveUp \/ RolledBack
  BY <1>2, Ends DEF GiveUp, RolledBack, Without, Phases, TypeOK, SnapshotHeld, At, SwitchSteps
<1>3. CASE Prune
  BY <1>3, Ends DEF Prune, Phases, TypeOK, Committed
<1>4. CASE Undone
  BY <1>4, Ends DEF Undone, Without, Phases, TypeOK, Committed
<1>5. CASE RecaptureFails \/ Unwound \/ Crash
  <2>1. op' = Idle /\ UNCHANGED <<files, snaps>> /\ Owe /\ op # Idle
        /\ answer' \in {"ok", "failed", "restored", "recovery", "lost"}
    BY <1>5 DEF RecaptureFails, Unwound, Crash, SnapshotHeld, At
  <2>2. CASE owed' = owed
    BY <2>1, <2>2, Ends DEF Phases, TypeOK
  <2>3. CASE op.kind = "undo" /\ Has(op.token) /\ owed' = Snap(op.token).before
    BY <2>1, <2>3, SnapHas, Ends DEF TypeOK, Snapshots
  <2>4. CASE op.kind = "switch" /\ owed' = op.base /\ ~ (Committed \/ files' = op.base)
    <3>1. op.base \in Confs
      BY <2>1 DEF SnapshotHeld
    <3>2. EditsWhileBusy \/ \E s \in snaps' : s.before = op.base
      BY <2>1, <2>4 DEF SnapshotHeld, Phases, Has
    <3> QED
      BY <2>1, <2>4, <3>1, <3>2, Ends DEF TypeOK
  <2>5. op.kind \in {"switch", "undo"} /\ (op.step # "capture" => Has(op.token))
        /\ (op.kind = "undo" => op.step # "capture")
    BY <2>1 DEF SnapshotHeld, TypeOK, Operations, SwitchSteps
  <2> QED
    BY <2>1, <2>2, <2>3, <2>4, <2>5 DEF Owe
<1> QED
  BY <1>1, <1>2, <1>3, <1>4, <1>5

(* An operation that goes on with a step of its own or a new pass over the *)
(* files, and leaves the snapshots alone.                                  *)
LEMMA GoesOn ==
  ASSUME SwitchInv, UNCHANGED <<snaps, answer, owed>>, files' \in Confs, op' \in Operations,
         UNCHANGED <<op.kind, op.token, op.target, op.base>>,
         op.step \notin {"idle", "capture", "prune"},
         op'.step \notin {"idle", "capture", "prune", "verify"},
         op'.step \in SwitchSteps => op.step \in SwitchSteps,
         op'.step \in {"fingerprint", "recapture", "restore"} => op'.todo = Order,
         op'.step \in {"restore", "unwind"} => op'.read \in Confs,
         \/ EditsWhileBusy
         \/ /\ op'.step \in {"backfill", "save"} => files' = op.base
            /\ op.step = "verify" => \A s \in snaps : s.token = op.token => s.after = op.base
  PROVE  SwitchInv'
<1>1. TypeOK'
  BY DEF SwitchInv, TypeOK
<1>2. Left(Order) = Files /\ Order # <<>>
  BY Pass
<1>3. op' # Idle /\ op # Idle
  BY DEF Idle
<1>4. op'.token = op.token /\ op'.kind = op.kind /\ op'.base = op.base /\ op'.target = op.target
      /\ snaps' = snaps /\ owed' = owed
  OBVIOUS
<1>5. SnapshotHeld'
  <2>1. op'.step \in {"fingerprint", "recapture"} => Pending' = Files
    BY <1>2 DEF Pending
  <2>2. SnapshotHeld
    BY DEF SwitchInv
  <2> QED
    BY <2>1, <2>2, <1>3, <1>4 DEF SnapshotHeld, Has
<1>6. ASSUME ~ EditsWhileBusy PROVE Phases'
  <2>1. op'.step \in {"fingerprint", "recapture", "restore"} => Pending' = Files
    BY <1>2 DEF Pending
  <2>2. Phases
    BY <1>6 DEF SwitchInv
  <2>3. ~ Committed'
    BY <1>2 DEF Committed, At, Finished
  <2> QED
    BY <2>1, <2>2, <2>3, <1>4, <1>6 DEF Phases, At
<1> QED
  BY <1>1, <1>5, <1>6 DEF SwitchInv

(* A pass that is finished has read every file.                            *)
LEMMA ReadAll ==
  ASSUME SwitchInv, Finished, op.step \in {"capture", "fingerprint", "verify", "recapture"}
  PROVE  /\ op.read \in Confs
         /\ EditsWhileBusy \/ op.read = files
         /\ EditsWhileBusy \/ op.step \in {"fingerprint", "recapture"} \/ op.read = op.base
<1>1. Pending = {}
  BY Pass DEF SwitchInv, TypeOK, Operations, Pending, Finished
<1>2. /\ op.read \in Maybe /\ \A f \in Files : op.read[f] \in Values
  BY <1>1 DEF SwitchInv, TypeOK, Operations, SnapshotHeld
<1>3. EditsWhileBusy \/ \A f \in Files : op.read[f] = files[f]
  BY <1>1 DEF SwitchInv, Phases
<1>4. files \in Confs /\ op.read \in Confs
  BY <1>2 DEF Maybe, Confs, SwitchInv, TypeOK
<1>5. EditsWhileBusy \/ op.read = files
  BY <1>3, <1>4 DEF Confs
<1> QED
  BY <1>4, <1>5 DEF SwitchInv, Phases

(* The steps that leave the snapshots alone and end nothing keep the       *)
(* invariant.                                                              *)
LEMMA NextGoesOn ==
  ASSUME SwitchInv,
         \/ Backfill \/ Save \/ Prepare \/ WriteAuth \/ WriteConfig \/ ConfigFails
         \/ ReloadFails \/ ApplyFails \/ RecordFails \/ Verified \/ Recaptured
         \/ RestoreFails
  PROVE  SwitchInv'
<1> USE Pass DEF At, Goto, GotoFiles, SwitchSteps, RestoreSteps
<1>1. /\ files \in [Files -> Values] /\ op \in Operations /\ op.target \in Targets \cup {None}
      /\ op.step \in SwitchSteps => op.target \in Targets
      /\ EditsWhileBusy \/ Phases
  BY DEF SwitchInv, TypeOK, SnapshotHeld, Operations, Confs
<1>2. CASE Backfill
  BY <1>1, <1>2, GoesOn DEF Backfill, Operations, Phases, Confs
<1>3. CASE Save
  BY <1>1, <1>3, GoesOn DEF Save, Operations, Confs, Values
<1>4. CASE Prepare
  BY <1>1, <1>4, GoesOn DEF Prepare, Operations, Confs, Maybe
<1>5. CASE WriteAuth
  <2>1. CASE files' = [files EXCEPT !["auth"] = op.target] /\ op' = [op EXCEPT !.step = "config"]
    BY <1>1, <1>5, <2>1, GoesOn DEF WriteAuth, Operations, Confs, Values
  <2>2. CASE UNCHANGED files /\ op' = [op EXCEPT !.step = "config", !.read["auth"] = None]
    <3>1. [op.read EXCEPT !["auth"] = None] \in Maybe
      BY <1>1 DEF Operations, Maybe
    <3> QED
      BY <1>1, <1>5, <2>2, <3>1, GoesOn DEF WriteAuth, Operations, Confs
  <2> QED
    BY <1>5, <2>1, <2>2 DEF WriteAuth
<1>6. CASE WriteConfig
  BY <1>1, <1>6, GoesOn DEF WriteConfig, Operations, Confs, Maybe, Blank, Values
<1>7. CASE ConfigFails
  BY <1>1, <1>7, GoesOn DEF ConfigFails, Operations, Confs, Maybe, Blank
<1>8. CASE ReloadFails \/ ApplyFails \/ RecordFails
  <2>1. op.step \in {"reload", "auth", "fingerprint"} /\ FailAfterMutation
    BY <1>8 DEF ReloadFails, ApplyFails, RecordFails
  <2> QED
    BY <1>1, <2>1, GoesOn DEF FailAfterMutation, Operations, Confs, Maybe, Blank
<1>9. CASE Verified
  <2>1. /\ op' = [op EXCEPT !.step = "recapture", !.todo = Order, !.read = Blank]
        /\ UNCHANGED <<files, snaps, answer, owed>>
        /\ op.step = "verify" /\ Finished /\ op.read = Snap(op.token).after
    BY <1>9 DEF Verified
  <2>2. \/ EditsWhileBusy
        \/ \A s \in snaps : s.token = op.token => s.after = op.base
    <3>1. Has(op.token) /\ \A s, t \in snaps : s.token = t.token => s = t
      BY <2>1 DEF SwitchInv, SnapshotHeld
    <3>2. EditsWhileBusy \/ op.read = op.base
      BY <1>1, <2>1, ReadAll
    <3> QED
      BY <2>1, <3>1, <3>2, SnapHas
  <2> QED
    BY <1>1, <2>1, <2>2, GoesOn DEF Operations, Confs, Maybe, Blank
<1>10. CASE Recaptured
  <2>1. /\ op' = [op EXCEPT !.step = "restore", !.todo = Order]
        /\ UNCHANGED <<files, snaps, answer, owed>> /\ op.step = "recapture" /\ Finished
    BY <1>10 DEF Recaptured
  <2>2. op.read \in Confs
    BY <2>1, ReadAll
  <2> QED
    BY <1>1, <2>1, <2>2, GoesOn DEF Operations, Confs
<1>11. CASE RestoreFails
  <2>1. /\ op' = [op EXCEPT !.step = "unwind", !.todo = Order]
        /\ UNCHANGED <<files, snaps, answer, owed>> /\ op.step = "restore"
    BY <1>11 DEF RestoreFails
  <2>2. op.read \in Confs
    BY <2>1 DEF SwitchInv, SnapshotHeld
  <2> QED
    BY <1>1, <2>1, <2>2, GoesOn DEF Operations, Confs
<1> QED
  BY <1>2, <1>3, <1>4, <1>5, <1>6, <1>7, <1>8, <1>9, <1>10, <1>11

(* What one step of a pass does to the files that it has not reached.      *)
LEMMA OneStep ==
  ASSUME SwitchInv, ~ Finished
  PROVE  /\ File \in Files /\ Tail(op.todo) \in Suffixes
         /\ Left(Tail(op.todo)) = Pending \ {File}
         /\ Len(op.todo) = 1 <=> Tail(op.todo) = <<>>
<1>1. op.todo \in Suffixes /\ op.todo # <<>>
  BY DEF SwitchInv, TypeOK, Operations, Finished
<1>2. /\ Left(op.todo) \subseteq Files /\ Head(op.todo) \in Left(op.todo)
      /\ Tail(op.todo) \in Suffixes /\ Left(Tail(op.todo)) = Left(op.todo) \ {Head(op.todo)}
      /\ Len(op.todo) = 1 <=> Tail(op.todo) = <<>>
  BY <1>1, Pass
<1> QED
  BY <1>2 DEF File, Pending

(* Reading the next file of a pass.                                        *)
LEMMA NextReads ==
  ASSUME SwitchInv, Capture \/ Fingerprint \/ Verify \/ Recapture
  PROVE  SwitchInv'
<1>1. /\ op' = [op EXCEPT !.read[File] = files[File], !.todo = Tail(@)] /\ ~ Finished
      /\ UNCHANGED <<files, snaps, answer, owed>>
      /\ op.step \in {"capture", "fingerprint", "verify", "recapture"}
  BY DEF Capture, Fingerprint, Verify, Recapture, Read, At
<1>2. /\ File \in Files /\ Tail(op.todo) \in Suffixes
      /\ Left(Tail(op.todo)) = Pending \ {File}
  BY <1>1, OneStep
<1>3. op.read \in Maybe /\ files \in Confs /\ op \in Operations
  BY DEF SwitchInv, TypeOK, Operations
<1>4. /\ op'.read = [op.read EXCEPT ![File] = files[File]] /\ op'.todo = Tail(op.todo)
      /\ UNCHANGED <<op.kind, op.step, op.token, op.target, op.base>>
      /\ op' \in Operations
  BY <1>1, <1>2, <1>3 DEF Operations, Maybe, Confs
<1>5. Pending' = Pending \ {File}
  BY <1>2, <1>4 DEF Pending
<1>6. \A f \in Files \ Pending' : op'.read[f] = IF f = File THEN files[f] ELSE op.read[f]
  BY <1>2, <1>3, <1>4, <1>5 DEF Maybe
<1>7. TypeOK'
  BY <1>1, <1>4 DEF SwitchInv, TypeOK
<1>8. SnapshotHeld'
  <2>1. \A f \in Files \ Pending' : op'.read[f] \in Values
    BY <1>1, <1>3, <1>5, <1>6 DEF SwitchInv, SnapshotHeld, Confs
  <2>2. op # Idle /\ op' # Idle
    <3>1. op.step # "idle" /\ op'.step # "idle"
      BY <1>1, <1>4
    <3> QED
      BY <3>1 DEF Idle
  <2> QED
    BY <1>1, <1>4, <2>1, <2>2 DEF SwitchInv, SnapshotHeld, Has
<1>9. ASSUME ~ EditsWhileBusy PROVE Phases'
  <2>1. \A f \in Files \ Pending' : op'.read[f] = files[f]
    BY <1>1, <1>5, <1>6, <1>9 DEF SwitchInv, Phases
  <2>2. ~ Committed'
    BY <1>1, <1>4 DEF Committed, At
  <2> QED
    BY <1>1, <1>4, <1>9, <2>1, <2>2 DEF SwitchInv, Phases, At
<1> QED
  BY <1>7, <1>8, <1>9 DEF SwitchInv

(* Writing the next file of a pass: a restore, or the way back from one.   *)
LEMMA NextWrites ==
  ASSUME SwitchInv, Restore \/ Unwind
  PROVE  SwitchInv'
<1>1. /\ op' = [op EXCEPT !.todo = Tail(@)] /\ ~ Finished
      /\ UNCHANGED <<snaps, answer>> /\ op.step \in {"restore", "unwind"}
  BY DEF Restore, Unwind, Write, At
<1>2. /\ File \in Files /\ Tail(op.todo) \in Suffixes
      /\ Left(Tail(op.todo)) = Pending \ {File}
      /\ Len(op.todo) = 1 <=> Tail(op.todo) = <<>>
  BY <1>1, OneStep
<1>3. /\ files \in Confs /\ op \in Operations /\ op.read \in Confs
      /\ Snap(op.token) \in snaps /\ Snap(op.token).token = op.token
      /\ Snap(op.token).before \in Confs
      /\ \A s \in snaps : s.token = op.token => s = Snap(op.token)
  BY <1>1, SnapHas DEF SwitchInv, TypeOK, SnapshotHeld, Snapshots
<1>4. /\ op'.todo = Tail(op.todo) /\ op' \in Operations
      /\ UNCHANGED <<op.kind, op.step, op.token, op.target, op.base, op.read>>
  BY <1>1, <1>2, <1>3 DEF Operations
<1>5. Pending' = Pending \ {File}
  BY <1>2, <1>4 DEF Pending
<1>6. /\ files' \in Confs
      /\ op.step = "restore" => files' = [files EXCEPT ![File] = Snap(op.token).before[File]]
      /\ owed' = owed \/ owed' = None
      /\ op.kind = "undo" /\ op.step = "restore" /\ Tail(op.todo) = <<>> => owed' = None
  BY <1>1, <1>2, <1>3 DEF Restore, Unwind, Write, Confs, At
<1>7. TypeOK'
  BY <1>1, <1>4, <1>6 DEF SwitchInv, TypeOK
<1>8. SnapshotHeld'
  <2>1. op # Idle /\ op' # Idle
    BY <1>1, <1>4 DEF Idle
  <2> QED
    BY <1>1, <1>3, <1>4, <2>1 DEF SwitchInv, SnapshotHeld, Has
<1>9. ASSUME ~ EditsWhileBusy PROVE Phases'
  <2>1. ASSUME op.step = "restore", NEW s \in snaps, s.token = op.token, NEW f \in Files \ Pending'
        PROVE  files'[f] = s.before[f]
    <3>1. s = Snap(op.token)
      BY <1>3, <2>1
    <3>2. f = File \/ files[f] = s.before[f]
      BY <1>5, <1>9, <2>1 DEF SwitchInv, Phases
    <3> QED
      BY <1>2, <1>3, <1>6, <2>1, <3>1, <3>2 DEF Confs
  <2>2. Committed' => owed' = None
    BY <1>1, <1>4, <1>6 DEF Committed, At, Finished
  <2> QED
    BY <1>1, <1>4, <1>6, <1>9, <2>1, <2>2 DEF SwitchInv, Phases, At
<1> QED
  BY <1>7, <1>8, <1>9 DEF SwitchInv

(* So does the begin of an operation: no file has been read yet.           *)
LEMMA NextBegins ==
  ASSUME SwitchInv,
         \E token \in Tokens : (\E target \in Targets : BeginSwitch(token, target)) \/ BeginUndo(token)
  PROVE  SwitchInv'
<1>1. PICK token \in Tokens : (\E target \in Targets : BeginSwitch(token, target)) \/ BeginUndo(token)
  OBVIOUS
<1>2. /\ UNCHANGED <<files, snaps, answer, owed>> /\ files \in Confs /\ op = Idle
      /\ op' \in Operations /\ op'.todo = Order /\ op'.base = files /\ op'.token = token
      /\ \/ op'.kind = "switch" /\ op'.step = "capture" /\ op'.target \in Targets /\ ~ Has(token)
         \/ op'.kind = "undo" /\ op'.step = "verify" /\ Has(token)
  BY <1>1, Pass DEF BeginSwitch, BeginUndo, Operations, SwitchInv, TypeOK, Confs, Maybe, Blank, SwitchSteps
<1>3. Pending' = Files
  BY <1>2, Pass DEF Pending
<1>4. TypeOK'
  BY <1>2 DEF SwitchInv, TypeOK
<1>5. SnapshotHeld'
  <2>1. op' # Idle
    BY <1>2 DEF Idle
  <2> QED
    BY <1>2, <1>3, <2>1 DEF SwitchInv, SnapshotHeld, Has, SwitchSteps
<1>6. EditsWhileBusy \/ Phases'
  BY <1>2, <1>3 DEF SwitchInv, Phases, Committed, At, Has
<1> QED
  BY <1>4, <1>5, <1>6 DEF SwitchInv

(* The snapshot is written with the contents from before the switch.       *)
LEMMA NextPersists ==
  ASSUME SwitchInv, Persist
  PROVE  SwitchInv'
<1>1. /\ op.step = "capture" /\ Finished /\ ~ Has(op.token) /\ op.token \in Tokens
      /\ snaps' = snaps \cup {[token |-> op.token, before |-> op.read, after |-> None]}
      /\ UNCHANGED <<files, answer, owed>> /\ op.kind = "switch" /\ op.target \in Targets
      /\ op # Idle /\ op.base \in Confs
  BY DEF Persist, At, SwitchInv, SnapshotHeld, SwitchSteps
<1>2. /\ op' \in Operations /\ op'.step = "backfill"
      /\ UNCHANGED <<op.kind, op.token, op.target, op.base>>
  BY DEF Persist, SwitchInv, TypeOK, Operations, Maybe, Blank, SwitchSteps
<1>3. op.read \in Confs /\ (EditsWhileBusy \/ op.read = op.base)
  BY <1>1, ReadAll
<1>4. TypeOK'
  BY <1>1, <1>2, <1>3 DEF SwitchInv, TypeOK, Snapshots
<1>5. SnapshotHeld'
  <2>1. op' # Idle
    BY <1>2 DEF Idle
  <2>2. \A s, t \in snaps' : s.token = t.token => s = t
    BY <1>1 DEF SwitchInv, SnapshotHeld, Has
  <2>3. Has(op.token)'
    <3> DEFINE own == [token |-> op.token, before |-> op.read, after |-> None]
    <3>1. own \in snaps' /\ own.token = op.token
      BY <1>1
    <3> QED
      BY <1>2, <3>1 DEF Has
  <2> QED
    BY <1>1, <1>2, <2>1, <2>2, <2>3 DEF SnapshotHeld, SwitchSteps
<1>6. ASSUME ~ EditsWhileBusy PROVE Phases'
  <2>1. \A s \in snaps' : s.token = op.token => s.before = op.base /\ s.after = None
    BY <1>1, <1>3, <1>6 DEF Has
  <2>2. files = op.base /\ \A s \in snaps : s.token # op.token
    BY <1>1, <1>6 DEF SwitchInv, Phases, Has
  <2> QED
    BY <1>1, <1>2, <1>6, <2>1, <2>2 DEF SwitchInv, Phases, Committed, At
<1> QED
  BY <1>4, <1>5, <1>6 DEF SwitchInv

(* The fingerprints are added to that snapshot.                            *)
LEMMA NextRecords ==
  ASSUME SwitchInv, Record
  PROVE  SwitchInv'
<1>1. /\ op.step = "fingerprint" /\ Finished /\ Has(op.token) /\ op.token \in Tokens
      /\ snaps' = WithAfter(op.token, op.read) /\ owed' = None
      /\ UNCHANGED <<files, answer>> /\ op.kind = "switch" /\ op.target \in Targets
      /\ op # Idle /\ op.base \in Confs
  BY DEF Record, At, SwitchInv, SnapshotHeld, SwitchSteps
<1>2. /\ op' \in Operations /\ op'.step = "prune"
      /\ UNCHANGED <<op.kind, op.token, op.target, op.base>>
  BY DEF Record, Goto, SwitchInv, TypeOK, Operations, SwitchSteps
<1>3. op.read \in Confs /\ (EditsWhileBusy \/ op.read = files)
  BY <1>1, ReadAll
<1>4. PICK own \in snaps : own.token = op.token /\ \A s \in snaps : s.token = op.token => s = own
  BY <1>1 DEF Has, SwitchInv, SnapshotHeld
<1>5. /\ own \in Snapshots
      /\ snaps' = {s \in snaps : s.token # op.token} \cup {[own EXCEPT !.after = op.read]}
  BY <1>1, <1>4 DEF WithAfter, Without, SwitchInv, TypeOK
<1>6. /\ [own EXCEPT !.after = op.read] \in Snapshots
      /\ [own EXCEPT !.after = op.read].token = op.token
      /\ [own EXCEPT !.after = op.read].before = own.before
      /\ [own EXCEPT !.after = op.read].after = op.read
  BY <1>3, <1>4, <1>5 DEF Snapshots
<1>7. TypeOK'
  BY <1>1, <1>2, <1>5, <1>6 DEF SwitchInv, TypeOK
<1>8. SnapshotHeld'
  <2>1. op' # Idle
    BY <1>2 DEF Idle
  <2>2. \A s, t \in snaps' : s.token = t.token => s = t
    BY <1>5, <1>6 DEF SwitchInv, SnapshotHeld
  <2> QED
    BY <1>1, <1>2, <1>5, <1>6, <2>1, <2>2 DEF SwitchInv, SnapshotHeld, Has
<1>9. ASSUME ~ EditsWhileBusy PROVE Phases'
  <2>1. own.before = op.base
    BY <1>1, <1>4, <1>9 DEF SwitchInv, Phases
  <2> QED
    BY <1>1, <1>2, <1>3, <1>5, <1>6, <1>9, <2>1 DEF Phases, Committed, At
<1> QED
  BY <1>7, <1>8, <1>9 DEF SwitchInv

(* Another program writes one file, or nothing happens.                    *)
LEMMA NextEdits ==
  ASSUME SwitchInv, (\E f \in Files : Edit(f)) \/ UNCHANGED vars
  PROVE  SwitchInv'
<1>1. /\ UNCHANGED <<snaps, op, answer, owed>> /\ files' \in Confs
      /\ files' = files \/ EditsWhileBusy \/ op = Idle
  BY DEF Edit, vars, SwitchInv, TypeOK, Confs, Values
<1>2. TypeOK' /\ SnapshotHeld'
  BY <1>1 DEF SwitchInv, TypeOK, SnapshotHeld, Has, Pending
<1>3. ASSUME ~ EditsWhileBusy PROVE Phases'
  <2>1. CASE files' = files
    BY <1>1, <1>3, <2>1 DEF SwitchInv, Phases, Committed, At, Finished, Pending
  <2>2. CASE op = Idle
    BY <1>1, <1>3, <2>2 DEF SwitchInv, Phases, Committed, At, Idle
  <2> QED
    BY <1>1, <1>3, <2>1, <2>2
<1> QED
  BY <1>2, <1>3 DEF SwitchInv

(* No step, failure, crash or edit breaks the invariant.                   *)
LEMMA NextSwitchInv == SwitchInv /\ [Next]_vars => SwitchInv'
BY NextEnds, NextGoesOn, NextReads, NextWrites, NextBegins, NextPersists, NextRecords, NextEdits
   DEF Next

-----------------------------------------------------------------------------
(* The refinement, with nobody else writing during an operation.           *)

Conf == IF op = Idle \/ Committed THEN files ELSE op.base
Saved == {s.before : s \in snaps}

(* None is not the contents of the files.                                  *)
LEMMA BaseSome ==
  ASSUME SwitchInv, op # Idle
  PROVE  op.base \in Confs /\ op.base # None
BY NoneAssumption DEF SwitchInv, SnapshotHeld

(* The initial states are those of the abstract switch.                    *)
LEMMA InitUndoable == Init => Switching!Init
<1> SUFFICES ASSUME Init PROVE Switching!Init
  OBVIOUS
<1>1. op = Idle /\ ~ Committed /\ snaps = {} /\ files \in Confs
  BY DEF Init, Idle, Committed, At, Confs, Values
<1> QED
  BY <1>1 DEF Init, Switching!Init, Undos

(* An operation that ends with all of its effect or with none.             *)
LEMMA EndsWhole ==
  ASSUME SwitchInv, SwitchInv', ~ EditsWhileBusy, op # Idle, op' = Idle,
         UNCHANGED <<files, owed>>, snaps' \subseteq snaps,
         Committed \/ files = op.base,
         answer' \in {"ok", "restored"} => Committed,
         answer' = "failed" => ~ Committed
  PROVE  Switching!End
<1>1. ~ Committed'
  BY DEF Committed, At, Idle
<1>2. Conf' = Conf
  BY <1>1 DEF Conf
<1>3. Undos' \subseteq Undos /\ Saved' \subseteq Saved
  BY DEF Undos, Saved
<1>4. owed' # None => owed' \in Saved'
  BY DEF SwitchInv, Phases, Saved
<1>5. answer' \in {"ok", "failed", "restored", "recovery", "lost"}
  BY DEF SwitchInv, TypeOK
<1> QED
  BY <1>1, <1>2, <1>3, <1>4, <1>5 DEF Switching!End, Switching!Forget, Conf, Saved

(* An operation that ends in the middle, and owes what it had to restore.  *)
LEMMA EndsBroken ==
  ASSUME SwitchInv, SwitchInv', ~ EditsWhileBusy, op # Idle, op' = Idle,
         UNCHANGED <<files, snaps>>, Owe, answer' \in {"recovery", "lost"}
  PROVE  Switching!End \/ Switching!Break
<1>1. CASE Committed \/ files = op.base
  BY <1>1, EndsWhole DEF Owe
<1>2. CASE ~ (Committed \/ files = op.base)
  <2>1. ~ Committed' /\ Conf = op.base /\ Conf' = files
    BY <1>2 DEF Conf, Committed, At, Idle
  <2>2. owed' = Conf \/ \E u \in Undos : Conf = u.after /\ owed' = u.before
    <3>1. CASE op.kind = "undo"
      <4>1. op.step \notin {"verify", "capture"}
        BY <1>2, <3>1 DEF SwitchInv, Phases, SnapshotHeld, SwitchSteps
      <4>2. /\ Snap(op.token) \in snaps /\ Snap(op.token).token = op.token
            /\ Snap(op.token).after = op.base
        BY <4>1, <3>1, SnapHas DEF SwitchInv, SnapshotHeld, Phases
      <4>3. op.base # None /\ owed' = Snap(op.token).before
        BY <1>2, <3>1, BaseSome DEF Owe
      <4> DEFINE u == [before |-> Snap(op.token).before, after |-> Snap(op.token).after]
      <4>4. u \in Undos /\ u.after = op.base /\ u.before = Snap(op.token).before
        BY <4>2, <4>3 DEF Undos
      <4> QED
        BY <2>1, <4>3, <4>4
    <3>2. CASE op.kind # "undo"
      BY <1>2, <2>1, <3>2 DEF Owe
    <3> QED
      BY <3>1, <3>2
  <2>3. owed' # None => owed' \in Saved'
    BY DEF SwitchInv, Phases, Saved
  <2>4. Undos' = Undos /\ Saved' = Saved /\ files \in Confs
    BY DEF Undos, Saved, SwitchInv, TypeOK
  <2>5. (op # Idle) = TRUE /\ (op # Idle)' = FALSE /\ Committed' = Committed
    BY <1>2, <2>1 DEF Committed
  <2>6. Switching!Forget
    BY <2>3, <2>4 DEF Switching!Forget, Saved
  <2>7. Switching!Break
    BY <1>2, <2>1, <2>2, <2>4, <2>5, <2>6 DEF Switching!Break, Conf
  <2> QED
    BY <2>7
<1> QED
  BY <1>1, <1>2

(* An operation that goes on without having taken effect changes nothing   *)
(* that the user is promised.                                              *)
LEMMA Hidden ==
  ASSUME op # Idle, op' # Idle, op'.base = op.base, UNCHANGED <<snaps, answer, owed>>,
         ~ Committed, ~ Committed'
  PROVE  UNCHANGED Switching!vars
<1>1. (op # Idle)' = (op # Idle) /\ Committed' = Committed
  BY DEF Committed
<1>2. Undos' = Undos /\ Saved' = Saved
  BY DEF Undos, Saved
<1> QED
  BY <1>1, <1>2 DEF Switching!vars, Saved

(* An end without effect, or a crash, is one of the abstract switch.       *)
LEMMA StepEnds ==
  ASSUME SwitchInv, SwitchInv', ~ EditsWhileBusy,
         \/ CaptureFails \/ GiveUp \/ Prune \/ RefuseUndo \/ Conflict
         \/ RecaptureFails \/ Unwound \/ RolledBack \/ Undone \/ Crash
  PROVE  Switching!End \/ Switching!Break
<1> USE DEF Return, At
<1>1. op' = Idle /\ op # Idle
  BY DEF CaptureFails, GiveUp, Prune, RefuseUndo, Conflict, RecaptureFails, Unwound, RolledBack,
     Undone, Crash, SwitchInv, SnapshotHeld
<1>2. CASE CaptureFails \/ RefuseUndo \/ Conflict \/ GiveUp
  <2>1. /\ op.step \in {"capture", "verify", "backfill", "save"}
        /\ UNCHANGED <<files, owed>> /\ snaps' \subseteq snaps /\ answer' \in {"failed", "recovery"}
    BY <1>2 DEF CaptureFails, RefuseUndo, Conflict, GiveUp, Without
  <2>2. files = op.base /\ ~ Committed
    BY <2>1 DEF SwitchInv, Phases, Committed
  <2> QED
    BY <1>1, <2>1, <2>2, EndsWhole
<1>3. CASE Prune
  <2>1. Committed /\ UNCHANGED <<files, owed>> /\ snaps' \subseteq snaps /\ answer' = "ok"
    BY <1>3 DEF Prune, Committed
  <2> QED
    BY <1>1, <2>1, EndsWhole
<1>4. CASE Undone
  <2>1. /\ Committed /\ UNCHANGED <<files, owed>> /\ snaps' \subseteq snaps
        /\ answer' \in {"ok", "restored", "recovery"}
    BY <1>4 DEF Undone, Committed, Without
  <2> QED
    BY <1>1, <2>1, EndsWhole
<1>5. CASE RolledBack
  <2>1. /\ ~ Committed /\ UNCHANGED <<files, owed>> /\ snaps' \subseteq snaps /\ answer' = "failed"
        /\ op.kind = "switch" /\ op.step = "restore" /\ Finished
    BY <1>5 DEF RolledBack, Committed, Without
  <2>2. files = op.base
    <3>1. Pending = {}
      BY <2>1, Pass DEF SwitchInv, TypeOK, Operations, Pending, Finished
    <3>2. PICK s \in snaps : s.token = op.token
      BY <2>1 DEF SwitchInv, SnapshotHeld, Has
    <3>3. s.before = op.base /\ \A f \in Files : files[f] = s.before[f]
      BY <2>1, <3>1, <3>2 DEF SwitchInv, Phases
    <3>4. files \in Confs /\ op.base \in Confs
      BY <1>1 DEF SwitchInv, TypeOK, SnapshotHeld
    <3> QED
      BY <3>3, <3>4 DEF Confs
  <2> QED
    BY <1>1, <2>1, <2>2, EndsWhole
<1>6. CASE RecaptureFails \/ Unwound \/ Crash
  <2>1. UNCHANGED <<files, snaps>> /\ Owe /\ answer' \in {"recovery", "lost"}
    BY <1>6 DEF RecaptureFails, Unwound, Crash
  <2> QED
    BY <1>1, <2>1, EndsBroken
<1> QED
  BY <1>2, <1>3, <1>4, <1>5, <1>6

(* Reading, writing and rolling back file by file is hidden in the         *)
(* abstract switch.                                                        *)
LEMMA StepHidden ==
  ASSUME SwitchInv, SwitchInv',
         \/ Backfill \/ Save \/ Prepare \/ WriteAuth \/ WriteConfig \/ ConfigFails
         \/ ReloadFails \/ ApplyFails \/ RecordFails \/ Verified \/ Recaptured
         \/ RestoreFails \/ Capture \/ Fingerprint \/ Verify \/ Recapture \/ Unwind
  PROVE  UNCHANGED Switching!vars
<1> USE DEF At
<1>1. /\ UNCHANGED <<snaps, answer, owed>> /\ op # Idle /\ ~ Committed
      /\ op'.base = op.base
  <2>1. op \in Operations /\ (op = Idle <=> op.step = "idle")
    BY DEF SwitchInv, SnapshotHeld, TypeOK
  <2>2. CASE \/ Backfill \/ Save \/ Prepare \/ WriteAuth \/ WriteConfig \/ ConfigFails
             \/ ReloadFails \/ ApplyFails \/ RecordFails
    BY <2>1, <2>2 DEF Backfill, Save, Prepare, WriteAuth, WriteConfig, ConfigFails, ReloadFails,
       ApplyFails, RecordFails, FailAfterMutation, Goto, GotoFiles, Committed, Operations
  <2>3. CASE Verified \/ Recaptured \/ RestoreFails
    BY <2>1, <2>3 DEF Verified, Recaptured, RestoreFails, Goto, GotoFiles, Committed, Finished,
       Operations
  <2>4. CASE Capture \/ Fingerprint \/ Verify \/ Recapture \/ Unwind
    BY <2>1, <2>4 DEF Capture, Fingerprint, Verify, Recapture, Unwind, Read, Write, Committed,
       Finished, Operations
  <2> QED
    BY <2>2, <2>3, <2>4
<1>2. /\ op'.step \notin {"idle", "prune"}
      /\ op'.step = "restore" => op'.todo = Order
  BY DEF Backfill, Save, Prepare, WriteAuth, WriteConfig, ConfigFails, ReloadFails, ApplyFails,
     RecordFails, Verified, Recaptured, RestoreFails, Capture, Fingerprint, Verify, Recapture,
     Unwind, Read, Write, FailAfterMutation, Goto, GotoFiles, SwitchInv,
     TypeOK, Operations
<1>3. ~ Committed' /\ op' # Idle
  BY <1>2, Pass DEF Committed, Finished, Idle
<1> QED
  BY <1>1, <1>3, Hidden

(* The begin of a switch or an undo is one of the abstract switch.         *)
LEMMA StepBegins ==
  ASSUME SwitchInv, SwitchInv',
         \E token \in Tokens : (\E target \in Targets : BeginSwitch(token, target)) \/ BeginUndo(token)
  PROVE  Switching!Begin
<1>1. /\ UNCHANGED <<files, snaps, answer, owed>> /\ op = Idle
      /\ op'.base = files /\ op'.step \in {"capture", "verify"}
  BY DEF BeginSwitch, BeginUndo
<1>2. /\ op' # Idle /\ ~ Committed /\ ~ Committed'
      /\ Committed' = Committed /\ (op # Idle) = FALSE /\ (op # Idle)' = TRUE
  BY <1>1 DEF Idle, Committed, At
<1>3. Undos' = Undos /\ Saved' = Saved /\ Conf' = Conf
  BY <1>1, <1>2 DEF Undos, Saved, Conf
<1> QED
  BY <1>1, <1>2, <1>3 DEF Switching!Begin, Saved, Conf

(* Writing the snapshot saves the contents in the abstract switch.         *)
LEMMA StepPersists ==
  ASSUME SwitchInv, SwitchInv', ~ EditsWhileBusy, Persist
  PROVE  Switching!Save
<1>1. /\ op.step = "capture" /\ Finished /\ op # Idle /\ op'.step = "backfill"
      /\ snaps' = snaps \cup {[token |-> op.token, before |-> op.read, after |-> None]}
      /\ UNCHANGED <<files, answer, owed>> /\ op'.base = op.base
  BY DEF Persist, At, SwitchInv, SnapshotHeld, TypeOK, Operations
<1>2. op.read = op.base
  BY <1>1, ReadAll
<1>3. /\ op' # Idle /\ ~ Committed /\ ~ Committed'
      /\ Committed' = Committed /\ (op # Idle) = TRUE /\ (op # Idle)' = TRUE
  BY <1>1 DEF Idle, Committed, At
<1>4. Conf = op.base /\ Conf' = op.base
  BY <1>1, <1>3 DEF Conf
<1> DEFINE own == [token |-> op.token, before |-> op.read, after |-> None]
<1>5. own.before = op.base /\ own.after = None /\ snaps' = snaps \cup {own}
  BY <1>1, <1>2
<1>6. Saved' = Saved \cup {Conf}
  BY <1>4, <1>5 DEF Saved
<1>7. Undos' = Undos
  BY <1>5 DEF Undos
<1> QED
  BY <1>1, <1>3, <1>4, <1>6, <1>7 DEF Switching!Save, Saved, Conf

(* Recording the fingerprints is the moment the abstract switch happens.   *)
LEMMA StepRecords ==
  ASSUME SwitchInv, SwitchInv', ~ EditsWhileBusy, Record
  PROVE  Switching!Switch
<1>1. /\ op.step = "fingerprint" /\ Finished /\ op # Idle /\ op'.step = "prune"
      /\ snaps' = WithAfter(op.token, op.read) /\ owed' = None /\ op.kind = "switch"
      /\ UNCHANGED <<files, answer>> /\ op'.base = op.base /\ op'.token = op.token
  BY DEF Record, At, Goto, SwitchInv, SnapshotHeld, TypeOK, Operations, SwitchSteps
<1>2. op.read = files /\ files \in Confs /\ files # None
  BY <1>1, ReadAll, NoneAssumption DEF SwitchInv, TypeOK
<1>3. /\ op' # Idle /\ ~ Committed /\ Committed'
      /\ Committed' = TRUE /\ (op # Idle) = TRUE /\ (op # Idle)' = TRUE
  BY <1>1 DEF Idle, Committed, At
<1>4. Conf = op.base /\ Conf' = files
  BY <1>1, <1>3 DEF Conf
<1>5. PICK own \in snaps : own.token = op.token /\ \A s \in snaps : s.token = op.token => s = own
  BY <1>1 DEF Has, SwitchInv, SnapshotHeld
<1>6. own.before = op.base /\ own.after = None /\ own \in Snapshots
  BY <1>1, <1>5 DEF SwitchInv, Phases, At, TypeOK
<1> DEFINE new == [own EXCEPT !.after = op.read]
<1>7. /\ new.before = op.base /\ new.after = files
      /\ snaps' = {s \in snaps : s.token # op.token} \cup {new}
  BY <1>1, <1>2, <1>5, <1>6 DEF WithAfter, Without, Snapshots
<1> HIDE DEF new
<1>8. Saved' = Saved /\ Conf \in Saved
  BY <1>4, <1>5, <1>6, <1>7 DEF Saved
<1>9. Undos' = Undos \cup {[before |-> Conf, after |-> Conf']}
  <2>1. Undos = {[before |-> s.before, after |-> s.after] :
                   s \in {x \in {s \in snaps : s.token # op.token} : x.after # None}}
    BY <1>5, <1>6 DEF Undos
  <2>2. {x \in snaps' : x.after # None} =
          {x \in {s \in snaps : s.token # op.token} : x.after # None} \cup {new}
    BY <1>2, <1>7
  <2>3. [before |-> Conf, after |-> Conf'] = [before |-> new.before, after |-> new.after]
    BY <1>4, <1>7
  <2> QED
    BY <2>1, <2>2, <2>3 DEF Undos
<1> QED
  BY <1>1, <1>2, <1>3, <1>4, <1>8, <1>9 DEF Switching!Switch, Saved, Conf

(* The last file an undo restores is the moment the abstract undo happens. *)
LEMMA StepRestores ==
  ASSUME SwitchInv, SwitchInv', ~ EditsWhileBusy, Restore
  PROVE  Switching!Undo \/ UNCHANGED Switching!vars
<1>1. /\ op.step = "restore" /\ op # Idle /\ ~ Finished
      /\ op' = [op EXCEPT !.todo = Tail(@)] /\ UNCHANGED <<snaps, answer>>
  BY DEF Restore, Write, At, SwitchInv, SnapshotHeld
<1>2. /\ UNCHANGED <<op.kind, op.step, op.base, op.token>> /\ op'.todo = Tail(op.todo)
  BY <1>1 DEF SwitchInv, TypeOK, Operations
<1>3. Len(op.todo) = 1 <=> Tail(op.todo) = <<>>
  BY <1>1, OneStep
<1>4. op' # Idle /\ ~ Committed
  BY <1>1, <1>2 DEF Idle, Committed, At
<1>5. CASE ~ Committed'
  <2>1. owed' = owed
    BY <1>1, <1>2, <1>3, <1>5 DEF Restore, Committed, At, Finished
  <2> QED
    BY <1>1, <1>2, <1>4, <1>5, <2>1, Hidden
<1>6. CASE Committed'
  <2>1. op.kind = "undo" /\ op'.todo = <<>> /\ owed' = None
    BY <1>1, <1>2, <1>3, <1>6 DEF Restore, Committed, At, Finished
  <2>2. PICK s \in snaps : s.token = op.token
    BY <1>1 DEF SwitchInv, SnapshotHeld, Has
  <2>3. s.after = op.base /\ s.after # None
    BY <1>1, <1>4, <2>1, <2>2, BaseSome DEF SwitchInv, Phases
  <2>4. files' = s.before
    <3>1. Pending' = {}
      BY <2>1, Pass DEF Pending, Suffixes
    <3>2. \A f \in Files : files'[f] = s.before[f]
      BY <1>1, <1>2, <2>2, <3>1 DEF SwitchInv, Phases
    <3>3. files' \in Confs /\ s.before \in Confs
      BY <2>2 DEF SwitchInv, TypeOK, Snapshots
    <3> QED
      BY <3>2, <3>3 DEF Confs
  <2>5. Conf = op.base /\ Conf' = files'
    BY <1>1, <1>4, <1>6 DEF Conf
  <2>6. \E u \in Undos : Conf = u.after /\ Conf' = u.before
    <3> DEFINE u == [before |-> s.before, after |-> s.after]
    <3>1. u \in Undos
      BY <2>2, <2>3 DEF Undos
    <3>2. u.before = s.before /\ u.after = s.after
      OBVIOUS
    <3> QED
      BY <2>3, <2>4, <2>5, <3>1, <3>2
  <2>7. Undos' = Undos /\ Saved' = Saved
    BY <1>1 DEF Undos, Saved
  <2>8. Committed' = TRUE /\ (op # Idle) = TRUE /\ (op # Idle)' = TRUE
    BY <1>1, <1>4, <1>6 DEF Committed
  <2> QED
    BY <1>1, <1>4, <2>1, <2>6, <2>7, <2>8 DEF Switching!Undo, Conf, Saved
<1> QED
  BY <1>5, <1>6

(* An edit of another program is one of the abstract switch.               *)
LEMMA StepEdits ==
  ASSUME SwitchInv, SwitchInv', ~ EditsWhileBusy, \E f \in Files : Edit(f)
  PROVE  Switching!Edit
<1>1. UNCHANGED <<snaps, op, answer, owed>> /\ op = Idle
  BY DEF Edit
<1>2. ~ Committed /\ ~ Committed' /\ Committed' = Committed /\ (op # Idle) = FALSE /\ (op # Idle)' = FALSE
  BY <1>1 DEF Idle, Committed, At
<1>3. Undos' = Undos /\ Saved' = Saved /\ Conf' = files' /\ files' \in Confs
  BY <1>1, <1>2 DEF Undos, Saved, Conf, SwitchInv, TypeOK
<1> QED
  BY <1>1, <1>2, <1>3 DEF Switching!Edit, Saved, Conf

(* Every step is a step of the abstract switch or hidden in it.            *)
LEMMA StepUndoable ==
  ~ EditsWhileBusy /\ SwitchInv /\ [Next]_vars => [Switching!Next]_(Switching!vars)
<1> SUFFICES ASSUME ~ EditsWhileBusy, SwitchInv, [Next]_vars
             PROVE  Switching!Next \/ UNCHANGED Switching!vars
  OBVIOUS
<1>1. SwitchInv'
  BY NextSwitchInv
<1>2. CASE Next
  BY <1>1, <1>2, StepEnds, StepHidden, StepBegins, StepPersists, StepRecords, StepRestores, StepEdits
  DEF Next, Switching!Next
<1>3. CASE UNCHANGED vars
  <2>1. UNCHANGED <<files, snaps, op, answer, owed>>
    BY <1>3 DEF vars
  <2> QED
    BY <2>1 DEF Switching!vars, Undos, Committed, At, Finished
<1> QED
  BY <1>2, <1>3

-----------------------------------------------------------------------------
(* Whatever fails and wherever the manager dies, the operation that runs   *)
(* has its snapshot on disk from the moment it may write, and what the     *)
(* snapshot holds is what its step needs (relay_switch.rs, from            *)
(* switch_relay_profile_in_home_with_backup_dir to                         *)
(* restore_last_switch_in_home).                                           *)
THEOREM SwitchInvariant == Spec => []SwitchInv
<1>1. Init => SwitchInv
  BY InitSwitchInv
<1>2. SwitchInv /\ [Next]_vars => SwitchInv'
  BY NextSwitchInv
<1> QED
  BY <1>1, <1>2, PTL DEF Spec

(* With nobody else writing during an operation, the sequence of file      *)
(* operations implements UndoableSwitch: a switch happens entirely or not  *)
(* at all, an undo restores exactly, and contents that an interruption     *)
(* left to restore stay in a snapshot.                                     *)
THEOREM SwitchUndoable == ~ EditsWhileBusy => (Spec => Undoable)
<1> SUFFICES ASSUME ~ EditsWhileBusy PROVE Spec => Undoable
  OBVIOUS
<1>1. Init => Switching!Init
  BY InitUndoable
<1>2. SwitchInv /\ [Next]_vars => [Switching!Next]_(Switching!vars)
  BY StepUndoable
<1>3. Spec => []SwitchInv
  BY SwitchInvariant
<1> QED
  BY <1>1, <1>2, <1>3, PTL DEF Spec, Undoable, Switching!Spec
=============================================================================
