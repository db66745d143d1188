--------------------------- MODULE UndoableSwitch ---------------------------
(***************************************************************************)
(* What switching the provider promises about the three configuration      *)
(* files taken together.  A switch happens entirely or not at all and can  *)
(* be undone exactly; an undo applies only to the very contents its switch *)
(* left; an operation says that it failed only when it changed nothing;    *)
(* and when it has to break off in the middle, the contents it was to      *)
(* bring back are still in a snapshot.                                     *)
(***************************************************************************)

CONSTANTS
  Confs,   \* the contents the three files can have together
  None

VARIABLES
  conf,     \* contents the user has; while an operation runs, had before it
  undos,    \* switches that can be undone: contents before and after
  saved,    \* contents kept in snapshots
  busy,     \* an operation is running
  done,     \* and has taken effect
  answer,   \* what the last operation told the user
  torn      \* contents an interrupted operation still has to bring back

vars == <<conf, undos, saved, busy, done, answer, torn>>

Init ==
  /\ conf \in Confs
  /\ undos = {} /\ saved = {}
  /\ busy = FALSE /\ done = FALSE
  /\ answer = "ok"
  /\ torn = None

Edit ==
  /\ ~ busy
  /\ conf' \in Confs
  /\ UNCHANGED <<undos, saved, busy, done, answer, torn>>

Begin ==
  /\ ~ busy
  /\ busy' = TRUE
  /\ UNCHANGED <<conf, undos, saved, done, answer, torn>>

Save ==
  /\ busy /\ ~ done
  /\ saved' = saved \cup {conf}
  /\ UNCHANGED <<conf, undos, busy, done, answer, torn>>

Switch ==
  /\ busy /\ ~ done
  /\ conf \in saved
  /\ conf' \in Confs
  /\ undos' = undos \cup {[before |-> conf, after |-> conf']}
  /\ done' = TRUE
  /\ torn' = None
  /\ UNCHANGED <<saved, busy, answer>>

Undo ==
  /\ busy /\ ~ done
  /\ \E u \in undos : conf = u.after /\ conf' = u.before
  /\ done' = TRUE
  /\ torn' = None
  /\ UNCHANGED <<undos, saved, busy, answer>>

(* Snapshots are dropped, but never the one an interruption left behind.   *)
Forget ==
  /\ undos' \subseteq undos
  /\ saved' \subseteq saved
  /\ torn' # None => torn' \in saved'

End ==
  /\ busy
  /\ busy' = FALSE /\ done' = FALSE
  /\ answer' \in {"ok", "failed", "restored", "recovery", "lost"}
  /\ answer' \in {"ok", "restored"} => done
  /\ answer' = "failed" => ~ done
  /\ Forget
  /\ UNCHANGED <<conf, torn>>

Break ==
  /\ busy /\ ~ done
  /\ busy' = FALSE
  /\ answer' \in {"recovery", "lost"}
  /\ conf' \in Confs
  /\ torn' = conf \/ \E u \in undos : conf = u.after /\ torn' = u.before
  /\ Forget
  /\ UNCHANGED done

Next == Edit \/ Begin \/ Save \/ Switch \/ Undo \/ End \/ Break

Spec == Init /\ [][Next]_vars
=============================================================================
