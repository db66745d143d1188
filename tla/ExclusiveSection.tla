-------------------------- MODULE ExclusiveSection --------------------------
(***************************************************************************)
(* What the provider-sync lifecycle lock promises: at any moment at most   *)
(* one process is rewriting the Codex history, whatever the version of the *)
(* program it belongs to.  A process leaves the section when it finishes   *)
(* or when it dies.                                                        *)
(***************************************************************************)

CONSTANT Processes

VARIABLE inside   \* the processes that are in the section

Init == inside = {}

Enter(p) ==
  /\ inside = {}
  /\ inside' = {p}

Leave(p) ==
  /\ p \in inside
  /\ inside' = inside \ {p}

Next == \E p \in Processes : Enter(p) \/ Leave(p)

Spec == Init /\ [][Next]_inside
=============================================================================
