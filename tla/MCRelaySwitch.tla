--------------------------- MODULE MCRelaySwitch ---------------------------
(* Instances of RelaySwitch: contents and tokens are model values.  The     *)
(* profile in use at first can be a target again (Initial \in Targets), so  *)
(* only tokens are interchangeable.                                         *)
EXTENDS RelaySwitch, TLC

Symmetry == Permutations(Tokens)
=============================================================================
