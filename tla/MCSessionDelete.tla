-------------------------- MODULE MCSessionDelete --------------------------
(***************************************************************************)
(* Instances of SessionDelete for TLC: one database, and a threads         *)
(* database followed by another one.                                       *)
(***************************************************************************)
EXTENDS SessionDelete

CONSTANTS d1, d2

OneDb == <<d1>>
TwoDbs == <<d1, d2>>
=============================================================================
