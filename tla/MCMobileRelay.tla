--------------------------- MODULE MCMobileRelay ---------------------------
(***************************************************************************)
(* Three connections.  Which of them asks for what makes no difference, so *)
(* one order of each three registrations is enough.                        *)
(***************************************************************************)
EXTENDS MobileRelay

CONSTANTS c1, c2, c3, k1, k2

Rank(p) == (IF p.role = "host" THEN 0 ELSE 2) + (IF p.token = k1 THEN 0 ELSE 1)

Sorted ==
  {p \in [Conns -> Registration] : Rank(p[c1]) <= Rank(p[c2]) /\ Rank(p[c2]) <= Rank(p[c3])}
=============================================================================
