----------------------------- MODULE MCRQQueue -----------------------------
(* Instances of RQQueue for TLC. *)
EXTENDS RQQueue

CONSTANTS r1, r2, u1, u2

TwoOfOneUser == [r \in {r1, r2} |-> u1]
=============================================================================
