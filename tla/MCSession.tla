------------------------------ MODULE MCSession ------------------------------
(* Small instances of CloudSession for TLC: three requests about two terms,   *)
(* one of which has a local scenario to fall back on.                         *)
EXTENDS CloudSession, TLC

CONSTANTS q1, q2, q3, t1, t2

Symmetry == Permutations(Requests)
=============================================================================
