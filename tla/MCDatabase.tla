----------------------------- MODULE MCDatabase -----------------------------
(* Database for TLC: two databases, each with its user, and two tasks.       *)
EXTENDS Database, TLC

CONSTANTS n1, n2, u1, u2

MCOwner == n1 :> u1 @@ n2 :> u2

Symmetry == Permutations(Tasks)
=============================================================================
