------------------------------ MODULE MCBackups ------------------------------
(* Backups for TLC.                                                            *)
EXTENDS Backups, TLC

Symmetry == Permutations(Tasks) \cup Permutations(Files)
=============================================================================
