------------------------------ MODULE MCDocker ------------------------------
(* Docker for TLC.  All servers and foreign containers want the same port,   *)
(* so that every pair of containers can conflict.                            *)
EXTENDS Docker, TLC

MCHostPort == [s \in Servers \cup {NoServer} |-> 1]

Symmetry == Permutations(Servers) \cup Permutations(Ids) \cup Permutations(Tasks)
=============================================================================
