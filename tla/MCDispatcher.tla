---------------------------- MODULE MCDispatcher ----------------------------
(* Dispatcher for TLC.  All containers want the same host port, so that      *)
(* starting one may remove others.                                           *)
EXTENDS Dispatcher, TLC

MCHostPort == [s \in Servers \cup {NoServer} |-> 1]

Symmetry == Permutations(Servers) \cup Permutations(Ids)
            \cup Permutations(Tasks) \cup Permutations(Streams)
=============================================================================
