------------------------------ MODULE MCInbound ------------------------------
(* Inbound with the skew as the unit of time: the code's 30 and 120 seconds  *)
(* are 1 and 4.                                                              *)
EXTENDS Inbound, TLC

MCTimestamps == 0..MaxTime

Symmetry == Permutations(Nonces)
=============================================================================
