------------------------------ MODULE MCSession ------------------------------
(* Session for TLC.  Backoffs 1..3 keep the shape of 1..30: the cap is not a *)
(* power of two times the minimum.                                           *)
EXTENDS Session
=============================================================================
