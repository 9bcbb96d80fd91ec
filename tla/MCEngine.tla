------------------------------ MODULE MCEngine ------------------------------
(***************************************************************************)
(* Small instances of Engine.                                              *)
(***************************************************************************)
EXTENDS Engine

CONSTANTS t1, t2, r1, r2    \* threads

=============================================================================
