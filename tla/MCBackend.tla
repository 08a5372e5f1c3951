------------------------------ MODULE MCBackend ------------------------------
(***************************************************************************)
(* The instances of Backend that TLC checks.                               *)
(***************************************************************************)
EXTENDS Backend, TLC

CONSTANTS c1, c2
=============================================================================
