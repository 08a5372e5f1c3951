------------------------------ MODULE MCManager ------------------------------
(***************************************************************************)
(* The instance of Manager that TLC checks: the bounds are given in the    *)
(* configuration, and the numbers of requests and lines are small enough   *)
(* to leave every order of them open.                                      *)
(***************************************************************************)
EXTENDS Manager
==============================================================================
