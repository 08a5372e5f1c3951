------------------------------ MODULE MCCore ------------------------------
(***************************************************************************)
(* The instance of Core that TLC checks: two connections, one name a       *)
(* connected module can take beside the two local ones, one listener bound *)
(* at start.  The number of requests is bounded by ReqId (each connection  *)
(* uses an id once), the number of forwarded requests by MaxPending.       *)
(***************************************************************************)
EXTENDS Core, TLC

CONSTANTS FileTransfer, Gui, joined, left, exported, hidden

MCLocalMethods == [n \in Local |-> {exported}]
MCNoBoot == <<>>
MCBoot == <<[event |-> joined, module |-> FileTransfer, method |-> hidden]>>

\* Clients and request ids are interchangeable: nothing orders or chooses them.
Symmetry == Permutations(Client) \cup Permutations(ReqId)

============================================================================
