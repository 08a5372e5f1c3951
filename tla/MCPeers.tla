------------------------------ MODULE MCPeers ------------------------------
(***************************************************************************)
(* The instance of Peers that TLC checks: two joining peers, or one that   *)
(* retries.                                                                *)
(***************************************************************************)
EXTENDS Peers, TLC

CONSTANTS p1, p2, j1, j2, l1

\* A join of each peer and a leave of the first;
\* or one join and one leave.
TwoPeers == (j1 :> p1) @@ (j2 :> p2) @@ (l1 :> p1)
OnePeer == (j1 :> p1) @@ (l1 :> p1)

NoRetry == (j1 :> 1) @@ (j2 :> 1)
OneRetry == (j1 :> 2)

\* Listeners that may break: of p2 when it joins; of p1 when it joins or leaves.
JoinBreaks == {<<p2, "joinedNetwork">>}
BothBreak == {<<p1, "joinedNetwork">>, <<p1, "leftNetwork">>}
============================================================================
