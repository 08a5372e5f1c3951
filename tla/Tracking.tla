------------------------------ MODULE Tracking ------------------------------
(***************************************************************************)
(* What the id that retrieveFile gives promises to whoever polls           *)
(* downloadInfo with it, whatever happens between the peers:               *)
(*                                                                         *)
(*   - a call of retrieveFile is refused, or gives an id, once;            *)
(*   - the id is known from then until the download is over, and never     *)
(*     again;                                                              *)
(*   - the provider's answer sets the size once, before anything is        *)
(*     received; from then on what was received is counted up block by     *)
(*     block and never falls;                                              *)
(*   - a download is reported as finished only when it ends, and at most   *)
(*     once.                                                               *)
(*                                                                         *)
(* The specification FileTransfer implements it (FileTransfer!IdTracks,    *)
(* checked by the run filetransfer and proved in FileTransferProofs).      *)
(***************************************************************************)
EXTENDS Naturals

CONSTANTS Download, \* the calls of retrieveFile
          Blocks    \* the sizes a file may have

VARIABLES stage,    \* how far each download is
          size,     \* its size, from the provider's answer on
          received, \* the blocks received
          finished  \* the downloads reported as finished

vars == <<stage, size, received, finished>>

Init == /\ stage = [d \in Download |-> "new"]
        /\ size = [d \in Download |-> 0]
        /\ received = [d \in Download |-> 0]
        /\ finished = {}

Moves(d, from, to) == stage[d] = from /\ stage' = [stage EXCEPT ![d] = to]

Refuse(d) == Moves(d, "new", "refused") /\ UNCHANGED <<size, received, finished>>

Give(d) == Moves(d, "new", "pending") /\ UNCHANGED <<size, received, finished>>

Begin(d, n) ==
    /\ Moves(d, "pending", "running")
    /\ size' = [size EXCEPT ![d] = n]
    /\ received' = [received EXCEPT ![d] = 0]
    /\ UNCHANGED finished

Progress(d) ==
    /\ stage[d] = "running"
    /\ received' = [received EXCEPT ![d] = @ + 1]
    /\ UNCHANGED <<stage, size, finished>>

Finish(d) ==
    /\ Moves(d, "running", "over")
    /\ finished' = finished \cup {d}
    /\ UNCHANGED <<size, received>>

Fail(d) == Moves(d, "running", "over") /\ UNCHANGED <<size, received, finished>>

Next == \E d \in Download :
           \/ Refuse(d) \/ Give(d)
           \/ \E n \in Blocks : Begin(d, n)
           \/ Progress(d) \/ Finish(d) \/ Fail(d)

Spec == Init /\ [][Next]_vars
=============================================================================
