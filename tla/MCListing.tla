----------------------------- MODULE MCListing -----------------------------
(***************************************************************************)
(* The instance of FileListUpdate, and so of Listing, that TLC checks: one *)
(* member with every list of one or two entries, and with those of three   *)
(* that begin with two short ones, some entries longer than the limit, or  *)
(* that left the network; two connections, one of the GUI.                 *)
(***************************************************************************)
EXTENDS FileListUpdate, TLC

CONSTANTS p1,     \* the member
          c1, c2  \* the connections

Sequences(n) == [1..n -> 1..(Limit + 1)]

OneMember ==
    p1 :> UNION {Sequences(0), Sequences(1), Sequences(2), {<<1, 1>> \o s : s \in Sequences(1)}}
          \cup {NotJoined}
=============================================================================
