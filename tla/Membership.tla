------------------------------ MODULE Membership ------------------------------
(***************************************************************************)
(* What a network promises those who call joinNetwork and leaveNetwork,    *)
(* whatever is lost, late or out of order between its peers:               *)
(*                                                                         *)
(*   - a peer the root accepted stays accepted, and only such a peer is a  *)
(*     member or is told that it joined;                                   *)
(*   - a list of peers names the root alone, or is one that was in         *)
(*     circulation with at most one accepted peer more: updates may be     *)
(*     lost, lists may come back, but none is made up;                     *)
(*   - a peer keeps a list only while it is a member, and one that was in  *)
(*     circulation;                                                        *)
(*   - only calls that were made are answered; a leave is answered at most *)
(*     once, with true only if its caller was accepted, and with an error  *)
(*     at once if its caller is no member.                                 *)
(*                                                                         *)
(* It does not promise that a join is answered once, nor that a member is  *)
(* listed.  The specification Peers implements it (Peers!MembershipKept,   *)
(* checked by the runs of Peers and proved in PeersProofs).                *)
(***************************************************************************)
EXTENDS Sequences

CONSTANTS Peer,      \* the peers that join and leave
          Root,      \* the peer that created the network
          JoinCall,  \* the calls of joinNetwork
          LeaveCall, \* those of leaveNetwork
          CallerOf,  \* the peer each call is made to
          NoList     \* no list kept

VARIABLES accepted, \* the peers the root accepted
          members,  \* the peers that are in the network
          lists,    \* the lists in circulation
          kept,     \* the list each peer keeps
          asked,    \* the calls made
          given     \* the answers given to each call

vars == <<accepted, members, lists, kept, asked, given>>

Init == /\ accepted = {}
        /\ members = {}
        /\ lists = {}
        /\ kept = [p \in Peer |-> NoList]
        /\ asked = {}
        /\ given = [c \in JoinCall \cup LeaveCall |-> <<>>]

Gives(c, v) == given' = [given EXCEPT ![c] = Append(@, v)]
Forgets(p) == kept' = [kept EXCEPT ![p] = NoList]

Accept(p) ==
    /\ accepted' = accepted \cup {p}
    /\ UNCHANGED <<members, lists, kept, asked, given>>

\* A list comes into circulation; others may go out of it.
Publish ==
    /\ \E l \in lists \cup {{Root}}, p \in accepted \cup {Root} :
          lists' \in SUBSET (lists \cup {l \cup {p}})
    /\ UNCHANGED <<accepted, members, kept, asked, given>>

Keep(p) ==
    /\ p \in members
    /\ \E l \in lists : kept' = [kept EXCEPT ![p] = l]
    /\ lists' \in SUBSET lists
    /\ UNCHANGED <<accepted, members, asked, given>>

AskJoin(c) ==
    /\ c \notin asked
    /\ asked' = asked \cup {c}
    /\ UNCHANGED <<accepted, members, lists, kept, given>>

Join(c) ==
    /\ c \in asked
    /\ CallerOf[c] \in accepted
    /\ members' = members \cup {CallerOf[c]}
    /\ Forgets(CallerOf[c])
    /\ Gives(c, "true")
    /\ UNCHANGED <<accepted, lists, asked>>

RefuseJoin(c) ==
    /\ c \in asked
    /\ Gives(c, "error")
    /\ UNCHANGED <<accepted, members, lists, kept, asked>>

AskLeave(c) ==
    /\ c \notin asked
    /\ asked' = asked \cup {c}
    /\ IF CallerOf[c] \in members THEN UNCHANGED given ELSE Gives(c, "error")
    /\ UNCHANGED <<accepted, members, lists, kept>>

Leave(c) ==
    /\ c \in asked
    /\ given[c] = <<>>
    /\ CallerOf[c] \in accepted
    /\ members' = members \ {CallerOf[c]}
    /\ Forgets(CallerOf[c])
    /\ Gives(c, "true")
    /\ UNCHANGED <<accepted, lists, asked>>

RefuseLeave(c) ==
    /\ c \in asked
    /\ given[c] = <<>>
    /\ Gives(c, "error")
    /\ UNCHANGED <<accepted, members, lists, kept, asked>>

Next ==
    \/ Publish
    \/ \E p \in Peer : Accept(p) \/ Keep(p)
    \/ \E c \in JoinCall : AskJoin(c) \/ Join(c) \/ RefuseJoin(c)
    \/ \E c \in LeaveCall : AskLeave(c) \/ Leave(c) \/ RefuseLeave(c)

Spec == Init /\ [][Next]_vars
===============================================================================
