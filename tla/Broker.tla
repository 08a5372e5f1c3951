------------------------------ MODULE Broker ------------------------------
(***************************************************************************)
(* What the core process promises the modules connected to it, whatever    *)
(* its tables look like inside:                                            *)
(*                                                                         *)
(*   - a module name has at most one owner; a name that is owned changes   *)
(*     hands only by being released first;                                 *)
(*   - an event handle, once granted, denotes the same binding until it is *)
(*     dropped: granting a handle never disturbs a live one;               *)
(*   - a request is answered at most once, and only after it was made; it  *)
(*     may be answered with the step that takes it or in a later one;      *)
(*   - the names and the handles change only on behalf of a request.       *)
(*                                                                         *)
(* The specification Core implements it (Core!PromiseKept, checked by the  *)
(* run core and proved in CoreProofs).                              *)
(***************************************************************************)
EXTENDS Naturals, Sequences

CONSTANTS Client,       \* the connections on which requests arrive
          ReqId,        \* the ids a client gives its requests
          Name,         \* the names of modules
          Resident,     \* the owner of the modules that live in the core
          Binding,      \* what a handle can denote
          Nobody,       \* the owner of a free name
          NoBinding,    \* what a dropped handle denotes
          BootNames,    \* the names owned by Resident at start
          BootHandles   \* the handles granted at start

VARIABLES owner,    \* the owner of each name
          handles,  \* the binding each granted handle denotes
          asked,    \* the requests each client has made
          replies   \* how often each request has been answered

vars == <<owner, handles, asked, replies>>

Init == /\ owner = [n \in Name |-> IF n \in BootNames THEN Resident ELSE Nobody]
        /\ handles = BootHandles
        /\ asked = [c \in Client |-> {}]
        /\ replies = [c \in Client |-> [r \in ReqId |-> 0]]

(***************************************************************************)
(* The effects a request can have on the broker's tables.                  *)
(***************************************************************************)
Claim(c, n) == /\ owner[n] = Nobody
               /\ owner' = [owner EXCEPT ![n] = c]
               /\ UNCHANGED handles

Release(n) == /\ owner' = [owner EXCEPT ![n] = Nobody]
              /\ UNCHANGED handles

Grant(b) == /\ \/ handles' = Append(handles, b)
               \/ \E h \in DOMAIN handles : /\ handles[h] = NoBinding
                                            /\ handles' = [handles EXCEPT ![h] = b]
            /\ UNCHANGED owner

Drop(h) == /\ handles' = [handles EXCEPT ![h] = NoBinding]
           /\ UNCHANGED owner

(***************************************************************************)
(* Take(c, r): the request arrives, has at most one of the effects, and is *)
(* answered at once or not yet.  Answer(c, r): a request taken earlier is  *)
(* answered.                                                               *)
(***************************************************************************)
Take(c, r) ==
    /\ r \notin asked[c]
    /\ asked' = [asked EXCEPT ![c] = @ \cup {r}]
    /\ \/ replies' = [replies EXCEPT ![c][r] = 1]
       \/ UNCHANGED replies
    /\ \/ \E n \in Name : Claim(c, n) \/ Release(n)
       \/ \E b \in Binding : Grant(b)
       \/ \E h \in DOMAIN handles : Drop(h)
       \/ UNCHANGED <<owner, handles>>

Answer(c, r) ==
    /\ r \in asked[c]
    /\ replies[c][r] = 0
    /\ replies' = [replies EXCEPT ![c][r] = 1]
    /\ UNCHANGED <<owner, handles, asked>>

Next == \E c \in Client, r \in ReqId : Take(c, r) \/ Answer(c, r)

Spec == Init /\ [][Next]_vars
============================================================================
