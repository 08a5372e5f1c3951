------------------------------- MODULE Peers -------------------------------
(***************************************************************************)
(* Membership of one network (core/lib/peers/peers.js).  The root created  *)
(* the network: it answers join and leave requests and publishes the list  *)
(* of peers under one key of the DHT.  The other peers find the root at    *)
(* the tracker and send it requests through the DHT.                       *)
(*                                                                         *)
(* Every peer is one event loop; an action is one callback.  What          *)
(* interleaves is the callbacks of different peers and, in the root, the   *)
(* DHT gets that are outstanding at the same time.  Messages are unordered *)
(* and may be lost, a get may fail; timers fire at any time after they are *)
(* set.  A put takes effect at once and is not forgotten while the root    *)
(* runs (its lifetime is peerListLifetime * 1000 in seconds, 5.5 hours,    *)
(* and it is renewed every 16 seconds).                                    *)
(*                                                                         *)
(* A call is one joinNetwork or leaveNetwork request to a peer's module    *)
(* and is identified by its module request id.  Request ids between peers  *)
(* are fresh: a join request carries its attempt, a leave request its call.*)
(***************************************************************************)
EXTENDS Naturals, Sequences, FiniteSets

CONSTANTS Peer,         \* the peers that join and leave
          Root,         \* the peer that creates the network
          JoinCall,     \* the calls of joinNetwork that may be made
          LeaveCall,    \* those of leaveNetwork
          CallerOf,     \* the peer each call is made to
          MaxAttempts,  \* maxJoinAttempts of each call of joinNetwork
          Broken,       \* where firing an event of Peers may throw, as Core does
                        \* while a listener of the event is broken
          NoList,       \* what a failed get returns; no list cached
          MaxLooks      \* bound: the gets of _checkPeerList under way

Node == Peer \cup {Root}
Call == JoinCall \cup LeaveCall
List == SUBSET Node

ASSUME PeersAssumption ==
    /\ Root \notin Peer
    /\ CallerOf \in [Call -> Peer]
    /\ JoinCall \cap LeaveCall = {}
    /\ MaxAttempts \in [JoinCall -> Nat \ {0}]
    /\ MaxLooks \in Nat
    /\ Broken \subseteq Node \X {"joinedNetwork", "leftNetwork"}
    /\ \A l \in List : l # NoList

VARIABLES hosting,   \* the root: "no", "announced", "yes", "refused", "down"
          cache,     \* networks[name].peers at the root
          dht,       \* the list the DHT holds under networkPeersKey(name)
          gets,      \* the root's outstanding gets of that key
          joined,    \* the peers with an entry in joinedNetworks
          watchers,  \* how many _checkPeerList intervals each peer runs
          looks,     \* the lists that the DHT has served to them
          listCache, \* joinedNetworks[name].peerListCache of each peer
          attempts,  \* every _tryJoinNetwork so far
          calls,     \* the calls made so far
          answers,   \* the responses written for each call
          net,       \* the messages under way between peers
          accepted   \* the peers whose join the root has answered with true

root == <<hosting, cache, dht, gets, accepted>>
watching == <<watchers, looks, listCache>>
peers == <<joined, watching, attempts, calls, answers>>
vars == <<hosting, cache, dht, gets, joined, watching, attempts, calls, answers,
          net, accepted>>

Phase == {"lookup", "halved", "stuck", "failed", "waiting", "timedout", "settled"}
Attempt == {t \in [call : JoinCall, i : Nat \ {0}, phase : Phase] : t.i <= MaxAttempts[t.call]}
Get == [kind : {"refresh"}, by : {Root}, peer : {Root}, list : List \cup {NoList}, done : BOOLEAN]
       \cup [kind : {"add"}, by : Nat, peer : Peer, list : List \cup {NoList}, done : BOOLEAN]
       \cup [kind : {"remove"}, by : LeaveCall, peer : Peer, list : List \cup {NoList}, done : BOOLEAN]
Message == [type : {"join"}, id : Nat] \cup [type : {"leave"}, id : LeaveCall]
           \cup [type : {"joinReply"}, id : Nat, ok : BOOLEAN]
           \cup [type : {"leaveReply"}, id : LeaveCall, ok : BOOLEAN]

TypeOK ==
    /\ hosting \in {"no", "announced", "yes", "refused", "down"}
    /\ cache \in List
    /\ dht \in List \cup {NoList}
    /\ gets \subseteq Get
    /\ joined \subseteq Peer
    /\ watchers \in [Peer -> Nat]
    /\ looks \subseteq [peer : Peer, list : List]
    /\ listCache \in [Peer -> List \cup {NoList}]
    /\ attempts \in Seq(Attempt)
    /\ calls \subseteq Call
    /\ answers \in [Call -> Seq({"true", "error"})]
    /\ net \subseteq Message
    /\ accepted \subseteq Peer

Init ==
    /\ hosting = "no"
    /\ cache = {}
    /\ dht = NoList
    /\ gets = {}
    /\ joined = {}
    /\ watchers = [p \in Peer |-> 0]
    /\ looks = {}
    /\ listCache = [p \in Peer |-> NoList]
    /\ attempts = <<>>
    /\ calls = {}
    /\ answers = [c \in Call |-> <<>>]
    /\ net = {}
    /\ accepted = {}

Caller(a) == CallerOf[attempts[a].call]

Answer(c, v) == answers' = [answers EXCEPT ![c] = Append(@, v)]

(***************************************************************************)
(* The root.  createNetwork registers the name at the tracker; peers can   *)
(* find the root from then on, though it hosts the network only once the   *)
(* tracker's token has arrived.  The answer to the caller of createNetwork *)
(* is left out.                                                            *)
(***************************************************************************)
NewGet(kind, by, p) ==
    [kind |-> kind, by |-> by, peer |-> p, list |-> NoList, done |-> FALSE]

\* createNetwork up to the tracker's registering the name; an error before that
\* leaves everything as it was.  The response may never come.
CreateNetwork ==
    /\ hosting = "no"
    /\ hosting' = "announced"
    /\ UNCHANGED <<cache, dht, gets, accepted, peers, net>>

\* The response is no JSON, as when it comes in pieces: the caller gets an error
\* and the tracker keeps the name.  A second createNetwork is refused.
CreateFails ==
    /\ hosting = "announced"
    /\ hosting' = "refused"
    /\ UNCHANGED <<cache, dht, gets, accepted, peers, net>>

\* _addNetwork, with the initial _refreshNetworkInfo, which is not reached when
\* firing Peers.joinedNetwork throws.
AddNetwork ==
    /\ hosting = "announced"
    /\ hosting' = "yes"
    /\ cache' = {Root}
    /\ \/ gets' = gets \cup {NewGet("refresh", Root, Root)}
       \/ <<Root, "joinedNetwork">> \in Broken /\ UNCHANGED gets
    /\ UNCHANGED <<dht, accepted, peers, net>>

\* The interval of _refreshNetworkInfo is longer than a get takes.
RefreshNetworkInfo ==
    /\ hosting = "yes"
    /\ \A g \in gets : g.kind # "refresh"
    /\ gets' = gets \cup {NewGet("refresh", Root, Root)}
    /\ UNCHANGED <<hosting, cache, dht, accepted, peers, net>>

\* The DHT serves a get with the list it holds now.
ServeGet(g) ==
    /\ ~g.done
    /\ dht # NoList
    /\ gets' = (gets \ {g}) \cup {[g EXCEPT !.list = dht, !.done = TRUE]}
    /\ UNCHANGED <<hosting, cache, dht, accepted, peers, net>>

PublishPeerList(l) == cache' = l /\ dht' = l

\* _hostGetNetworkPeers: the list that was served; the cached one, as it is
\* when the callback runs, if the get failed.
\* Slip: a failed get counts as an empty list.
ServedOrEmpty(g) == IF g.done THEN g.list ELSE {}
HostPeers(g) == IF g.done THEN g.list ELSE cache

(***************************************************************************)
(* The callback of a get, served or failed.  The one of                    *)
(* _removePeerFromNetwork calls this._publishPeerList with `this' unbound  *)
(* and throws: nothing is published.                                       *)
(***************************************************************************)
GetCallback(g) ==
    /\ gets' = gets \ {g}
    /\ \/ g.kind = "refresh" /\ PublishPeerList(HostPeers(g))
       \/ g.kind = "add" /\ IF g.peer \in HostPeers(g) THEN UNCHANGED <<cache, dht>>
                            ELSE PublishPeerList(HostPeers(g) \cup {g.peer})
       \/ g.kind = "remove" /\ UNCHANGED <<cache, dht>>
    /\ UNCHANGED <<hosting, accepted, peers, net>>

JoinHosted(m) == hosting = "yes"

\* The reply to a join is sent before the peer is added.
HandleJoin(m) ==
    /\ m.type = "join"
    /\ hosting \notin {"no", "down"}
    /\ net' = (net \ {m}) \cup {[type |-> "joinReply", id |-> m.id, ok |-> JoinHosted(m)]}
    /\ IF hosting = "yes"
         THEN /\ gets' = gets \cup {NewGet("add", m.id, Caller(m.id))}
              /\ accepted' = accepted \cup {Caller(m.id)}
         ELSE UNCHANGED <<gets, accepted>>
    /\ UNCHANGED <<hosting, cache, dht, peers>>

HandleLeave(m) ==
    /\ m.type = "leave"
    /\ hosting \notin {"no", "down"}
    /\ net' = (net \ {m}) \cup {[type |-> "leaveReply", id |-> m.id, ok |-> hosting = "yes"]}
    /\ gets' = IF hosting = "yes" THEN gets \cup {NewGet("remove", m.id, CallerOf[m.id])}
                                  ELSE gets
    /\ UNCHANGED <<hosting, cache, dht, accepted, peers>>

\* The root's process ends; nothing it held is stored.
RootStops ==
    /\ hosting = "yes"
    /\ hosting' = "down"
    /\ cache' = {}
    /\ gets' = {}
    /\ UNCHANGED <<dht, accepted, peers, net>>

(***************************************************************************)
(* joinNetwork: loopJoin(1) makes the first attempt.  An attempt that      *)
(* fails is followed by the next one while i < maxJoinAttempts, and        *)
(* answers the call with an error otherwise.                               *)
(***************************************************************************)
InPhase(a, ph) == [attempts EXCEPT ![a].phase = ph]

NewAttempt(c, i) == [call |-> c, i |-> i, phase |-> "lookup"]

JoinNetwork(c) ==
    /\ c \notin calls
    /\ calls' = calls \cup {c}
    /\ attempts' = Append(attempts, NewAttempt(c, 1))
    /\ UNCHANGED <<root, joined, watching, answers, net>>

\* Slips: an attempt is never followed by another; one attempt too many.
LoopNever(a) == FALSE
LoopPast(a) == attempts[a].i <= MaxAttempts[attempts[a].call]
LoopAgain(a) == attempts[a].i < MaxAttempts[attempts[a].call]

\* The callback of attempt a with ok = false, which leaves it in phase ph.
AttemptFails(a, ph) ==
    LET t == attempts[a] IN
    IF LoopAgain(a)
      THEN /\ attempts' = Append(InPhase(a, ph), NewAttempt(t.call, t.i + 1))
           /\ UNCHANGED answers
      ELSE attempts' = InPhase(a, ph) /\ Answer(t.call, "error")

(***************************************************************************)
(* _tryJoinNetwork, up to the join request.  The tracker cannot be         *)
(* resolved, gives no JSON, or the DHT join fails: the attempt fails.  The *)
(* tracker does not know the network: building the error throws, and the   *)
(* callback is never called.  Each piece of the tracker's response is      *)
(* parsed by itself: one that comes in two pieces (the bound here) makes   *)
(* the attempt fail twice.                                                 *)
(***************************************************************************)
LookupFails(a) ==
    /\ \/ /\ attempts[a].phase = "lookup"
          /\ \E ph \in {"failed", "halved"} : AttemptFails(a, ph)
       \/ attempts[a].phase = "halved" /\ AttemptFails(a, "failed")
    /\ UNCHANGED <<root, joined, watching, calls, net>>

LookupThrows(a) ==
    /\ attempts[a].phase = "lookup"
    /\ hosting = "no"
    /\ attempts' = InPhase(a, "stuck")
    /\ UNCHANGED <<root, joined, watching, calls, answers, net>>

LookupSends(a) ==
    /\ attempts[a].phase = "lookup"
    /\ hosting # "no"
    /\ attempts' = InPhase(a, "waiting")
    /\ net' = net \cup {[type |-> "join", id |-> a]}
    /\ UNCHANGED <<root, joined, watching, calls, answers>>

\* Slips: the timer of a join request is never set; it is an interval.
TimerNotSet(a) == FALSE /\ UNCHANGED vars
TimerRepeats(a) ==
    /\ attempts[a].phase \in {"waiting", "timedout"}
    /\ AttemptFails(a, "timedout")
    /\ UNCHANGED <<root, joined, watching, calls, net>>

\* joinTimeout is over.  The handler of the response stays registered.
TimerFires(a) ==
    /\ attempts[a].phase = "waiting"
    /\ AttemptFails(a, "timedout")
    /\ UNCHANGED <<root, joined, watching, calls, net>>

\* The response to a join request, in time or late.  _addJoinedNetwork starts
\* the watcher, fires Peers.joinedNetwork, and then marks the network joined, with
\* no list cached.
Forgets(p) == listCache' = [listCache EXCEPT ![p] = NoList]

Joins(a) ==
    LET p == Caller(a) IN
    /\ watchers' = [watchers EXCEPT ![p] = @ + 1]
    /\ \/ /\ attempts' = InPhase(a, "settled")
          /\ joined' = joined \cup {p}
          /\ Forgets(p)
          /\ Answer(attempts[a].call, "true")
       \/ /\ <<p, "joinedNetwork">> \in Broken
          /\ attempts' = InPhase(a, "stuck")
          /\ UNCHANGED <<joined, listCache, answers>>

JoinReply(m) ==
    /\ m.type = "joinReply"
    /\ net' = net \ {m}
    /\ IF m.ok THEN Joins(m.id)
               ELSE AttemptFails(m.id, "failed") /\ UNCHANGED <<joined, watchers, listCache>>
    /\ UNCHANGED <<root, looks, calls>>

(***************************************************************************)
(* leaveNetwork.  There is no timer: the call waits for the reply for as   *)
(* long as it takes.  _leaveNetwork fires Peers.leftNetwork before it      *)
(* forgets the network, and clears interval -1, not the one that runs.     *)
(***************************************************************************)
\* Slip: it is not looked whether the peer is in the network.
LeaveUnchecked(c) ==
    /\ c \notin calls
    /\ calls' = calls \cup {c}
    /\ net' = net \cup {[type |-> "leave", id |-> c]}
    /\ UNCHANGED <<root, joined, watching, attempts, answers>>
LeaveNetwork(c) ==
    /\ c \notin calls
    /\ calls' = calls \cup {c}
    /\ IF CallerOf[c] \in joined
         THEN net' = net \cup {[type |-> "leave", id |-> c]} /\ UNCHANGED answers
         ELSE Answer(c, "error") /\ UNCHANGED net
    /\ UNCHANGED <<root, joined, watching, attempts>>

LeaveReply(m) ==
    LET p == CallerOf[m.id] IN
    /\ m.type = "leaveReply"
    /\ net' = net \ {m}
    /\ \/ ~m.ok /\ Answer(m.id, "error") /\ UNCHANGED <<joined, listCache>>
       \/ m.ok /\ Answer(m.id, "true") /\ joined' = joined \ {p} /\ Forgets(p)
       \/ /\ m.ok /\ p \in joined /\ <<p, "leftNetwork">> \in Broken
          /\ UNCHANGED <<answers, joined, listCache>>
    /\ UNCHANGED <<root, watchers, looks, attempts, calls>>

(***************************************************************************)
(* _checkPeerList, at every peer that ever joined: the intervals are not   *)
(* cleared.  The callback writes to the entry of the network and throws    *)
(* when the network was left; a failed get changes nothing.                *)
(***************************************************************************)
CheckPeerList(p) ==
    /\ watchers[p] > 0
    /\ dht # NoList
    /\ Cardinality(looks) < MaxLooks
    /\ looks' = looks \cup {[peer |-> p, list |-> dht]}
    /\ UNCHANGED <<root, joined, watchers, listCache, attempts, calls, answers, net>>

\* Slip: the list is kept outside the entry of the network.
CheckKeeps(k) ==
    /\ looks' = looks \ {k}
    /\ listCache' = [listCache EXCEPT ![k.peer] = k.list]
    /\ UNCHANGED <<root, joined, watchers, attempts, calls, answers, net>>
CheckCallback(k) ==
    /\ looks' = looks \ {k}
    /\ listCache' = IF k.peer \in joined THEN [listCache EXCEPT ![k.peer] = k.list]
                                        ELSE listCache
    /\ UNCHANGED <<root, joined, watchers, attempts, calls, answers, net>>

Lose(m) ==
    /\ net' = net \ {m}
    /\ UNCHANGED <<root, peers>>

Next ==
    \/ CreateNetwork \/ CreateFails \/ AddNetwork \/ RefreshNetworkInfo \/ RootStops
    \/ \E g \in gets : ServeGet(g) \/ GetCallback(g)
    \/ \E c \in JoinCall : JoinNetwork(c)
    \/ \E c \in LeaveCall : LeaveNetwork(c)
    \/ \E a \in DOMAIN attempts :
          LookupFails(a) \/ LookupThrows(a) \/ LookupSends(a) \/ TimerFires(a)
    \/ \E m \in net : \/ HandleJoin(m) \/ HandleLeave(m)
                      \/ JoinReply(m) \/ LeaveReply(m) \/ Lose(m)
    \/ \E p \in Peer : CheckPeerList(p)
    \/ \E k \in looks : CheckCallback(k)

Spec == Init /\ [][Next]_vars

(***************************************************************************)
(* Fairness.  A timer that is set fires (node.js runs what is due), and    *)
(* the lookup of an attempt ends in one of its ways: the tracker's HTTP    *)
(* server, which has no timeout here, is assumed to answer.  Messages may  *)
(* all be lost and the root need not do anything.                          *)
(***************************************************************************)
Lookup(a) == LookupFails(a) \/ LookupThrows(a) \/ LookupSends(a)

LiveSpec == /\ Spec
            /\ WF_vars(\E a \in DOMAIN attempts : Lookup(a))
            /\ WF_vars(\E a \in DOMAIN attempts : TimerFires(a))

(***************************************************************************)
(*                               Properties                                *)
(***************************************************************************)

\* A list the root has published names the root itself and otherwise only
\* peers whose join it accepted, however the gets and puts of concurrent
\* joins, leaves and refreshes fall: an update can be lost, a stranger or an
\* empty list cannot be published.
PublishedSound ==
    /\ hosting = "yes" => Root \in cache /\ cache \subseteq accepted \cup {Root}
    /\ dht # NoList => Root \in dht /\ dht \subseteq accepted \cup {Root}

\* A peer caches a list only of a network it is in, and only a list as the root
\* publishes them, though the watchers of a network outlive its membership and
\* their gets may be answered after it was left or joined again.
CachedSound ==
    \A p \in Peer : listCache[p] # NoList =>
       /\ p \in joined
       /\ Root \in listCache[p] /\ listCache[p] \subseteq accepted \cup {Root}

\* The lists somebody may still publish or keep: the root's, the DHT's, and those
\* that gets have brought.
Circulating ==
    {l \in {cache} : hosting = "yes"} \cup ({dht} \ {NoList})
      \cup {g.list : g \in {h \in gets : h.done}} \cup {k.list : k \in looks}

Promised == INSTANCE Membership WITH members <- joined, lists <- Circulating,
                                     kept <- listCache, asked <- calls, given <- answers

\* Peers implements Membership: lists of peers only grow out of one another by
\* accepted peers, members and those told so are accepted, and a leave has one
\* answer, whatever is lost, late or overlaps.
MembershipKept == Promised!Spec

Answered(c, v) == \E k \in DOMAIN answers[c] : answers[c][k] = v

\* joinNetwork answers true, and the peer considers itself a member, only if
\* the root said yes to it; a root that has not yet received its token from
\* the tracker says no.  It follows from MembershipKept, and is what PeersProofs
\* shows first.
TrueMeansAccepted ==
    /\ joined \subseteq accepted
    /\ \A c \in JoinCall : Answered(c, "true") => CallerOf[c] \in accepted

\* joinNetwork answers with an error only when an attempt with the last number
\* is over: no failure along the way gives the caller an early error.
ErrorAfterLastAttempt ==
    \A c \in JoinCall : Answered(c, "error") =>
       \E a \in DOMAIN attempts : /\ attempts[a].call = c
                                  /\ attempts[a].i = MaxAttempts[c]
                                  /\ attempts[a].phase \notin {"lookup", "waiting"}

\* The attempts of a call with a number.
Numbered(c, i) == {a \in DOMAIN attempts : attempts[a].call = c /\ attempts[a].i = i}

\* An attempt is followed by two at most, once for its timer and once for a late
\* refusal, or once for each piece of the tracker's response: the attempts of a
\* call are bounded, though not by the number of retries.
AttemptsDouble ==
    \A c \in JoinCall :
       /\ Cardinality(Numbered(c, 1)) <= 1
       /\ \A i \in 1..(MaxAttempts[c] - 1) :
             Cardinality(Numbered(c, i + 1)) <= 2 * Cardinality(Numbered(c, i))

\* The tracker did not know the network, or firing the event threw.
Stuck(c) == \E a \in DOMAIN attempts : attempts[a].call = c /\ attempts[a].phase = "stuck"

\* joinNetwork is answered whatever messages are lost and whether or not the
\* root lives, unless the callback of an attempt threw.
JoinAnswered ==
    \A c \in JoinCall : c \in calls ~> (answers[c] # <<>> \/ Stuck(c))

(***************************************************************************)
(* What the source says, and the code does not do.                         *)
(***************************************************************************)

\* peers.js:833 says that joinNetwork gives `True or Error'.
AnsweredOnce == \A c \in Call : Len(answers[c]) <= 1

\* peers.js:472 says that _addPeerToNetwork adds the peer to the network list:
\* when all gets are done, a peer that joined and never left is listed.
MemberListed ==
    hosting = "yes" /\ gets = {} =>
       \A p \in joined : (\A c \in LeaveCall : CallerOf[c] = p => c \notin calls)
                            => p \in cache

\* peers.js:520 says that _removePeerFromNetwork removes the peer from the
\* list in the DHT: when all gets are done, a peer whose leave was answered
\* with true, and that made no other call, is not listed.
LeaverUnlisted ==
    hosting = "yes" /\ gets = {} =>
       \A c \in LeaveCall : /\ Answered(c, "true")
                            /\ CallerOf[c] \notin joined
                            /\ dht # NoList
                            => CallerOf[c] \notin dht
============================================================================
