---------------------------- MODULE PeersProofs ----------------------------
(***************************************************************************)
(* Theorems about Peers, for any number of peers, calls and retries, any   *)
(* loss of messages and any broken listeners: its type invariant, that a   *)
(* published list never names a stranger, that a peer is told it joined    *)
(* only if the root accepted it, that an error comes only after the last   *)
(* attempt, that attempts at most double from one number to the next, and  *)
(* that Peers implements Membership.                                       *)
(***************************************************************************)
EXTENDS Peers, TLAPS, SequenceTheorems, FiniteSetTheorems

(***************************************************************************)
(* The inductive invariant.  A list is sound if it names the root and      *)
(* otherwise accepted peers.  What is about to be published is in the      *)
(* outstanding gets, and what is about to be believed in the messages, so  *)
(* the invariant speaks of both.                                           *)
(***************************************************************************)
Sound(l) == l \in List /\ Root \in l /\ l \subseteq accepted \cup {Root}

GetsSound ==
    /\ gets # {} => hosting = "yes"
    /\ \A g \in gets : /\ g.done => Sound(g.list)
                       /\ g.kind = "add" => g.peer \in accepted

RepliesSound ==
    \A m \in net : /\ m.type \in {"join", "joinReply"} => m.id \in DOMAIN attempts
                   /\ m.type = "joinReply" /\ m.ok => Caller(m.id) \in accepted

\* What the DHT has served to the watchers.
LooksSound == \A k \in looks : Sound(k.list)

IInv == /\ TypeOK
        /\ GetsSound
        /\ RepliesSound
        /\ LooksSound
        /\ PublishedSound
        /\ CachedSound
        /\ TrueMeansAccepted
        /\ ErrorAfterLastAttempt

Over == {"stuck", "halved", "failed", "timedout", "settled"}

(***************************************************************************)
(* What a step does to the attempts: it may add some, and an attempt keeps *)
(* its call and its number, and stays over once it is over.                *)
(***************************************************************************)
Extends(s, t) ==
    /\ t \in Seq(Attempt)
    /\ DOMAIN s \subseteq DOMAIN t
    /\ \A a \in DOMAIN s : /\ t[a].call = s[a].call
                           /\ t[a].i = s[a].i
                           /\ s[a].phase \in Over => t[a].phase \in Over

LEMMA AttemptsTyped ==
    ASSUME TypeOK
    PROVE  /\ attempts \in Seq(Attempt)
           /\ DOMAIN attempts = 1..Len(attempts)
           /\ Len(attempts) \in Nat
           /\ \A a \in DOMAIN attempts : attempts[a] \in Attempt
<1>1. attempts \in Seq(Attempt) BY DEF TypeOK
<1> QED BY <1>1, LenProperties, ElementOfSeq

\* Moving one attempt to a later phase.
LEMMA InPhaseExtends ==
    ASSUME TypeOK, NEW a \in DOMAIN attempts, NEW ph \in Phase,
           attempts[a].phase \in Over => ph \in Over
    PROVE  /\ Extends(attempts, InPhase(a, ph))
           /\ DOMAIN InPhase(a, ph) = DOMAIN attempts
           /\ InPhase(a, ph)[a].phase = ph
           /\ \A b \in DOMAIN attempts \ {a} : InPhase(a, ph)[b] = attempts[b]
<1>1. attempts \in Seq(Attempt) /\ attempts[a] \in Attempt BY AttemptsTyped
<1>2. DEFINE new == [attempts[a] EXCEPT !.phase = ph]
<1>3. /\ new \in Attempt
      /\ new.call = attempts[a].call /\ new.i = attempts[a].i /\ new.phase = ph
  BY <1>1 DEF Attempt
<1>4. InPhase(a, ph) = [attempts EXCEPT ![a] = new] BY DEF InPhase
<1>5. a \in 1..Len(attempts) BY AttemptsTyped
<1>6. /\ InPhase(a, ph) \in Seq(Attempt)
      /\ DOMAIN InPhase(a, ph) = DOMAIN attempts
      /\ \A b \in DOMAIN attempts :
            InPhase(a, ph)[b] = IF b = a THEN new ELSE attempts[b]
  <2> HIDE DEF new
  <2> QED BY <1>1, <1>3, <1>4, <1>5, AttemptsTyped, ExceptSeq
<1> HIDE DEF new
<1> QED BY <1>3, <1>6 DEF Extends

\* Starting one more attempt.
LEMMA AppendExtends ==
    ASSUME NEW s \in Seq(Attempt), NEW x \in Attempt
    PROVE  Extends(s, Append(s, x))
<1>1. Append(s, x) \in Seq(Attempt) /\ Len(Append(s, x)) = Len(s) + 1 BY AppendProperties
<1>2. /\ DOMAIN s = 1..Len(s) /\ Len(s) \in Nat
      /\ DOMAIN Append(s, x) = 1..Len(s)+1
  BY <1>1, LenProperties
<1>3. \A a \in DOMAIN s : Append(s, x)[a] = s[a] BY AppendProperties, <1>2
<1> QED BY <1>1, <1>2, <1>3 DEF Extends

LEMMA ExtendsTransitive ==
    ASSUME NEW s, NEW t, NEW u, Extends(s, t), Extends(t, u)
    PROVE  Extends(s, u)
BY DEF Extends

\* Answering a call adds one answer to it.
LEMMA AnswerType ==
    ASSUME TypeOK, NEW c \in Call, NEW v \in {"true", "error"}, Answer(c, v)
    PROVE  /\ answers' \in [Call -> Seq({"true", "error"})]
           /\ \A w : \A d \in Call : Answered(d, w)' => Answered(d, w) \/ (d = c /\ w = v)
<1>1. answers[c] \in Seq({"true", "error"}) BY DEF TypeOK
<1>2. /\ Append(answers[c], v) \in Seq({"true", "error"})
      /\ Len(Append(answers[c], v)) = Len(answers[c]) + 1
      /\ \A k \in 1..Len(answers[c]) : Append(answers[c], v)[k] = answers[c][k]
      /\ Append(answers[c], v)[Len(answers[c]) + 1] = v
  BY <1>1, AppendProperties
<1>3. answers' = [answers EXCEPT ![c] = Append(answers[c], v)] BY DEF Answer
<1>4. answers' \in [Call -> Seq({"true", "error"})] BY <1>2, <1>3 DEF TypeOK
<1>5. ASSUME NEW d \in Call, NEW w, Answered(d, w)'
      PROVE  Answered(d, w) \/ (d = c /\ w = v)
  <2>1. CASE d = c
    <3>1. answers'[c] = Append(answers[c], v) BY <1>3 DEF TypeOK
    <3>2. PICK k \in DOMAIN answers'[c] : answers'[c][k] = w BY <1>5, <2>1 DEF Answered
    <3>3. /\ DOMAIN answers[c] = 1..Len(answers[c]) /\ Len(answers[c]) \in Nat
          /\ DOMAIN answers'[c] = 1..Len(answers[c]) + 1
      BY <1>1, <1>2, <3>1, LenProperties
    <3>4. CASE k = Len(answers[c]) + 1 BY <1>2, <2>1, <3>1, <3>2, <3>4
    <3>5. CASE k \in 1..Len(answers[c]) BY <1>2, <2>1, <3>1, <3>2, <3>3, <3>5 DEF Answered
    <3> QED BY <3>2, <3>3, <3>4, <3>5
  <2>2. CASE d # c
    BY <1>3, <1>5, <2>2 DEF Answered, TypeOK
  <2> QED BY <2>1, <2>2
<1> QED BY <1>4, <1>5

\* A failed attempt is over, and is followed by one more or, if it was the
\* last, by an error.
LEMMA FailsStep ==
    ASSUME TypeOK, NEW a \in DOMAIN attempts, NEW ph \in {"failed", "halved", "timedout"},
           AttemptFails(a, ph)
    PROVE  /\ Extends(attempts, attempts')
           /\ answers' \in [Call -> Seq({"true", "error"})]
           /\ \A c \in Call : Answered(c, "true")' => Answered(c, "true")
           /\ \A c \in Call : Answered(c, "error")' =>
                \/ Answered(c, "error")
                \/ /\ attempts'[a].call = c
                   /\ attempts'[a].i = MaxAttempts[c]
                   /\ attempts'[a].phase \in Over
<1>1. /\ attempts[a] \in Attempt /\ attempts[a].call \in JoinCall
      /\ attempts[a].i \in Nat \ {0} /\ attempts[a].i <= MaxAttempts[attempts[a].call]
      /\ MaxAttempts[attempts[a].call] \in Nat
  BY AttemptsTyped, PeersAssumption DEF Attempt
<1>2. /\ Extends(attempts, InPhase(a, ph))
      /\ InPhase(a, ph)[a].phase = ph
      /\ InPhase(a, ph) \in Seq(Attempt)
  BY InPhaseExtends DEF Phase, Over, Extends
<1>3. CASE LoopAgain(a)
  <2> DEFINE x == NewAttempt(attempts[a].call, attempts[a].i + 1)
  <2>1. x \in Attempt
    BY <1>1, <1>3, PeersAssumption DEF NewAttempt, Attempt, LoopAgain, Phase
  <2>2. attempts' = Append(InPhase(a, ph), x) /\ answers' = answers
    BY <1>3 DEF AttemptFails
  <2> HIDE DEF x
  <2>3. Extends(InPhase(a, ph), attempts') BY <1>2, <2>1, <2>2, AppendExtends
  <2>4. Extends(attempts, attempts') BY <1>2, <2>3, ExtendsTransitive
  <2> QED BY <2>2, <2>4 DEF Answered, TypeOK
<1>4. CASE ~LoopAgain(a)
  <2>1. attempts' = InPhase(a, ph) /\ Answer(attempts[a].call, "error")
    BY <1>4 DEF AttemptFails
  <2>2. attempts[a].i = MaxAttempts[attempts[a].call] BY <1>1, <1>4, PeersAssumption DEF LoopAgain
  <2>3. attempts'[a].i = MaxAttempts[attempts[a].call] /\ attempts'[a].call = attempts[a].call
        /\ attempts'[a].phase \in Over
    BY <1>2, <2>1, <2>2 DEF Extends, Over
  <2> QED BY <1>1, <1>2, <2>1, <2>3, AnswerType DEF Call
<1> QED BY <1>3, <1>4

LEMMA CallerType ==
    ASSUME TypeOK, NEW a \in DOMAIN attempts
    PROVE  Caller(a) \in Peer
BY AttemptsTyped, PeersAssumption DEF Caller, Attempt, Call

\* A join that the root accepted settles its attempt, or leaves it stuck when
\* the event's listener is broken.
LEMMA JoinsStep ==
    ASSUME TypeOK, NEW a \in DOMAIN attempts, Joins(a)
    PROVE  /\ Extends(attempts, attempts')
           /\ watchers' \in [Peer -> Nat]
           /\ \/ joined' = joined \cup {Caller(a)} /\ Forgets(Caller(a))
              \/ UNCHANGED <<joined, listCache>>
           /\ answers' \in [Call -> Seq({"true", "error"})]
           /\ \A c \in Call : Answered(c, "error")' => Answered(c, "error")
           /\ \A c \in Call : Answered(c, "true")' =>
                Answered(c, "true") \/ CallerOf[c] = Caller(a)
<1>1. attempts[a].call \in JoinCall BY AttemptsTyped DEF Attempt
<1>2. watchers' \in [Peer -> Nat]
  <2>1. watchers' = [watchers EXCEPT ![Caller(a)] = @ + 1] BY DEF Joins
  <2>2. watchers \in [Peer -> Nat] BY DEF TypeOK
  <2> QED BY <2>1, <2>2, CallerType
<1>3. CASE attempts' = InPhase(a, "stuck") /\ UNCHANGED <<joined, listCache, answers>>
  <2>1. Extends(attempts, attempts') BY <1>3, InPhaseExtends DEF Phase, Over
  <2> QED BY <1>2, <1>3, <2>1 DEF Answered, TypeOK
<1>4. CASE /\ attempts' = InPhase(a, "settled")
           /\ joined' = joined \cup {Caller(a)}
           /\ Forgets(Caller(a))
           /\ Answer(attempts[a].call, "true")
  <2>1. Extends(attempts, attempts') BY <1>4, InPhaseExtends DEF Phase, Over
  <2> QED BY <1>1, <1>2, <1>4, <2>1, AnswerType DEF Call, Caller
<1> QED BY <1>3, <1>4 DEF Joins

\* Forgetting the cached list of one peer.
LEMMA ForgetsStep ==
    ASSUME TypeOK, NEW p \in Peer, Forgets(p)
    PROVE  /\ listCache' \in [Peer -> List \cup {NoList}]
           /\ listCache'[p] = NoList
           /\ \A q \in Peer \ {p} : listCache'[q] = listCache[q]
BY DEF Forgets, TypeOK

LEMMA ExtendsRefl == ASSUME TypeOK PROVE Extends(attempts, attempts)
BY AttemptsTyped DEF Extends

\* Whatever happens, attempts only grow and move on.
LEMMA AttemptsStep ==
    ASSUME TypeOK, RepliesSound, [Next]_vars
    PROVE  Extends(attempts, attempts')
<1>1. ASSUME UNCHANGED attempts PROVE Extends(attempts, attempts')
  BY <1>1, ExtendsRefl
<1>2. ASSUME NEW c \in JoinCall, JoinNetwork(c) PROVE Extends(attempts, attempts')
  <2>1. NewAttempt(c, 1) \in Attempt BY PeersAssumption DEF NewAttempt, Attempt, Phase
  <2> QED BY <1>2, <2>1, AttemptsTyped, AppendExtends DEF JoinNetwork
<1>3. ASSUME NEW a \in DOMAIN attempts, Lookup(a) \/ TimerFires(a)
      PROVE  Extends(attempts, attempts')
  <2>1. CASE LookupFails(a) BY <2>1, FailsStep DEF LookupFails
  <2>2. CASE LookupThrows(a)
    BY <2>2, InPhaseExtends DEF LookupThrows, Phase, Over
  <2>3. CASE LookupSends(a)
    BY <2>3, InPhaseExtends DEF LookupSends, Phase, Over
  <2>4. CASE TimerFires(a) BY <2>4, FailsStep DEF TimerFires
  <2> QED BY <1>3, <2>1, <2>2, <2>3, <2>4 DEF Lookup
<1>4. ASSUME NEW m \in net, JoinReply(m) PROVE Extends(attempts, attempts')
  <2>1. m.id \in DOMAIN attempts BY <1>4 DEF JoinReply, RepliesSound
  <2>2. CASE m.ok BY <1>4, <2>1, <2>2, JoinsStep DEF JoinReply
  <2>3. CASE ~m.ok BY <1>4, <2>1, <2>3, FailsStep DEF JoinReply
  <2> QED BY <2>2, <2>3
<1>5. CreateNetwork \/ CreateFails \/ AddNetwork \/ RefreshNetworkInfo \/ RootStops
      => UNCHANGED attempts
  BY DEF CreateNetwork, CreateFails, AddNetwork, RefreshNetworkInfo, RootStops, peers
<1>6. \A g \in gets : ServeGet(g) \/ GetCallback(g) => UNCHANGED attempts
  BY DEF ServeGet, GetCallback, peers
<1>7. \A c \in LeaveCall : LeaveNetwork(c) => UNCHANGED attempts BY DEF LeaveNetwork
<1>8. \A m \in net : HandleJoin(m) \/ HandleLeave(m) \/ LeaveReply(m) \/ Lose(m)
                      => UNCHANGED attempts
  BY DEF HandleJoin, HandleLeave, LeaveReply, Lose, peers
<1>9. UNCHANGED vars => UNCHANGED attempts BY DEF vars
<1>10. /\ \A p \in Peer : CheckPeerList(p) => UNCHANGED attempts
       /\ \A k \in looks : CheckCallback(k) => UNCHANGED attempts
  BY DEF CheckPeerList, CheckCallback
<1> QED BY <1>1, <1>2, <1>3, <1>4, <1>5, <1>6, <1>7, <1>8, <1>9, <1>10 DEF Next, Lookup

\* The peer that made an attempt never changes.
LEMMA CallerKept ==
    ASSUME NEW a \in DOMAIN attempts, Extends(attempts, attempts')
    PROVE  a \in DOMAIN attempts' /\ Caller(a)' = Caller(a)
BY DEF Extends, Caller

(***************************************************************************)
(* The type invariant.                                                     *)
(***************************************************************************)
LEMMA TypeInit == Init => TypeOK
<1>1. <<>> \in Seq(Attempt) /\ <<>> \in Seq({"true", "error"}) BY EmptySeq
<1> QED BY <1>1 DEF Init, TypeOK, List

LEMMA NewGetType ==
    /\ NewGet("refresh", Root, Root) \in Get
    /\ \A n \in Nat, p \in Peer : NewGet("add", n, p) \in Get
    /\ \A c \in LeaveCall, p \in Peer : NewGet("remove", c, p) \in Get
BY DEF NewGet, Get

\* The messages that the handlers send are messages.
LEMMA MessageType ==
    /\ \A n \in Nat : [type |-> "join", id |-> n] \in Message
    /\ \A n \in Nat, b \in BOOLEAN : [type |-> "joinReply", id |-> n, ok |-> b] \in Message
    /\ \A c \in LeaveCall : [type |-> "leave", id |-> c] \in Message
    /\ \A c \in LeaveCall, b \in BOOLEAN :
          [type |-> "leaveReply", id |-> c, ok |-> b] \in Message
BY DEF Message

LEMMA LeaveMessage ==
    ASSUME TypeOK, NEW m \in net, m.type \in {"leave", "leaveReply"}
    PROVE  m.id \in LeaveCall
BY DEF TypeOK, Message

\* What the root would publish is sound.
LEMMA HostPeersSound ==
    ASSUME TypeOK, GetsSound, PublishedSound, NEW g \in gets
    PROVE  Sound(HostPeers(g))
<1>1. hosting = "yes" BY DEF GetsSound
<1>2. Sound(cache) BY <1>1 DEF PublishedSound, Sound, TypeOK
<1> QED BY <1>2 DEF GetsSound, HostPeers

\* What it publishes is sound, also with the peer of the get added to it.
LEMMA PublishesSound ==
    ASSUME TypeOK, GetsSound, PublishedSound, NEW g \in gets, GetCallback(g)
    PROVE  \/ UNCHANGED <<cache, dht>>
           \/ Sound(cache') /\ dht' = cache'
<1>1. Sound(HostPeers(g)) BY HostPeersSound
<1>2. ASSUME g.kind = "add" PROVE Sound(HostPeers(g) \cup {g.peer})
  <2>1. g.peer \in accepted /\ accepted \subseteq Peer BY <1>2 DEF GetsSound, TypeOK
  <2> QED BY <1>1, <2>1 DEF Sound, List, Node
<1>3. CASE g.kind = "refresh" BY <1>1, <1>3 DEF GetCallback, PublishPeerList
<1>4. CASE g.kind = "add" BY <1>1, <1>2, <1>4 DEF GetCallback, PublishPeerList
<1>5. CASE g.kind \notin {"refresh", "add"} BY <1>5 DEF GetCallback
<1> QED BY <1>3, <1>4, <1>5

LEMMA TypeNext ==
    ASSUME TypeOK, GetsSound, RepliesSound, PublishedSound, [Next]_vars
    PROVE  TypeOK'
<1>1. attempts' \in Seq(Attempt) BY AttemptsStep DEF Extends
<1>2. CASE CreateNetwork \/ CreateFails BY <1>2 DEF CreateNetwork, CreateFails, TypeOK, peers, watching
<1>3. CASE AddNetwork
  <2>1. {Root} \in List BY DEF List, Node
  <2>2. hosting' = "yes" /\ cache' = {Root}
        /\ gets' \subseteq gets \cup {NewGet("refresh", Root, Root)}
        /\ UNCHANGED <<dht, accepted, peers, net>>
    BY <1>3 DEF AddNetwork
  <2>3. gets' \subseteq Get BY <2>2, NewGetType DEF TypeOK
  <2> QED BY <2>1, <2>2, <2>3 DEF TypeOK, peers, watching
<1>4. CASE RefreshNetworkInfo
  <2>1. gets' \subseteq Get BY <1>4, NewGetType DEF RefreshNetworkInfo, TypeOK
  <2> QED BY <1>4, <2>1 DEF RefreshNetworkInfo, TypeOK, peers, watching
<1>5. CASE RootStops BY <1>5 DEF RootStops, TypeOK, peers, watching, List
<1>6. ASSUME NEW g \in gets, ServeGet(g) PROVE TypeOK'
  <2>1. g \in Get /\ dht \in List BY <1>6 DEF TypeOK, ServeGet
  <2>2. [g EXCEPT !.list = dht, !.done = TRUE] \in Get BY <2>1 DEF Get
  <2>3. gets' \subseteq Get BY <1>6, <2>2 DEF ServeGet, TypeOK
  <2> QED BY <1>6, <2>3 DEF ServeGet, TypeOK, peers, watching
<1>7. ASSUME NEW g \in gets, GetCallback(g) PROVE TypeOK'
  <2>1. cache' \in List /\ dht' \in List \cup {NoList}
    BY <1>7, PublishesSound DEF Sound, TypeOK
  <2> QED BY <1>7, <2>1 DEF GetCallback, TypeOK, peers, watching
<1>8. ASSUME NEW c \in JoinCall, JoinNetwork(c) PROVE TypeOK'
  BY <1>1, <1>8 DEF JoinNetwork, TypeOK, root, watching, Call
<1>9. ASSUME NEW c \in LeaveCall, LeaveNetwork(c) PROVE TypeOK'
  <2>1. answers' \in [Call -> Seq({"true", "error"})]
    BY <1>9, AnswerType DEF LeaveNetwork, TypeOK, Call
  <2>2. net' \subseteq Message BY <1>9, MessageType DEF LeaveNetwork, TypeOK
  <2> QED BY <1>1, <1>9, <2>1, <2>2 DEF LeaveNetwork, TypeOK, root, watching, Call
<1>10. ASSUME NEW a \in DOMAIN attempts, LookupFails(a) \/ TimerFires(a) PROVE TypeOK'
  <2>1. answers' \in [Call -> Seq({"true", "error"})]
    BY <1>10, FailsStep DEF LookupFails, TimerFires
  <2> QED BY <1>1, <1>10, <2>1 DEF LookupFails, TimerFires, TypeOK, root, watching
<1>11. ASSUME NEW a \in DOMAIN attempts, LookupThrows(a) PROVE TypeOK'
  BY <1>1, <1>11 DEF LookupThrows, TypeOK, root, watching
<1>12. ASSUME NEW a \in DOMAIN attempts, LookupSends(a) PROVE TypeOK'
  <2>1. a \in Nat BY AttemptsTyped
  <2>2. net' \subseteq Message BY <1>12, <2>1, MessageType DEF LookupSends, TypeOK
  <2> QED BY <1>1, <1>12, <2>2 DEF LookupSends, TypeOK, root, watching
<1>13. ASSUME NEW m \in net, HandleJoin(m) PROVE TypeOK'
  <2>1. m.id \in DOMAIN attempts BY <1>13 DEF HandleJoin, RepliesSound
  <2>2. m.id \in Nat /\ Caller(m.id) \in Peer BY <2>1, CallerType, AttemptsTyped
  <2>3. net' \subseteq Message
    BY <1>13, <2>2, MessageType DEF HandleJoin, JoinHosted, TypeOK
  <2>4. gets' \subseteq Get /\ accepted' \subseteq Peer
    BY <1>13, <2>2, NewGetType DEF HandleJoin, TypeOK
  <2> QED BY <1>13, <2>3, <2>4 DEF HandleJoin, TypeOK, peers, watching
<1>14. ASSUME NEW m \in net, HandleLeave(m) PROVE TypeOK'
  <2>1. m.id \in LeaveCall BY <1>14, LeaveMessage DEF HandleLeave
  <2>2. CallerOf[m.id] \in Peer BY <2>1, PeersAssumption DEF Call
  <2>3. net' \subseteq Message BY <1>14, <2>1, MessageType DEF HandleLeave, TypeOK
  <2>4. gets' \subseteq Get BY <1>14, <2>1, <2>2, NewGetType DEF HandleLeave, TypeOK
  <2> QED BY <1>14, <2>3, <2>4 DEF HandleLeave, TypeOK, peers, watching
<1>15. ASSUME NEW m \in net, JoinReply(m) PROVE TypeOK'
  <2>1. m.id \in DOMAIN attempts BY <1>15 DEF JoinReply, RepliesSound
  <2>2. m.ok => Joins(m.id) BY <1>15 DEF JoinReply
  <2>3. ~m.ok => AttemptFails(m.id, "failed") /\ UNCHANGED <<joined, watchers, listCache>>
    BY <1>15 DEF JoinReply
  <2>4. UNCHANGED <<hosting, cache, dht, gets, accepted, looks, calls>> /\ net' \subseteq net
    BY <1>15 DEF JoinReply, root
  <2>5. /\ watchers' \in [Peer -> Nat]
        /\ joined' \subseteq Peer
        /\ listCache' \in [Peer -> List \cup {NoList}]
        /\ answers' \in [Call -> Seq({"true", "error"})]
    <3>1. CASE m.ok
      <4>1. Caller(m.id) \in Peer BY <2>1, CallerType
      <4>2. joined \subseteq Peer /\ listCache \in [Peer -> List \cup {NoList}] BY DEF TypeOK
      <4> QED BY <2>1, <2>2, <3>1, <4>1, <4>2, JoinsStep, ForgetsStep
    <3>2. CASE ~m.ok BY <2>1, <2>3, <3>2, FailsStep DEF TypeOK
    <3> QED BY <3>1, <3>2
  <2> QED BY <1>1, <2>4, <2>5 DEF TypeOK
<1>16. ASSUME NEW m \in net, LeaveReply(m) PROVE TypeOK'
  <2>1. m.id \in LeaveCall BY <1>16, LeaveMessage DEF LeaveReply
  <2>2. CallerOf[m.id] \in Peer BY <2>1, PeersAssumption DEF Call
  <2>3. answers' \in [Call -> Seq({"true", "error"})]
    BY <1>16, <2>1, AnswerType DEF LeaveReply, TypeOK, Call
  <2>4. listCache' \in [Peer -> List \cup {NoList}] /\ joined' \subseteq Peer
    BY <1>16, <2>2, ForgetsStep DEF LeaveReply, TypeOK
  <2> QED BY <1>1, <1>16, <2>3, <2>4 DEF LeaveReply, TypeOK, root
<1>17. ASSUME NEW m \in net, Lose(m) PROVE TypeOK'
  BY <1>17 DEF Lose, TypeOK, root, peers, watching
<1>18. ASSUME NEW p \in Peer, CheckPeerList(p) PROVE TypeOK'
  <2>1. dht \in List BY <1>18 DEF CheckPeerList, TypeOK
  <2>2. looks' \subseteq [peer : Peer, list : List] BY <1>18, <2>1 DEF CheckPeerList, TypeOK
  <2> QED BY <1>18, <2>2 DEF CheckPeerList, TypeOK, root
<1>19. ASSUME NEW k \in looks, CheckCallback(k) PROVE TypeOK'
  <2>1. k.peer \in Peer /\ k.list \in List BY DEF TypeOK
  <2>2. listCache' \in [Peer -> List \cup {NoList}] BY <1>19, <2>1 DEF CheckCallback, TypeOK
  <2> QED BY <1>19, <2>2 DEF CheckCallback, TypeOK, root
<1>20. CASE UNCHANGED vars BY <1>20 DEF vars, watching, TypeOK
<1> QED BY <1>2, <1>3, <1>4, <1>5, <1>6, <1>7, <1>8, <1>9, <1>10, <1>11, <1>12, <1>13,
           <1>14, <1>15, <1>16, <1>17, <1>18, <1>19, <1>20 DEF Next

(***************************************************************************)
(* The gets, the messages and what is published.                           *)
(***************************************************************************)

\* Peers are never unaccepted, so a sound list stays sound.
LEMMA AcceptedGrows ==
    ASSUME TypeOK, RepliesSound, [Next]_vars
    PROVE  /\ accepted \subseteq accepted'
           /\ \A l : Sound(l) => Sound(l)'
<1>1. \A m \in net : HandleJoin(m) => accepted \subseteq accepted'
  BY DEF HandleJoin
<1>2. CreateNetwork \/ CreateFails \/ AddNetwork \/ RefreshNetworkInfo \/ RootStops
      => accepted' = accepted
  BY DEF CreateNetwork, CreateFails, AddNetwork, RefreshNetworkInfo, RootStops
<1>3. \A g \in gets : ServeGet(g) \/ GetCallback(g) => accepted' = accepted
  BY DEF ServeGet, GetCallback
<1>4. \A c \in Call : JoinNetwork(c) \/ LeaveNetwork(c) => accepted' = accepted
  BY DEF JoinNetwork, LeaveNetwork, root
<1>5. \A a \in DOMAIN attempts : LookupFails(a) \/ LookupThrows(a) \/ LookupSends(a)
                                  \/ TimerFires(a) => accepted' = accepted
  BY DEF LookupFails, LookupThrows, LookupSends, TimerFires, root
<1>6. \A m \in net : HandleLeave(m) \/ JoinReply(m) \/ LeaveReply(m) \/ Lose(m)
                      => accepted' = accepted
  BY DEF HandleLeave, JoinReply, LeaveReply, Lose, root
<1>7. UNCHANGED vars => accepted' = accepted BY DEF vars
<1>8. /\ \A p \in Peer : CheckPeerList(p) => accepted' = accepted
      /\ \A k \in looks : CheckCallback(k) => accepted' = accepted
  BY DEF CheckPeerList, CheckCallback, root
<1>9. accepted \subseteq accepted'
  BY <1>1, <1>2, <1>3, <1>4, <1>5, <1>6, <1>7, <1>8 DEF Next, Call
<1> QED BY <1>9 DEF Sound

\* What a step that leaves the root alone preserves.
LEMMA RootKept ==
    ASSUME UNCHANGED root
    PROVE  /\ GetsSound => GetsSound'
           /\ PublishedSound => PublishedSound'
BY DEF root, GetsSound, PublishedSound, Sound

\* The steps that are not the root's.
Elsewhere ==
    \/ \E c \in JoinCall : JoinNetwork(c)
    \/ \E c \in LeaveCall : LeaveNetwork(c)
    \/ \E a \in DOMAIN attempts :
          LookupFails(a) \/ LookupThrows(a) \/ LookupSends(a) \/ TimerFires(a)
    \/ \E m \in net : JoinReply(m) \/ LeaveReply(m) \/ Lose(m)
    \/ \E p \in Peer : CheckPeerList(p)
    \/ \E k \in looks : CheckCallback(k)
    \/ UNCHANGED vars

LEMMA ElsewhereKeepsRoot == Elsewhere => UNCHANGED root
BY DEF Elsewhere, JoinNetwork, LeaveNetwork, LookupFails, LookupThrows, LookupSends,
       TimerFires, JoinReply, LeaveReply, Lose, CheckPeerList, CheckCallback, vars, root

LEMMA GetsNext ==
    ASSUME TypeOK, GetsSound, RepliesSound, PublishedSound, [Next]_vars
    PROVE  GetsSound'
<1>1. accepted \subseteq accepted' /\ \A l : Sound(l) => Sound(l)' BY AcceptedGrows
<1>2. CASE Elsewhere BY <1>2, ElsewhereKeepsRoot, RootKept
<1>3. CASE CreateNetwork \/ CreateFails BY <1>3 DEF CreateNetwork, CreateFails, GetsSound
<1>4. CASE AddNetwork BY <1>1, <1>4 DEF AddNetwork, GetsSound, NewGet
<1>5. CASE RefreshNetworkInfo BY <1>1, <1>5 DEF RefreshNetworkInfo, GetsSound, NewGet
<1>6. CASE RootStops BY <1>6 DEF RootStops, GetsSound
<1>7. ASSUME NEW g \in gets, ServeGet(g) PROVE GetsSound'
  <2> DEFINE h == [g EXCEPT !.list = dht, !.done = TRUE]
  <2>1. g \in Get BY DEF TypeOK
  <2>2. h.list = dht /\ h.kind = g.kind /\ h.peer = g.peer BY <2>1 DEF Get
  <2>3. Sound(dht) BY <1>7 DEF ServeGet, PublishedSound, Sound, TypeOK
  <2>4. gets' \subseteq gets \cup {h} /\ UNCHANGED <<hosting, accepted>> BY <1>7 DEF ServeGet
  <2> HIDE DEF h
  <2>5. hosting' = "yes" BY <2>4 DEF GetsSound
  <2> QED BY <1>1, <2>2, <2>3, <2>4, <2>5 DEF GetsSound
<1>8. ASSUME NEW g \in gets, GetCallback(g) PROVE GetsSound'
  BY <1>1, <1>8 DEF GetCallback, GetsSound
<1>9. ASSUME NEW m \in net, HandleJoin(m) PROVE GetsSound'
  BY <1>1, <1>9 DEF HandleJoin, GetsSound, NewGet
<1>10. ASSUME NEW m \in net, HandleLeave(m) PROVE GetsSound'
  BY <1>1, <1>10 DEF HandleLeave, GetsSound, NewGet
<1> QED BY <1>2, <1>3, <1>4, <1>5, <1>6, <1>7, <1>8, <1>9, <1>10 DEF Next, Elsewhere

LEMMA PublishedNext ==
    ASSUME TypeOK, GetsSound, RepliesSound, PublishedSound, [Next]_vars
    PROVE  PublishedSound'
<1>1. accepted \subseteq accepted' BY AcceptedGrows
<1>2. CASE Elsewhere BY <1>2, ElsewhereKeepsRoot, RootKept
<1>3. CASE CreateNetwork \/ CreateFails BY <1>3 DEF CreateNetwork, CreateFails, PublishedSound
<1>4. CASE AddNetwork BY <1>4 DEF AddNetwork, PublishedSound
<1>5. CASE RefreshNetworkInfo BY <1>5 DEF RefreshNetworkInfo, PublishedSound
<1>6. CASE RootStops BY <1>6 DEF RootStops, PublishedSound
<1>7. ASSUME NEW g \in gets, ServeGet(g) PROVE PublishedSound'
  BY <1>7 DEF ServeGet, PublishedSound
<1>8. ASSUME NEW g \in gets, GetCallback(g) PROVE PublishedSound'
  <2>1. UNCHANGED <<hosting, accepted>> BY <1>8 DEF GetCallback
  <2>2. CASE UNCHANGED <<cache, dht>> BY <2>1, <2>2 DEF PublishedSound
  <2>3. CASE Sound(cache') /\ dht' = cache' BY <2>1, <2>3 DEF PublishedSound, Sound
  <2> QED BY <1>8, <2>2, <2>3, PublishesSound
<1>9. ASSUME NEW m \in net, HandleJoin(m) PROVE PublishedSound'
  BY <1>1, <1>9 DEF HandleJoin, PublishedSound
<1>10. ASSUME NEW m \in net, HandleLeave(m) PROVE PublishedSound'
  BY <1>10 DEF HandleLeave, PublishedSound
<1> QED BY <1>2, <1>3, <1>4, <1>5, <1>6, <1>7, <1>8, <1>9, <1>10 DEF Next, Elsewhere

\* What a step sends names an attempt, and a yes goes to an accepted peer.
LEMMA RepliesNext ==
    ASSUME TypeOK, RepliesSound, [Next]_vars
    PROVE  RepliesSound'
<1>1. /\ accepted \subseteq accepted'
      /\ Extends(attempts, attempts')
  BY AcceptedGrows, AttemptsStep
<1>2. \A a \in DOMAIN attempts : a \in DOMAIN attempts' /\ Caller(a)' = Caller(a)
  BY <1>1, CallerKept
<1>3. ASSUME net' \subseteq net PROVE RepliesSound'
  BY <1>1, <1>2, <1>3 DEF RepliesSound
<1>4. ASSUME NEW c \in LeaveCall, LeaveNetwork(c) PROVE RepliesSound'
  <2>1. net' \subseteq net \cup {[type |-> "leave", id |-> c]} BY <1>4 DEF LeaveNetwork
  <2> QED BY <1>1, <1>2, <2>1 DEF RepliesSound
<1>5. ASSUME NEW a \in DOMAIN attempts, LookupSends(a) PROVE RepliesSound'
  <2>1. net' = net \cup {[type |-> "join", id |-> a]} BY <1>5 DEF LookupSends
  <2> QED BY <1>1, <1>2, <2>1 DEF RepliesSound
<1>6. ASSUME NEW m \in net, HandleJoin(m) PROVE RepliesSound'
  <2> DEFINE r == [type |-> "joinReply", id |-> m.id, ok |-> JoinHosted(m)]
  <2>1. m.id \in DOMAIN attempts BY <1>6 DEF HandleJoin, RepliesSound
  <2>2. r.ok => Caller(m.id) \in accepted' BY <1>6 DEF HandleJoin, JoinHosted
  <2>3. net' \subseteq net \cup {r} BY <1>6 DEF HandleJoin
  <2>4. r.id = m.id /\ r.type = "joinReply" OBVIOUS
  <2> HIDE DEF r
  <2> QED BY <1>1, <1>2, <2>1, <2>2, <2>3, <2>4 DEF RepliesSound
<1>7. ASSUME NEW m \in net, HandleLeave(m) PROVE RepliesSound'
  <2>1. net' \subseteq net \cup {[type |-> "leaveReply", id |-> m.id, ok |-> hosting = "yes"]}
    BY <1>7 DEF HandleLeave
  <2> QED BY <1>1, <1>2, <2>1 DEF RepliesSound
<1>8. \/ CreateNetwork \/ CreateFails \/ AddNetwork \/ RefreshNetworkInfo \/ RootStops
      \/ UNCHANGED vars
      \/ \E g \in gets : ServeGet(g) \/ GetCallback(g)
      \/ \E c \in JoinCall : JoinNetwork(c)
      \/ \E a \in DOMAIN attempts : LookupFails(a) \/ LookupThrows(a) \/ TimerFires(a)
      \/ \E m \in net : JoinReply(m) \/ LeaveReply(m) \/ Lose(m)
      \/ \E p \in Peer : CheckPeerList(p)
      \/ \E k \in looks : CheckCallback(k)
      => net' \subseteq net
  BY DEF CreateNetwork, CreateFails, AddNetwork, RefreshNetworkInfo, RootStops, ServeGet,
         GetCallback,
         JoinNetwork, LookupFails, LookupThrows, TimerFires, JoinReply, LeaveReply,
         Lose, CheckPeerList, CheckCallback, vars
<1> QED BY <1>3, <1>4, <1>5, <1>6, <1>7, <1>8 DEF Next

(***************************************************************************)
(* The calls.                                                              *)
(***************************************************************************)

\* Only these steps answer a call or change who has joined.
LEMMA Silent ==
    ASSUME [Next]_vars,
           ~ \E c \in LeaveCall : LeaveNetwork(c),
           ~ \E a \in DOMAIN attempts : LookupFails(a) \/ TimerFires(a),
           ~ \E m \in net : JoinReply(m) \/ LeaveReply(m)
    PROVE  /\ UNCHANGED <<answers, joined>>
           /\ (UNCHANGED listCache \/ \E k \in looks : CheckCallback(k))
BY DEF Next, CreateNetwork, CreateFails, AddNetwork, RefreshNetworkInfo, RootStops,
       ServeGet, GetCallback,
       JoinNetwork, LookupThrows, LookupSends, HandleJoin, HandleLeave, Lose, CheckPeerList,
       CheckCallback, vars, peers, watching

\* A call of leaveNetwork is not one of joinNetwork.
LEMMA LeaveAnswers ==
    ASSUME TypeOK, NEW c \in LeaveCall, NEW v \in {"true", "error"},
           Answer(c, v) \/ UNCHANGED answers
    PROVE  \A w : \A d \in JoinCall : Answered(d, w)' => Answered(d, w)
<1>1. CASE UNCHANGED answers BY <1>1 DEF Answered
<1>2. CASE Answer(c, v) BY <1>2, AnswerType, PeersAssumption DEF Call
<1> QED BY <1>1, <1>2

LEMMA MemberNext ==
    ASSUME TypeOK, RepliesSound, TrueMeansAccepted, [Next]_vars
    PROVE  TrueMeansAccepted'
<1>1. accepted \subseteq accepted' BY AcceptedGrows
<1>2. SUFFICES /\ joined' \subseteq accepted'
               /\ \A c \in JoinCall : Answered(c, "true")' => CallerOf[c] \in accepted'
  BY DEF TrueMeansAccepted
<1>3. ASSUME NEW c \in LeaveCall, LeaveNetwork(c)
      PROVE  joined' = joined /\ \A d \in JoinCall : Answered(d, "true")' => Answered(d, "true")
  BY <1>3, LeaveAnswers DEF LeaveNetwork
<1>4. ASSUME NEW a \in DOMAIN attempts, LookupFails(a) \/ TimerFires(a)
      PROVE  joined' = joined /\ \A d \in JoinCall : Answered(d, "true")' => Answered(d, "true")
  BY <1>4, FailsStep DEF LookupFails, TimerFires, Call
<1>5. ASSUME NEW m \in net, JoinReply(m)
      PROVE  /\ joined' \subseteq accepted
             /\ \A d \in JoinCall : Answered(d, "true")' => CallerOf[d] \in accepted
  <2>1. m.id \in DOMAIN attempts BY <1>5 DEF JoinReply, RepliesSound
  <2>2. CASE m.ok
    <3>1. Joins(m.id) /\ Caller(m.id) \in accepted BY <1>5, <2>2 DEF JoinReply, RepliesSound
    <3>2. /\ joined' \subseteq joined \cup {Caller(m.id)}
          /\ \A d \in Call : Answered(d, "true")' =>
               Answered(d, "true") \/ CallerOf[d] = Caller(m.id)
      BY <2>1, <3>1, JoinsStep
    <3> QED BY <3>1, <3>2 DEF TrueMeansAccepted, Call
  <2>3. CASE ~m.ok
    <3>1. joined' = joined /\ AttemptFails(m.id, "failed") BY <1>5, <2>3 DEF JoinReply
    <3>2. \A d \in Call : Answered(d, "true")' => Answered(d, "true")
      BY <2>1, <3>1, FailsStep
    <3> QED BY <3>1, <3>2 DEF TrueMeansAccepted, Call
  <2> QED BY <2>2, <2>3
<1>6. ASSUME NEW m \in net, LeaveReply(m)
      PROVE  /\ joined' \subseteq joined
             /\ \A d \in JoinCall : Answered(d, "true")' => Answered(d, "true")
  <2>1. m.id \in LeaveCall BY <1>6, LeaveMessage DEF LeaveReply
  <2>2. joined' \subseteq joined BY <1>6 DEF LeaveReply
  <2>3. \/ Answer(m.id, "true") \/ Answer(m.id, "error") \/ UNCHANGED answers
    BY <1>6 DEF LeaveReply
  <2> QED BY <2>1, <2>2, <2>3, LeaveAnswers
<1>7. ASSUME UNCHANGED <<answers, joined>>
      PROVE  joined' = joined /\ \A d \in JoinCall : Answered(d, "true")' => Answered(d, "true")
  BY <1>7 DEF Answered
<1>8. joined \subseteq accepted /\ \A d \in JoinCall : Answered(d, "true") => CallerOf[d] \in accepted
  BY DEF TrueMeansAccepted
<1>9. CASE \E m \in net : JoinReply(m) BY <1>1, <1>5, <1>9
<1>10. CASE ~ \E m \in net : JoinReply(m)
  <2>1. /\ joined' \subseteq joined
        /\ \A d \in JoinCall : Answered(d, "true")' => Answered(d, "true")
    BY <1>3, <1>4, <1>6, <1>7, <1>10, Silent
  <2> QED BY <1>1, <1>8, <2>1
<1> QED BY <1>9, <1>10

(***************************************************************************)
(* The cached lists.                                                       *)
(***************************************************************************)
LEMMA LooksNext ==
    ASSUME TypeOK, RepliesSound, PublishedSound, LooksSound, [Next]_vars
    PROVE  LooksSound'
<1>1. \A l : Sound(l) => Sound(l)' BY AcceptedGrows
<1>2. ASSUME NEW p \in Peer, CheckPeerList(p) PROVE LooksSound'
  <2>1. Sound(dht) BY <1>2 DEF CheckPeerList, PublishedSound, Sound, TypeOK
  <2>2. looks' = looks \cup {[peer |-> p, list |-> dht]} BY <1>2 DEF CheckPeerList
  <2> QED BY <1>1, <2>1, <2>2 DEF LooksSound
<1>3. ASSUME looks' \subseteq looks PROVE LooksSound'
  BY <1>1, <1>3 DEF LooksSound
<1>4. ASSUME ~ \E p \in Peer : CheckPeerList(p) PROVE looks' \subseteq looks
  BY <1>4 DEF Next, CreateNetwork, CreateFails, AddNetwork, RefreshNetworkInfo, RootStops,
     ServeGet, GetCallback, JoinNetwork, LeaveNetwork, LookupFails, LookupThrows, LookupSends,
     TimerFires, HandleJoin, HandleLeave, JoinReply, LeaveReply, Lose, CheckCallback,
     vars, peers, watching
<1> QED BY <1>2, <1>3, <1>4

LEMMA CachedNext ==
    ASSUME TypeOK, RepliesSound, LooksSound, CachedSound, [Next]_vars
    PROVE  CachedSound'
<1>1. accepted \subseteq accepted' BY AcceptedGrows
<1>2. ASSUME NEW p \in Peer, Forgets(p), joined \ {p} \subseteq joined' PROVE CachedSound'
  BY <1>1, <1>2, ForgetsStep DEF CachedSound
<1>3. ASSUME UNCHANGED <<joined, listCache>> PROVE CachedSound'
  BY <1>1, <1>3 DEF CachedSound
<1>4. ASSUME NEW m \in net, JoinReply(m) PROVE CachedSound'
  <2>1. m.id \in DOMAIN attempts BY <1>4 DEF JoinReply, RepliesSound
  <2>2. CASE m.ok
    <3>1. Joins(m.id) BY <1>4, <2>2 DEF JoinReply
    <3>2. \/ joined' = joined \cup {Caller(m.id)} /\ Forgets(Caller(m.id))
          \/ UNCHANGED <<joined, listCache>>
      BY <2>1, <3>1, JoinsStep
    <3> QED BY <1>2, <1>3, <2>1, <3>2, CallerType
  <2>3. CASE ~m.ok BY <1>3, <1>4, <2>3 DEF JoinReply
  <2> QED BY <2>2, <2>3
<1>5. ASSUME NEW m \in net, LeaveReply(m) PROVE CachedSound'
  <2>1. m.id \in LeaveCall BY <1>5, LeaveMessage DEF LeaveReply
  <2>2. CallerOf[m.id] \in Peer BY <2>1, PeersAssumption DEF Call
  <2>3. \/ joined' = joined \ {CallerOf[m.id]} /\ Forgets(CallerOf[m.id])
        \/ UNCHANGED <<joined, listCache>>
    BY <1>5 DEF LeaveReply
  <2> QED BY <1>2, <1>3, <2>2, <2>3
<1>6. ASSUME NEW k \in looks, CheckCallback(k) PROVE CachedSound'
  <2>1. k.peer \in Peer /\ Sound(k.list) BY DEF TypeOK, LooksSound
  <2>2. joined' = joined BY <1>6 DEF CheckCallback
  <2>3. \A p \in Peer : \/ listCache'[p] = listCache[p]
                        \/ p = k.peer /\ p \in joined /\ listCache'[p] = k.list
    BY <1>6, <2>1 DEF CheckCallback, TypeOK
  <2> QED BY <1>1, <2>1, <2>2, <2>3 DEF CachedSound, Sound
<1>7. ASSUME NEW c \in LeaveCall, LeaveNetwork(c) PROVE UNCHANGED <<joined, listCache>>
  BY <1>7 DEF LeaveNetwork, watching
<1>8. ASSUME NEW a \in DOMAIN attempts, LookupFails(a) \/ TimerFires(a)
      PROVE  UNCHANGED <<joined, listCache>>
  BY <1>8 DEF LookupFails, TimerFires, watching
<1> QED BY <1>3, <1>4, <1>5, <1>6, <1>7, <1>8, Silent

\* An attempt with the last number that is over.
LastOver(c) == \E a \in DOMAIN attempts : /\ attempts[a].call = c
                                          /\ attempts[a].i = MaxAttempts[c]
                                          /\ attempts[a].phase \in Over

LEMMA OverPhase == TypeOK => \A a \in DOMAIN attempts :
                      attempts[a].phase \in Over <=> attempts[a].phase \notin {"lookup",
                             "waiting"}
BY AttemptsTyped DEF Attempt, Phase, Over

LEMMA ErrorNext ==
    ASSUME TypeOK, TypeOK', RepliesSound, ErrorAfterLastAttempt, [Next]_vars
    PROVE  ErrorAfterLastAttempt'
<1>1. Extends(attempts, attempts') BY AttemptsStep
<1>2. \A c : LastOver(c) => LastOver(c)' BY <1>1 DEF LastOver, Extends
<1>3. \A c \in JoinCall : Answered(c, "error") => LastOver(c)
  BY OverPhase DEF ErrorAfterLastAttempt, LastOver
<1>4. SUFFICES \A c \in JoinCall : Answered(c, "error")' =>
                  Answered(c, "error") \/ LastOver(c)'
  <2>1. \A c \in JoinCall : Answered(c, "error")' => LastOver(c)' BY <1>2, <1>3, <1>4
  <2>2. \A a \in DOMAIN attempts' :
           attempts'[a].phase \in Over => attempts'[a].phase \notin {"lookup", "waiting"}
    BY DEF Over
  <2> QED BY <2>1, <2>2 DEF ErrorAfterLastAttempt, LastOver
<1>5. ASSUME NEW a \in DOMAIN attempts, NEW ph \in {"failed", "halved", "timedout"}, AttemptFails(a, ph)
      PROVE  \A c \in JoinCall : Answered(c, "error")' => Answered(c, "error") \/ LastOver(c)'
  <2>1. a \in DOMAIN attempts' BY <1>1 DEF Extends
  <2> QED BY <1>5, <2>1, FailsStep DEF LastOver, Call
<1>6. ASSUME NEW c \in LeaveCall, LeaveNetwork(c)
      PROVE  \A d \in JoinCall : Answered(d, "error")' => Answered(d, "error")
  BY <1>6, LeaveAnswers DEF LeaveNetwork
<1>7. ASSUME NEW a \in DOMAIN attempts, LookupFails(a) \/ TimerFires(a)
      PROVE  \A c \in JoinCall : Answered(c, "error")' => Answered(c, "error") \/ LastOver(c)'
  BY <1>5, <1>7 DEF LookupFails, TimerFires
<1>8. ASSUME NEW m \in net, JoinReply(m)
      PROVE  \A c \in JoinCall : Answered(c, "error")' => Answered(c, "error") \/ LastOver(c)'
  <2>1. m.id \in DOMAIN attempts BY <1>8 DEF JoinReply, RepliesSound
  <2>2. CASE m.ok BY <1>8, <2>1, <2>2, JoinsStep DEF JoinReply, Call
  <2>3. CASE ~m.ok BY <1>5, <1>8, <2>1, <2>3 DEF JoinReply
  <2> QED BY <2>2, <2>3
<1>9. ASSUME NEW m \in net, LeaveReply(m)
      PROVE  \A d \in JoinCall : Answered(d, "error")' => Answered(d, "error")
  <2>1. m.id \in LeaveCall BY <1>9, LeaveMessage DEF LeaveReply
  <2>2. \/ Answer(m.id, "true") \/ Answer(m.id, "error") \/ UNCHANGED answers
    BY <1>9 DEF LeaveReply
  <2> QED BY <2>1, <2>2, LeaveAnswers
<1>10. ASSUME UNCHANGED answers
       PROVE  \A d \in JoinCall : Answered(d, "error")' => Answered(d, "error")
  BY <1>10 DEF Answered
<1> QED BY <1>6, <1>7, <1>8, <1>9, <1>10, Silent

(***************************************************************************)
(* The theorems.                                                           *)
(***************************************************************************)
LEMMA IInvInit == Init => IInv
<1> SUFFICES ASSUME Init PROVE IInv OBVIOUS
<1>1. TypeOK BY TypeInit
<1>2. GetsSound /\ RepliesSound /\ PublishedSound /\ LooksSound /\ CachedSound
  BY DEF Init, GetsSound, RepliesSound, PublishedSound, LooksSound, CachedSound
<1>3. \A v : \A c \in Call : ~Answered(c, v) BY DEF Init, Answered
<1>4. TrueMeansAccepted /\ ErrorAfterLastAttempt
  BY <1>3 DEF Init, TrueMeansAccepted, ErrorAfterLastAttempt, Call
<1> QED BY <1>1, <1>2, <1>4 DEF IInv

LEMMA IInvNext == IInv /\ [Next]_vars => IInv'
<1> SUFFICES ASSUME IInv, [Next]_vars PROVE IInv' OBVIOUS
<1>1. /\ TypeOK /\ GetsSound /\ RepliesSound /\ PublishedSound
      /\ LooksSound /\ CachedSound /\ TrueMeansAccepted /\ ErrorAfterLastAttempt
  BY DEF IInv
<1>2. TypeOK' BY <1>1, TypeNext
<1>3. GetsSound' BY <1>1, GetsNext
<1>4. RepliesSound' BY <1>1, RepliesNext
<1>5. PublishedSound' BY <1>1, PublishedNext
<1>6. TrueMeansAccepted' BY <1>1, MemberNext
<1>7. ErrorAfterLastAttempt' BY <1>1, <1>2, ErrorNext
<1>8. LooksSound' BY <1>1, LooksNext
<1>9. CachedSound' BY <1>1, CachedNext
<1> QED BY <1>2, <1>3, <1>4, <1>5, <1>6, <1>7, <1>8, <1>9 DEF IInv

LEMMA Invariant == Spec => []IInv
<1>1. Init => IInv BY IInvInit
<1>2. IInv /\ [Next]_vars => IInv' BY IInvNext
<1> QED BY <1>1, <1>2, PTL DEF Spec

\* The variables of Peers keep their types: a reply always names an attempt
\* that was made, a get a peer or a call.
THEOREM TypeCorrect == Spec => []TypeOK
<1>1. IInv => TypeOK BY DEF IInv
<1> QED BY <1>1, Invariant, PTL

\* However the gets and publications of concurrent joins, leaves and
\* refreshes interleave and fail, a published list names the root and
\* otherwise only accepted peers.
THEOREM ListsSound == Spec => []PublishedSound
<1>1. IInv => PublishedSound BY DEF IInv
<1> QED BY <1>1, Invariant, PTL

\* A watcher caches only lists of the network its peer is in, and only sound ones.
THEOREM CachesSound == Spec => []CachedSound
<1>1. IInv => CachedSound BY DEF IInv
<1> QED BY <1>1, Invariant, PTL

\* joinNetwork answers true only at a peer that the root accepted.
THEOREM MembersAccepted == Spec => []TrueMeansAccepted
<1>1. IInv => TrueMeansAccepted BY DEF IInv
<1> QED BY <1>1, Invariant, PTL

\* joinNetwork gives up only after its last attempt.
THEOREM ErrorsLate == Spec => []ErrorAfterLastAttempt
<1>1. IInv => ErrorAfterLastAttempt BY DEF IInv
<1> QED BY <1>1, Invariant, PTL

(***************************************************************************)
(* How attempts multiply.  An attempt that is over may have failed once;   *)
(* one whose phase is "failed" may have failed twice.  So the attempts of  *)
(* the next number are at most as many as these two together, and a step   *)
(* that starts one makes one of them grow.                                 *)
(***************************************************************************)
Nth(s, c, i) == {a \in DOMAIN s : s[a].call = c /\ s[a].i = i}
EndedOf(s, c, i) == {a \in Nth(s, c, i) : s[a].phase \in Over}
FailedOf(s, c, i) == {a \in Nth(s, c, i) : s[a].phase = "failed"}

Counted(s, c) ==
    /\ Cardinality(Nth(s, c, 1)) <= 1
    /\ \A i \in Nat \ {0} : Cardinality(Nth(s, c, i + 1))
                              <= Cardinality(EndedOf(s, c, i)) + Cardinality(FailedOf(s, c, i))

\* t is s with some attempts moved to later phases, and perhaps others added.
Moved(s, t) ==
    \A a \in DOMAIN s : /\ a \in DOMAIN t
                        /\ t[a].call = s[a].call /\ t[a].i = s[a].i
                        /\ s[a].phase \in Over => t[a].phase \in Over
                        /\ s[a].phase = "failed" => t[a].phase = "failed"

LEMMA SetsFinite ==
    ASSUME NEW s \in Seq(Attempt), NEW c, NEW i
    PROVE  /\ IsFiniteSet(Nth(s, c, i)) /\ Cardinality(Nth(s, c, i)) \in Nat
           /\ IsFiniteSet(EndedOf(s, c, i)) /\ Cardinality(EndedOf(s, c, i)) \in Nat
           /\ IsFiniteSet(FailedOf(s, c, i)) /\ Cardinality(FailedOf(s, c, i)) \in Nat
           /\ Cardinality(EndedOf(s, c, i)) <= Cardinality(Nth(s, c, i))
           /\ Cardinality(FailedOf(s, c, i)) <= Cardinality(Nth(s, c, i))
<1>1. DOMAIN s = 1..Len(s) /\ Len(s) \in Nat BY LenProperties
<1>2. IsFiniteSet(1..Len(s)) BY <1>1, FS_Interval
<1>3. Nth(s, c, i) \in SUBSET (1..Len(s)) BY <1>1 DEF Nth
<1>4. IsFiniteSet(Nth(s, c, i)) BY <1>2, <1>3, FS_Subset
<1>5. EndedOf(s, c, i) \in SUBSET Nth(s, c, i) BY DEF EndedOf
<1>6. FailedOf(s, c, i) \in SUBSET Nth(s, c, i) BY DEF FailedOf
<1> QED BY <1>4, <1>5, <1>6, FS_Subset, FS_CardinalityType

LEMMA MovedGrows ==
    ASSUME NEW s \in Seq(Attempt), NEW t \in Seq(Attempt), Moved(s, t), NEW c, NEW i
    PROVE  /\ EndedOf(s, c, i) \subseteq EndedOf(t, c, i)
           /\ FailedOf(s, c, i) \subseteq FailedOf(t, c, i)
           /\ Cardinality(EndedOf(s, c, i)) <= Cardinality(EndedOf(t, c, i))
           /\ Cardinality(FailedOf(s, c, i)) <= Cardinality(FailedOf(t, c, i))
<1>1. EndedOf(s, c, i) \in SUBSET EndedOf(t, c, i) BY DEF Moved, EndedOf, Nth
<1>2. FailedOf(s, c, i) \in SUBSET FailedOf(t, c, i) BY DEF Moved, FailedOf, Nth
<1> QED BY <1>1, <1>2, SetsFinite, FS_Subset

\* Nothing is added.
LEMMA MoveCounted ==
    ASSUME NEW s \in Seq(Attempt), NEW t \in Seq(Attempt), Moved(s, t),
           DOMAIN t = DOMAIN s, NEW c, Counted(s, c)
    PROVE  Counted(t, c)
<1>1. \A i : Nth(t, c, i) = Nth(s, c, i) BY DEF Moved, Nth
<1>2. ASSUME NEW i \in Nat \ {0}
      PROVE  Cardinality(Nth(t, c, i + 1))
               <= Cardinality(EndedOf(t, c, i)) + Cardinality(FailedOf(t, c, i))
  <2>1. Cardinality(Nth(s, c, i + 1))
          <= Cardinality(EndedOf(s, c, i)) + Cardinality(FailedOf(s, c, i))
    BY DEF Counted
  <2> QED BY <1>1, <2>1, SetsFinite, MovedGrows
<1> QED BY <1>1, <1>2 DEF Counted

\* The attempt a fails, for the first or the second time, and x follows it.
LEMMA FailCounted ==
    ASSUME NEW s \in Seq(Attempt), NEW t \in Seq(Attempt), Moved(s, t),
           DOMAIN t = DOMAIN s, NEW a \in DOMAIN s,
           \/ s[a].phase \notin Over /\ t[a].phase \in Over
           \/ s[a].phase # "failed" /\ t[a].phase = "failed",
           NEW x \in Attempt, x.call = s[a].call, x.i = s[a].i + 1,
           NEW c, Counted(s, c)
    PROVE  Counted(Append(t, x), c)
<1> DEFINE u == Append(t, x)
<1>1. /\ s[a] \in Attempt /\ s[a].i \in Nat \ {0} /\ x.i # 1
  BY ElementOfSeq, LenProperties DEF Attempt
<1>2. /\ u \in Seq(Attempt) /\ Len(u) = Len(t) + 1
      /\ DOMAIN t = 1..Len(t) /\ DOMAIN u = 1..Len(u) /\ Len(t) \in Nat
      /\ \A b \in DOMAIN t : u[b] = t[b]
      /\ u[Len(t) + 1] = x
  BY AppendProperties, LenProperties
<1>3. Moved(s, u)
  BY <1>2 DEF Moved
<1> HIDE DEF u
<1>4. \A i : i # x.i \/ c # x.call => Nth(u, c, i) = Nth(s, c, i)
  BY <1>2 DEF Moved, Nth
<1>5. \A i : Nth(u, c, i) \subseteq Nth(s, c, i) \cup {Len(t) + 1}
  BY <1>2 DEF Moved, Nth
<1>6. ASSUME NEW i \in Nat \ {0}
      PROVE  Cardinality(Nth(u, c, i + 1))
               <= Cardinality(EndedOf(u, c, i)) + Cardinality(FailedOf(u, c, i))
  <2>1. Cardinality(Nth(s, c, i + 1))
          <= Cardinality(EndedOf(s, c, i)) + Cardinality(FailedOf(s, c, i))
    BY DEF Counted
  <2> DEFINE now == Cardinality(EndedOf(u, c, i))
             more == Cardinality(FailedOf(u, c, i))
  <2>a. /\ IsFiniteSet(Nth(s, c, i + 1)) /\ Cardinality(Nth(s, c, i + 1)) \in Nat
        /\ Cardinality(Nth(u, c, i + 1)) \in Nat
        /\ IsFiniteSet(EndedOf(s, c, i)) /\ Cardinality(EndedOf(s, c, i)) \in Nat
        /\ IsFiniteSet(FailedOf(s, c, i)) /\ Cardinality(FailedOf(s, c, i)) \in Nat
        /\ IsFiniteSet(EndedOf(u, c, i)) /\ now \in Nat
        /\ IsFiniteSet(FailedOf(u, c, i)) /\ more \in Nat
    BY <1>2, SetsFinite
  <2>b. Cardinality(EndedOf(s, c, i)) <= now /\ Cardinality(FailedOf(s, c, i)) <= more
    BY <1>2, <1>3, MovedGrows
  <2> HIDE DEF now, more
  <2>2. CASE i + 1 # x.i \/ c # x.call
    <3>1. Nth(u, c, i + 1) = Nth(s, c, i + 1) BY <1>4, <2>2
    <3>2. Cardinality(Nth(u, c, i + 1)) <= now + more BY <2>a, <2>b, <2>1, <3>1
    <3> QED BY <3>2 DEF now, more
  <2>3. CASE i + 1 = x.i /\ c = x.call
    <3>1. Cardinality(Nth(u, c, i + 1)) <= Cardinality(Nth(s, c, i + 1)) + 1
      <4> DEFINE v == Nth(s, c, i + 1) \cup {Len(t) + 1}
      <4>1. IsFiniteSet(v) /\ Cardinality(v) <= Cardinality(Nth(s, c, i + 1)) + 1
        <5>1. \/ Cardinality(v) = Cardinality(Nth(s, c, i + 1))
              \/ Cardinality(v) = Cardinality(Nth(s, c, i + 1)) + 1
          BY <2>a, FS_AddElement
        <5>2. IsFiniteSet(v) BY <2>a, FS_AddElement
        <5> HIDE DEF v
        <5> QED BY <2>a, <5>1, <5>2
      <4>2. Nth(u, c, i + 1) \in SUBSET v BY <1>5
      <4> HIDE DEF v
      <4>3. Cardinality(Nth(u, c, i + 1)) <= Cardinality(v) /\ Cardinality(v) \in Nat
        BY <4>1, <4>2, FS_Subset, FS_CardinalityType
      <4> QED BY <2>a, <4>1, <4>3
    <3>2. a \in Nth(s, c, i) /\ a \in Nth(u, c, i) /\ u[a] = t[a]
      BY <1>1, <1>2, <1>3, <2>3 DEF Nth, Moved
    <3>3. CASE s[a].phase \notin Over /\ t[a].phase \in Over
      <4>1. a \notin EndedOf(s, c, i) /\ EndedOf(s, c, i) \cup {a} \in SUBSET EndedOf(u, c, i)
        BY <1>2, <1>3, <3>2, <3>3, MovedGrows DEF EndedOf
      <4>2. Cardinality(EndedOf(s, c, i)) + 1 <= now
        <5>1. Cardinality(EndedOf(s, c, i) \cup {a}) = Cardinality(EndedOf(s, c, i)) + 1
          BY <2>a, <4>1, FS_AddElement
        <5>2. Cardinality(EndedOf(s, c, i) \cup {a}) <= now
          BY <2>a, <4>1, FS_Subset DEF now
        <5> QED BY <5>1, <5>2
      <4>3. Cardinality(Nth(u, c, i + 1)) <= now + more
        BY <2>a, <2>b, <2>1, <3>1, <4>2
      <4> QED BY <4>3 DEF now, more
    <3>4. CASE s[a].phase # "failed" /\ t[a].phase = "failed"
      <4>1. a \notin FailedOf(s, c, i)
            /\ FailedOf(s, c, i) \cup {a} \in SUBSET FailedOf(u, c, i)
        BY <1>2, <1>3, <3>2, <3>4, MovedGrows DEF FailedOf
      <4>2. Cardinality(FailedOf(s, c, i)) + 1 <= more
        <5>1. Cardinality(FailedOf(s, c, i) \cup {a}) = Cardinality(FailedOf(s, c, i)) + 1
          BY <2>a, <4>1, FS_AddElement
        <5>2. Cardinality(FailedOf(s, c, i) \cup {a}) <= more
          BY <2>a, <4>1, FS_Subset DEF more
        <5> QED BY <5>1, <5>2
      <4>3. Cardinality(Nth(u, c, i + 1)) <= now + more
        BY <2>a, <2>b, <2>1, <3>1, <4>2
      <4> QED BY <4>3 DEF now, more
    <3> QED BY <3>3, <3>4
  <2> QED BY <2>2, <2>3
<1>7. Cardinality(Nth(u, c, 1)) <= 1
  BY <1>1, <1>4 DEF Counted
<1> QED BY <1>6, <1>7 DEF Counted, u

\* The first attempt of a call.
LEMMA FirstCounted ==
    ASSUME NEW s \in Seq(Attempt), NEW x \in Attempt, x.i = 1,
           NEW c, Counted(s, c), c = x.call => Nth(s, c, 1) = {}
    PROVE  Counted(Append(s, x), c)
<1> DEFINE u == Append(s, x)
<1>1. /\ u \in Seq(Attempt) /\ Len(u) = Len(s) + 1
      /\ DOMAIN s = 1..Len(s) /\ DOMAIN u = 1..Len(u) /\ Len(s) \in Nat
      /\ \A b \in DOMAIN s : u[b] = s[b]
      /\ u[Len(s) + 1] = x
  BY AppendProperties, LenProperties
<1> HIDE DEF u
<1>2. Moved(s, u) BY <1>1 DEF Moved
<1>3. \A i : i # 1 \/ c # x.call => Nth(u, c, i) = Nth(s, c, i)
  BY <1>1 DEF Nth
<1>4. Cardinality(Nth(u, c, 1)) <= 1
  <2>1. CASE c # x.call BY <1>3, <2>1 DEF Counted
  <2>2. CASE c = x.call
    <3>1. Nth(u, c, 1) \in SUBSET {Len(s) + 1} BY <1>1, <2>2 DEF Nth
    <3>2. IsFiniteSet({Len(s) + 1}) /\ Cardinality({Len(s) + 1}) = 1 BY FS_Singleton
    <3> QED BY <3>1, <3>2, FS_Subset
  <2> QED BY <2>1, <2>2
<1>5. ASSUME NEW i \in Nat \ {0}
      PROVE  Cardinality(Nth(u, c, i + 1))
               <= Cardinality(EndedOf(u, c, i)) + Cardinality(FailedOf(u, c, i))
  <2>1. Cardinality(Nth(s, c, i + 1))
          <= Cardinality(EndedOf(s, c, i)) + Cardinality(FailedOf(s, c, i))
    BY DEF Counted
  <2>2. Nth(u, c, i + 1) = Nth(s, c, i + 1) BY <1>3
  <2> QED BY <1>1, <1>2, <2>1, <2>2, SetsFinite, MovedGrows
<1> QED BY <1>4, <1>5 DEF Counted, u

(***************************************************************************)
(* The invariant: the counts, that a call without its first attempt is one *)
(* not made yet, and that an attempt has at most one join message under    *)
(* way, while it still waits or its timer has fired: so a refusal counts   *)
(* for an attempt once.                                                    *)
(***************************************************************************)
OfJoin(m) == m.type \in {"join", "joinReply"}

Pending ==
    /\ \A m \in net : OfJoin(m) => /\ m.id \in DOMAIN attempts
                                   /\ attempts[m.id].phase \in {"waiting", "timedout"}
    /\ \A m \in net, n \in net : OfJoin(m) /\ OfJoin(n) /\ m.id = n.id => m = n

CallsMade == \A a \in DOMAIN attempts : attempts[a].call \in calls

AllCounted == \A c \in JoinCall : Counted(attempts, c)

\* Only the attempt a changes, and what is added belongs to calls that were made.
OnlyMoves(a) ==
    /\ DOMAIN attempts \subseteq DOMAIN attempts'
    /\ \A b \in DOMAIN attempts \ {a} : attempts'[b] = attempts[b]
    /\ \A b \in DOMAIN attempts' : \E d \in DOMAIN attempts :
          attempts'[b].call = attempts[d].call

LEMMA InPhaseStep ==
    ASSUME TypeOK, NEW a \in DOMAIN attempts, NEW ph \in Phase,
           attempts[a].phase \in Over => ph \in Over,
           attempts[a].phase # "failed"
    PROVE  /\ Moved(attempts, InPhase(a, ph))
           /\ InPhase(a, ph) \in Seq(Attempt)
           /\ attempts' = InPhase(a, ph) =>
                /\ OnlyMoves(a)
                /\ \A c : Counted(attempts, c) => Counted(attempts', c)
<1>1. Moved(attempts, InPhase(a, ph)) BY InPhaseExtends DEF Extends, Moved
<1>2. InPhase(a, ph) \in Seq(Attempt) BY InPhaseExtends DEF Extends
<1>3. ASSUME attempts' = InPhase(a, ph) PROVE OnlyMoves(a)
  BY <1>3, InPhaseExtends DEF Extends, OnlyMoves
<1>4. ASSUME attempts' = InPhase(a, ph), NEW c, Counted(attempts, c)
      PROVE  Counted(attempts', c)
  BY <1>1, <1>2, <1>4, InPhaseExtends, AttemptsTyped, MoveCounted
<1> QED BY <1>1, <1>2, <1>3, <1>4

LEMMA FailsMoves ==
    ASSUME TypeOK, NEW a \in DOMAIN attempts, NEW ph \in {"failed", "halved", "timedout"},
           attempts[a].phase # "failed",
           attempts[a].phase \notin Over \/ ph = "failed",
           AttemptFails(a, ph)
    PROVE  /\ OnlyMoves(a)
           /\ a \in DOMAIN attempts' /\ attempts'[a].phase = ph
           /\ \A c : Counted(attempts, c) => Counted(attempts', c)
<1> DEFINE t == InPhase(a, ph)
<1>1. ph \in Phase /\ ph \in Over BY DEF Phase, Over
<1>2. /\ Moved(attempts, t) /\ t \in Seq(Attempt) /\ DOMAIN t = DOMAIN attempts
      /\ t[a].phase = ph /\ \A b \in DOMAIN attempts \ {a} : t[b] = attempts[b]
      /\ \A b \in DOMAIN attempts : t[b].call = attempts[b].call
  BY <1>1, InPhaseStep, InPhaseExtends DEF Extends
<1>3. CASE LoopAgain(a)
  <2> DEFINE x == NewAttempt(attempts[a].call, attempts[a].i + 1)
  <2>1. attempts[a] \in Attempt /\ attempts \in Seq(Attempt) BY AttemptsTyped
  <2>2. x \in Attempt /\ x.call = attempts[a].call /\ x.i = attempts[a].i + 1
    BY <1>3, <2>1, PeersAssumption DEF NewAttempt, Attempt, LoopAgain, Phase
  <2>3. attempts' = Append(t, x) BY <1>3 DEF AttemptFails
  <2> HIDE DEF t, x
  <2>4. ASSUME NEW c, Counted(attempts, c) PROVE Counted(attempts', c)
    BY <1>1, <1>2, <2>1, <2>2, <2>3, <2>4, FailCounted
  <2>5. /\ Len(attempts') = Len(t) + 1
        /\ DOMAIN t = 1..Len(t) /\ DOMAIN attempts' = 1..Len(attempts') /\ Len(t) \in Nat
        /\ \A b \in DOMAIN t : attempts'[b] = t[b]
        /\ attempts'[Len(t) + 1] = x
    BY <1>2, <2>2, <2>3, AppendProperties, LenProperties
  <2>6. OnlyMoves(a) BY <1>2, <2>2, <2>5 DEF OnlyMoves
  <2> QED BY <1>2, <2>4, <2>5, <2>6
<1>4. CASE ~LoopAgain(a)
  <2>1. attempts' = t BY <1>4 DEF AttemptFails
  <2>2. OnlyMoves(a) /\ \A c : Counted(attempts, c) => Counted(attempts', c)
    BY <1>1, <2>1, InPhaseStep
  <2> QED BY <1>2, <2>1, <2>2
<1> QED BY <1>3, <1>4

LEMMA JoinsMoves ==
    ASSUME TypeOK, NEW a \in DOMAIN attempts, Joins(a), attempts[a].phase # "failed"
    PROVE  OnlyMoves(a) /\ \A c : Counted(attempts, c) => Counted(attempts', c)
<1>1. \/ attempts' = InPhase(a, "settled")
      \/ attempts' = InPhase(a, "stuck")
  BY DEF Joins
<1> QED BY <1>1, InPhaseStep DEF Phase, Over

\* An attempt that has no join message under way may move as it likes.
LEMMA PendingKept ==
    ASSUME Pending, NEW a, OnlyMoves(a), net' \subseteq net,
           \A m \in net' : OfJoin(m) => m.id # a
    PROVE  Pending'
BY DEF Pending, OnlyMoves, OfJoin

\* Every step that makes no attempt and starts none.
LEMMA StillStep ==
    ASSUME TypeOK, Pending, CallsMade, AllCounted,
           UNCHANGED attempts, calls \subseteq calls', NEW new,
           net' \subseteq net \cup {new},
           OfJoin(new) => \E m \in net : OfJoin(m) /\ m.id = new.id /\ m \notin net'
    PROVE  Pending' /\ CallsMade' /\ AllCounted'
<1>1. Pending' BY DEF Pending, OfJoin
<1>2. CallsMade' BY DEF CallsMade
<1>3. AllCounted' BY DEF AllCounted
<1> QED BY <1>1, <1>2, <1>3

LEMMA MoveStep ==
    ASSUME TypeOK, CallsMade, AllCounted, calls' = calls, NEW a, OnlyMoves(a),
           \A c : Counted(attempts, c) => Counted(attempts', c)
    PROVE  CallsMade' /\ AllCounted'
BY DEF CallsMade, AllCounted, OnlyMoves

LEMMA JoinNetworkCounted ==
    ASSUME TypeOK, Pending, CallsMade, AllCounted, NEW c \in JoinCall, JoinNetwork(c)
    PROVE  Pending' /\ CallsMade' /\ AllCounted'
<1> DEFINE x == NewAttempt(c, 1)
<1>1. x \in Attempt /\ x.i = 1 /\ x.call = c
  BY PeersAssumption DEF NewAttempt, Attempt, Phase
<1>2. /\ attempts' = Append(attempts, x) /\ c \notin calls
      /\ calls' = calls \cup {c} /\ net' = net
  BY DEF JoinNetwork
<1>3. Nth(attempts, c, 1) = {} BY <1>2 DEF CallsMade, Nth
<1>4. attempts \in Seq(Attempt) BY AttemptsTyped
<1> HIDE DEF x
<1>5. ASSUME NEW d \in JoinCall PROVE Counted(attempts', d)
  BY <1>1, <1>2, <1>3, <1>4, FirstCounted DEF AllCounted
<1>6. /\ DOMAIN attempts = 1..Len(attempts) /\ Len(attempts) \in Nat
      /\ DOMAIN attempts' = 1..Len(attempts) + 1
      /\ \A b \in DOMAIN attempts : attempts'[b] = attempts[b]
      /\ attempts'[Len(attempts) + 1] = x
  BY <1>1, <1>2, <1>4, AppendProperties, LenProperties
<1>7. Pending' BY <1>2, <1>6 DEF Pending, OfJoin
<1>8. CallsMade' BY <1>1, <1>2, <1>6 DEF CallsMade
<1>9. AllCounted' BY <1>5 DEF AllCounted
<1> QED BY <1>7, <1>8, <1>9

LEMMA LookupCounted ==
    ASSUME TypeOK, Pending, CallsMade, AllCounted,
           NEW a \in DOMAIN attempts, Lookup(a)
    PROVE  Pending' /\ CallsMade' /\ AllCounted'
<1>1. \A m \in net : OfJoin(m) => attempts[m.id].phase \in {"waiting", "timedout"}
  BY DEF Pending
<1>2. CASE LookupFails(a)
  <2>1. /\ OnlyMoves(a) /\ \A c : Counted(attempts, c) => Counted(attempts', c)
        /\ attempts[a].phase \in {"lookup", "halved"} /\ net' = net /\ calls' = calls
    BY <1>2, FailsMoves DEF LookupFails, Over
  <2>2. Pending' BY <1>1, <2>1, PendingKept
  <2> QED BY <2>1, <2>2, MoveStep
<1>3. CASE LookupThrows(a)
  <2>1. /\ attempts' = InPhase(a, "stuck") /\ attempts[a].phase = "lookup"
        /\ net' = net /\ calls' = calls
    BY <1>3 DEF LookupThrows
  <2>2. OnlyMoves(a) /\ \A c : Counted(attempts, c) => Counted(attempts', c)
    BY <2>1, InPhaseStep DEF Over, Phase
  <2>3. Pending' BY <1>1, <2>1, <2>2, PendingKept
  <2> QED BY <2>1, <2>2, <2>3, MoveStep
<1>4. CASE LookupSends(a)
  <2> DEFINE j == [type |-> "join", id |-> a]
  <2>1. /\ attempts' = InPhase(a, "waiting") /\ attempts[a].phase = "lookup"
        /\ net' = net \cup {j} /\ calls' = calls
    BY <1>4 DEF LookupSends
  <2>2. /\ OnlyMoves(a) /\ \A c : Counted(attempts, c) => Counted(attempts', c)
        /\ a \in DOMAIN attempts' /\ attempts'[a].phase = "waiting"
    BY <2>1, InPhaseStep, InPhaseExtends DEF Over, Phase
  <2>3. j.id = a OBVIOUS
  <2> HIDE DEF j
  <2>4. \A m \in net : OfJoin(m) => m.id # a BY <1>1, <2>1
  <2>5. Pending' BY <2>1, <2>2, <2>3, <2>4 DEF Pending, OnlyMoves, OfJoin
  <2> QED BY <2>1, <2>2, <2>5, MoveStep
<1> QED BY <1>2, <1>3, <1>4 DEF Lookup

LEMMA TimerCounted ==
    ASSUME TypeOK, Pending, CallsMade, AllCounted,
           NEW a \in DOMAIN attempts, TimerFires(a)
    PROVE  Pending' /\ CallsMade' /\ AllCounted'
<1>1. /\ OnlyMoves(a) /\ \A c : Counted(attempts, c) => Counted(attempts', c)
      /\ a \in DOMAIN attempts' /\ attempts'[a].phase = "timedout"
      /\ net' = net /\ calls' = calls
  BY FailsMoves DEF TimerFires, Over
<1>2. Pending' BY <1>1 DEF Pending, OnlyMoves, OfJoin
<1> QED BY <1>1, <1>2, MoveStep

LEMMA ReplyCounted ==
    ASSUME TypeOK, Pending, CallsMade, AllCounted, NEW m \in net, JoinReply(m)
    PROVE  Pending' /\ CallsMade' /\ AllCounted'
<1>1. /\ OfJoin(m) /\ m.id \in DOMAIN attempts
      /\ attempts[m.id].phase \in {"waiting", "timedout"}
      /\ net' = net \ {m} /\ calls' = calls
  BY DEF JoinReply, OfJoin, Pending
<1>2. OnlyMoves(m.id) /\ \A c : Counted(attempts, c) => Counted(attempts', c)
  <2>1. CASE m.ok BY <1>1, <2>1, JoinsMoves DEF JoinReply
  <2>2. CASE ~m.ok BY <1>1, <2>2, FailsMoves DEF JoinReply
  <2> QED BY <2>1, <2>2
<1>3. \A n \in net' : OfJoin(n) => n.id # m.id BY <1>1 DEF Pending
<1>4. Pending' BY <1>1, <1>2, <1>3, PendingKept
<1> QED BY <1>1, <1>2, <1>4, MoveStep

LEMMA CountedNext ==
    ASSUME TypeOK, Pending, CallsMade, AllCounted, [Next]_vars
    PROVE  Pending' /\ CallsMade' /\ AllCounted'
<1>1. ASSUME NEW m \in net, HandleJoin(m) PROVE Pending' /\ CallsMade' /\ AllCounted'
  <2> DEFINE new == [type |-> "joinReply", id |-> m.id, ok |-> JoinHosted(m)]
  <2>1. /\ new.type = "joinReply" /\ new.id = m.id /\ m.type = "join"
        /\ net' = (net \ {m}) \cup {new}
        /\ UNCHANGED <<attempts, calls>>
    BY <1>1 DEF HandleJoin, peers
  <2> HIDE DEF new
  <2>2. OfJoin(m) /\ m \notin net' BY <2>1 DEF OfJoin
  <2> QED BY <2>1, <2>2, StillStep
<1>2. ASSUME NEW m \in net, HandleLeave(m) PROVE Pending' /\ CallsMade' /\ AllCounted'
  <2> DEFINE new == [type |-> "leaveReply", id |-> m.id, ok |-> hosting = "yes"]
  <2>1. /\ new.type = "leaveReply" /\ net' = (net \ {m}) \cup {new}
        /\ UNCHANGED <<attempts, calls>>
    BY <1>2 DEF HandleLeave, peers
  <2> HIDE DEF new
  <2>2. ~OfJoin(new) BY <2>1 DEF OfJoin
  <2> QED BY <2>1, <2>2, StillStep
<1>3. ASSUME NEW c \in LeaveCall, LeaveNetwork(c) PROVE Pending' /\ CallsMade' /\ AllCounted'
  <2> DEFINE new == [type |-> "leave", id |-> c]
  <2>1. /\ new.type = "leave" /\ net' \subseteq net \cup {new}
        /\ UNCHANGED attempts /\ calls \subseteq calls'
    BY <1>3 DEF LeaveNetwork
  <2> HIDE DEF new
  <2>2. ~OfJoin(new) BY <2>1 DEF OfJoin
  <2> QED BY <2>1, <2>2, StillStep
<1>4. ASSUME UNCHANGED <<attempts, calls>>, net' \subseteq net
      PROVE  Pending' /\ CallsMade' /\ AllCounted'
  <2> DEFINE new == [type |-> "none"]
  <2>1. ~OfJoin(new) /\ net' \subseteq net \cup {new} BY <1>4 DEF OfJoin
  <2> HIDE DEF new
  <2> QED BY <1>4, <2>1, StillStep
<1>5. /\ \A m \in net : LeaveReply(m) \/ Lose(m)
                        => UNCHANGED <<attempts, calls>> /\ net' \subseteq net
      /\ \A g \in gets : ServeGet(g) \/ GetCallback(g)
                        => UNCHANGED <<attempts, calls>> /\ net' \subseteq net
      /\ CreateNetwork \/ CreateFails \/ AddNetwork \/ RefreshNetworkInfo \/ RootStops
                        => UNCHANGED <<attempts, calls>> /\ net' \subseteq net
      /\ \A p \in Peer : CheckPeerList(p) => UNCHANGED <<attempts, calls>> /\ net' \subseteq net
      /\ \A k \in looks : CheckCallback(k) => UNCHANGED <<attempts, calls>> /\ net' \subseteq net
      /\ UNCHANGED vars => UNCHANGED <<attempts, calls>> /\ net' \subseteq net
  BY DEF LeaveReply, Lose, ServeGet, GetCallback, CreateNetwork, CreateFails, AddNetwork,
     RefreshNetworkInfo, RootStops, CheckPeerList, CheckCallback, peers, vars
<1> QED BY <1>1, <1>2, <1>3, <1>4, <1>5, JoinNetworkCounted, LookupCounted, TimerCounted,
     ReplyCounted DEF Next, Lookup

LEMMA CountedInit == Init => Pending /\ CallsMade /\ AllCounted
<1> SUFFICES ASSUME Init PROVE Pending /\ CallsMade /\ AllCounted OBVIOUS
<1>1. attempts = <<>> /\ net = {} /\ DOMAIN attempts = {} BY DEF Init
<1>2. \A c, i : /\ Nth(attempts, c, i) = {} /\ EndedOf(attempts, c, i) = {}
                /\ FailedOf(attempts, c, i) = {}
  BY <1>1 DEF Nth, EndedOf, FailedOf
<1>3. AllCounted BY <1>2, FS_EmptySet DEF AllCounted, Counted
<1> QED BY <1>1, <1>3 DEF Pending, CallsMade

LEMMA CountedDoubles == TypeOK /\ AllCounted => AttemptsDouble
<1> SUFFICES ASSUME TypeOK, AllCounted, NEW c \in JoinCall
             PROVE  /\ Cardinality(Numbered(c, 1)) <= 1
                    /\ \A i \in 1..(MaxAttempts[c] - 1) :
                          Cardinality(Numbered(c, i + 1)) <= 2 * Cardinality(Numbered(c, i))
  BY DEF AttemptsDouble
<1>1. \A i : Numbered(c, i) = Nth(attempts, c, i) BY DEF Numbered, Nth
<1>2. Counted(attempts, c) BY DEF AllCounted
<1>3. ASSUME NEW i \in 1..(MaxAttempts[c] - 1)
      PROVE  Cardinality(Nth(attempts, c, i + 1)) <= 2 * Cardinality(Nth(attempts, c, i))
  <2>1. i \in Nat \ {0} BY PeersAssumption
  <2>2. Cardinality(Nth(attempts, c, i + 1))
          <= Cardinality(EndedOf(attempts, c, i)) + Cardinality(FailedOf(attempts, c, i))
    BY <1>2, <2>1 DEF Counted
  <2>3. /\ Cardinality(Nth(attempts, c, i)) \in Nat
        /\ Cardinality(Nth(attempts, c, i + 1)) \in Nat
        /\ Cardinality(EndedOf(attempts, c, i)) \in Nat
        /\ Cardinality(FailedOf(attempts, c, i)) \in Nat
        /\ Cardinality(EndedOf(attempts, c, i)) <= Cardinality(Nth(attempts, c, i))
        /\ Cardinality(FailedOf(attempts, c, i)) <= Cardinality(Nth(attempts, c, i))
    BY AttemptsTyped, SetsFinite
  <2> QED BY <2>2, <2>3
<1> QED BY <1>1, <1>2, <1>3 DEF Counted

\* However timers, late refusals and pieces of responses fall, a call has one
\* first attempt and an attempt is followed by at most two.
THEOREM AttemptsBounded == Spec => []AttemptsDouble
<1> DEFINE FInv == Pending /\ CallsMade /\ AllCounted
<1>1. Init => FInv BY CountedInit
<1>2. IInv /\ FInv /\ [Next]_vars => FInv' BY CountedNext DEF IInv
<1>3. IInv /\ FInv => AttemptsDouble BY CountedDoubles DEF IInv
<1> QED BY <1>1, <1>2, <1>3, Invariant, PTL DEF Spec

(***************************************************************************)
(* Peers implements Membership.  A leave has one message under way at      *)
(* most, and no answer while it has one; that of a call not made has none. *)
(***************************************************************************)
OfLeave(m) == m.type \in {"leave", "leaveReply"}

LeavesOnce ==
    /\ \A m \in net : OfLeave(m) => /\ m.id \in calls /\ answers[m.id] = <<>>
                                    /\ CallerOf[m.id] \in accepted
    /\ \A m \in net, n \in net : OfLeave(m) /\ OfLeave(n) /\ m.id = n.id => m = n
    /\ \A c \in LeaveCall : c \notin calls => answers[c] = <<>>

\* A step that may move a message of a leave, and answers none.
LEMMA LeaveStill ==
    ASSUME TypeOK, LeavesOnce, \A c \in LeaveCall : answers'[c] = answers[c],
           calls \subseteq calls', accepted \subseteq accepted', NEW new,
           net' \subseteq net \cup {new},
           OfLeave(new) => \E m \in net : OfLeave(m) /\ m.id = new.id /\ m \notin net'
    PROVE  LeavesOnce'
<1>1. \A m \in net : OfLeave(m) => m.id \in LeaveCall BY LeaveMessage DEF OfLeave
<1>2. \A m \in net' : OfLeave(m) =>
         \E n \in net : OfLeave(n) /\ n.id = m.id /\ (n = m \/ (n \notin net' /\ m = new))
  <2>1. ASSUME NEW m \in net', OfLeave(m)
        PROVE  \E n \in net : OfLeave(n) /\ n.id = m.id /\ (n = m \/ (n \notin net' /\ m = new))
    <3>1. CASE m \in net BY <2>1, <3>1
    <3>2. CASE m = new
      <4>1. PICK n \in net : OfLeave(n) /\ n.id = new.id /\ n \notin net' BY <2>1, <3>2
      <4> QED BY <3>2, <4>1
    <3> QED BY <2>1, <3>1, <3>2
  <2> QED BY <2>1
<1>3. \A m \in net' : OfLeave(m) => /\ m.id \in calls' /\ answers'[m.id] = <<>>
                                    /\ CallerOf[m.id] \in accepted'
  <2>1. ASSUME NEW m \in net', OfLeave(m)
        PROVE  m.id \in calls /\ answers[m.id] = <<>> /\ CallerOf[m.id] \in accepted
               /\ m.id \in LeaveCall
    BY <1>1, <1>2, <2>1 DEF LeavesOnce
  <2> QED BY <2>1
<1>4. \A m \in net', n \in net' : OfLeave(m) /\ OfLeave(n) /\ m.id = n.id => m = n
  BY <1>2 DEF LeavesOnce
<1>5. \A c \in LeaveCall : c \notin calls' => answers'[c] = <<>> BY DEF LeavesOnce
<1> QED BY <1>3, <1>4, <1>5 DEF LeavesOnce, OfLeave

LEMMA AnswerElsewhere ==
    ASSUME TypeOK, NEW c \in Call, NEW v, Answer(c, v)
    PROVE  \A d \in Call \ {c} : answers'[d] = answers[d]
BY DEF Answer, TypeOK

\* What fails or succeeds in a join answers no leave.
LEMMA JoinAnswers ==
    ASSUME TypeOK, NEW a \in DOMAIN attempts,
           (\E ph : AttemptFails(a, ph)) \/ Joins(a)
    PROVE  \A c \in LeaveCall : answers'[c] = answers[c]
<1>1. attempts[a].call \in JoinCall BY AttemptsTyped DEF Attempt
<1>2. UNCHANGED answers \/ \E v : Answer(attempts[a].call, v) BY DEF AttemptFails, Joins
<1> QED BY <1>1, <1>2, AnswerElsewhere, PeersAssumption DEF Call

LEMMA LeavesNext ==
    ASSUME IInv, LeavesOnce, [Next]_vars
    PROVE  LeavesOnce'
<1>1. TypeOK /\ RepliesSound /\ joined \subseteq accepted BY DEF IInv, TrueMeansAccepted
<1>2. accepted \subseteq accepted' BY <1>1, AcceptedGrows
<1>3. ASSUME \A c \in LeaveCall : answers'[c] = answers[c], calls \subseteq calls', net' \subseteq net
      PROVE  LeavesOnce'
  <2> DEFINE new == [type |-> "none"]
  <2>1. ~OfLeave(new) /\ net' \subseteq net \cup {new} BY <1>3 DEF OfLeave
  <2> HIDE DEF new
  <2> QED BY <1>1, <1>2, <1>3, <2>1, LeaveStill
<1>4. ASSUME NEW c \in LeaveCall, LeaveNetwork(c) PROVE LeavesOnce'
  <2>1. c \notin calls /\ calls' = calls \cup {c} /\ c \in Call BY <1>4 DEF LeaveNetwork, Call
  <2>2. \A m \in net : OfLeave(m) => m.id # c /\ m.id \in LeaveCall
    BY <1>1, <2>1, LeaveMessage DEF LeavesOnce, OfLeave
  <2>3. CASE CallerOf[c] \in joined
    <3> DEFINE new == [type |-> "leave", id |-> c]
    <3>1. new.id = c /\ net' = net \cup {new} /\ answers' = answers
      BY <1>4, <2>3 DEF LeaveNetwork
    <3>2. CallerOf[c] \in accepted' /\ answers'[c] = <<>>
      BY <1>1, <1>2, <2>1, <2>3, <3>1 DEF LeavesOnce
    <3> HIDE DEF new
    <3> QED BY <1>2, <2>1, <2>2, <3>1, <3>2 DEF LeavesOnce, OfLeave
  <2>4. CASE CallerOf[c] \notin joined
    <3>1. net' = net /\ Answer(c, "error") BY <1>4, <2>4 DEF LeaveNetwork
    <3>2. \A d \in LeaveCall \ {c} : answers'[d] = answers[d]
      BY <1>1, <2>1, <3>1, AnswerElsewhere DEF Call
    <3> QED BY <1>2, <2>1, <2>2, <3>1, <3>2 DEF LeavesOnce, OfLeave
  <2> QED BY <2>3, <2>4
<1>5. ASSUME NEW m \in net, LeaveReply(m) PROVE LeavesOnce'
  <2>1. /\ m.id \in LeaveCall /\ m.id \in Call /\ OfLeave(m)
        /\ net' = net \ {m} /\ calls' = calls
        /\ UNCHANGED answers \/ \E v : Answer(m.id, v)
    BY <1>1, <1>5, LeaveMessage DEF LeaveReply, OfLeave, Call
  <2>2. \A n \in net' : OfLeave(n) => n.id # m.id /\ n.id \in LeaveCall /\ n \in net
    BY <1>1, <2>1, LeaveMessage DEF LeavesOnce, OfLeave
  <2>3. \A d \in LeaveCall \ {m.id} : answers'[d] = answers[d]
    BY <1>1, <2>1, AnswerElsewhere DEF Call
  <2>4. m.id \in calls BY <2>1 DEF LeavesOnce
  <2> QED BY <1>2, <2>1, <2>2, <2>3, <2>4 DEF LeavesOnce, OfLeave
<1>6. ASSUME NEW m \in net, HandleLeave(m) PROVE LeavesOnce'
  <2> DEFINE new == [type |-> "leaveReply", id |-> m.id, ok |-> hosting = "yes"]
  <2>1. /\ new.type = "leaveReply" /\ new.id = m.id /\ m.type = "leave"
        /\ net' = (net \ {m}) \cup {new} /\ UNCHANGED <<answers, calls>>
    BY <1>6 DEF HandleLeave, peers
  <2> HIDE DEF new
  <2>2. OfLeave(m) /\ m \notin net' BY <2>1 DEF OfLeave
  <2> QED BY <1>1, <1>2, <2>1, <2>2, LeaveStill
<1>7. ASSUME NEW m \in net, HandleJoin(m) PROVE LeavesOnce'
  <2> DEFINE new == [type |-> "joinReply", id |-> m.id, ok |-> JoinHosted(m)]
  <2>1. /\ new.type = "joinReply" /\ net' \subseteq net \cup {new}
        /\ UNCHANGED <<answers, calls>>
    BY <1>7 DEF HandleJoin, peers
  <2> HIDE DEF new
  <2>2. ~OfLeave(new) BY <2>1 DEF OfLeave
  <2> QED BY <1>1, <1>2, <2>1, <2>2, LeaveStill
<1>8. ASSUME NEW a \in DOMAIN attempts, LookupSends(a) PROVE LeavesOnce'
  <2> DEFINE new == [type |-> "join", id |-> a]
  <2>1. new.type = "join" /\ net' = net \cup {new} /\ UNCHANGED <<answers, calls>>
    BY <1>8 DEF LookupSends
  <2> HIDE DEF new
  <2>2. ~OfLeave(new) BY <2>1 DEF OfLeave
  <2> QED BY <1>1, <1>2, <2>1, <2>2, LeaveStill
<1>9. ASSUME NEW a \in DOMAIN attempts, LookupFails(a) \/ TimerFires(a) PROVE LeavesOnce'
  <2>1. calls' = calls /\ net' = net /\ \E ph : AttemptFails(a, ph)
    BY <1>9 DEF LookupFails, TimerFires
  <2> QED BY <1>1, <1>3, <2>1, JoinAnswers
<1>10. ASSUME NEW m \in net, JoinReply(m) PROVE LeavesOnce'
  <2>1. m.id \in DOMAIN attempts BY <1>1, <1>10 DEF JoinReply, RepliesSound
  <2>2. calls' = calls /\ net' \subseteq net /\ (Joins(m.id) \/ \E ph : AttemptFails(m.id, ph))
    BY <1>10 DEF JoinReply
  <2> QED BY <1>1, <1>3, <2>1, <2>2, JoinAnswers
<1>11. /\ \A m \in net : Lose(m) => UNCHANGED answers /\ calls \subseteq calls' /\ net' \subseteq net
       /\ \A g \in gets : ServeGet(g) \/ GetCallback(g)
            => UNCHANGED answers /\ calls \subseteq calls' /\ net' \subseteq net
       /\ CreateNetwork \/ CreateFails \/ AddNetwork \/ RefreshNetworkInfo \/ RootStops
            => UNCHANGED answers /\ calls \subseteq calls' /\ net' \subseteq net
       /\ \A p \in Peer : CheckPeerList(p)
            => UNCHANGED answers /\ calls \subseteq calls' /\ net' \subseteq net
       /\ \A k \in looks : CheckCallback(k)
            => UNCHANGED answers /\ calls \subseteq calls' /\ net' \subseteq net
       /\ \A c \in JoinCall : JoinNetwork(c)
            => UNCHANGED answers /\ calls \subseteq calls' /\ net' \subseteq net
       /\ \A a \in DOMAIN attempts : LookupThrows(a)
            => UNCHANGED answers /\ calls \subseteq calls' /\ net' \subseteq net
       /\ UNCHANGED vars => UNCHANGED answers /\ calls \subseteq calls' /\ net' \subseteq net
  BY DEF Lose, ServeGet, GetCallback, CreateNetwork, CreateFails, AddNetwork,
     RefreshNetworkInfo, RootStops, CheckPeerList, CheckCallback, JoinNetwork, LookupThrows,
     peers, vars
<1> QED BY <1>3, <1>4, <1>5, <1>6, <1>7, <1>8, <1>9, <1>10, <1>11 DEF Next

(***************************************************************************)
(* The lists in circulation, and the steps that change nothing else.       *)
(***************************************************************************)
LEMMA CirculatingOf ==
    /\ \A l : l \in Circulating <=>
          \/ hosting = "yes" /\ l = cache
          \/ l = dht /\ l # NoList
          \/ \E g \in gets : g.done /\ g.list = l
          \/ \E k \in looks : k.list = l
    /\ \A l : (l \in Circulating)' <=>
          \/ hosting' = "yes" /\ l = cache'
          \/ l = dht' /\ l # NoList
          \/ \E g \in gets' : g.done /\ g.list = l
          \/ \E k \in looks' : k.list = l
BY DEF Circulating

LEMMA CirculatingKept ==
    ASSUME UNCHANGED <<hosting, cache, dht, looks>>, NEW g, ~g.done,
           gets' = gets \/ gets' = gets \cup {g}
    PROVE  Circulating' = Circulating
<1>1. \A l : (l \in Circulating)' <=> l \in Circulating BY CirculatingOf
<1> QED BY <1>1

MembersSee == <<accepted, joined, listCache, calls, answers>>

\* A list comes into circulation that is one of them, with one accepted peer more.
LEMMA PublishStep ==
    ASSUME UNCHANGED MembersSee, NEW l \in Circulating \cup {{Root}},
           NEW p \in accepted \cup {Root},
           \A x : (x \in Circulating)' => x \in Circulating \/ x = l \cup {p}
    PROVE  Promised!Next
<1>1. Circulating' \in SUBSET (Circulating \cup {l \cup {p}}) OBVIOUS
<1> QED BY <1>1 DEF MembersSee, Promised!Next, Promised!Publish

\* Lists go out of circulation.
LEMMA DropStep ==
    ASSUME UNCHANGED MembersSee, \A x : (x \in Circulating)' => x \in Circulating
    PROVE  Promised!Next
<1>1. {Root} \in Circulating \cup {{Root}} /\ Root \in accepted \cup {Root} OBVIOUS
<1> QED BY <1>1, PublishStep

(***************************************************************************)
(* The steps of the root.                                                  *)
(***************************************************************************)
LEMMA RootPromise ==
    ASSUME IInv, CreateNetwork \/ CreateFails \/ AddNetwork \/ RefreshNetworkInfo \/ RootStops
    PROVE  Promised!Next
<1>1. UNCHANGED MembersSee /\ looks' = looks
  BY DEF CreateNetwork, CreateFails, AddNetwork, RefreshNetworkInfo, RootStops, peers, watching,
     MembersSee
<1>2. CASE CreateNetwork \/ CreateFails
  <2>1. hosting' # "yes" /\ UNCHANGED <<dht, gets>> BY <1>2 DEF CreateNetwork, CreateFails
  <2> QED BY <1>1, <2>1, CirculatingOf, DropStep
<1>3. CASE AddNetwork
  <2>1. /\ cache' = {Root} /\ dht' = dht
        /\ gets' \subseteq gets \cup {NewGet("refresh", Root, Root)}
    BY <1>3 DEF AddNetwork
  <2>2. ~NewGet("refresh", Root, Root).done BY DEF NewGet
  <2>3. \A x : (x \in Circulating)' => x \in Circulating \/ x = {Root} \cup {Root}
    BY <1>1, <2>1, <2>2, CirculatingOf
  <2>4. {Root} \in Circulating \cup {{Root}} /\ Root \in accepted \cup {Root} OBVIOUS
  <2> QED BY <1>1, <2>3, <2>4, PublishStep
<1>4. CASE RefreshNetworkInfo
  <2>1. /\ UNCHANGED <<hosting, cache, dht>>
        /\ gets' = gets \cup {NewGet("refresh", Root, Root)}
    BY <1>4 DEF RefreshNetworkInfo
  <2>2. ~NewGet("refresh", Root, Root).done BY DEF NewGet
  <2> QED BY <1>1, <2>1, <2>2, CirculatingKept, DropStep
<1>5. CASE RootStops
  <2>1. hosting' # "yes" /\ dht' = dht /\ gets' = {} BY <1>5 DEF RootStops
  <2> QED BY <1>1, <2>1, CirculatingOf, DropStep
<1> QED BY <1>2, <1>3, <1>4, <1>5

LEMMA GetPromise ==
    ASSUME IInv, NEW g \in gets, ServeGet(g) \/ GetCallback(g)
    PROVE  Promised!Next
<1>1. UNCHANGED MembersSee /\ UNCHANGED <<looks, hosting>>
  BY DEF ServeGet, GetCallback, peers, watching, MembersSee
<1>2. CASE ServeGet(g)
  <2> DEFINE h == [g EXCEPT !.list = dht, !.done = TRUE]
  <2>1. g \in Get BY DEF IInv, TypeOK
  <2>2. h.list = dht BY <2>1 DEF Get
  <2>3. gets' \subseteq gets \cup {h} /\ UNCHANGED <<cache, dht>> /\ dht # NoList
    BY <1>2 DEF ServeGet
  <2> HIDE DEF h
  <2>4. \A x : (x \in Circulating)' => x \in Circulating
    BY <1>1, <2>2, <2>3, CirculatingOf
  <2> QED BY <1>1, <2>4, DropStep
<1>3. CASE GetCallback(g)
  <2>1. hosting = "yes" /\ (g.kind = "add" => g.peer \in accepted) BY DEF IInv, GetsSound
  <2>2. HostPeers(g) \in Circulating
    BY <2>1, CirculatingOf DEF HostPeers
  <2>3. gets' \subseteq gets BY <1>3 DEF GetCallback
  <2>4. CASE UNCHANGED <<cache, dht>>
    <3>1. \A x : (x \in Circulating)' => x \in Circulating
      BY <1>1, <2>3, <2>4, CirculatingOf
    <3> QED BY <1>1, <3>1, DropStep
  <2>5. CASE g.kind = "refresh" /\ PublishPeerList(HostPeers(g))
    <3>1. \A x : (x \in Circulating)' => x \in Circulating
      BY <1>1, <2>2, <2>3, <2>5, CirculatingOf DEF PublishPeerList
    <3> QED BY <1>1, <3>1, DropStep
  <2>6. CASE g.kind = "add" /\ PublishPeerList(HostPeers(g) \cup {g.peer})
    <3>1. \A x : (x \in Circulating)' => x \in Circulating \/ x = HostPeers(g) \cup {g.peer}
      BY <1>1, <2>3, <2>6, CirculatingOf DEF PublishPeerList
    <3>2. HostPeers(g) \in Circulating \cup {{Root}} /\ g.peer \in accepted \cup {Root}
      BY <2>1, <2>2, <2>6
    <3> QED BY <1>1, <3>1, <3>2, PublishStep
  <2> QED BY <1>3, <2>4, <2>5, <2>6 DEF GetCallback
<1> QED BY <1>2, <1>3

LEMMA JoinHandled ==
    ASSUME IInv, NEW m \in net, HandleJoin(m)
    PROVE  [Promised!Next]_Promised!vars
<1>1. UNCHANGED <<joined, listCache, calls, answers, hosting, cache, dht, looks>>
  BY DEF HandleJoin, peers, watching
<1>2. CASE hosting = "yes"
  <2> DEFINE p == Caller(m.id)
  <2>1. p \in Peer BY CallerType DEF IInv, HandleJoin, RepliesSound
  <2>2. accepted' = accepted \cup {p} /\ gets' = gets \cup {NewGet("add", m.id, p)}
    BY <1>2 DEF HandleJoin
  <2>3. ~NewGet("add", m.id, p).done BY DEF NewGet
  <2> HIDE DEF p
  <2>4. Circulating' = Circulating BY <1>1, <2>2, <2>3, CirculatingKept
  <2>5. Promised!Accept(p) BY <1>1, <2>2, <2>4 DEF Promised!Accept
  <2> QED BY <2>1, <2>5 DEF Promised!Next
<1>3. CASE hosting # "yes"
  <2>1. UNCHANGED <<accepted, gets>> BY <1>3 DEF HandleJoin
  <2>2. ~NewGet("refresh", Root, Root).done BY DEF NewGet
  <2>3. Circulating' = Circulating BY <1>1, <2>1, <2>2, CirculatingKept
  <2> QED BY <1>1, <2>1, <2>3 DEF Promised!vars
<1> QED BY <1>2, <1>3

LEMMA LeaveHandled ==
    ASSUME NEW m \in net, HandleLeave(m)
    PROVE  Promised!Next
<1>1. UNCHANGED MembersSee /\ UNCHANGED <<hosting, cache, dht, looks>>
  BY DEF HandleLeave, peers, watching, MembersSee
<1>2. gets' = gets \/ gets' = gets \cup {NewGet("remove", m.id, CallerOf[m.id])}
  BY DEF HandleLeave
<1>3. ~NewGet("remove", m.id, CallerOf[m.id]).done BY DEF NewGet
<1> QED BY <1>1, <1>2, <1>3, CirculatingKept, DropStep

(***************************************************************************)
(* The steps of the members.                                               *)
(***************************************************************************)
LEMMA StillPromise ==
    ASSUME UNCHANGED <<root, looks>>
    PROVE  /\ Circulating' = Circulating /\ accepted' = accepted
           /\ UNCHANGED <<joined, listCache, calls, answers>>
                => UNCHANGED Promised!vars
<1>1. ~NewGet("refresh", Root, Root).done BY DEF NewGet
<1>2. Circulating' = Circulating /\ accepted' = accepted
  BY <1>1, CirculatingKept DEF root
<1> QED BY <1>2 DEF Promised!vars

LEMMA AskPromise ==
    ASSUME NEW c, \/ c \in JoinCall /\ JoinNetwork(c)
                  \/ c \in LeaveCall /\ LeaveNetwork(c)
    PROVE  Promised!Next
<1>1. UNCHANGED <<root, looks, joined, listCache>>
  BY DEF JoinNetwork, LeaveNetwork, watching
<1>2. Circulating' = Circulating /\ accepted' = accepted BY <1>1, StillPromise
<1>3. CASE c \in JoinCall /\ JoinNetwork(c)
  <2>1. Promised!AskJoin(c) BY <1>1, <1>2, <1>3 DEF JoinNetwork, Promised!AskJoin
  <2> QED BY <1>3, <2>1 DEF Promised!Next
<1>4. CASE c \in LeaveCall /\ LeaveNetwork(c)
  <2>1. Promised!AskLeave(c)
    BY <1>1, <1>2, <1>4 DEF LeaveNetwork, Promised!AskLeave, Promised!Gives, Answer
  <2> QED BY <1>4, <2>1 DEF Promised!Next
<1> QED BY <1>3, <1>4

\* An attempt that fails refuses its call, or is followed by another.
LEMMA FailPromise ==
    ASSUME TypeOK, CallsMade, NEW a \in DOMAIN attempts, NEW ph, AttemptFails(a, ph),
           UNCHANGED <<root, looks, joined, listCache, calls>>
    PROVE  [Promised!Next]_Promised!vars
<1>1. attempts[a].call \in JoinCall /\ attempts[a].call \in calls
  BY AttemptsTyped DEF Attempt, CallsMade
<1>2. Circulating' = Circulating /\ accepted' = accepted BY StillPromise
<1>3. CASE UNCHANGED answers BY <1>3, StillPromise
<1>4. CASE Answer(attempts[a].call, "error")
  <2>1. Promised!RefuseJoin(attempts[a].call)
    BY <1>1, <1>2, <1>4 DEF Promised!RefuseJoin, Promised!Gives, Answer
  <2> QED BY <1>1, <2>1 DEF Promised!Next
<1> QED BY <1>3, <1>4 DEF AttemptFails

LEMMA JoinPromise ==
    ASSUME IInv, CallsMade, NEW m \in net, JoinReply(m)
    PROVE  [Promised!Next]_Promised!vars
<1>1. /\ TypeOK /\ m.id \in DOMAIN attempts
      /\ m.ok => Caller(m.id) \in accepted
      /\ UNCHANGED <<root, looks, calls>>
  BY DEF IInv, RepliesSound, JoinReply
<1>2. CASE m.ok
  <2> DEFINE c == attempts[m.id].call
  <2>1. c \in JoinCall /\ c \in calls /\ CallerOf[c] \in accepted
    BY <1>1, <1>2, AttemptsTyped DEF Attempt, CallsMade, Caller
  <2>2. Circulating' = Circulating /\ accepted' = accepted BY <1>1, StillPromise
  <2>3. CASE UNCHANGED <<joined, listCache, answers>> BY <1>1, <2>3, StillPromise
  <2>4. CASE /\ joined' = joined \cup {CallerOf[c]}
             /\ Forgets(CallerOf[c])
             /\ Answer(c, "true")
    <3>1. Promised!Join(c)
      BY <1>1, <2>1, <2>2, <2>4 DEF Promised!Join, Promised!Gives, Promised!Forgets, Forgets,
         Answer
    <3> QED BY <2>1, <3>1 DEF Promised!Next
  <2>5. Joins(m.id) BY <1>2 DEF JoinReply
  <2> QED BY <2>3, <2>4, <2>5 DEF Joins, Caller
<1>3. CASE ~m.ok
  <2>1. AttemptFails(m.id, "failed") /\ UNCHANGED <<joined, listCache>>
    BY <1>3 DEF JoinReply
  <2> QED BY <1>1, <2>1, FailPromise
<1> QED BY <1>2, <1>3

LEMMA LeavePromise ==
    ASSUME IInv, LeavesOnce, NEW m \in net, LeaveReply(m)
    PROVE  [Promised!Next]_Promised!vars
<1>1. /\ m.id \in LeaveCall /\ m.id \in calls /\ answers[m.id] = <<>>
      /\ CallerOf[m.id] \in accepted
  BY LeaveMessage DEF IInv, LeavesOnce, OfLeave, LeaveReply
<1>2. UNCHANGED <<root, looks, calls>> BY DEF LeaveReply
<1>3. Circulating' = Circulating /\ accepted' = accepted BY <1>2, StillPromise
<1>4. CASE Answer(m.id, "error") /\ UNCHANGED <<joined, listCache>>
  <2>1. Promised!RefuseLeave(m.id)
    BY <1>1, <1>2, <1>3, <1>4 DEF Promised!RefuseLeave, Promised!Gives, Answer
  <2> QED BY <1>1, <2>1 DEF Promised!Next
<1>5. CASE /\ Answer(m.id, "true")
           /\ joined' = joined \ {CallerOf[m.id]} /\ Forgets(CallerOf[m.id])
  <2>1. Promised!Leave(m.id)
    BY <1>1, <1>2, <1>3, <1>5 DEF Promised!Leave, Promised!Gives, Promised!Forgets, Forgets,
       Answer
  <2> QED BY <1>1, <2>1 DEF Promised!Next
<1>6. CASE UNCHANGED <<answers, joined, listCache>> BY <1>2, <1>6, StillPromise
<1> QED BY <1>4, <1>5, <1>6 DEF LeaveReply

\* The watchers, and what becomes of the lists that they get.
LEMMA WatcherPromise ==
    ASSUME IInv, \/ \E p \in Peer : CheckPeerList(p)
                 \/ \E k \in looks : CheckCallback(k)
    PROVE  Promised!Next
<1>1. ASSUME NEW p \in Peer, CheckPeerList(p) PROVE Promised!Next
  <2>1. UNCHANGED MembersSee /\ UNCHANGED <<hosting, cache, dht, gets>>
    BY <1>1 DEF CheckPeerList, MembersSee, root
  <2>2. dht # NoList /\ looks' = looks \cup {[peer |-> p, list |-> dht]}
    BY <1>1 DEF CheckPeerList
  <2>3. \A x : (x \in Circulating)' => x \in Circulating BY <2>1, <2>2, CirculatingOf
  <2> QED BY <2>1, <2>3, DropStep
<1>2. ASSUME NEW k \in looks, CheckCallback(k) PROVE Promised!Next
  <2>1. /\ UNCHANGED <<hosting, cache, dht, gets>> /\ looks' \subseteq looks
        /\ UNCHANGED <<accepted, joined, calls, answers>>
    BY <1>2 DEF CheckCallback, root
  <2>2. \A x : (x \in Circulating)' => x \in Circulating BY <2>1, CirculatingOf
  <2>3. k.list \in Circulating BY CirculatingOf
  <2>4. CASE k.peer \in joined
    <3>1. listCache' = [listCache EXCEPT ![k.peer] = k.list] BY <1>2, <2>4 DEF CheckCallback
    <3>2. Circulating' \in SUBSET Circulating BY <2>2
    <3>3. Promised!Keep(k.peer) BY <2>1, <2>3, <2>4, <3>1, <3>2 DEF Promised!Keep
    <3>4. k.peer \in Peer BY DEF IInv, TypeOK
    <3> QED BY <3>3, <3>4 DEF Promised!Next
  <2>5. CASE k.peer \notin joined
    <3>1. UNCHANGED MembersSee BY <1>2, <2>1, <2>5 DEF CheckCallback, MembersSee
    <3> QED BY <2>2, <3>1, DropStep
  <2> QED BY <2>4, <2>5
<1> QED BY <1>1, <1>2

LEMMA InitPromise == Init => Promised!Init
<1> SUFFICES ASSUME Init PROVE Promised!Init OBVIOUS
<1>1. \A l : l \notin Circulating BY CirculatingOf DEF Init
<1> QED BY <1>1 DEF Init, Promised!Init, Call

LEMMA NextPromise == IInv /\ LeavesOnce /\ CallsMade /\ [Next]_vars => [Promised!Next]_Promised!vars
<1> SUFFICES ASSUME IInv, LeavesOnce, CallsMade, [Next]_vars
             PROVE  [Promised!Next]_Promised!vars OBVIOUS
<1>1. TypeOK BY DEF IInv
<1>2. ASSUME NEW a \in DOMAIN attempts, LookupFails(a) \/ TimerFires(a)
      PROVE  [Promised!Next]_Promised!vars
  <2>1. /\ \E ph : AttemptFails(a, ph)
        /\ UNCHANGED <<root, looks, joined, listCache, calls>>
    BY <1>2 DEF LookupFails, TimerFires, watching
  <2> QED BY <1>1, <2>1, FailPromise
<1>3. ASSUME NEW a \in DOMAIN attempts, LookupThrows(a) \/ LookupSends(a)
      PROVE  UNCHANGED Promised!vars
  BY <1>3, StillPromise DEF LookupThrows, LookupSends, watching
<1>4. ASSUME NEW m \in net, Lose(m) PROVE UNCHANGED Promised!vars
  BY <1>4, StillPromise DEF Lose, peers, watching
<1>5. UNCHANGED vars => UNCHANGED Promised!vars
  BY StillPromise DEF vars, root, watching
<1>6. \/ CreateNetwork \/ CreateFails \/ AddNetwork \/ RefreshNetworkInfo \/ RootStops
      \/ \E g \in gets : ServeGet(g) \/ GetCallback(g)
      => Promised!Next
  BY RootPromise, GetPromise
<1>7. ASSUME NEW c, \/ c \in JoinCall /\ JoinNetwork(c)
                    \/ c \in LeaveCall /\ LeaveNetwork(c)
      PROVE  Promised!Next
  BY <1>7, AskPromise
<1>8. \A m \in net : HandleJoin(m) \/ HandleLeave(m) \/ JoinReply(m) \/ LeaveReply(m)
                     => [Promised!Next]_Promised!vars
  <2>1. ASSUME NEW m \in net, HandleJoin(m) PROVE [Promised!Next]_Promised!vars
    BY <2>1, JoinHandled
  <2>2. ASSUME NEW m \in net, HandleLeave(m) PROVE Promised!Next
    BY <2>2, LeaveHandled
  <2>3. ASSUME NEW m \in net, JoinReply(m) PROVE [Promised!Next]_Promised!vars
    BY <1>1, <2>3, JoinPromise
  <2>4. ASSUME NEW m \in net, LeaveReply(m) PROVE [Promised!Next]_Promised!vars
    BY <1>1, <2>4, LeavePromise
  <2> QED BY <2>1, <2>2, <2>3, <2>4
<1>9. (\E p \in Peer : CheckPeerList(p)) \/ (\E k \in looks : CheckCallback(k)) => Promised!Next
  BY WatcherPromise
<1> QED BY <1>2, <1>3, <1>4, <1>5, <1>6, <1>7, <1>8, <1>9 DEF Next

\* Peers is a membership: whatever is lost, late or overlaps, lists grow only out
\* of lists by accepted peers, members are accepted and keep lists in circulation,
\* and a leave has one answer.
THEOREM PeersIsMembership == Spec => MembershipKept
<1> DEFINE FInv == Pending /\ CallsMade /\ AllCounted
<1>1. Init => FInv /\ LeavesOnce
  <2>1. Init => LeavesOnce BY DEF Init, LeavesOnce, Call
  <2> QED BY <2>1, CountedInit
<1>2. IInv /\ FInv /\ [Next]_vars => FInv' BY CountedNext DEF IInv
<1>3. IInv /\ LeavesOnce /\ [Next]_vars => LeavesOnce' BY LeavesNext
<1>4. IInv /\ FInv /\ LeavesOnce /\ [Next]_vars => [Promised!Next]_Promised!vars
  BY NextPromise
<1>5. Init => Promised!Init BY InitPromise
<1> QED BY <1>1, <1>2, <1>3, <1>4, <1>5, Invariant, PTL DEF Spec, MembershipKept, Promised!Spec

============================================================================
