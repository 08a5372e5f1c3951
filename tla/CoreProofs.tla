---------------------------- MODULE CoreProofs ----------------------------
(***************************************************************************)
(* Theorems about Core, for every set of connections, names, events, and   *)
(* every number of requests: its type invariant, that live bindings stay   *)
(* reachable from their events, and that it implements Broker.             *)
(***************************************************************************)
EXTENDS Core, TLAPS, SequenceTheorems

(***************************************************************************)
(* Facts about the tables.                                                 *)
(***************************************************************************)

\* Writing a response appends one answer to one request, or changes nothing.
LEMMA ReplyType ==
    ASSUME TypeOK, NEW s, NEW r, NEW a \in Answer, Reply(s, r, a)
    PROVE  answers' \in [Client -> [ReqId -> Seq(Answer)]]
<1>1. CASE s \in open /\ r \in ReqId
  <2>1. s \in Client /\ answers[s][r] \in Seq(Answer) BY <1>1 DEF TypeOK
  <2>2. Append(answers[s][r], a) \in Seq(Answer) BY <2>1, AppendProperties
  <2> QED BY <1>1, <2>1, <2>2 DEF TypeOK, Reply
<1>2. CASE ~(s \in open /\ r \in ReqId)
  BY <1>2 DEF TypeOK, Reply
<1> QED BY <1>1, <1>2

\* A row is an empty slot or a binding.
LEMMA RowType ==
    ASSUME TypeOK, NEW e \in Event, NEW k \in DOMAIN registeredEvents[e]
    PROVE  Row(e, k) \in Binding \cup {NoEvent}
<1>1. registeredEvents[e] \in Seq(DOMAIN eventIdToEvent) BY DEF TypeOK
<1>2. registeredEvents[e][k] \in DOMAIN eventIdToEvent BY <1>1, ElementOfSeq
<1>3. eventIdToEvent \in Seq(Binding \cup {NoEvent}) BY DEF TypeOK
<1> QED BY <1>2, <1>3, ElementOfSeq DEF Row

\* The row of a walked listener is a binding whose module is registered.
LEMMA WalkedRow ==
    ASSUME TypeOK, NEW e \in Event, NEW k \in Walked(e)
    PROVE  /\ k \in DOMAIN registeredEvents[e]
           /\ Row(e, k) \in Binding
           /\ Registered(Row(e, k).module)
<1>1. k \in DOMAIN registeredEvents[e] BY DEF Walked
<1>2. k \in 1..k BY <1>1 DEF TypeOK
<1>3. ~Broken(e, k) BY <1>2 DEF Walked
<1> QED BY <1>1, <1>3, RowType DEF Broken

\* Firing extends pendingRequests by one entry per id bound to the event and
\* puts in the inboxes only ids of the new entries.
LEMMA FireType ==
    ASSUME TypeOK, NEW s \in Socket, NEW r \in ReqId \cup {CoreMade}, NEW e \in Event,
           Fire(s, r, e)
    PROVE  /\ pendingRequests' \in Seq(Handler \cup {NoHandler})
           /\ Len(pendingRequests') = Len(pendingRequests) + Len(registeredEvents[e])
           /\ inbox' \in [Client -> SUBSET DOMAIN pendingRequests']
           /\ unsolicited' \subseteq Client
<1> DEFINE calls == ProxyCalls(s, FireId(r), e)
           n == Len(registeredEvents[e])
<1>1. registeredEvents[e] \in Seq(DOMAIN eventIdToEvent) BY DEF TypeOK
<1>2. n \in Nat /\ DOMAIN registeredEvents[e] = 1..n BY <1>1, LenProperties
<1>3. \A k \in 1..n : calls[k] \in Handler \cup {NoHandler}
  <2>1. SUFFICES ASSUME NEW k \in Proxied(e)
                 PROVE  calls[k] \in Handler
    BY <1>2 DEF ProxyCalls
  <2>2. k \in Walked(e) BY DEF Proxied
  <2>3. Row(e, k) \in Binding /\ k \in DOMAIN registeredEvents[e] BY <2>2, WalkedRow
  <2> QED BY <2>3 DEF ProxyCalls, Handler, Binding, FireId
<1>4. DOMAIN calls = 1..n BY <1>2 DEF ProxyCalls
<1>5. calls = [k \in 1..n |-> calls[k]] BY <1>2 DEF ProxyCalls
<1>6. calls \in Seq(Handler \cup {NoHandler})
  <2>1. calls \in [1..n -> Handler \cup {NoHandler}] BY <1>3, <1>5
  <2> QED BY <2>1, <1>2
<1>7. Len(calls) = n BY <1>4, <1>6, <1>2, LenProperties
<1>8. pendingRequests \in Seq(Handler \cup {NoHandler}) BY DEF TypeOK
<1>9. pendingRequests' = pendingRequests \o calls BY DEF Fire
<1>10. /\ pendingRequests' \in Seq(Handler \cup {NoHandler})
       /\ Len(pendingRequests') = Len(pendingRequests) + n
  <2> HIDE DEF calls, n
  <2>1. /\ pendingRequests \o calls \in Seq(Handler \cup {NoHandler})
        /\ Len(pendingRequests \o calls) = Len(pendingRequests) + Len(calls)
    BY <1>6, <1>8, ConcatProperties
  <2> QED BY <2>1, <1>7, <1>9
<1>11. DOMAIN pendingRequests' = 1..(Len(pendingRequests) + n) BY <1>10, LenProperties
<1>12. DOMAIN pendingRequests = 1..Len(pendingRequests) /\ Len(pendingRequests) \in Nat
  BY <1>8, LenProperties
<1>13. Proxied(e) \subseteq 1..n BY <1>2 DEF Proxied, Walked
<1>14. \A k \in 1..n : Len(pendingRequests) + k \in DOMAIN pendingRequests'
  BY <1>2, <1>11, <1>12
<1>15. inbox \in [Client -> SUBSET DOMAIN pendingRequests'] BY <1>11, <1>12, <1>2 DEF TypeOK
<1>16. inbox' \in [Client -> SUBSET DOMAIN pendingRequests']
  BY <1>13, <1>14, <1>15 DEF Fire
<1>17. unsolicited' \subseteq Client BY DEF Fire, TypeOK
<1> QED BY <1>10, <1>16, <1>17


\* A sequence over a set is a sequence over any larger one.
LEMMA SeqSubset ==
    ASSUME NEW S, NEW T, S \subseteq T, NEW q \in Seq(S)
    PROVE  q \in Seq(T)
<1>1. Len(q) \in Nat /\ q \in [1..Len(q) -> S] BY LenProperties
<1>2. q \in [1..Len(q) -> T] BY <1>1
<1> QED BY <1>1, <1>2

\* One element makes a sequence.
LEMMA OneSeq == ASSUME NEW S, NEW x \in S PROVE <<x>> \in Seq(S)
OBVIOUS

\* Taking a request leaves the set of requests made well-typed.
LEMMA AskType ==
    ASSUME TypeOK, NEW c \in Client, NEW r \in ReqId, Ask(c, r)
    PROVE  asked' \in [Client -> SUBSET ReqId]
BY DEF TypeOK, Ask

\* Binding fills one slot with the binding and lists it under its event.
LEMMA BindTables ==
    ASSUME TypeOK, NEW b \in Binding, NEW i \in 1..Len(eventIdToEvent)+1, PutEvent(i, b)
    PROVE  /\ eventIdToEvent' \in Seq(Binding \cup {NoEvent})
           /\ DOMAIN eventIdToEvent' = DOMAIN eventIdToEvent \cup {i}
           /\ eventIdToEvent'[i] = b
           /\ \A j \in DOMAIN eventIdToEvent : j # i => eventIdToEvent'[j] = eventIdToEvent[j]
<1>1. eventIdToEvent \in Seq(Binding \cup {NoEvent}) BY DEF TypeOK
<1>2. Len(eventIdToEvent) \in Nat /\ DOMAIN eventIdToEvent = 1..Len(eventIdToEvent)
  BY <1>1, LenProperties
<1>3. CASE i > Len(eventIdToEvent)
  <2>1. i = Len(eventIdToEvent) + 1 BY <1>2, <1>3
  <2>2. eventIdToEvent' = Append(eventIdToEvent, b) BY <1>3 DEF PutEvent
  <2>3. eventIdToEvent' \in Seq(Binding \cup {NoEvent}) BY <1>1, <2>2, AppendProperties
  <2>4. Len(eventIdToEvent') = i BY <1>1, <2>1, <2>2, AppendProperties
  <2>5. DOMAIN eventIdToEvent' = 1..i BY <2>3, <2>4, LenProperties
  <2> QED BY <1>1, <1>2, <2>1, <2>2, <2>3, <2>5, AppendProperties
<1>4. CASE ~(i > Len(eventIdToEvent))
  <2>1. i \in 1..Len(eventIdToEvent) BY <1>2, <1>4
  <2>2. eventIdToEvent' = [eventIdToEvent EXCEPT ![i] = b] BY <1>4 DEF PutEvent
  <2> QED BY <1>1, <1>2, <2>1, <2>2, ExceptSeq
<1> QED BY <1>3, <1>4

\* Unbinding empties a slot and leaves the others, and the length, alone.
LEMMA UnbindTable ==
    ASSUME TypeOK, NEW i,
           eventIdToEvent' = [j \in DOMAIN eventIdToEvent |->
                                IF j = i THEN NoEvent ELSE eventIdToEvent[j]]
    PROVE  /\ eventIdToEvent' \in Seq(Binding \cup {NoEvent})
           /\ DOMAIN eventIdToEvent' = DOMAIN eventIdToEvent
<1>1. eventIdToEvent \in Seq(Binding \cup {NoEvent}) BY DEF TypeOK
<1>2. /\ Len(eventIdToEvent) \in Nat
      /\ DOMAIN eventIdToEvent = 1..Len(eventIdToEvent)
      /\ eventIdToEvent \in [1..Len(eventIdToEvent) -> Binding \cup {NoEvent}]
  BY <1>1, LenProperties
<1>3. eventIdToEvent' \in [1..Len(eventIdToEvent) -> Binding \cup {NoEvent}] BY <1>2
<1> QED BY <1>2, <1>3

\* Finishing a request leaves the length of pendingRequests alone.
LEMMA FinishTable ==
    ASSUME TypeOK, NEW id,
           pendingRequests' = [k \in DOMAIN pendingRequests |->
                                 IF k = id THEN NoHandler ELSE pendingRequests[k]]
    PROVE  /\ pendingRequests' \in Seq(Handler \cup {NoHandler})
           /\ DOMAIN pendingRequests' = DOMAIN pendingRequests
<1>1. pendingRequests \in Seq(Handler \cup {NoHandler}) BY DEF TypeOK
<1>2. /\ Len(pendingRequests) \in Nat
      /\ DOMAIN pendingRequests = 1..Len(pendingRequests)
      /\ pendingRequests \in [1..Len(pendingRequests) -> Handler \cup {NoHandler}]
  BY <1>1, LenProperties
<1>3. pendingRequests' \in [1..Len(pendingRequests) -> Handler \cup {NoHandler}] BY <1>2
<1> QED BY <1>2, <1>3

\* Forwarding a call adds one entry, its id in the inbox of one connection.
LEMMA ForwardTables ==
    ASSUME TypeOK, NEW c \in Client, NEW r \in ReqId, NEW n \in Name, NEW m \in Method,
           CallRpc(c, r, n, m)
    PROVE  /\ pendingRequests' \in Seq(Handler \cup {NoHandler})
           /\ DOMAIN pendingRequests' = 1..Len(pendingRequests)+1
           /\ DOMAIN pendingRequests = 1..Len(pendingRequests) /\ Len(pendingRequests) \in Nat
           /\ \A k \in DOMAIN pendingRequests : pendingRequests'[k] = pendingRequests[k]
           /\ pendingRequests'[Len(pendingRequests)+1] =
                [socket |-> c, requestId |-> r, module |-> n, method |-> m]
           /\ inbox' \in [Client -> SUBSET DOMAIN pendingRequests']
<1> DEFINE h == [socket |-> c, requestId |-> r, module |-> n, method |-> m]
<1>1. h \in Handler \cup {NoHandler} BY DEF Handler, Socket
<1>2. pendingRequests \in Seq(Handler \cup {NoHandler}) BY DEF TypeOK
<1>3. pendingRequests' = Append(pendingRequests, h) BY DEF CallRpc
<1> HIDE DEF h
<1>4. /\ pendingRequests' \in Seq(Handler \cup {NoHandler})
      /\ Len(pendingRequests') = Len(pendingRequests) + 1
      /\ \A k \in 1..Len(pendingRequests) : pendingRequests'[k] = pendingRequests[k]
      /\ pendingRequests'[Len(pendingRequests)+1] = h
  BY <1>1, <1>2, <1>3, AppendProperties
<1>5. DOMAIN pendingRequests = 1..Len(pendingRequests) /\ Len(pendingRequests) \in Nat
  BY <1>2, LenProperties
<1>6. DOMAIN pendingRequests' = 1..Len(pendingRequests)+1 BY <1>4, LenProperties
<1>7. inbox' \in [Client -> SUBSET DOMAIN pendingRequests']
  BY <1>5, <1>6 DEF CallRpc, TypeOK
<1> QED BY <1>4, <1>5, <1>6, <1>7 DEF h

(***************************************************************************)
(* Type correctness.                                                       *)
(***************************************************************************)

LEMMA InitType == Init => TypeOK
<1> SUFFICES ASSUME Init PROVE TypeOK OBVIOUS
<1> USE CoreAssumption DEF Init
<1>1. registeredModules \in [DOMAIN registeredModules -> Module]
  BY DEF Module, Socket
<1>2. DOMAIN registeredModules \subseteq Name OBVIOUS
<1>3. eventIdToEvent \in Seq(Binding \cup {NoEvent})
  <2>1. BootBindings \in [1..Len(BootBindings) -> Binding] /\ Len(BootBindings) \in Nat
    BY LenProperties
  <2>2. BootBindings \in [1..Len(BootBindings) -> Binding \cup {NoEvent}] BY <2>1
  <2>3. BootBindings \in Seq(Binding \cup {NoEvent}) BY <2>1, <2>2
  <2> QED BY <2>3
<1>4. registeredEvents \in [Event -> Seq(DOMAIN eventIdToEvent)]
  <2>1. SUFFICES ASSUME NEW e \in Event
                 PROVE  registeredEvents[e] \in Seq(DOMAIN eventIdToEvent)
    OBVIOUS
  <2>2. CASE BootIds(e) = {}
    <3>1. registeredEvents[e] = <<>> BY <2>2
    <3> QED BY <3>1, EmptySeq
  <2>3. CASE BootIds(e) # {}
    <3> DEFINE i == CHOOSE i \in BootIds(e) : TRUE
    <3>1. i \in DOMAIN eventIdToEvent BY <2>3 DEF BootIds
    <3>2. registeredEvents[e] = <<i>> BY <2>3
    <3> HIDE DEF i, Init
    <3>3. <<i>> \in Seq(DOMAIN eventIdToEvent) BY <3>1, OneSeq
    <3> QED BY <3>2, <3>3
  <2> QED BY <2>2, <2>3
<1>5. pendingRequests \in Seq(Handler \cup {NoHandler}) OBVIOUS
<1>6. inbox \in [Client -> SUBSET DOMAIN pendingRequests] OBVIOUS
<1>7. answers \in [Client -> [ReqId -> Seq(Answer)]] OBVIOUS
<1> QED BY <1>1, <1>2, <1>3, <1>4, <1>5, <1>6, <1>7 DEF TypeOK

LEMMA NextType == TypeOK /\ [Next]_vars => TypeOK'
<1> SUFFICES ASSUME TypeOK, [Next]_vars PROVE TypeOK' OBVIOUS
<1>1. ASSUME NEW c \in Client, NEW r \in ReqId, Reject(c, r) PROVE TypeOK'
  BY <1>1, AskType, ReplyType DEF Reject, TypeOK, tables, Answer
<1>2. ASSUME NEW c \in Client, NEW r \in ReqId, NEW n \in Name, NEW ms \in SUBSET Method,
             NEW t \in Token, RegisterModule(c, r, n, ms, t)
      PROVE  TypeOK'
  <2>1. answers' \in [Client -> [ReqId -> Seq(Answer)]]
    BY <1>2, ReplyType DEF RegisterModule, Answer
  <2>2. asked' \in [Client -> SUBSET ReqId] BY <1>2, AskType DEF RegisterModule, Operation
  <2>3. /\ DOMAIN registeredModules' \subseteq Name
        /\ registeredModules' \in [DOMAIN registeredModules' -> Module]
    <3>1. CASE Registered(n) BY <1>2, <3>1 DEF RegisterModule, TypeOK
    <3>2. CASE ~Registered(n)
      <4>1. [methods |-> ms, socket |-> c, token |-> t] \in Module BY DEF Module, Socket
      <4> QED BY <1>2, <3>2, <4>1 DEF RegisterModule, AddModule, TypeOK
    <3> QED BY <3>1, <3>2
  <2> QED BY <1>2, <2>1, <2>2, <2>3 DEF RegisterModule, TypeOK
<1>3. ASSUME NEW c \in Client, NEW r \in ReqId, NEW n \in Name,
             NEW t \in Token \cup {NoToken}, UnregisterModule(c, r, n, t)
      PROVE  TypeOK'
  <2>1. answers' \in [Client -> [ReqId -> Seq(Answer)]]
    BY <1>3, ReplyType DEF UnregisterModule, Answer
  <2>2. asked' \in [Client -> SUBSET ReqId] BY <1>3, AskType DEF UnregisterModule, Operation
  <2>3. /\ DOMAIN registeredModules' \subseteq Name
        /\ registeredModules' \in [DOMAIN registeredModules' -> Module]
    BY <1>3 DEF UnregisterModule, TypeOK
  <2> QED BY <1>3, <2>1, <2>2, <2>3 DEF UnregisterModule, TypeOK
<1>4. ASSUME NEW c \in Client, NEW r \in ReqId, NEW b \in Binding, BindToEvent(c, r, b)
      PROVE  TypeOK'
  <2>1. answers' \in [Client -> [ReqId -> Seq(Answer)]]
    BY <1>4, ReplyType DEF BindToEvent, Answer
  <2>2. asked' \in [Client -> SUBSET ReqId] BY <1>4, AskType DEF BindToEvent, Operation
  <2>3. /\ eventIdToEvent' \in Seq(Binding \cup {NoEvent})
        /\ registeredEvents' \in [Event -> Seq(DOMAIN eventIdToEvent')]
    <3>1. PICK i \in 1..Len(eventIdToEvent)+1 :
            /\ PutEvent(i, b)
            /\ registeredEvents' = [registeredEvents EXCEPT ![b.event] = Append(@, i)]
      BY <1>4 DEF BindToEvent, AddBinding
    <3>2. /\ eventIdToEvent' \in Seq(Binding \cup {NoEvent})
          /\ DOMAIN eventIdToEvent' = DOMAIN eventIdToEvent \cup {i}
      BY <3>1, BindTables
    <3>3. \A e \in Event : registeredEvents[e] \in Seq(DOMAIN eventIdToEvent')
      <4>1. \A e \in Event : registeredEvents[e] \in Seq(DOMAIN eventIdToEvent) BY DEF TypeOK
      <4>2. DOMAIN eventIdToEvent \subseteq DOMAIN eventIdToEvent' BY <3>2
      <4> QED BY <4>1, <4>2, SeqSubset
    <3>4. b.event \in Event BY DEF Binding
    <3>5. Append(registeredEvents[b.event], i) \in Seq(DOMAIN eventIdToEvent')
      BY <3>2, <3>3, <3>4, AppendProperties
    <3>6. registeredEvents \in [Event -> Seq(DOMAIN eventIdToEvent')] BY <3>3 DEF TypeOK
    <3> QED BY <3>1, <3>2, <3>4, <3>5, <3>6
  <2> QED BY <1>4, <2>1, <2>2, <2>3 DEF BindToEvent, TypeOK
<1>5. ASSUME NEW c \in Client, NEW r \in ReqId, NEW i \in 1..Len(eventIdToEvent)+1,
             UnbindFromEvent(c, r, i)
      PROVE  TypeOK'
  <2>1. answers' \in [Client -> [ReqId -> Seq(Answer)]]
    BY <1>5, ReplyType DEF UnbindFromEvent, Answer
  <2>2. asked' \in [Client -> SUBSET ReqId] BY <1>5, AskType DEF UnbindFromEvent, Operation
  <2>3. /\ eventIdToEvent' \in Seq(Binding \cup {NoEvent})
        /\ DOMAIN eventIdToEvent' = DOMAIN eventIdToEvent
    BY <1>5, UnbindTable DEF UnbindFromEvent
  <2> QED BY <1>5, <2>1, <2>2, <2>3 DEF UnbindFromEvent, TypeOK
<1>6. ASSUME NEW c \in Client, NEW r \in ReqId, NEW e \in Event, FireEvent(c, r, e)
      PROVE  TypeOK'
  <2>1. answers' \in [Client -> [ReqId -> Seq(Answer)]]
    <3>1. CASE Throws(e) BY <1>6, <3>1 DEF FireEvent, TypeOK
    <3>2. CASE ~Throws(e)
      <4> DEFINE a == IF registeredEvents[e] = <<>> THEN "false" ELSE "true"
      <4>1. a \in Answer BY DEF Answer
      <4>2. Reply(c, r, a) BY <1>6, <3>2 DEF FireEvent
      <4> HIDE DEF a
      <4> QED BY <4>1, <4>2, ReplyType
    <3> QED BY <3>1, <3>2
  <2>2. asked' \in [Client -> SUBSET ReqId] BY <1>6, AskType DEF FireEvent, Operation
  <2>3. /\ pendingRequests' \in Seq(Handler \cup {NoHandler})
        /\ inbox' \in [Client -> SUBSET DOMAIN pendingRequests']
        /\ unsolicited' \subseteq Client
    BY <1>6, FireType DEF FireEvent, Socket
  <2> QED BY <1>6, <2>1, <2>2, <2>3 DEF FireEvent, TypeOK, tables
<1>7. ASSUME NEW c \in Client, NEW r \in ReqId, NEW id \in 1..MaxPending,
             FinishRequest(c, r, id)
      PROVE  TypeOK'
  <2>1. asked' \in [Client -> SUBSET ReqId] BY <1>7, AskType DEF FinishRequest, Operation
  <2>2. /\ pendingRequests' \in Seq(Handler \cup {NoHandler})
        /\ DOMAIN pendingRequests' = DOMAIN pendingRequests
    BY <1>7, FinishTable DEF FinishRequest
  <2> QED BY <1>7, <2>1, <2>2 DEF FinishRequest, TypeOK, tables
<1>8. ASSUME NEW c \in Client, NEW r \in ReqId, Echo(c, r) PROVE TypeOK'
  BY <1>8, AskType, ReplyType DEF Echo, Operation, TypeOK, tables, Answer
<1>9. ASSUME NEW c \in Client, NEW r \in ReqId, EchoDelay(c, r) PROVE TypeOK'
  BY <1>9, AskType DEF EchoDelay, Operation, TypeOK, tables
<1>10. ASSUME NEW c \in Client, NEW r \in ReqId, NEW n \in Name, NEW m \in Method,
              CallLocal(c, r, n, m)
       PROVE  TypeOK'
  BY <1>10, AskType DEF CallLocal, TypeOK, tables
<1>11. ASSUME NEW c \in Client, NEW r \in ReqId, NEW n \in Name, NEW m \in Method,
              CallRpc(c, r, n, m)
       PROVE  TypeOK'
  <2>1. asked' \in [Client -> SUBSET ReqId] BY <1>11, AskType DEF CallRpc
  <2>2. /\ pendingRequests' \in Seq(Handler \cup {NoHandler})
        /\ inbox' \in [Client -> SUBSET DOMAIN pendingRequests']
    BY <1>11, ForwardTables DEF CallRpc
  <2> QED BY <1>11, <2>1, <2>2 DEF CallRpc, TypeOK, tables
<1>12. ASSUME NEW c \in Client, NEW r \in ReqId, DeferredAnswer(c, r) PROVE TypeOK'
  BY <1>12, ReplyType DEF DeferredAnswer, TypeOK, tables, Answer
<1>13. ASSUME NEW c \in Client, NEW id \in DOMAIN pendingRequests, NEW err \in ErrorField,
              RouteResponse(c, id, err)
       PROVE  TypeOK'
  <2>1. /\ answers' \in [Client -> [ReqId -> Seq(Answer)]]
        /\ unsolicited' \subseteq Client
    <3>1. CASE pendingRequests[id] = NoHandler BY <1>13, <3>1 DEF RouteResponse, TypeOK
    <3>2. CASE pendingRequests[id] # NoHandler
      <4>1. Passed(err) \in Answer BY DEF Passed, Answer
      <4>2. Reply(pendingRequests[id].socket, pendingRequests[id].requestId, Passed(err))
        BY <1>13, <3>2 DEF RouteResponse
      <4>3. unsolicited' \subseteq Client BY <1>13, <3>2 DEF RouteResponse, TypeOK
      <4> QED BY <4>1, <4>2, <4>3, ReplyType
    <3> QED BY <3>1, <3>2
  <2> QED BY <1>13, <2>1 DEF RouteResponse, TypeOK, tables
<1>14. ASSUME NEW e \in Event, FireEventLocal(e) PROVE TypeOK'
  <2>1. /\ pendingRequests' \in Seq(Handler \cup {NoHandler})
        /\ inbox' \in [Client -> SUBSET DOMAIN pendingRequests']
        /\ unsolicited' \subseteq Client
    BY <1>14, FireType DEF FireEventLocal, Socket
  <2> QED BY <1>14, <2>1 DEF FireEventLocal, TypeOK, tables
<1>15. ASSUME NEW c \in Client, Disconnect(c) PROVE TypeOK'
  BY <1>15 DEF Disconnect, TypeOK, tables
<1>16. CASE UNCHANGED vars BY <1>16 DEF vars, TypeOK
<1> QED BY <1>1, <1>2, <1>3, <1>4, <1>5, <1>6, <1>7, <1>8, <1>9, <1>10, <1>11, <1>12,
           <1>13, <1>14, <1>15, <1>16 DEF Next, Request

\* Every table keeps its shape in every behaviour: the event ids listed under
\* an event are slots of eventIdToEvent, the ids in an inbox are entries of
\* pendingRequests.
THEOREM TypeCorrect == Spec => []TypeOK
BY InitType, NextType, PTL DEF Spec

(***************************************************************************)
(* Live bindings are listed under their events.                            *)
(***************************************************************************)

LEMMA InitIndexed == Init => LiveBindingsIndexed
<1> SUFFICES ASSUME Init, NEW i \in Live
             PROVE  \E k \in DOMAIN registeredEvents[eventIdToEvent[i].event] :
                       registeredEvents[eventIdToEvent[i].event][k] = i
  BY DEF LiveBindingsIndexed
<1> DEFINE e == BootBindings[i].event
<1>1. eventIdToEvent = BootBindings /\ i \in DOMAIN BootBindings BY DEF Init, Live
<1>2. BootBindings[i] \in Binding BY <1>1, CoreAssumption, ElementOfSeq, LenProperties
<1>3. e \in Event BY <1>2 DEF Binding
<1>4. BootIds(e) = {i} BY <1>1, CoreAssumption DEF BootIds
<1>5. registeredEvents[e] = <<i>> BY <1>3, <1>4 DEF Init
<1> HIDE DEF e
<1>6. 1 \in DOMAIN registeredEvents[e] /\ registeredEvents[e][1] = i BY <1>5
<1> QED BY <1>1, <1>6 DEF e

LEMMA NextIndexed == TypeOK /\ LiveBindingsIndexed /\ [Next]_vars => LiveBindingsIndexed'
<1> SUFFICES ASSUME TypeOK, LiveBindingsIndexed, [Next]_vars
             PROVE  LiveBindingsIndexed'
  OBVIOUS
<1>1. CASE UNCHANGED <<registeredEvents, eventIdToEvent>>
  BY <1>1 DEF LiveBindingsIndexed, Live
<1>2. ASSUME NEW c \in Client, NEW r \in ReqId, NEW b \in Binding, BindToEvent(c, r, b)
      PROVE  LiveBindingsIndexed'
  <2>1. PICK i \in 1..Len(eventIdToEvent)+1 :
           /\ PutEvent(i, b)
           /\ registeredEvents' = [registeredEvents EXCEPT ![b.event] = Append(@, i)]
    BY <1>2 DEF BindToEvent, AddBinding
  <2>2. /\ DOMAIN eventIdToEvent' = DOMAIN eventIdToEvent \cup {i}
        /\ eventIdToEvent'[i] = b
        /\ \A j \in DOMAIN eventIdToEvent : j # i => eventIdToEvent'[j] = eventIdToEvent[j]
    BY <2>1, BindTables
  <2>3. b.event \in Event BY DEF Binding
  <2> DEFINE ids == registeredEvents[b.event]
             new == Append(ids, i)
  <2>4. ids \in Seq(Nat)
    <3>1. DOMAIN eventIdToEvent \subseteq Nat BY LenProperties DEF TypeOK
    <3> QED BY <2>3, <3>1, SeqSubset DEF TypeOK
  <2>5. /\ DOMAIN new = 1..Len(ids)+1
        /\ Len(ids) \in Nat /\ DOMAIN ids = 1..Len(ids)
        /\ \A k \in DOMAIN ids : new[k] = ids[k]
        /\ new[Len(ids)+1] = i
    <3>1. i \in Nat BY LenProperties DEF TypeOK
    <3> HIDE DEF ids
    <3> QED BY <2>4, <3>1, AppendProperties, LenProperties
  <2>6. registeredEvents'[b.event] = new BY <2>1, <2>3 DEF TypeOK
  <2>7. \A e \in Event : e # b.event => registeredEvents'[e] = registeredEvents[e]
    BY <2>1 DEF TypeOK
  <2> HIDE DEF new, ids
  <2>8. SUFFICES ASSUME NEW j \in Live'
                 PROVE  \E k \in DOMAIN registeredEvents'[eventIdToEvent'[j].event] :
                           registeredEvents'[eventIdToEvent'[j].event][k] = j
    BY DEF LiveBindingsIndexed
  <2>9. CASE j = i
    <3>1. Len(ids)+1 \in DOMAIN new BY <2>5
    <3> QED BY <2>2, <2>5, <2>6, <2>9, <3>1
  <2>10. CASE j # i
    <3>1. j \in Live /\ eventIdToEvent'[j] = eventIdToEvent[j] BY <2>2, <2>10 DEF Live
    <3>2. eventIdToEvent[j] \in Binding BY <3>1, ElementOfSeq, LenProperties DEF Live, TypeOK
    <3>3. eventIdToEvent[j].event \in Event BY <3>2 DEF Binding
    <3>4. PICK k \in DOMAIN registeredEvents[eventIdToEvent[j].event] :
             registeredEvents[eventIdToEvent[j].event][k] = j
      BY <3>1 DEF LiveBindingsIndexed
    <3>5. CASE eventIdToEvent[j].event = b.event
      <4>1. k \in DOMAIN new /\ new[k] = j BY <2>5, <3>4, <3>5 DEF ids
      <4> QED BY <2>6, <3>1, <3>5, <4>1
    <3>6. CASE eventIdToEvent[j].event # b.event
      BY <2>7, <3>1, <3>3, <3>4, <3>6
    <3> QED BY <3>5, <3>6
  <2> QED BY <2>9, <2>10
<1>3. ASSUME NEW c \in Client, NEW r \in ReqId, NEW i \in 1..Len(eventIdToEvent)+1,
             UnbindFromEvent(c, r, i)
      PROVE  LiveBindingsIndexed'
  <2>1. registeredEvents' = registeredEvents BY <1>3 DEF UnbindFromEvent
  <2>2. \A j \in Live' : j \in Live /\ eventIdToEvent'[j] = eventIdToEvent[j]
    BY <1>3 DEF UnbindFromEvent, Live
  <2> QED BY <2>1, <2>2 DEF LiveBindingsIndexed
<1>4. CASE UNCHANGED vars BY <1>1, <1>4 DEF vars
<1>5. ASSUME NEW c \in Client, NEW r \in ReqId, Request(c, r)
      PROVE  LiveBindingsIndexed'
  <2>1. CASE \/ Reject(c, r) \/ Echo(c, r) \/ EchoDelay(c, r)
             \/ \E e \in Event : FireEvent(c, r, e)
             \/ \E id \in 1..MaxPending : FinishRequest(c, r, id)
    BY <1>1, <2>1 DEF Reject, Echo, EchoDelay, FireEvent, FinishRequest, tables
  <2>2. CASE \/ \E n \in Name, ms \in SUBSET Method, t \in Token : RegisterModule(c, r, n, ms, t)
             \/ \E n \in Name, t \in Token \cup {NoToken} : UnregisterModule(c, r, n, t)
    BY <1>1, <2>2 DEF RegisterModule, UnregisterModule
  <2>3. CASE \E n \in Name, m \in Method : CallLocal(c, r, n, m) \/ CallRpc(c, r, n, m)
    BY <1>1, <2>3 DEF CallLocal, CallRpc, tables
  <2> QED BY <1>2, <1>3, <1>5, <2>1, <2>2, <2>3 DEF Request
<1>6. ASSUME NEW c \in Client, NEW r \in ReqId, DeferredAnswer(c, r)
      PROVE  LiveBindingsIndexed'
  BY <1>1, <1>6 DEF DeferredAnswer, tables
<1>7. ASSUME NEW c \in Client, NEW id \in DOMAIN pendingRequests, NEW err \in ErrorField,
             RouteResponse(c, id, err)
      PROVE  LiveBindingsIndexed'
  BY <1>1, <1>7 DEF RouteResponse, tables
<1>8. ASSUME NEW e \in Event, FireEventLocal(e) PROVE LiveBindingsIndexed'
  BY <1>1, <1>8 DEF FireEventLocal, tables
<1>9. ASSUME NEW c \in Client, Disconnect(c) PROVE LiveBindingsIndexed'
  BY <1>1, <1>9 DEF Disconnect, tables
<1> QED BY <1>4, <1>5, <1>6, <1>7, <1>8, <1>9 DEF Next

\* Whatever was bound, unbound and bound again, every live binding is walked
\* when its event is fired: slot reuse never hides one.
THEOREM BindingsIndexed == Spec => []LiveBindingsIndexed
<1>1. Spec => []TypeOK BY TypeCorrect
<1> QED BY <1>1, InitIndexed, NextIndexed, PTL DEF Spec

(***************************************************************************)
(* A request is answered at most once.                                     *)
(***************************************************************************)

\* A response changes the answers of the request it is for, and appends one.
LEMMA ReplyEffect ==
    ASSUME TypeOK, NEW s, NEW r, NEW a \in Answer, Reply(s, r, a),
           NEW d \in Client, NEW x \in ReqId
    PROVE  \/ answers'[d][x] = answers[d][x]
           \/ d = s /\ x = r /\ answers'[d][x] = Append(answers[d][x], a)
BY DEF TypeOK, Reply

\* Nothing more is owed after a step in which inboxes only lose entries and
\* handlers are only forgotten.
LEMMA LessOwed ==
    ASSUME TypeOK, OneReceiver,
           \A d \in Client : inbox'[d] \subseteq inbox[d],
           \A id \in DOMAIN pendingRequests :
              pendingRequests'[id] = pendingRequests[id] \/ pendingRequests'[id] = NoHandler
    PROVE  /\ OneReceiver'
           /\ \A d \in Client, x \in ReqId : Owed(d, x)' \subseteq Owed(d, x)
<1>1. OneReceiver' BY DEF OneReceiver
<1>2. ASSUME NEW d \in Client, NEW x \in ReqId, NEW id \in Owed(d, x)'
      PROVE  id \in Owed(d, x)
  <2>1. PICK f \in Client : id \in inbox'[f] BY <1>2 DEF Owed
  <2>2. id \in inbox[f] /\ id \in DOMAIN pendingRequests BY <2>1 DEF TypeOK
  <2>3. pendingRequests'[id] # NoHandler BY <1>2 DEF Owed
  <2> QED BY <1>2, <2>2, <2>3 DEF Owed
<1> QED BY <1>1, <1>2

\* Firing forwards requests under ids the core made up: no request of a client
\* is owed an answer for it.
LEMMA FireOwed ==
    ASSUME TypeOK, OneReceiver, NEW s \in Socket, NEW r \in ReqId \cup {CoreMade},
           NEW e \in Event, Fire(s, r, e)
    PROVE  /\ OneReceiver'
           /\ \A d \in Client, x \in ReqId : Owed(d, x)' \subseteq Owed(d, x)
<1> DEFINE calls == ProxyCalls(s, FireId(r), e)
           n == Len(registeredEvents[e])
           N == Len(pendingRequests)
<1>1. n \in Nat /\ DOMAIN registeredEvents[e] = 1..n BY LenProperties DEF TypeOK
<1>2. /\ N \in Nat /\ DOMAIN pendingRequests = 1..N
      /\ pendingRequests \in [1..N -> Handler \cup {NoHandler}]
  BY LenProperties DEF TypeOK
<1>3. calls = [k \in 1..n |-> calls[k]] BY <1>1 DEF ProxyCalls
<1>4. \A k \in 1..n : calls[k] = NoHandler \/ calls[k].requestId = CoreMade
  BY <1>1 DEF ProxyCalls, FireId
<1>5. pendingRequests' = pendingRequests \o calls BY DEF Fire
<1>6. Len(pendingRequests') = N + n BY FireType
<1> HIDE DEF calls
<1>7. \A k \in 1..N : pendingRequests'[k] = pendingRequests[k]
  BY <1>1, <1>2, <1>3, <1>5 DEF TypeOK
<1>8. \A k \in 1..n : pendingRequests'[N + k] = calls[k]
  BY <1>1, <1>2, <1>3, <1>5 DEF TypeOK
<1>9. \A d \in Client : \A id \in inbox'[d] :
         \/ id \in inbox[d]
         \/ \E k \in Proxied(e) : /\ id = N + k
                                  /\ registeredModules[Row(e, k).module].socket = d
  BY DEF Fire
<1>10. Proxied(e) \subseteq 1..n BY <1>1 DEF Proxied, Walked
<1>11. \A d \in Client : inbox[d] \subseteq 1..N BY <1>2 DEF TypeOK
<1>12. OneReceiver'
  <2>1. SUFFICES ASSUME NEW c \in Client, NEW d \in Client, c # d,
                        NEW id \in inbox'[c], id \in inbox'[d]
                 PROVE  FALSE
    BY DEF OneReceiver
  <2>2. CASE id \in 1..N
    <3>1. id \in inbox[c] /\ id \in inbox[d] BY <1>1, <1>2, <1>9, <1>10, <2>1, <2>2
    <3> QED BY <2>1, <3>1 DEF OneReceiver
  <2>3. CASE id \notin 1..N
    <3>1. PICK k \in Proxied(e) : id = N + k /\ registeredModules[Row(e, k).module].socket = c
      BY <1>9, <1>11, <2>3
    <3>2. PICK l \in Proxied(e) : id = N + l /\ registeredModules[Row(e, l).module].socket = d
      BY <1>9, <1>11, <2>1, <2>3
    <3>3. k = l BY <1>1, <1>2, <1>10, <3>1, <3>2
    <3> QED BY <2>1, <3>1, <3>2, <3>3
  <2> QED BY <2>2, <2>3
<1>13. ASSUME NEW d \in Client, NEW x \in ReqId, NEW id \in Owed(d, x)'
       PROVE  id \in Owed(d, x)
  <2>1. PICK f \in Client : id \in inbox'[f] BY <1>13 DEF Owed
  <2>2. pendingRequests'[id] # NoHandler /\ pendingRequests'[id].requestId # CoreMade
    BY <1>13, CoreAssumption DEF Owed
  <2>3. ~ \E k \in Proxied(e) : id = N + k BY <1>4, <1>8, <1>10, <2>2
  <2>4. id \in inbox[f] BY <1>9, <2>1, <2>3
  <2>5. pendingRequests'[id] = pendingRequests[id] BY <1>7, <1>11, <2>4
  <2> QED BY <1>13, <2>4, <2>5 DEF Owed
<1> QED BY <1>12, <1>13

\* Forwarding a call makes its receiver owe that one request.
LEMMA ForwardOwed ==
    ASSUME TypeOK, OneReceiver, NEW c \in Client, NEW r \in ReqId, NEW n \in Name,
           NEW m \in Method, CallRpc(c, r, n, m)
    PROVE  /\ OneReceiver'
           /\ \A d \in Client, x \in ReqId : \A id \in Owed(d, x)' :
                 id \in Owed(d, x) \/ (d = c /\ x = r /\ id = Len(pendingRequests) + 1)
<1> DEFINE N == Len(pendingRequests)
<1>1. /\ DOMAIN pendingRequests = 1..N /\ N \in Nat
      /\ \A k \in DOMAIN pendingRequests : pendingRequests'[k] = pendingRequests[k]
      /\ pendingRequests'[N+1] = [socket |-> c, requestId |-> r, module |-> n, method |-> m]
  BY ForwardTables
<1>2. \A d \in Client : \A id \in inbox'[d] :
         id \in inbox[d] \/ (id = N + 1 /\ d = registeredModules[n].socket)
  BY DEF CallRpc
<1>3. \A d \in Client : inbox[d] \subseteq 1..N BY <1>1 DEF TypeOK
<1>4. N + 1 \notin 1..N BY <1>1
<1> HIDE DEF N
<1>5. OneReceiver' BY <1>2, <1>3, <1>4 DEF OneReceiver
<1>6. ASSUME NEW d \in Client, NEW x \in ReqId, NEW id \in Owed(d, x)'
      PROVE  id \in Owed(d, x) \/ (d = c /\ x = r /\ id = N + 1)
  <2>1. PICK f \in Client : id \in inbox'[f] BY <1>6 DEF Owed
  <2>2. CASE id = N + 1 BY <1>1, <1>6, <2>2 DEF Owed
  <2>3. CASE id # N + 1
    <3>1. id \in inbox[f] BY <1>2, <2>1, <2>3
    <3>2. pendingRequests'[id] = pendingRequests[id] BY <1>1, <1>3, <3>1
    <3> QED BY <1>6, <3>1, <3>2 DEF Owed
  <2> QED BY <2>2, <2>3
<1> QED BY <1>5, <1>6 DEF N

\* A request that is taken and answered at once, or dropped, owes nothing.
LEMMA TakenSound ==
    ASSUME TypeOK, OneDebtor, NEW c \in Client, NEW r \in ReqId, Ask(c, r),
           \/ \E a \in Answer : Reply(c, r, a)
           \/ answers' = answers,
           deferred' = deferred,
           OneReceiver',
           \A d \in Client, x \in ReqId : Owed(d, x)' \subseteq Owed(d, x)
    PROVE  OneDebtor'
<1>1. SUFFICES ASSUME NEW d \in Client, NEW x \in ReqId PROVE OneDebtorFor(d, x)'
  BY DEF OneDebtor
<1>2. OneDebtorFor(d, x) BY DEF OneDebtor
<1>3. Owed(d, x)' \subseteq Owed(d, x) OBVIOUS
<1>4. asked[d] \subseteq asked'[d] BY DEF Ask, TypeOK
<1>5. CASE answers'[d][x] = answers[d][x]
  BY <1>2, <1>3, <1>4, <1>5 DEF OneDebtorFor
<1>6. CASE answers'[d][x] # answers[d][x]
  <2>1. PICK a \in Answer : d = c /\ x = r /\ answers'[d][x] = Append(answers[d][x], a)
    BY <1>6, ReplyEffect
  <2>2. x \notin asked[d] /\ x \in asked'[d] BY <2>1 DEF Ask, TypeOK
  <2>3. answers[d][x] = <<>> BY <1>2, <2>2 DEF OneDebtorFor
  <2>4. Len(answers'[d][x]) = 1 BY <2>1, <2>3
  <2> QED BY <1>2, <1>3, <2>2, <2>4 DEF OneDebtorFor
<1> QED BY <1>5, <1>6

\* A request that is put off is owed by the local method alone.
LEMMA DeferredSound ==
    ASSUME TypeOK, OneDebtor, NEW c \in Client, NEW r \in ReqId, Ask(c, r),
           answers' = answers, deferred' = deferred \cup {<<c, r>>},
           inbox' = inbox, pendingRequests' = pendingRequests
    PROVE  OneDebtor'
<1>1. OneReceiver' BY DEF OneDebtor, OneReceiver
<1>2. SUFFICES ASSUME NEW d \in Client, NEW x \in ReqId PROVE OneDebtorFor(d, x)'
  BY <1>1 DEF OneDebtor
<1>3. OneDebtorFor(d, x) /\ OneDebtorFor(c, r) BY DEF OneDebtor
<1>4. Owed(d, x)' = Owed(d, x) BY DEF Owed
<1>5. asked[d] \subseteq asked'[d] BY DEF Ask, TypeOK
<1>6. CASE d = c /\ x = r
  <2>1. x \notin asked[d] /\ x \in asked'[d] BY <1>6 DEF Ask, TypeOK
  <2> QED BY <1>3, <1>4, <2>1 DEF OneDebtorFor
<1>7. CASE ~(d = c /\ x = r)
  <2>1. <<d, x>> \in deferred' => <<d, x>> \in deferred BY <1>7
  <2> QED BY <1>3, <1>4, <1>5, <2>1 DEF OneDebtorFor
<1> QED BY <1>6, <1>7

LEMMA InitOneDebtor == Init => OneDebtor
BY DEF Init, OneDebtor, OneDebtorFor, OneReceiver, Owed

LEMMA NextOneDebtor == TypeOK /\ OneDebtor /\ [Next]_vars => OneDebtor'
<1> SUFFICES ASSUME TypeOK, OneDebtor, [Next]_vars PROVE OneDebtor' OBVIOUS
<1>0. OneReceiver BY DEF OneDebtor
<1>1. ASSUME NEW c \in Client, NEW r \in ReqId, Request(c, r)
      PROVE  OneDebtor'
  <2> DEFINE Quiet == inbox' = inbox /\ pendingRequests' = pendingRequests
  <2>0. Quiet => /\ OneReceiver'
                 /\ \A d \in Client, x \in ReqId : Owed(d, x)' \subseteq Owed(d, x)
    BY <1>0 DEF OneReceiver, Owed
  <2>1. CASE Reject(c, r) \/ Echo(c, r)
    BY <2>0, <2>1, TakenSound DEF Reject, Echo, Operation, Answer
  <2>2. ASSUME NEW n \in Name, NEW ms \in SUBSET Method, NEW t \in Token,
               RegisterModule(c, r, n, ms, t)
        PROVE  OneDebtor'
    BY <2>0, <2>2, TakenSound DEF RegisterModule, Operation, Answer
  <2>3. ASSUME NEW n \in Name, NEW t \in Token \cup {NoToken}, UnregisterModule(c, r, n, t)
        PROVE  OneDebtor'
    BY <2>0, <2>3, TakenSound DEF UnregisterModule, Operation, Answer
  <2>4. ASSUME NEW b \in Binding, BindToEvent(c, r, b) PROVE OneDebtor'
    BY <2>0, <2>4, TakenSound DEF BindToEvent, Operation, Answer
  <2>5. ASSUME NEW i \in 1..Len(eventIdToEvent)+1, UnbindFromEvent(c, r, i) PROVE OneDebtor'
    BY <2>0, <2>5, TakenSound DEF UnbindFromEvent, Operation, Answer
  <2>6. ASSUME NEW e \in Event, FireEvent(c, r, e) PROVE OneDebtor'
    <3>1. Fire(c, r, e) /\ Ask(c, r) /\ deferred' = deferred
      BY <2>6 DEF FireEvent, Operation
    <3>2. (\E a \in Answer : Reply(c, r, a)) \/ answers' = answers
      BY <2>6 DEF FireEvent, Answer
    <3>3. /\ OneReceiver'
          /\ \A d \in Client, x \in ReqId : Owed(d, x)' \subseteq Owed(d, x)
      BY <1>0, <3>1, FireOwed DEF Socket
    <3> QED BY <3>1, <3>2, <3>3, TakenSound
  <2>7. ASSUME NEW id \in 1..MaxPending, FinishRequest(c, r, id) PROVE OneDebtor'
    <3>1. /\ OneReceiver'
          /\ \A d \in Client, x \in ReqId : Owed(d, x)' \subseteq Owed(d, x)
      BY <1>0, <2>7, LessOwed DEF FinishRequest
    <3> QED BY <2>7, <3>1, TakenSound DEF FinishRequest, Operation
  <2>8. CASE EchoDelay(c, r) BY <2>8, DeferredSound DEF EchoDelay, Operation
  <2>9. ASSUME NEW n \in Name, NEW m \in Method, CallLocal(c, r, n, m) PROVE OneDebtor'
    BY <2>9, DeferredSound DEF CallLocal
  <2>10. ASSUME NEW n \in Name, NEW m \in Method, CallRpc(c, r, n, m) PROVE OneDebtor'
    <3>1. Ask(c, r) /\ answers' = answers /\ deferred' = deferred BY <2>10 DEF CallRpc
    <3>2. /\ OneReceiver'
          /\ \A d \in Client, x \in ReqId : \A id \in Owed(d, x)' :
                id \in Owed(d, x) \/ (d = c /\ x = r /\ id = Len(pendingRequests) + 1)
      BY <1>0, <2>10, ForwardOwed
    <3>3. SUFFICES ASSUME NEW d \in Client, NEW x \in ReqId PROVE OneDebtorFor(d, x)'
      BY <3>2 DEF OneDebtor
    <3>4. OneDebtorFor(d, x) BY DEF OneDebtor
    <3>5. asked[d] \subseteq asked'[d] BY <3>1 DEF Ask, TypeOK
    <3>6. CASE d = c /\ x = r
      <4>1. x \notin asked[d] /\ x \in asked'[d] BY <3>1, <3>6 DEF Ask, TypeOK
      <4>2. Owed(d, x) = {} /\ answers[d][x] = <<>> /\ <<d, x>> \notin deferred
        BY <3>4, <4>1 DEF OneDebtorFor
      <4> QED BY <3>1, <3>2, <3>4, <4>1, <4>2 DEF OneDebtorFor
    <3>7. CASE ~(d = c /\ x = r)
      <4>1. Owed(d, x)' \subseteq Owed(d, x) BY <3>2, <3>7
      <4> QED BY <3>1, <3>4, <3>5, <4>1 DEF OneDebtorFor
    <3> QED BY <3>6, <3>7
  <2> QED BY <1>1, <2>1, <2>2, <2>3, <2>4, <2>5, <2>6, <2>7, <2>8, <2>9, <2>10 DEF Request
<1>2. ASSUME NEW c \in Client, NEW r \in ReqId, DeferredAnswer(c, r) PROVE OneDebtor'
  <2>1. /\ <<c, r>> \in deferred /\ deferred' = deferred \ {<<c, r>>}
        /\ Reply(c, r, "value") /\ asked' = asked
        /\ inbox' = inbox /\ pendingRequests' = pendingRequests
    BY <1>2 DEF DeferredAnswer
  <2>2. OneReceiver' BY <1>0, <2>1 DEF OneReceiver
  <2>3. SUFFICES ASSUME NEW d \in Client, NEW x \in ReqId PROVE OneDebtorFor(d, x)'
    BY <2>2 DEF OneDebtor
  <2>4. OneDebtorFor(d, x) BY DEF OneDebtor
  <2>5. Owed(d, x)' = Owed(d, x) BY <2>1 DEF Owed
  <2>6. CASE answers'[d][x] = answers[d][x]
    BY <2>1, <2>4, <2>5, <2>6 DEF OneDebtorFor
  <2>7. CASE answers'[d][x] # answers[d][x]
    <3>1. d = c /\ x = r /\ answers'[d][x] = Append(answers[d][x], "value")
      BY <2>1, <2>7, ReplyEffect DEF Answer
    <3>2. answers[d][x] = <<>> /\ Owed(d, x) = {} /\ x \in asked[d]
      BY <2>1, <2>4, <3>1 DEF OneDebtorFor
    <3>3. Len(answers'[d][x]) = 1 BY <3>1, <3>2
    <3> QED BY <2>1, <2>5, <3>1, <3>2, <3>3 DEF OneDebtorFor
  <2> QED BY <2>6, <2>7
<1>3. ASSUME NEW c \in Client, NEW id \in DOMAIN pendingRequests, NEW err \in ErrorField,
             RouteResponse(c, id, err)
      PROVE  OneDebtor'
  <2> DEFINE h == pendingRequests[id]
  <2>1. /\ id \in inbox[c] /\ inbox' = [inbox EXCEPT ![c] = @ \ {id}]
        /\ asked' = asked /\ deferred' = deferred /\ pendingRequests' = pendingRequests
    BY <1>3 DEF RouteResponse, tables
  <2>2. /\ OneReceiver'
        /\ \A d \in Client, x \in ReqId : Owed(d, x)' \subseteq Owed(d, x)
    BY <1>0, <2>1, LessOwed DEF TypeOK
  <2>3. SUFFICES ASSUME NEW d \in Client, NEW x \in ReqId PROVE OneDebtorFor(d, x)'
    BY <2>2 DEF OneDebtor
  <2>4. OneDebtorFor(d, x) BY DEF OneDebtor
  <2>5. CASE answers'[d][x] = answers[d][x]
    BY <2>1, <2>2, <2>4, <2>5 DEF OneDebtorFor
  <2>6. CASE answers'[d][x] # answers[d][x]
    <3>1. h # NoHandler /\ Reply(h.socket, h.requestId, Passed(err))
      BY <1>3, <2>6 DEF RouteResponse
    <3>2. /\ d = h.socket /\ x = h.requestId
          /\ answers'[d][x] = Append(answers[d][x], Passed(err))
      BY <2>6, <3>1, ReplyEffect DEF Passed, Answer
    <3>3. id \in Owed(d, x) BY <2>1, <3>1, <3>2 DEF Owed
    <3>4. answers[d][x] = <<>> /\ x \in asked[d] /\ <<d, x>> \notin deferred
      BY <2>4, <3>3 DEF OneDebtorFor
    <3>5. Len(answers'[d][x]) = 1 BY <3>2, <3>4
    <3>6. \A f \in Client : id \notin inbox'[f]
      BY <1>0, <2>1 DEF OneReceiver, TypeOK
    <3>7. Owed(d, x)' = {} BY <2>2, <2>4, <3>3, <3>6 DEF OneDebtorFor, Owed
    <3> QED BY <2>1, <3>4, <3>5, <3>7 DEF OneDebtorFor
  <2> QED BY <2>5, <2>6
<1>4. ASSUME asked' = asked, answers' = answers, deferred' = deferred, OneReceiver',
             \A d \in Client, x \in ReqId : Owed(d, x)' \subseteq Owed(d, x)
      PROVE  OneDebtor'
  <2>1. SUFFICES ASSUME NEW d \in Client, NEW x \in ReqId PROVE OneDebtorFor(d, x)'
    BY <1>4 DEF OneDebtor
  <2>2. OneDebtorFor(d, x) BY DEF OneDebtor
  <2> QED BY <1>4, <2>2 DEF OneDebtorFor
<1>5. ASSUME NEW e \in Event, FireEventLocal(e) PROVE OneDebtor'
  <2>1. Fire(Fake, CoreMade, e) /\ UNCHANGED <<asked, answers, deferred>>
    BY <1>5 DEF FireEventLocal
  <2>2. /\ OneReceiver'
        /\ \A d \in Client, x \in ReqId : Owed(d, x)' \subseteq Owed(d, x)
    BY <1>0, <2>1, FireOwed DEF Socket
  <2> QED BY <1>4, <2>1, <2>2
<1>6. ASSUME NEW c \in Client, Disconnect(c) PROVE OneDebtor'
  <2>1. /\ UNCHANGED <<asked, answers, deferred, pendingRequests>>
        /\ inbox' = [inbox EXCEPT ![c] = {}]
    BY <1>6 DEF Disconnect
  <2>2. /\ OneReceiver'
        /\ \A d \in Client, x \in ReqId : Owed(d, x)' \subseteq Owed(d, x)
    BY <1>0, <2>1, LessOwed DEF TypeOK
  <2> QED BY <1>4, <2>1, <2>2
<1>7. CASE UNCHANGED vars
  <2>1. UNCHANGED <<asked, answers, deferred, pendingRequests, inbox>> BY <1>7 DEF vars
  <2>2. /\ OneReceiver'
        /\ \A d \in Client, x \in ReqId : Owed(d, x)' \subseteq Owed(d, x)
    BY <1>0, <2>1 DEF OneReceiver, Owed
  <2> QED BY <1>4, <2>1, <2>2
<1> QED BY <1>1, <1>2, <1>3, <1>5, <1>6, <1>7 DEF Next

\* No request is ever answered twice by the core, nor awaited by two handlers:
\* forwarding, firing, finishing and closing never give a request a second
\* party that could answer it.
THEOREM AnsweredOnce == Spec => []OneDebtor
<1>1. Spec => []TypeOK BY TypeCorrect
<1> QED BY <1>1, InitOneDebtor, NextOneDebtor, PTL DEF Spec

(***************************************************************************)
(* Core implements Broker.                                                 *)
(***************************************************************************)

Owner == [n \in Name |-> IF Registered(n) THEN registeredModules[n].socket ELSE Nobody]

Replies == [c \in Client |-> [r \in ReqId |-> Len(answers[c][r])]]

LEMMA InitPromise == Init => Promise!Init
<1> SUFFICES ASSUME Init PROVE Promise!Init OBVIOUS
<1>1. Owner = [n \in Name |-> IF n \in Local THEN Fake ELSE Nobody]
  BY CoreAssumption DEF Init, Owner, Registered
<1>2. Replies = [c \in Client |-> [r \in ReqId |-> 0]]
  BY DEF Init, Replies
<1> QED BY <1>1, <1>2 DEF Init, Promise!Init, Owner, Replies

\* The response to a request not answered so far counts as its one answer.
LEMMA RepliesCount ==
    ASSUME TypeOK, NEW c \in Client, NEW r \in ReqId, answers[c][r] = <<>>,
           \A d \in Client, x \in ReqId :
              \/ answers'[d][x] = answers[d][x]
              \/ d = c /\ x = r /\ \E a \in Answer : answers'[d][x] = Append(answers[d][x], a)
    PROVE  Replies' = Replies \/ Replies' = [Replies EXCEPT ![c][r] = 1]
<1>1. CASE answers'[c][r] = answers[c][r]
  <2>1. \A d \in Client, x \in ReqId : answers'[d][x] = answers[d][x] BY <1>1
  <2> QED BY <2>1 DEF Replies
<1>2. CASE answers'[c][r] # answers[c][r]
  <2>1. Len(answers'[c][r]) = 1
    <3>1. PICK a \in Answer : answers'[c][r] = Append(answers[c][r], a) BY <1>2
    <3>2. answers'[c][r] = <<a>> BY <3>1
    <3> QED BY <3>2
  <2>2. \A d \in Client, x \in ReqId : d # c \/ x # r => answers'[d][x] = answers[d][x]
    OBVIOUS
  <2>3. \A d \in Client, x \in ReqId :
           Len(answers'[d][x]) = IF d = c /\ x = r THEN 1 ELSE Len(answers[d][x])
    BY <2>1, <2>2
  <2>4. Replies' = [d \in Client |-> [x \in ReqId |-> IF d = c /\ x = r THEN 1
                                                     ELSE Len(answers[d][x])]]
    BY <2>3 DEF Replies
  <2>5. [Replies EXCEPT ![c][r] = 1] =
          [d \in Client |-> [x \in ReqId |-> IF d = c /\ x = r THEN 1 ELSE Len(answers[d][x])]]
    BY DEF Replies
  <2> QED BY <2>4, <2>5
<1> QED BY <1>1, <1>2

LEMMA RequestPromise ==
    ASSUME TypeOK, OneDebtor, NEW c \in Client, NEW r \in ReqId, Request(c, r)
    PROVE  Promise!Take(c, r)
<1>1. Ask(c, r)
  BY DEF Request, Operation, Reject, RegisterModule, UnregisterModule, BindToEvent,
         UnbindFromEvent, FireEvent, FinishRequest, Echo, EchoDelay, CallLocal, CallRpc
<1>2. (\E a \in Answer : Reply(c, r, a)) \/ answers' = answers
  <2>1. CASE Reject(c, r) \/ Echo(c, r) \/ EchoDelay(c, r)
    BY <2>1 DEF Reject, Echo, EchoDelay, Answer
  <2>2. ASSUME NEW n \in Name, NEW m \in Method, CallLocal(c, r, n, m) \/ CallRpc(c, r, n, m)
        PROVE  answers' = answers
    BY <2>2 DEF CallLocal, CallRpc
  <2>3. ASSUME NEW n \in Name, NEW ms \in SUBSET Method, NEW t \in Token,
               RegisterModule(c, r, n, ms, t)
        PROVE  \E a \in Answer : Reply(c, r, a)
    BY <2>3 DEF RegisterModule, Answer
  <2>4. ASSUME NEW n \in Name, NEW t \in Token \cup {NoToken}, UnregisterModule(c, r, n, t)
        PROVE  \E a \in Answer : Reply(c, r, a)
    BY <2>4 DEF UnregisterModule, Answer
  <2>5. ASSUME NEW b \in Binding, BindToEvent(c, r, b)
        PROVE  \E a \in Answer : Reply(c, r, a)
    BY <2>5 DEF BindToEvent, Answer
  <2>6. ASSUME NEW i \in 1..Len(eventIdToEvent)+1, UnbindFromEvent(c, r, i)
        PROVE  \E a \in Answer : Reply(c, r, a)
    BY <2>6 DEF UnbindFromEvent, Answer
  <2>7. ASSUME NEW e \in Event, FireEvent(c, r, e)
        PROVE  (\E a \in Answer : Reply(c, r, a)) \/ answers' = answers
    BY <2>7 DEF FireEvent, Answer
  <2>8. ASSUME NEW id \in 1..MaxPending, FinishRequest(c, r, id) PROVE answers' = answers
    BY <2>8 DEF FinishRequest
  <2> QED BY <2>1, <2>2, <2>3, <2>4, <2>5, <2>6, <2>7, <2>8 DEF Request
<1>3. Replies' = Replies \/ Replies' = [Replies EXCEPT ![c][r] = 1]
  <2>1. answers[c][r] = <<>> BY <1>1 DEF OneDebtor, OneDebtorFor, Ask
  <2>2. \A d \in Client, x \in ReqId :
           \/ answers'[d][x] = answers[d][x]
           \/ d = c /\ x = r /\ \E a \in Answer : answers'[d][x] = Append(answers[d][x], a)
    BY <1>2, ReplyEffect
  <2> QED BY <2>1, <2>2, RepliesCount
<1>4. CASE UNCHANGED tables
  <2>1. Owner' = Owner /\ eventIdToEvent' = eventIdToEvent BY <1>4 DEF Owner, Registered, tables
  <2> QED BY <1>1, <1>3, <2>1 DEF Promise!Take, Ask, Owner, Replies
<1>5. ASSUME NEW n \in Name, Owner' = Owner \/ Promise!Claim(c, n) \/ Promise!Release(n),
             eventIdToEvent' = eventIdToEvent
      PROVE  Promise!Take(c, r)
  BY <1>1, <1>3, <1>5 DEF Promise!Take, Ask, Owner, Replies
<1>6. ASSUME NEW n \in Name, NEW ms \in SUBSET Method, NEW t \in Token,
             RegisterModule(c, r, n, ms, t)
      PROVE  Promise!Take(c, r)
  <2>1. CASE Registered(n)
    <3>1. Owner' = Owner BY <1>6, <2>1 DEF RegisterModule, Owner, Registered
    <3> QED BY <1>5, <1>6, <3>1 DEF RegisterModule
  <2>2. CASE ~Registered(n)
    <3>1. Owner[n] = Nobody BY <2>2 DEF Owner
    <3>2. Owner' = [Owner EXCEPT ![n] = c]
      <4>1. registeredModules' =
               [x \in DOMAIN registeredModules \cup {n} |->
                  IF x = n THEN [methods |-> ms, socket |-> c, token |-> t]
                           ELSE registeredModules[x]]
        BY <1>6, <2>2 DEF RegisterModule, AddModule
      <4>2. DOMAIN registeredModules' = DOMAIN registeredModules \cup {n} BY <4>1
      <4>3. registeredModules'[n].socket = c BY <4>1
      <4>4. \A x \in DOMAIN registeredModules :
               x # n => registeredModules'[x] = registeredModules[x]
        BY <4>1
      <4> HIDE <4>1
      <4> QED BY <4>2, <4>3, <4>4 DEF Owner, Registered
    <3>3. Promise!Claim(c, n)
      BY <1>6, <3>1, <3>2 DEF Promise!Claim, Owner, RegisterModule, AddModule
    <3> QED BY <1>5, <1>6, <3>3 DEF RegisterModule
  <2> QED BY <2>1, <2>2
<1>7. ASSUME NEW n \in Name, NEW t \in Token \cup {NoToken}, UnregisterModule(c, r, n, t)
      PROVE  Promise!Take(c, r)
  <2>1. Owner' = Owner \/ Owner' = [Owner EXCEPT ![n] = Nobody]
    BY <1>7 DEF UnregisterModule, Owner, Registered
  <2>2. Owner' = Owner \/ Promise!Release(n)
    BY <1>7, <2>1 DEF Promise!Release, Owner, UnregisterModule
  <2> QED BY <1>5, <1>7, <2>2 DEF UnregisterModule
<1>8. ASSUME Owner' = Owner,
             \/ \E b \in Binding : Promise!Grant(b)
             \/ \E h \in DOMAIN eventIdToEvent : Promise!Drop(h)
             \/ eventIdToEvent' = eventIdToEvent
      PROVE  Promise!Take(c, r)
  BY <1>1, <1>3, <1>8 DEF Promise!Take, Ask, Owner, Replies
<1>9. ASSUME NEW b \in Binding, BindToEvent(c, r, b) PROVE Promise!Take(c, r)
  <2>1. Owner' = Owner BY <1>9 DEF BindToEvent, Owner, Registered
  <2>2. PICK i \in 1..Len(eventIdToEvent)+1 : FirstFree(i) /\ PutEvent(i, b)
    BY <1>9 DEF BindToEvent, AddBinding
  <2>3. CASE i > Len(eventIdToEvent)
    BY <1>8, <2>1, <2>2, <2>3 DEF PutEvent, Promise!Grant, Owner
  <2>4. CASE ~(i > Len(eventIdToEvent))
    <3>1. i \in DOMAIN eventIdToEvent BY <2>4, LenProperties DEF TypeOK
    <3>2. eventIdToEvent[i] = NoEvent BY <2>2, <3>1 DEF FirstFree, Live
    <3>3. Promise!Grant(b) BY <2>1, <2>2, <2>4, <3>1, <3>2 DEF PutEvent, Promise!Grant, Owner
    <3> QED BY <1>8, <2>1, <3>3
  <2> QED BY <2>3, <2>4
<1>10. ASSUME NEW i \in 1..Len(eventIdToEvent)+1, UnbindFromEvent(c, r, i)
       PROVE  Promise!Take(c, r)
  <2>1. Owner' = Owner BY <1>10 DEF UnbindFromEvent, Owner, Registered
  <2>2. CASE i \in DOMAIN eventIdToEvent
    <3>1. eventIdToEvent' = [eventIdToEvent EXCEPT ![i] = NoEvent]
      BY <1>10, <2>2 DEF UnbindFromEvent
    <3>2. Promise!Drop(i) BY <2>1, <3>1 DEF Promise!Drop, Owner
    <3> QED BY <1>8, <2>1, <2>2, <3>2
  <2>3. CASE i \notin DOMAIN eventIdToEvent
    <3>1. eventIdToEvent' = [j \in DOMAIN eventIdToEvent |-> eventIdToEvent[j]]
      BY <1>10, <2>3 DEF UnbindFromEvent
    <3>2. eventIdToEvent = [j \in DOMAIN eventIdToEvent |-> eventIdToEvent[j]]
      BY LenProperties DEF TypeOK
    <3> QED BY <1>8, <2>1, <3>1, <3>2
  <2> QED BY <2>2, <2>3
<1>11. CASE \/ Reject(c, r) \/ Echo(c, r) \/ EchoDelay(c, r)
            \/ \E e \in Event : FireEvent(c, r, e)
            \/ \E id \in 1..MaxPending : FinishRequest(c, r, id)
            \/ \E n \in Name, m \in Method : CallLocal(c, r, n, m) \/ CallRpc(c, r, n, m)
  <2>1. UNCHANGED tables
    BY <1>11 DEF Reject, Echo, EchoDelay, FireEvent, FinishRequest, CallLocal, CallRpc, tables
  <2> QED BY <1>4, <2>1
<1> QED BY <1>6, <1>7, <1>9, <1>10, <1>11 DEF Request

\* A late answer: the request was made, and not answered before.
LEMMA LatePromise ==
    ASSUME TypeOK, OneDebtor, UNCHANGED tables, asked' = asked,
           NEW c \in Client, NEW r \in ReqId, r \in asked[c], answers[c][r] = <<>>,
           \A d \in Client, x \in ReqId :
              \/ answers'[d][x] = answers[d][x]
              \/ d = c /\ x = r /\ \E a \in Answer : answers'[d][x] = Append(answers[d][x], a)
    PROVE  [Promise!Next]_Promise!vars
<1>1. Owner' = Owner /\ eventIdToEvent' = eventIdToEvent BY DEF Owner, Registered, tables
<1>2. Replies' = Replies \/ Replies' = [Replies EXCEPT ![c][r] = 1] BY RepliesCount
<1>3. CASE Replies' = Replies
  BY <1>1, <1>3 DEF Promise!vars, Owner, Replies
<1>4. CASE Replies' = [Replies EXCEPT ![c][r] = 1]
  <2>1. Replies[c][r] = 0 BY DEF Replies
  <2>2. Promise!Answer(c, r) BY <1>1, <1>4, <2>1 DEF Promise!Answer, Owner, Replies
  <2> QED BY <2>2 DEF Promise!Next
<1> QED BY <1>2, <1>3, <1>4

LEMMA NextPromise == TypeOK /\ OneDebtor /\ [Next]_vars => [Promise!Next]_Promise!vars
<1> SUFFICES ASSUME TypeOK, OneDebtor, [Next]_vars PROVE [Promise!Next]_Promise!vars OBVIOUS
<1>1. ASSUME NEW c \in Client, NEW r \in ReqId, Request(c, r)
      PROVE  [Promise!Next]_Promise!vars
  BY <1>1, RequestPromise DEF Promise!Next
<1>2. ASSUME NEW c \in Client, NEW r \in ReqId, DeferredAnswer(c, r)
      PROVE  [Promise!Next]_Promise!vars
  <2>1. Reply(c, r, "value") /\ UNCHANGED tables /\ asked' = asked /\ <<c, r>> \in deferred
    BY <1>2 DEF DeferredAnswer, tables
  <2>2. r \in asked[c] /\ answers[c][r] = <<>> BY <2>1 DEF OneDebtor, OneDebtorFor
  <2>3. \A d \in Client, x \in ReqId :
           \/ answers'[d][x] = answers[d][x]
           \/ d = c /\ x = r /\ \E a \in Answer : answers'[d][x] = Append(answers[d][x], a)
    BY <2>1, ReplyEffect DEF Answer
  <2> QED BY <2>1, <2>2, <2>3, LatePromise
<1>3. ASSUME UNCHANGED tables, asked' = asked, answers' = answers
      PROVE  [Promise!Next]_Promise!vars
  BY <1>3 DEF tables, Registered, Promise!vars
<1>4. ASSUME NEW c \in Client, NEW id \in DOMAIN pendingRequests, NEW err \in ErrorField,
             RouteResponse(c, id, err)
      PROVE  [Promise!Next]_Promise!vars
  <2> DEFINE h == pendingRequests[id]
  <2>1. UNCHANGED tables /\ asked' = asked /\ id \in inbox[c]
    BY <1>4 DEF RouteResponse, tables
  <2>2. CASE answers' = answers BY <1>3, <2>1, <2>2
  <2>3. CASE answers' # answers
    <3>1. h # NoHandler /\ Reply(h.socket, h.requestId, Passed(err))
      BY <1>4, <2>3 DEF RouteResponse
    <3>2. Passed(err) \in Answer BY DEF Passed, Answer
    <3>3. h \in Handler BY <3>1, ElementOfSeq, LenProperties DEF TypeOK
    <3>4. h.socket \in Client /\ h.requestId \in ReqId
      BY <2>3, <3>1, <3>3 DEF Reply, TypeOK, Handler, Socket
    <3>5. id \in Owed(h.socket, h.requestId) BY <2>1, <3>1 DEF Owed
    <3>6. h.requestId \in asked[h.socket] /\ answers[h.socket][h.requestId] = <<>>
      BY <3>4, <3>5 DEF OneDebtor, OneDebtorFor
    <3>7. \A d \in Client, x \in ReqId :
             \/ answers'[d][x] = answers[d][x]
             \/ /\ d = h.socket /\ x = h.requestId
                /\ \E a \in Answer : answers'[d][x] = Append(answers[d][x], a)
      BY <3>1, <3>2, ReplyEffect
    <3> HIDE DEF h
    <3> QED BY <2>1, <3>4, <3>6, <3>7, LatePromise
  <2> QED BY <2>2, <2>3
<1>5. ASSUME NEW e \in Event, FireEventLocal(e) PROVE [Promise!Next]_Promise!vars
  BY <1>3, <1>5 DEF FireEventLocal, tables
<1>6. ASSUME NEW c \in Client, Disconnect(c) PROVE [Promise!Next]_Promise!vars
  BY <1>3, <1>6 DEF Disconnect, tables
<1>7. CASE UNCHANGED vars BY <1>3, <1>7 DEF vars, tables
<1> QED BY <1>1, <1>2, <1>4, <1>5, <1>6, <1>7 DEF Next

\* The core is a broker: a name is claimed only while it is free, a granted
\* event id keeps its binding until it is dropped, and a request is answered at
\* most once, after it was made.
THEOREM CoreIsBroker == Spec => PromiseKept
<1>1. Spec => [](TypeOK /\ OneDebtor) BY TypeCorrect, AnsweredOnce, PTL
<1> QED BY <1>1, InitPromise, NextPromise, PTL DEF Spec, PromiseKept, Promise!Spec
============================================================================
