------------------------------- MODULE Core -------------------------------
(***************************************************************************)
(* The core process of Cloud7 (core/core.js): a broker to which modules    *)
(* connect over TCP and speak JSON-RPC.  It keeps the registry of modules, *)
(* the registry of event listeners and the table of the requests it has    *)
(* forwarded, and dispatches every line it receives either as a request or *)
(* as the response to a forwarded request.                                 *)
(*                                                                         *)
(* node.js runs one callback at a time, so one line handled, one timer     *)
(* fired and one connection closed is one action each.  What interleaves   *)
(* is the lines of the clients, the answers of the modules, the timers and *)
(* the disconnects.                                                        *)
(*                                                                         *)
(* Abstractions.  Request ids the core draws at random are fresh: the id   *)
(* of a forwarded request is its position in pendingRequests.  A client    *)
(* uses each of its request ids once, and answers a request forwarded to   *)
(* it at most once.  Answers are reduced to their kind.  An event id i of  *)
(* the code is position i + 1 of eventIdToEvent.                           *)
(***************************************************************************)
EXTENDS Naturals, Sequences, FiniteSets

CONSTANTS Client,        \* connections; a module that reconnects is a new one
          Fake,          \* the socket object of callRpcMethodLocal
          Name,          \* names of modules
          Local,         \* names of the modules inside the core process
          CoreName,      \* "Core"
          Event,         \* event identifiers
          Method,        \* method names
          LocalMethods,  \* methods each local module exports
          Token,         \* tokens the core can draw
          NoToken,       \* undefined
          ReqId,         \* ids a client gives its requests
          CoreMade,      \* id the core makes up for an event listener
          BootBindings,  \* bindings the local modules make at start
          NoEvent,       \* an undefined slot of eventIdToEvent
          NoHandler,     \* an undefined entry of pendingRequests
          Nobody,        \* the owner of a name that is not registered
          MaxPending     \* bound on the requests ever forwarded

Binding == [event : Event, module : Name, method : Method]

ASSUME CoreAssumption ==
    /\ Fake \notin Client
    /\ Nobody \notin Client \cup {Fake}
    /\ Local \subseteq Name
    /\ CoreName \in Local
    /\ NoToken \notin Token
    /\ CoreMade \notin ReqId
    /\ BootBindings \in Seq(Binding)
    /\ \A i, j \in DOMAIN BootBindings :
          BootBindings[i].event = BootBindings[j].event => i = j
    /\ NoEvent \notin Binding
    /\ LocalMethods \in [Local -> SUBSET Method]
    /\ MaxPending \in Nat

Socket  == Client \cup {Fake}
Answer  == {"true", "false", "value", "error"}
Module  == [methods : SUBSET Method, socket : Socket, token : Token \cup {NoToken}]
Handler == [socket : Socket, requestId : ReqId \cup {CoreMade},
            module : Name, method : Method]

ASSUME HandlerAssumption == NoHandler \notin Handler

VARIABLES registeredModules,  \* name |-> module, for the registered names
          registeredEvents,   \* event |-> the ids bound to it; <<>> is undefined
          eventIdToEvent,     \* event id |-> binding
          pendingRequests,    \* id of a forwarded request |-> who waits for it
          inbox,              \* the forwarded requests a client has to answer
          asked,              \* the requests a client has made
          answers,            \* the answers written for each request
          deferred,           \* requests a local method will answer later
          unsolicited,        \* clients sent a response to no request of theirs
          open                \* connections that are up

tables == <<registeredModules, registeredEvents, eventIdToEvent>>
vars == <<registeredModules, registeredEvents, eventIdToEvent, pendingRequests,
          inbox, asked, answers, deferred, unsolicited, open>>

TypeOK ==
    /\ DOMAIN registeredModules \subseteq Name
    /\ registeredModules \in [DOMAIN registeredModules -> Module]
    /\ registeredEvents \in [Event -> Seq(DOMAIN eventIdToEvent)]
    /\ eventIdToEvent \in Seq(Binding \cup {NoEvent})
    /\ pendingRequests \in Seq(Handler \cup {NoHandler})
    /\ inbox \in [Client -> SUBSET (DOMAIN pendingRequests)]
    /\ asked \in [Client -> SUBSET ReqId]
    /\ answers \in [Client -> [ReqId -> Seq(Answer)]]
    /\ deferred \subseteq Client \X ReqId
    /\ unsolicited \subseteq Client
    /\ open \subseteq Client

Registered(n) == n \in DOMAIN registeredModules
IsRpc(n) == Registered(n) /\ registeredModules[n].socket \in Client

(***************************************************************************)
(* The local modules are registered, with no token, before the server      *)
(* listens; FileTransfer binds its listeners, to events of their own, when *)
(* it is built.                                                            *)
(***************************************************************************)
BootIds(e) == {i \in DOMAIN BootBindings : BootBindings[i].event = e}

Init ==
    /\ registeredModules =
          [n \in Local |-> [methods |-> LocalMethods[n], socket |-> Fake, token |-> NoToken]]
    /\ eventIdToEvent = BootBindings
    /\ registeredEvents =
          [e \in Event |-> IF BootIds(e) = {} THEN <<>> ELSE <<CHOOSE i \in BootIds(e) : TRUE>>]
    /\ pendingRequests = <<>>
    /\ inbox = [c \in Client |-> {}]
    /\ asked = [c \in Client |-> {}]
    /\ answers = [c \in Client |-> [r \in ReqId |-> <<>>]]
    /\ deferred = {}
    /\ unsolicited = {}
    /\ open = Client

(***************************************************************************)
(* Taking a request off a connection, and writing a response to one.  A    *)
(* write to a connection that is closed is swallowed; a write to the fake  *)
(* socket ends in the local caller's callback.                             *)
(***************************************************************************)
Ask(c, r) ==
    /\ c \in open
    /\ r \notin asked[c]
    /\ asked' = [asked EXCEPT ![c] = @ \cup {r}]

Reply(s, r, a) ==
    answers' = IF s \in open /\ r \in ReqId
                 THEN [answers EXCEPT ![s][r] = Append(@, a)] ELSE answers

Operation(c, r) == Ask(c, r) /\ Registered(CoreName)

(***************************************************************************)
(* Requests answered with an error and no other effect: ill-formed, with   *)
(* bad parameters, for an unknown module, for a method that is not         *)
(* exported, or binding the method of an unknown module.                   *)
(***************************************************************************)
Reject(c, r) ==
    /\ Ask(c, r)
    /\ Reply(c, r, "error")
    /\ UNCHANGED <<tables, pendingRequests, inbox, deferred, unsolicited, open>>

AddModule(n, ms, s, t) ==
    registeredModules' = [x \in DOMAIN registeredModules \cup {n} |->
                            IF x = n THEN [methods |-> ms, socket |-> s, token |-> t]
                                     ELSE registeredModules[x]]

\* Slip: a module that registers again replaces the one of that name.
RegisterModuleAnew(c, r, n, ms, t) ==
    /\ Operation(c, r)
    /\ AddModule(n, ms, c, t)
    /\ Reply(c, r, "value")
    /\ UNCHANGED <<registeredEvents, eventIdToEvent, pendingRequests, inbox,
                   deferred, unsolicited, open>>

RegisterModule(c, r, n, ms, t) ==
    /\ Operation(c, r)
    /\ IF Registered(n)
         THEN Reply(c, r, "false") /\ UNCHANGED registeredModules
         ELSE AddModule(n, ms, c, t) /\ Reply(c, r, "value")
    /\ UNCHANGED <<registeredEvents, eventIdToEvent, pendingRequests, inbox,
                   deferred, unsolicited, open>>

\* t may be absent (NoToken), which is the token every local module has.
UnregisterModule(c, r, n, t) ==
    /\ Operation(c, r)
    /\ IF Registered(n) /\ registeredModules[n].token = t
         THEN /\ registeredModules' =
                   [x \in DOMAIN registeredModules \ {n} |-> registeredModules[x]]
              /\ Reply(c, r, "true")
         ELSE Reply(c, r, "false") /\ UNCHANGED registeredModules
    /\ UNCHANGED <<registeredEvents, eventIdToEvent, pendingRequests, inbox,
                   deferred, unsolicited, open>>

(***************************************************************************)
(* addNewEvent takes the first undefined slot, or a new one at the end.    *)
(***************************************************************************)
Live == {i \in DOMAIN eventIdToEvent : eventIdToEvent[i] # NoEvent}

\* Slip: take the slot after as many slots as are live.
FirstFreeByCount(i) == i = Cardinality(Live) + 1

FirstFree(i) == i \notin Live /\ 1..i-1 \subseteq Live

PutEvent(i, b) ==
    eventIdToEvent' = IF i > Len(eventIdToEvent) THEN Append(eventIdToEvent, b)
                                                 ELSE [eventIdToEvent EXCEPT ![i] = b]

\* The binding gets a free slot, and the slot's number is saved under the event.
AddBinding(b) ==
    \E i \in 1..Len(eventIdToEvent)+1 :
       /\ FirstFree(i)
       /\ PutEvent(i, b)
       /\ registeredEvents' = [registeredEvents EXCEPT ![b.event] = Append(@, i)]

\* Slip: save the id only when it is the first one bound to the event.
BindToEventOnce(c, r, b) ==
    /\ Operation(c, r)
    /\ Registered(b.module)
    /\ \E i \in 1..Len(eventIdToEvent)+1 :
          /\ FirstFree(i)
          /\ PutEvent(i, b)
          /\ registeredEvents' = IF registeredEvents[b.event] # <<>> THEN registeredEvents
                                 ELSE [registeredEvents EXCEPT ![b.event] = <<i>>]
    /\ Reply(c, r, "value")
    /\ UNCHANGED <<registeredModules, pendingRequests, inbox, deferred, unsolicited, open>>

BindToEvent(c, r, b) ==
    /\ Operation(c, r)
    /\ Registered(b.module)
    /\ AddBinding(b)
    /\ Reply(c, r, "value")
    /\ UNCHANGED <<registeredModules, pendingRequests, inbox, deferred, unsolicited, open>>

\* Slip: the slot is removed instead of emptied, which moves the later ones.
UnbindBySplice(c, r, i) ==
    /\ Operation(c, r)
    /\ eventIdToEvent' = [j \in 1..Len(eventIdToEvent)-1 |->
                            eventIdToEvent[IF j < i THEN j ELSE j + 1]]
    /\ Reply(c, r, "true")
    /\ UNCHANGED <<registeredModules, registeredEvents, pendingRequests, inbox,
                   deferred, unsolicited, open>>

\* The slot is emptied; the id stays in registeredEvents.
UnbindFromEvent(c, r, i) ==
    /\ Operation(c, r)
    /\ eventIdToEvent' = [j \in DOMAIN eventIdToEvent |->
                            IF j = i THEN NoEvent ELSE eventIdToEvent[j]]
    /\ Reply(c, r, "true")
    /\ UNCHANGED <<registeredModules, registeredEvents, pendingRequests, inbox,
                   deferred, unsolicited, open>>

(***************************************************************************)
(* fireEvent walks the ids bound to e.  A row that is undefined, or whose  *)
(* module is not registered, throws: the walk ends there and no response   *)
(* is written.  A listener of a connected module is a proxy call: a        *)
(* request forwarded to its connection, whose response goes to the         *)
(* connection that fired, under an id the core made up.  A local listener  *)
(* runs at once; the methods a local module exports respond on the         *)
(* connection that fired, the hidden ones (FileTransfer's) do not.  What   *)
(* else such a method does is the business of its own module.              *)
(***************************************************************************)
Row(e, k) == eventIdToEvent[registeredEvents[e][k]]

Broken(e, k) == Row(e, k) = NoEvent \/ ~Registered(Row(e, k).module)

Walked(e) == {k \in DOMAIN registeredEvents[e] : \A j \in 1..k : ~Broken(e, j)}

Throws(e) == Walked(e) # DOMAIN registeredEvents[e]

Proxied(e) == {k \in Walked(e) : IsRpc(Row(e, k).module)}

Responding(e) == {k \in Walked(e) \ Proxied(e) :
                     Row(e, k).method \in LocalMethods[Row(e, k).module]}

\* Every listener gets an id; only proxy calls leave a handler behind.
ProxyCalls(s, r, e) ==
    [k \in DOMAIN registeredEvents[e] |->
       IF k \in Proxied(e)
         THEN [socket |-> s, requestId |-> r,
               module |-> Row(e, k).module, method |-> Row(e, k).method]
         ELSE NoHandler]

\* Slip: the listeners are called with the id of the request that fired.
FireIdSame(r) == r

\* The listeners respond under an id of their own, whatever request fired.
FireId(r) == CoreMade

Fire(s, r, e) ==
    /\ Len(pendingRequests) + Len(registeredEvents[e]) <= MaxPending
    /\ pendingRequests' = pendingRequests \o ProxyCalls(s, FireId(r), e)
    /\ inbox' = [c \in Client |-> inbox[c] \cup
                   IF c \in open
                     THEN {Len(pendingRequests) + k : k \in
                             {x \in Proxied(e) : registeredModules[Row(e, x).module].socket = c}}
                     ELSE {}]
    /\ unsolicited' = IF Responding(e) # {} /\ s \in open
                        THEN unsolicited \cup {s} ELSE unsolicited

FireEvent(c, r, e) ==
    /\ Operation(c, r)
    /\ Fire(c, r, e)
    /\ IF Throws(e) THEN UNCHANGED answers
       ELSE Reply(c, r, IF registeredEvents[e] = <<>> THEN "false" ELSE "true")
    /\ UNCHANGED <<tables, deferred, open>>

\* A local module fires through callRpcMethodLocal and drops the reply.
FireEventLocal(e) ==
    /\ Registered(CoreName)
    /\ Fire(Fake, CoreMade, e)
    /\ UNCHANGED <<tables, asked, answers, deferred, open>>

(***************************************************************************)
(* finishRequest forgets a forwarded request and never responds.           *)
(***************************************************************************)
FinishRequest(c, r, id) ==
    /\ Operation(c, r)
    /\ pendingRequests' = [k \in DOMAIN pendingRequests |->
                             IF k = id THEN NoHandler ELSE pendingRequests[k]]
    /\ UNCHANGED <<tables, inbox, answers, deferred, unsolicited, open>>

Echo(c, r) ==
    /\ Operation(c, r)
    /\ Reply(c, r, "value")
    /\ UNCHANGED <<tables, pendingRequests, inbox, deferred, unsolicited, open>>

EchoDelay(c, r) ==
    /\ Operation(c, r)
    /\ deferred' = deferred \cup {<<c, r>>}
    /\ UNCHANGED <<tables, pendingRequests, inbox, answers, unsolicited, open>>

(***************************************************************************)
(* A request for another module.  A local method answers at once or later; *)
(* a proxy method forwards the request to the module's connection.         *)
(***************************************************************************)
CallLocal(c, r, n, m) ==
    /\ Ask(c, r)
    /\ Registered(n) /\ ~IsRpc(n) /\ n # CoreName
    /\ m \in registeredModules[n].methods
    /\ deferred' = deferred \cup {<<c, r>>}
    /\ UNCHANGED <<tables, pendingRequests, inbox, answers, unsolicited, open>>

CallRpc(c, r, n, m) ==
    /\ Ask(c, r)
    /\ IsRpc(n)
    /\ m \in registeredModules[n].methods
    /\ Len(pendingRequests) < MaxPending
    /\ pendingRequests' = Append(pendingRequests,
                            [socket |-> c, requestId |-> r, module |-> n, method |-> m])
    /\ inbox' = [d \in Client |-> inbox[d] \cup
                   IF d \in open /\ d = registeredModules[n].socket
                     THEN {Len(pendingRequests) + 1} ELSE {}]
    /\ UNCHANGED <<tables, answers, deferred, unsolicited, open>>

DeferredAnswer(c, r) ==
    /\ <<c, r>> \in deferred
    /\ deferred' = deferred \ {<<c, r>>}
    /\ Reply(c, r, "value")
    /\ UNCHANGED <<tables, pendingRequests, inbox, asked, unsolicited, open>>

(***************************************************************************)
(* A module answers a forwarded request.  Its response carries an error    *)
(* that is absent, null or a message: the proxy passes on a result only    *)
(* when the error is absent.  The handler stays in pendingRequests.        *)
(***************************************************************************)
ErrorField == {"absent", "null", "message"}

Passed(err) == IF err = "absent" THEN "value" ELSE "error"

RouteResponse(c, id, err) ==
    /\ c \in open
    /\ id \in inbox[c]
    /\ inbox' = [inbox EXCEPT ![c] = @ \ {id}]
    /\ LET h == pendingRequests[id] IN
         IF h = NoHandler THEN UNCHANGED <<answers, unsolicited>>
         ELSE /\ Reply(h.socket, h.requestId, Passed(err))
              /\ unsolicited' = IF h.requestId = CoreMade /\ h.socket \in open
                                  THEN unsolicited \cup {h.socket} ELSE unsolicited
    /\ UNCHANGED <<tables, pendingRequests, asked, deferred, open>>

\* Nothing in the core runs when a connection closes.
Disconnect(c) ==
    /\ c \in open
    /\ open' = open \ {c}
    /\ inbox' = [inbox EXCEPT ![c] = {}]
    /\ UNCHANGED <<tables, pendingRequests, asked, answers, deferred, unsolicited>>

Request(c, r) ==
    \/ Reject(c, r)
    \/ \E n \in Name, ms \in SUBSET Method, t \in Token : RegisterModule(c, r, n, ms, t)
    \/ \E n \in Name, t \in Token \cup {NoToken} : UnregisterModule(c, r, n, t)
    \/ \E b \in Binding : BindToEvent(c, r, b)
    \/ \E i \in 1..Len(eventIdToEvent)+1 : UnbindFromEvent(c, r, i)
    \/ \E e \in Event : FireEvent(c, r, e)
    \/ \E id \in 1..MaxPending : FinishRequest(c, r, id)
    \/ Echo(c, r)
    \/ EchoDelay(c, r)
    \/ \E n \in Name, m \in Method : CallLocal(c, r, n, m) \/ CallRpc(c, r, n, m)

Next ==
    \/ \E c \in Client, r \in ReqId : Request(c, r) \/ DeferredAnswer(c, r)
    \/ \E c \in Client, id \in DOMAIN pendingRequests, err \in ErrorField :
          RouteResponse(c, id, err)
    \/ \E e \in Event : FireEventLocal(e)
    \/ \E c \in Client : Disconnect(c)

Spec == Init /\ [][Next]_vars

(***************************************************************************)
(*                               Properties                                *)
(***************************************************************************)

\* Every live binding is found from its event: fireEvent walks the ids of
\* registeredEvents, so a slot that is filled (addNewEvent, whether new or
\* reused) and not listed under its event would never be called.
LiveBindingsIndexed ==
    \A i \in Live : \E k \in DOMAIN registeredEvents[eventIdToEvent[i].event] :
                      registeredEvents[eventIdToEvent[i].event][k] = i

\* Who still owes an answer to request r of client c: the modules that have
\* the forwarded request, and the local method that took it.
Owed(c, r) == {id \in UNION {inbox[d] : d \in Client} :
                  /\ pendingRequests[id] # NoHandler
                  /\ pendingRequests[id].socket = c
                  /\ pendingRequests[id].requestId = r}

\* A request is owed an answer by one party at most, and by none once it is
\* answered or before it is made: the core forwards a request to one
\* connection, answers it or defers it, whatever is bound, fired, registered,
\* finished and closed in between.
OneDebtorFor(c, r) ==
    /\ Len(answers[c][r]) <= 1
    /\ \A i, j \in Owed(c, r) : i = j
    /\ <<c, r>> \in deferred => Owed(c, r) = {}
    /\ answers[c][r] # <<>> \/ r \notin asked[c]
          => Owed(c, r) = {} /\ <<c, r>> \notin deferred
    /\ r \notin asked[c] => answers[c][r] = <<>>

OneReceiver == \A c, d \in Client : c # d => inbox[c] \cap inbox[d] = {}

OneDebtor == OneReceiver /\ \A c \in Client, r \in ReqId : OneDebtorFor(c, r)

\* The core keeps the promise of Broker: names change hands only when free,
\* a granted event id is not disturbed by later bindings, a request is
\* answered at most once.
Promise == INSTANCE Broker WITH
    Resident <- Fake, NoBinding <- NoEvent,
    BootNames <- Local, BootHandles <- BootBindings,
    owner <- [n \in Name |-> IF Registered(n) THEN registeredModules[n].socket
                                              ELSE Nobody],
    handles <- eventIdToEvent,
    replies <- [c \in Client |-> [r \in ReqId |-> Len(answers[c][r])]]

PromiseKept == Promise!Spec

\* What core.js:561-563 says of fireEvent: a listener that cannot be called is
\* skipped, so the listeners after it are called all the same.
BrokenListenersSkipped ==
    [][\A s \in Socket, r \in ReqId \cup {CoreMade}, e \in Event : Fire(s, r, e) =>
          \A k \in DOMAIN registeredEvents[e] :
             ~Broken(e, k) /\ IsRpc(Row(e, k).module)
                => pendingRequests'[Len(pendingRequests) + k] # NoHandler]_vars

\* What core.js:570 says of fireEvent: the event goes to everyone registered
\* to it.  A request forwarded for e is then for a binding of e.
FiredToItsListeners ==
    [][\A s \in Socket, r \in ReqId \cup {CoreMade}, e \in Event : Fire(s, r, e) =>
          \A k \in Proxied(e) : Row(e, k).event = e]_vars
============================================================================
