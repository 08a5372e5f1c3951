---------------------------- MODULE ManagerProofs ----------------------------
(***************************************************************************)
(* Theorems about Manager, for any number of requests and lines: its type  *)
(* invariant, that the table of callbacks follows the requests and their   *)
(* timers, and that a request whose callback ran has no timer waiting.     *)
(***************************************************************************)
EXTENDS Manager, TLAPS, SequenceTheorems

(***************************************************************************)
(* Changing a map: where nothing is raced, the entries of other requests   *)
(* are as they were, and the one put or removed is in or out.              *)
(***************************************************************************)
Spared(name, map, id, after) ==
    \A x \in Id : x = id \/ Raced(name, x)' \/ (x \in after <=> x \in map)
Apart(name) ==
    \A x \in Id : /\ name # "callbacks" => (Raced("callbacks", x)' <=> Raced("callbacks", x))
                 /\ name # "timeoutActors" =>
                      (Raced("timeoutActors", x)' <=> Raced("timeoutActors", x))

LEMMA PutChanges ==
    ASSUME NEW name \in {"callbacks", "timeoutActors"}, NEW map \in SUBSET Id,
           NEW t \in Thread, saw \in [Thread -> SUBSET Id], NEW id \in Id, NEW after,
           raced \subseteq Entry, Put(name, map, t, id, after)
    PROVE  /\ after \subseteq Id /\ raced \subseteq raced' /\ raced' \subseteq Entry
           /\ id \in after
           /\ Spared(name, map, id, after) /\ Apart(name)
<1> DEFINE then == saw[t]
<1>0. then \subseteq Id
  OBVIOUS
<1>1. PICK d \in SUBSET Differ(map, then) : after = ((map \cap then) \cup d) \cup {id}
  BY DEF Put, AfterPut, Merged
<1>2. raced' = raced \cup ({name} \X Undone(map, then, after))
  BY DEF Put
<1>3. Undone(map, then, after) \subseteq Id
  BY <1>0 DEF Undone, Differ
<1>4. \A x \in Id : x \in Undone(map, then, after) <=> <<name, x>> \in {name} \X Undone(map, then, after)
  OBVIOUS
<1>5. after \subseteq Id /\ id \in after
  BY <1>0, <1>1 DEF Differ
<1>6. ASSUME NEW x \in Id, x # id, <<name, x>> \notin raced' PROVE x \in after <=> x \in map
  <2>1. x \notin Undone(map, then, after)
    BY <1>2, <1>4, <1>6
  <2> QED
    BY <2>1, <1>1, <1>6 DEF Undone, Differ
<1>7. raced' \subseteq Entry
  BY <1>2, <1>3 DEF Entry
<1> QED
  BY <1>2, <1>5, <1>6, <1>7 DEF Spared, Apart, Raced

LEMMA RemoveChanges ==
    ASSUME NEW name \in {"callbacks", "timeoutActors"}, NEW map \in SUBSET Id,
           NEW t \in Thread, saw \in [Thread -> SUBSET Id], NEW id \in Id, NEW after,
           raced \subseteq Entry, Remove(name, map, t, id, after)
    PROVE  /\ after \subseteq Id /\ raced \subseteq raced' /\ raced' \subseteq Entry
           /\ id \in after => <<name, id>> \in raced'
           /\ Spared(name, map, id, after) /\ Apart(name)
<1> DEFINE then == saw[t]
           lost == Undone(map, then, after) \cup Missed(map, then, after, id)
<1>0. then \subseteq Id
  OBVIOUS
<1>1. PICK d \in SUBSET Differ(map, then) :
         \/ after = ((map \cap then) \cup d) \ {id}
         \/ map # then /\ after = (map \cap then) \cup d
  BY DEF Remove, AfterRemove, Merged
<1>2. raced' = raced \cup ({name} \X lost)
  BY DEF Remove
<1>3. lost \subseteq Id
  BY <1>0 DEF Undone, Differ, Missed
<1>4. \A x \in Id : x \in lost <=> <<name, x>> \in {name} \X lost
  OBVIOUS
<1>5. after \subseteq Id
  BY <1>0, <1>1 DEF Differ
<1>6. ASSUME NEW x \in Id, x # id, <<name, x>> \notin raced' PROVE x \in after <=> x \in map
  <2>1. x \notin Undone(map, then, after)
    BY <1>2, <1>4, <1>6
  <2> QED
    BY <2>1, <1>1, <1>6 DEF Undone, Differ
<1>7. ASSUME <<name, id>> \notin raced' PROVE id \notin after
  <2>1. id \notin Missed(map, then, after, id)
    BY <1>2, <1>4, <1>7
  <2> QED
    BY <2>1, <1>1 DEF Missed
<1>8. raced' \subseteq Entry
  BY <1>2, <1>3 DEF Entry
<1> QED
  BY <1>2, <1>5, <1>6, <1>7, <1>8 DEF Spared, Apart, Raced

(***************************************************************************)
(* The type invariant.                                                     *)
(***************************************************************************)
LEMMA ActorIsThread == Actor \in Thread /\ Id \subseteq Thread
  BY DEF Actor, Thread

LEMMA MessageTaken ==
    ASSUME TypeOK, Takes
    PROVE  Head(mailbox) \in Message /\ mailbox' \in Seq(Message)
  BY HeadTailProperties DEF TypeOK, Takes

LEMMA MessageSent ==
    ASSUME TypeOK, NEW m \in Message
    PROVE  Append(mailbox, m) \in Seq(Message)
  BY AppendProperties DEF TypeOK

TimerType == [Id -> {"none", "waiting", "forgetting", "unlisting", "expired", "disabled"}]

LEMMA SawType ==
    ASSUME TypeOK, NEW t \in Thread, NEW m \in SUBSET Id, Sees(t, m)
    PROVE  saw' \in [Thread -> SUBSET Id]
  BY DEF TypeOK, Sees

LEMMA TimerTyped ==
    ASSUME TypeOK, NEW id \in Id,
           NEW s \in {"waiting", "forgetting", "unlisting", "expired", "disabled"},
           timer' = [timer EXCEPT ![id] = s]
    PROVE  timer' \in TimerType
  BY DEF TypeOK, TimerType

LEMMA IdleType == Idle \in [at : Stage, id : 0..MaxRequests, timed : BOOLEAN]
  BY ManagerAssumption DEF Idle, At, Stage

LEMMA AtType ==
    ASSUME NEW s \in Stage, NEW id \in Id
    PROVE  At(s, id) \in [at : Stage, id : 0..MaxRequests, timed : BOOLEAN]
  BY DEF At, Id

LEMMA TypeInit == Init => TypeOK
  BY ManagerAssumption DEF Init, TypeOK, Idle, At, Stage, Id, Entry

LEMMA TypeNext == TypeOK /\ [Next]_vars => TypeOK'
<1> SUFFICES ASSUME TypeOK, [Next]_vars PROVE TypeOK'
  OBVIOUS
<1> USE ManagerAssumption, ActorIsThread
<1>1. CASE InitializeConnection
  BY <1>1 DEF InitializeConnection, TypeOK, maps, core
<1>2. CASE InitializedConnection
  BY <1>2 DEF InitializedConnection, TypeOK, maps, core
<1>3. ASSUME NEW t \in BOOLEAN, GuiRequests(t) PROVE TypeOK'
  <2>1. mailbox' \in Seq(Message)
    BY <1>3, MessageSent DEF GuiRequests, Request, Message
  <2> QED
    BY <2>1, <1>3 DEF GuiRequests, TypeOK, maps, core
<1>4. ASSUME NEW l \in Line, Listen(l) PROVE TypeOK'
  <2>1. mailbox' \in Seq(Message)
    BY <1>4, MessageSent DEF Listen, Message
  <2> QED
    BY <2>1, <1>4 DEF Listen, TypeOK, maps
<1>5. CASE SendMessage
  <2>1. Head(mailbox) \in Message /\ mailbox' \in Seq(Message)
    BY <1>5, MessageTaken DEF SendMessage
  <2>2. Head(mailbox).timed \in BOOLEAN
    BY <2>1, <1>5 DEF SendMessage, Message, Line, Received
  <2>3. lastId' \in 0..MaxRequests
    BY <1>5 DEF SendMessage, TypeOK
  <2>4. busy' \in [at : Stage, id : 0..MaxRequests, timed : BOOLEAN]
    BY <1>5, <2>2, <2>3 DEF SendMessage, Storing, Stage
  <2>5. saw' \in [Thread -> SUBSET Id]
    BY <1>5 DEF SendMessage, Sees, TypeOK
  <2> QED
    BY <2>1, <2>3, <2>4, <2>5, <1>5 DEF SendMessage, TypeOK, core
<1>6. ASSUME NEW id \in Id, StoreCallback(id) PROVE TypeOK'
  <2>1. callbacks' \subseteq Id /\ raced' \subseteq Entry
    <3>1. Put("callbacks", callbacks, Actor, id, callbacks')
      BY <1>6 DEF StoreCallback
    <3>2. /\ callbacks \in SUBSET Id /\ saw \in [Thread -> SUBSET Id]
          /\ raced \subseteq Entry /\ Actor \in Thread
      BY DEF TypeOK
    <3> QED
      BY <3>1, <3>2, PutChanges
  <2>2. /\ busy' \in [at : Stage, id : 0..MaxRequests, timed : BOOLEAN]
        /\ timer' \in [Id -> {"none", "waiting", "forgetting", "unlisting", "expired", "disabled"}]
        /\ saw' \in [Thread -> SUBSET Id]
    <3>1. PICK t \in BOOLEAN :
             IF t THEN /\ busy' = At("listing", id)
                       /\ timer' = [timer EXCEPT ![id] = "waiting"]
                       /\ Sees(Actor, timeoutActors)
                  ELSE busy' = Idle /\ Sees(Actor, {}) /\ UNCHANGED timer
      BY <1>6 DEF StoreCallback
    <3>2. timeoutActors \in SUBSET Id /\ timer \in TimerType
      BY DEF TypeOK, TimerType
    <3>3. CASE t
      BY <3>1, <3>2, <3>3, AtType, SawType, TimerTyped DEF Stage, TimerType
    <3>4. CASE ~t
      BY <3>1, <3>2, <3>4, IdleType, SawType DEF TimerType
    <3> QED
      BY <3>3, <3>4
  <2> QED
    BY <2>1, <2>2, <1>6 DEF StoreCallback, TypeOK
<1>7. ASSUME NEW id \in Id, RegisterTimeout(id) PROVE TypeOK'
  <2>1. timeoutActors' \subseteq Id /\ raced' \subseteq Entry
    <3>1. Put("timeoutActors", timeoutActors, Actor, id, timeoutActors')
      BY <1>7 DEF RegisterTimeout
    <3>2. /\ timeoutActors \in SUBSET Id /\ saw \in [Thread -> SUBSET Id]
          /\ raced \subseteq Entry /\ Actor \in Thread
      BY DEF TypeOK
    <3> QED
      BY <3>1, <3>2, PutChanges
  <2>2. saw' \in [Thread -> SUBSET Id]
    BY <1>7, SawType DEF RegisterTimeout
  <2> QED
    BY <2>1, <2>2, <1>7, IdleType DEF RegisterTimeout, TypeOK, core
<1>8. ASSUME NEW id \in Id, TimedOut(id) PROVE TypeOK'
  <2>1. saw' \in [Thread -> SUBSET Id]
    BY <1>8, SawType DEF TimedOut, TypeOK
  <2>2. timer' \in TimerType
    BY <1>8, TimerTyped DEF TimedOut
  <2> QED
    BY <2>1, <2>2, <1>8 DEF TimedOut, TypeOK, TimerType, core
<1>9. ASSUME NEW id \in Id, RemoveCallback(id) PROVE TypeOK'
  <2>1. callbacks' \subseteq Id /\ raced' \subseteq Entry
    <3>1. Remove("callbacks", callbacks, id, id, callbacks')
      BY <1>9 DEF RemoveCallback
    <3>2. /\ callbacks \in SUBSET Id /\ saw \in [Thread -> SUBSET Id]
          /\ raced \subseteq Entry /\ id \in Thread
      BY DEF TypeOK
    <3> QED
      BY <3>1, <3>2, RemoveChanges
  <2>2. saw' \in [Thread -> SUBSET Id]
    BY <1>9, SawType DEF RemoveCallback, TypeOK
  <2>3. timer' \in TimerType
    BY <1>9, TimerTyped DEF RemoveCallback
  <2> QED
    BY <2>1, <2>2, <2>3, <1>9 DEF RemoveCallback, TypeOK, TimerType, core
<1>10. ASSUME NEW id \in Id, TimeoutCallback(id) PROVE TypeOK'
  <2>1. timeoutActors' \subseteq Id /\ raced' \subseteq Entry
    <3>1. Remove("timeoutActors", timeoutActors, id, id, timeoutActors')
      BY <1>10 DEF TimeoutCallback
    <3>2. /\ timeoutActors \in SUBSET Id /\ saw \in [Thread -> SUBSET Id]
          /\ raced \subseteq Entry /\ id \in Thread
      BY DEF TypeOK
    <3> QED
      BY <3>1, <3>2, RemoveChanges
  <2>2. saw' \in [Thread -> SUBSET Id]
    BY <1>10, SawType DEF TimeoutCallback, TypeOK
  <2>3. timer' \in TimerType
    BY <1>10, TimerTyped DEF TimeoutCallback
  <2> QED
    BY <2>1, <2>2, <2>3, <1>10 DEF TimeoutCallback, TypeOK, TimerType, core
<1>11. CASE ParseResponse
  <2>1. mailbox' \in Seq(Message)
    BY <1>11, MessageTaken DEF ParseResponse
  <2> QED
    BY <2>1, <1>11 DEF ParseResponse, TypeOK, maps, core
<1>12. CASE HandleResponse
  <2>1. Head(mailbox) \in Message /\ mailbox' \in Seq(Message)
    BY <1>12, MessageTaken DEF HandleResponse
  <2>2. Head(mailbox).id \in Id
    BY <2>1, <1>12 DEF HandleResponse, Message, Line, Received
  <2>3. timer' \in TimerType
    BY <2>2, <1>12 DEF HandleResponse, TypeOK, Disable, TimerType
  <2>4. busy' \in [at : Stage, id : 0..MaxRequests, timed : BOOLEAN]
    BY <2>2, <1>12, AtType DEF HandleResponse, Stage
  <2> QED
    BY <2>1, <2>2, <2>3, <2>4, <1>12 DEF HandleResponse, TypeOK, TimerType, maps, core
<1>13. ASSUME NEW id \in Id, GetCallback(id) PROVE TypeOK'
  <2>1. busy' \in [at : Stage, id : 0..MaxRequests, timed : BOOLEAN]
    BY <1>13, AtType, IdleType DEF GetCallback, Stage
  <2> QED
    BY <2>1, <1>13 DEF GetCallback, TypeOK, maps, core
<1>14. ASSUME NEW id \in Id, RunCallback(id) PROVE TypeOK'
  <2>1. called' \in [Id -> Nat]
    BY <1>14 DEF RunCallback, TypeOK
  <2> QED
    BY <2>1, <1>14, IdleType DEF RunCallback, TypeOK, maps, core
<1>15. CASE UNCHANGED vars
  BY <1>15 DEF vars, maps, core, TypeOK
<1> QED
  BY <1>1, <1>2, <1>3, <1>4, <1>5, <1>6, <1>7, <1>8, <1>9, <1>10, <1>11, <1>12, <1>13,
     <1>14, <1>15 DEF Next, ManagerStep, TimerStep

\* Every variable of the GUI's client keeps its type.
THEOREM TypeCorrect == Spec => []TypeOK
<1> QED
  BY TypeInit, TypeNext, PTL DEF Spec

(***************************************************************************)
(* The inductive invariant: what the parts of the client know of a request *)
(* at each stage of its life.                                              *)
(***************************************************************************)
Past == {"unlisting", "expired"}

\* Nothing is known yet of the requests to come, or of the one being stored.
New(id) == timer[id] = "none" /\ id \notin wire /\ called[id] = 0
Fresh == /\ \A id \in Id : id > lastId => New(id)
         /\ \A id \in Id, t \in BOOLEAN : busy = Storing(id, t) => New(id) /\ id = lastId

\* Only what was written is timed, answered, handled and called back.
Written ==
    /\ \A id \in Id : timer[id] # "none" \/ called[id] > 0 => id \in wire
    /\ \A k \in DOMAIN mailbox : mailbox[k].type = "result" => mailbox[k].id \in wire
    /\ \A id \in Id, s \in {"getting", "running"} : busy = At(s, id) => id \in wire

\* A timer that waits is in the table, once it was put there.
Armed ==
    \A id \in Id : timer[id] = "waiting" /\ busy # At("listing", id) =>
       id \in timeoutActors \/ Raced("timeoutActors", id)

\* The request whose response is being handled has no timer waiting.
Disarmed ==
    \A id \in Id, s \in {"getting", "running"} : busy = At(s, id) =>
       timer[id] # "waiting" \/ Raced("timeoutActors", id)

IInv == TypeOK /\ Fresh /\ Written /\ Armed /\ Disarmed /\ CallbacksTrack /\ AnsweredDisarmed

Rest == Fresh /\ Written /\ Armed /\ Disarmed /\ CallbacksTrack /\ AnsweredDisarmed

LEMMA StagesDiffer ==
    /\ \A s, u \in Stage, id, x \in Id : At(s, id) = At(u, x) <=> s = u /\ id = x
    /\ \A s \in Stage \ {"storing"}, id, x \in Id, t \in BOOLEAN : At(s, id) # Storing(x, t)
    /\ \A id \in Id, t \in BOOLEAN : Idle # Storing(id, t)
    /\ \A id \in Id, s \in Stage : Idle # At(s, id)
    /\ \A id, x \in Id, t, u \in BOOLEAN : Storing(id, t) = Storing(x, u) <=> id = x /\ t = u
<1>1. /\ \A s, id : At(s, id).at = s /\ At(s, id).id = id
      /\ \A id, t : Storing(id, t).at = "storing" /\ Storing(id, t).id = id
                    /\ Storing(id, t).timed = t
      /\ Idle.at = "idle" /\ Idle.id = 0
  BY DEF At, Storing, Idle
<1>2. \A id \in Id : id # 0
  BY DEF Id
<1> QED
  BY <1>1, <1>2

\* What the Manager takes from its mailbox leaves only messages that were there.
LEMMA Taken ==
    ASSUME TypeOK, Takes
    PROVE  /\ Head(mailbox) = mailbox[1] /\ 1 \in DOMAIN mailbox
           /\ \A k \in DOMAIN mailbox' : k + 1 \in DOMAIN mailbox /\ mailbox'[k] = mailbox[k + 1]
<1>1. mailbox \in Seq(Message) /\ mailbox # <<>> /\ mailbox' = Tail(mailbox)
  BY DEF TypeOK, Takes
<1>2. Head(mailbox) = mailbox[1] /\ Len(mailbox) > 0
  BY <1>1
<1>3. Len(mailbox') = Len(mailbox) - 1 /\ mailbox' \in Seq(Message)
  BY <1>1, HeadTailProperties
<1>4. \A k \in 1..Len(mailbox') : mailbox'[k] = mailbox[k + 1]
  BY <1>1, HeadTailProperties
<1>5. DOMAIN mailbox' = 1..Len(mailbox') /\ DOMAIN mailbox = 1..Len(mailbox)
  BY <1>1, <1>3, LenProperties
<1>6. Len(mailbox) \in Nat
  BY <1>1, LenProperties
<1> QED
  BY <1>2, <1>3, <1>4, <1>5, <1>6

\* Every message there is after one was sent.
LEMMA Sent ==
    ASSUME TypeOK, NEW m \in Message, mailbox' = Append(mailbox, m)
    PROVE  \A k \in DOMAIN mailbox' :
              mailbox'[k] = m \/ (k \in DOMAIN mailbox /\ mailbox'[k] = mailbox[k])
<1>1. mailbox \in Seq(Message)
  BY DEF TypeOK
<1>2. /\ Len(mailbox') = Len(mailbox) + 1 /\ mailbox' \in Seq(Message)
      /\ \A k \in 1..Len(mailbox) : mailbox'[k] = mailbox[k]
      /\ mailbox'[Len(mailbox) + 1] = m
  BY <1>1, AppendProperties
<1>3. DOMAIN mailbox' = 1..Len(mailbox') /\ DOMAIN mailbox = 1..Len(mailbox)
  BY <1>1, <1>2, LenProperties
<1>4. Len(mailbox) \in Nat
  BY <1>1, LenProperties
<1> QED
  BY <1>2, <1>3, <1>4

\* A step that changes nothing but the mailbox, and brings no result of a request
\* that was not written.
LEMMA QuietStep ==
    ASSUME Rest,
           UNCHANGED <<lastId, busy, callbacks, timeoutActors, raced, timer, wire, called>>,
           \A k \in DOMAIN mailbox' : mailbox'[k].type = "result" =>
              mailbox'[k].id \in wire
    PROVE  Rest'
<1>1. Fresh' /\ Disarmed'
  BY DEF Rest, Fresh, New, Disarmed, Raced
<1>2. Written'
  BY DEF Rest, Written
<1>3. Armed' /\ CallbacksTrack' /\ AnsweredDisarmed'
  BY DEF Rest, Armed, CallbacksTrack, AnsweredDisarmed, Raced
<1> QED
  BY <1>1, <1>2, <1>3 DEF Rest

LEMMA InitInv == Init => IInv
<1> SUFFICES ASSUME Init PROVE IInv
  OBVIOUS
<1>1. \A id \in Id : /\ timer[id] = "none" /\ called[id] = 0 /\ id \notin wire
                     /\ id \notin callbacks
  BY DEF Init
<1>2. busy = Idle /\ DOMAIN mailbox = {}
  BY DEF Init
<1>3. Fresh /\ Written /\ Armed /\ Disarmed
  BY <1>1, <1>2, StagesDiffer DEF Fresh, New, Written, Armed, Disarmed, Stage
<1>4. CallbacksTrack /\ AnsweredDisarmed
  BY <1>1 DEF CallbacksTrack, AnsweredDisarmed
<1> QED
  BY TypeInit, <1>3, <1>4 DEF IInv

\* sendMessage begins: the next id becomes the one that is being stored.
LEMMA SendMessageInv == ASSUME IInv, TypeOK', SendMessage PROVE Rest'
<1>1. PICK t \in BOOLEAN : busy' = Storing(lastId', t)
  <2>1. Head(mailbox) \in Message
    BY MessageTaken DEF SendMessage, IInv
  <2>2. Head(mailbox).timed \in BOOLEAN
    BY <2>1 DEF SendMessage, Message, Line, Received
  <2> QED
    BY <2>2 DEF SendMessage
<1>2. /\ busy = Idle /\ lastId' = lastId + 1 /\ lastId \in Nat /\ lastId' \in Id
      /\ UNCHANGED <<callbacks, timeoutActors, raced, timer, wire, called>>
  BY ManagerAssumption DEF SendMessage, Takes, IInv, TypeOK, core, Id
<1>3. \A id \in Id : id > lastId => New(id)'
  BY <1>2 DEF IInv, Fresh, New
<1>4. \A id \in Id : id \in Nat
  BY DEF Id
<1>5. Fresh'
  BY <1>1, <1>2, <1>3, <1>4, StagesDiffer DEF Fresh
<1>6. \A id \in Id, s \in Stage \ {"storing"} : busy' # At(s, id)
  BY <1>1, <1>2, StagesDiffer
<1>7. Written'
  <2>1. \A k \in DOMAIN mailbox' : k + 1 \in DOMAIN mailbox /\ mailbox'[k] = mailbox[k + 1]
    BY Taken DEF SendMessage, IInv
  <2>2. \A k \in DOMAIN mailbox' : mailbox'[k].type = "result" => mailbox'[k].id \in wire
    BY <2>1 DEF IInv, Written
  <2> QED
    BY <2>2, <1>2, <1>6 DEF IInv, Written, Stage
<1>8. Armed' /\ Disarmed'
  BY <1>2, <1>6, StagesDiffer DEF IInv, Armed, Disarmed, Raced, Stage
<1>9. CallbacksTrack' /\ AnsweredDisarmed'
  BY <1>2 DEF IInv, CallbacksTrack, AnsweredDisarmed, Raced
<1> QED
  BY <1>5, <1>7, <1>8, <1>9 DEF Rest

\* The callback of a request is stored before anything else can know of it.
LEMMA StoreCallbackInv ==
    ASSUME IInv, TypeOK', NEW id \in Id, StoreCallback(id) PROVE Rest'
<1>1. PICK t \in BOOLEAN :
         /\ busy = Storing(id, t)
         /\ IF t THEN /\ busy' = At("listing", id)
                      /\ timer' = [timer EXCEPT ![id] = "waiting"]
                 ELSE busy' = Idle /\ timer' = timer
  BY DEF StoreCallback
<1>2. UNCHANGED <<lastId, mailbox, timeoutActors, called>> /\ wire' = wire \cup {id}
  BY DEF StoreCallback
<1>3. /\ id \in callbacks' /\ raced \subseteq raced'
      /\ \A x \in Id : x = id \/ Raced("callbacks", x)' \/ (x \in callbacks' <=> x \in callbacks)
      /\ \A x \in Id : Raced("timeoutActors", x)' <=> Raced("timeoutActors", x)
  <2>1. Put("callbacks", callbacks, Actor, id, callbacks')
    BY DEF StoreCallback
  <2>2. /\ callbacks \in SUBSET Id /\ saw \in [Thread -> SUBSET Id]
        /\ raced \subseteq Entry /\ Actor \in Thread
    BY ActorIsThread DEF IInv, TypeOK
  <2>3. /\ id \in callbacks' /\ raced \subseteq raced'
        /\ Spared("callbacks", callbacks, id, callbacks') /\ Apart("callbacks")
    BY <2>1, <2>2, PutChanges
  <2> QED
    BY <2>3 DEF Spared, Apart
<1>4. New(id) /\ timer \in TimerType
  BY <1>1 DEF IInv, Fresh, TypeOK, TimerType
<1>5. \A x \in Id : /\ x # id => timer'[x] = timer[x]
                    /\ x = id => timer'[x] \in {"none", "waiting"}
  BY <1>1, <1>4 DEF New, TimerType
<1>6. \A x \in Id, u \in BOOLEAN : busy' # Storing(x, u)
  BY <1>1, StagesDiffer DEF Stage
<1>7. \A x \in Id, s \in {"getting", "running"} : busy' # At(s, x)
  BY <1>1, StagesDiffer DEF Stage
<1>8. id \in 1..lastId
  <2>1. lastId \in Nat /\ id \in Nat /\ id >= 1
    BY ManagerAssumption DEF IInv, TypeOK, Id
  <2>2. id <= lastId
    BY <2>1, <1>1 DEF IInv, Fresh
  <2> QED
    BY <2>1, <2>2
<1>14. lastId \in Nat
  BY DEF IInv, TypeOK
<1>9. Fresh'
  <2>1. ASSUME NEW x \in Id, x > lastId PROVE New(x)'
    <3>1. New(x) /\ x # id
      BY <2>1, <1>8, <1>14 DEF IInv, Fresh, Id
    <3> QED
      BY <3>1, <1>2, <1>5 DEF New
  <2> QED
    BY <2>1, <1>2, <1>6 DEF Fresh
<1>10. Written' /\ Disarmed'
  BY <1>2, <1>5, <1>7 DEF IInv, Written, Disarmed
<1>11. Armed'
  <2> SUFFICES ASSUME NEW x \in Id, timer'[x] = "waiting", busy' # At("listing", x)
               PROVE  (x \in timeoutActors \/ Raced("timeoutActors", x))'
    BY DEF Armed
  <2>1. x # id
    BY <1>1, <1>4 DEF New
  <2>2. timer[x] = "waiting" /\ busy # At("listing", x)
    BY <2>1, <1>1, <1>5, StagesDiffer DEF Stage
  <2> QED
    BY <2>2, <1>2, <1>3 DEF IInv, Armed
<1>12. CallbacksTrack'
  <2> SUFFICES ASSUME NEW x \in Id, ~Raced("callbacks", x)'
               PROVE  (x \in callbacks <=> x \in wire /\ timer[x] \notin Past)'
    BY DEF CallbacksTrack, Past
  <2>1. CASE x = id
    BY <2>1, <1>2, <1>3, <1>5 DEF Past
  <2>2. CASE x # id
    BY <2>2, <1>2, <1>3, <1>5 DEF IInv, CallbacksTrack, Raced, Past
  <2> QED
    BY <2>1, <2>2
<1>13. AnsweredDisarmed'
  BY <1>2, <1>3, <1>4, <1>5 DEF IInv, AnsweredDisarmed, New
<1> QED
  BY <1>9, <1>10, <1>11, <1>12, <1>13 DEF Rest

LEMMA RegisterTimeoutInv ==
    ASSUME IInv, TypeOK', NEW id \in Id, RegisterTimeout(id) PROVE Rest'
<1>1. /\ busy = At("listing", id) /\ busy' = Idle
      /\ UNCHANGED <<lastId, mailbox, callbacks, timer, wire, called>>
  BY DEF RegisterTimeout, core
<1>2. /\ id \in timeoutActors' /\ raced \subseteq raced'
      /\ Spared("timeoutActors", timeoutActors, id, timeoutActors') /\ Apart("timeoutActors")
  <2>1. Put("timeoutActors", timeoutActors, Actor, id, timeoutActors')
    BY DEF RegisterTimeout
  <2>2. /\ timeoutActors \in SUBSET Id /\ saw \in [Thread -> SUBSET Id]
        /\ raced \subseteq Entry /\ Actor \in Thread
    BY ActorIsThread DEF IInv, TypeOK
  <2> QED
    BY <2>1, <2>2, PutChanges
<1>3. \A x \in Id, n \in {"callbacks", "timeoutActors"} : Raced(n, x) => Raced(n, x)'
  BY <1>2 DEF Raced
<1>4. Fresh' /\ Written' /\ Disarmed'
  <2>1. /\ \A x \in Id, t \in BOOLEAN : busy' # Storing(x, t)
        /\ \A x \in Id, s \in {"getting", "running"} : busy' # At(s, x)
    BY <1>1, StagesDiffer DEF Stage
  <2> QED
    BY <2>1, <1>1 DEF IInv, Fresh, New, Written, Disarmed
<1>5. Armed'
  <2> SUFFICES ASSUME NEW x \in Id, timer[x] = "waiting"
               PROVE  (x \in timeoutActors \/ Raced("timeoutActors", x))'
    BY <1>1 DEF Armed
  <2>1. CASE x # id
    <3>1. busy # At("listing", x)
      BY <2>1, <1>1, StagesDiffer DEF Stage
    <3> QED
      BY <3>1, <2>1, <1>2, <1>3 DEF IInv, Armed, Spared
  <2>2. CASE x = id
    BY <2>2, <1>2
  <2> QED
    BY <2>1, <2>2
<1>6. CallbacksTrack' /\ AnsweredDisarmed'
  BY <1>1, <1>2, <1>3 DEF IInv, CallbacksTrack, AnsweredDisarmed, Apart
<1> QED
  BY <1>4, <1>5, <1>6 DEF Rest

LEMMA TimedOutInv ==
    ASSUME IInv, TypeOK', NEW id \in Id, TimedOut(id) PROVE Rest'
<1>1. /\ timer[id] = "waiting" /\ timer \in TimerType
      /\ timer' = [timer EXCEPT ![id] = "forgetting"]
      /\ UNCHANGED <<lastId, mailbox, busy, callbacks, timeoutActors, raced, wire, called>>
  BY DEF TimedOut, core, IInv, TypeOK, TimerType
<1>2. \A x \in Id : /\ x # id => timer'[x] = timer[x]
                    /\ x = id => timer'[x] = "forgetting"
  BY <1>1 DEF TimerType
<1>3. Fresh'
  BY <1>1, <1>2 DEF IInv, Fresh, New
<1>4. Written'
  BY <1>1, <1>2 DEF IInv, Written
<1>5. Armed' /\ Disarmed' /\ AnsweredDisarmed'
  BY <1>1, <1>2 DEF IInv, Armed, Disarmed, AnsweredDisarmed, Raced
<1>6. CallbacksTrack'
  BY <1>1, <1>2 DEF IInv, CallbacksTrack, Raced
<1> QED
  BY <1>3, <1>4, <1>5, <1>6 DEF Rest

LEMMA RemoveCallbackInv ==
    ASSUME IInv, TypeOK', NEW id \in Id, RemoveCallback(id) PROVE Rest'
<1>1. /\ timer[id] = "forgetting" /\ timer \in TimerType
      /\ timer' = [timer EXCEPT ![id] = "unlisting"]
      /\ UNCHANGED <<lastId, mailbox, busy, timeoutActors, wire, called>>
  BY DEF RemoveCallback, core, IInv, TypeOK, TimerType
<1>2. /\ id \in callbacks' => Raced("callbacks", id)'
      /\ raced \subseteq raced'
      /\ Spared("callbacks", callbacks, id, callbacks') /\ Apart("callbacks")
  <2>1. Remove("callbacks", callbacks, id, id, callbacks')
    BY DEF RemoveCallback
  <2>2. /\ callbacks \in SUBSET Id /\ saw \in [Thread -> SUBSET Id]
        /\ raced \subseteq Entry /\ id \in Thread
    BY ActorIsThread DEF IInv, TypeOK
  <2>3. /\ id \in callbacks' => <<"callbacks", id>> \in raced'
        /\ raced \subseteq raced'
        /\ Spared("callbacks", callbacks, id, callbacks') /\ Apart("callbacks")
    BY <2>1, <2>2, RemoveChanges
  <2> QED
    BY <2>3 DEF Raced
<1>3. \A x \in Id : /\ x # id => timer'[x] = timer[x]
                    /\ x = id => timer'[x] = "unlisting"
  BY <1>1 DEF TimerType
<1>4. \A x \in Id, n \in {"callbacks", "timeoutActors"} : Raced(n, x) => Raced(n, x)'
  BY <1>2 DEF Raced
<1>5. Fresh'
  BY <1>1, <1>3 DEF IInv, Fresh, New
<1>6. Written'
  BY <1>1, <1>3 DEF IInv, Written
<1>7. Armed' /\ Disarmed' /\ AnsweredDisarmed'
  BY <1>1, <1>3, <1>4 DEF IInv, Armed, Disarmed, AnsweredDisarmed
<1>8. CallbacksTrack'
  <2> SUFFICES ASSUME NEW x \in Id, ~Raced("callbacks", x)'
               PROVE  (x \in callbacks <=> x \in wire /\ timer[x] \notin Past)'
    BY DEF CallbacksTrack, Past
  <2>1. CASE x = id
    BY <2>1, <1>2, <1>3 DEF Past
  <2>2. CASE x # id
    BY <2>2, <1>1, <1>2, <1>3, <1>4 DEF IInv, CallbacksTrack, Spared, Past
  <2> QED
    BY <2>1, <2>2
<1> QED
  BY <1>5, <1>6, <1>7, <1>8 DEF Rest

LEMMA TimeoutCallbackInv ==
    ASSUME IInv, TypeOK', NEW id \in Id, TimeoutCallback(id) PROVE Rest'
<1>1. /\ timer[id] = "unlisting" /\ timer \in TimerType
      /\ timer' = [timer EXCEPT ![id] = "expired"]
      /\ UNCHANGED <<lastId, mailbox, busy, callbacks, wire, called>>
  BY DEF TimeoutCallback, core, IInv, TypeOK, TimerType
<1>2. /\ raced \subseteq raced' /\ Apart("timeoutActors")
      /\ Spared("timeoutActors", timeoutActors, id, timeoutActors')
  <2>1. Remove("timeoutActors", timeoutActors, id, id, timeoutActors')
    BY DEF TimeoutCallback
  <2>2. /\ timeoutActors \in SUBSET Id /\ saw \in [Thread -> SUBSET Id]
        /\ raced \subseteq Entry /\ id \in Thread
    BY ActorIsThread DEF IInv, TypeOK
  <2> QED
    BY <2>1, <2>2, RemoveChanges
<1>3. \A x \in Id : /\ x # id => timer'[x] = timer[x]
                    /\ x = id => timer'[x] = "expired"
  BY <1>1 DEF TimerType
<1>4. \A x \in Id, n \in {"callbacks", "timeoutActors"} : Raced(n, x) => Raced(n, x)'
  BY <1>2 DEF Raced
<1>5. Fresh'
  BY <1>1, <1>3 DEF IInv, Fresh, New
<1>6. Written'
  BY <1>1, <1>3 DEF IInv, Written
<1>7. Disarmed' /\ AnsweredDisarmed'
  BY <1>1, <1>3, <1>4 DEF IInv, Disarmed, AnsweredDisarmed
<1>8. Armed'
  BY <1>1, <1>2, <1>3, <1>4 DEF IInv, Armed, Spared
<1>9. CallbacksTrack'
  BY <1>1, <1>2, <1>3, <1>4 DEF IInv, CallbacksTrack, Apart
<1> QED
  BY <1>5, <1>6, <1>7, <1>8, <1>9 DEF Rest

\* A response with a result: its timer is disabled if it is in the table.
LEMMA HandleResponseInv ==
    ASSUME IInv, TypeOK', HandleResponse PROVE Rest'
<1> DEFINE id == Head(mailbox).id
<1>1. /\ busy = Idle /\ busy' = At("getting", id) /\ Disable(id) /\ timer \in TimerType
      /\ UNCHANGED <<lastId, callbacks, timeoutActors, raced, wire, called>>
  BY DEF HandleResponse, Takes, maps, core, IInv, TypeOK, TimerType
<1>2. /\ id \in Id /\ id \in wire
      /\ \A k \in DOMAIN mailbox' : mailbox'[k].type = "result" => mailbox'[k].id \in wire
  <2>1. TypeOK /\ Takes /\ Written /\ Head(mailbox).type = "result"
    BY DEF HandleResponse, IInv
  <2>2. Head(mailbox) \in Message
    BY <2>1, MessageTaken
  <2>3. id \in Id
    BY <2>1, <2>2 DEF Message, Line, Received
  <2>4. id \in wire
    BY <2>1, Taken DEF Written
  <2> QED
    BY <2>1, <2>3, <2>4, Taken DEF Written
<1>3. /\ \A x \in Id : timer'[x] = timer[x] \/ (x = id /\ timer[x] = "waiting" /\ timer'[x] = "disabled")
      /\ timer'[id] = "waiting" => id \notin timeoutActors
  BY <1>1, <1>2 DEF Disable, TimerType
<1>4. /\ \A x \in Id, t \in BOOLEAN : busy' # Storing(x, t)
      /\ \A x \in Id, s \in {"getting", "running"} : busy' = At(s, x) => x = id
      /\ \A x \in Id : busy # At("listing", x) /\ busy' # At("listing", x)
  BY <1>1, <1>2, StagesDiffer DEF Stage
<1>5. Fresh'
  <2>1. \A x \in Id : x > lastId => timer'[x] = timer[x]
    BY <1>3 DEF IInv, Fresh, New
  <2> QED
    BY <2>1, <1>1, <1>4 DEF IInv, Fresh, New
<1>6. Written'
  BY <1>1, <1>2, <1>3, <1>4 DEF IInv, Written
<1>7. Armed'
  BY <1>1, <1>3, <1>4 DEF IInv, Armed, Raced
<1>8. Disarmed'
  <2>1. timer'[id] # "waiting" \/ Raced("timeoutActors", id)
    BY <1>2, <1>3, <1>4 DEF IInv, Armed
  <2> QED
    BY <2>1, <1>1, <1>4 DEF Disarmed, Raced
<1>9. CallbacksTrack' /\ AnsweredDisarmed'
  BY <1>1, <1>3 DEF IInv, CallbacksTrack, AnsweredDisarmed, Raced
<1> QED
  BY <1>5, <1>6, <1>7, <1>8, <1>9 DEF Rest

LEMMA GetCallbackInv ==
    ASSUME IInv, TypeOK', NEW id \in Id, GetCallback(id) PROVE Rest'
<1>1. /\ busy = At("getting", id) /\ (busy' = At("running", id) \/ busy' = Idle)
      /\ UNCHANGED <<lastId, mailbox, callbacks, timeoutActors, raced, timer, wire, called>>
  BY DEF GetCallback, maps, core
<1>2. /\ \A x \in Id, t \in BOOLEAN : busy' # Storing(x, t)
      /\ \A x \in Id, s \in {"getting", "running"} : busy' = At(s, x) => x = id
      /\ \A x \in Id : busy # At("listing", x)
  BY <1>1, StagesDiffer DEF Stage
<1>3. Fresh'
  BY <1>1, <1>2 DEF IInv, Fresh, New
<1>4. Written' /\ Armed' /\ Disarmed'
  BY <1>1, <1>2 DEF IInv, Written, Armed, Disarmed, Raced
<1>5. CallbacksTrack' /\ AnsweredDisarmed'
  BY <1>1 DEF IInv, CallbacksTrack, AnsweredDisarmed, Raced
<1> QED
  BY <1>3, <1>4, <1>5 DEF Rest

LEMMA RunCallbackInv ==
    ASSUME IInv, TypeOK', NEW id \in Id, RunCallback(id) PROVE Rest'
<1>1. /\ busy = At("running", id) /\ busy' = Idle /\ called \in [Id -> Nat]
      /\ called' = [called EXCEPT ![id] = @ + 1]
      /\ UNCHANGED <<lastId, mailbox, callbacks, timeoutActors, raced, timer, wire>>
  BY DEF RunCallback, maps, core, IInv, TypeOK
<1>2. /\ \A x \in Id, t \in BOOLEAN : busy' # Storing(x, t)
      /\ \A x \in Id, s \in {"getting", "running"} : busy' # At(s, x)
      /\ \A x \in Id : busy # At("listing", x)
  BY <1>1, StagesDiffer DEF Stage
<1>3. id \in wire /\ (timer[id] # "waiting" \/ Raced("timeoutActors", id))
  BY <1>1 DEF IInv, Written, Disarmed
<1>4. \A x \in Id : x # id => called'[x] = called[x]
  BY <1>1
<1>5. Fresh'
  <2>1. \A x \in Id : x > lastId => x # id
    BY <1>3 DEF IInv, Fresh, New
  <2> QED
    BY <2>1, <1>1, <1>2, <1>4 DEF IInv, Fresh, New
<1>6. Written' /\ Armed' /\ Disarmed'
  BY <1>1, <1>2, <1>3, <1>4 DEF IInv, Written, Armed, Disarmed, Raced
<1>7. CallbacksTrack' /\ AnsweredDisarmed'
  BY <1>1, <1>3, <1>4 DEF IInv, CallbacksTrack, AnsweredDisarmed, Raced
<1> QED
  BY <1>5, <1>6, <1>7 DEF Rest

LEMMA StepInv == IInv /\ [Next]_vars => IInv'
<1> SUFFICES ASSUME IInv, [Next]_vars PROVE IInv'
  OBVIOUS
<1>1. TypeOK'
  BY TypeNext DEF IInv
<1>2. Rest
  BY DEF IInv, Rest
<1>3. \A k \in DOMAIN mailbox : mailbox[k].type = "result" => mailbox[k].id \in wire
  BY DEF IInv, Written
<1>4. ASSUME InitializeConnection \/ InitializedConnection \/ UNCHANGED vars PROVE Rest'
  <2>1. UNCHANGED <<mailbox, lastId, busy, callbacks, timeoutActors, raced, timer, wire, called>>
    BY <1>4 DEF InitializeConnection, InitializedConnection, vars, maps, core
  <2>2. \A k \in DOMAIN mailbox' : mailbox'[k].type = "result" => mailbox'[k].id \in wire
    BY <2>1, <1>3
  <2> QED
    BY <2>1, <2>2, <1>2, QuietStep
<1>5. ASSUME NEW t \in BOOLEAN, GuiRequests(t) PROVE Rest'
  <2>1. Request(t) \in Message /\ Request(t).type = "request"
    BY DEF Request, Message
  <2>2. \A k \in DOMAIN mailbox' : mailbox'[k].type = "result" => mailbox'[k].id \in wire
    BY <2>1, <1>3, <1>5, Sent DEF GuiRequests, IInv
  <2> QED
    BY <2>2, <1>2, <1>5, QuietStep DEF GuiRequests, maps, core
<1>6. ASSUME NEW l \in Line, Listen(l) PROVE Rest'
  <2>1. l \in Message /\ (l.type = "result" => l.id \in wire)
    BY <1>6 DEF Listen, Message
  <2>2. \A k \in DOMAIN mailbox' : mailbox'[k].type = "result" => mailbox'[k].id \in wire
    BY <2>1, <1>3, <1>6, Sent DEF Listen, IInv
  <2> QED
    BY <2>2, <1>2, <1>6, QuietStep DEF Listen, maps
<1>7. ASSUME ParseResponse PROVE Rest'
  <2>1. \A k \in DOMAIN mailbox' : mailbox'[k].type = "result" => mailbox'[k].id \in wire
    <3>1. TypeOK /\ Takes
      BY <1>7 DEF ParseResponse, IInv
    <3> QED
      BY <3>1, <1>3, Taken
  <2>2. UNCHANGED <<lastId, busy, callbacks, timeoutActors, raced, timer, wire, called>>
    BY <1>7 DEF ParseResponse, maps, core
  <2> QED
    BY <2>1, <2>2, <1>2, QuietStep
<1>8. Rest'
  BY <1>1, <1>4, <1>5, <1>6, <1>7, SendMessageInv, StoreCallbackInv, RegisterTimeoutInv,
     TimedOutInv, RemoveCallbackInv, TimeoutCallbackInv, HandleResponseInv, GetCallbackInv,
     RunCallbackInv DEF Next, ManagerStep, TimerStep
<1> QED
  BY <1>1, <1>8 DEF IInv, Rest

LEMMA Invariance == Spec => []IInv
<1> QED
  BY InitInv, StepInv, PTL DEF Spec

\* The table of callbacks holds the requests that were written and have not timed
\* out, but for the entries on which two threads met.
THEOREM CallbacksKnown == Spec => []CallbacksTrack
<1>1. IInv => CallbacksTrack
  BY DEF IInv
<1> QED
  BY <1>1, Invariance, PTL

\* A request whose callback ran has no timer waiting, but for the same.
THEOREM NoLateTimeout == Spec => []AnsweredDisarmed
<1>1. IInv => AnsweredDisarmed
  BY DEF IInv
<1> QED
  BY <1>1, Invariance, PTL
==============================================================================
