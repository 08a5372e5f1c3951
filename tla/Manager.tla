-------------------------------- MODULE Manager --------------------------------
(***************************************************************************)
(* The GUI's client of the core (gui/Cloud7/src/rpc/Manager.scala, with    *)
(* its Listener and Writer).  The Manager is an actor: it takes requests   *)
(* of the GUI and lines of the core from one mailbox.  A request that      *)
(* mixes in Timeout gets an actor of its own, its timer.                   *)
(*                                                                         *)
(* The Manager and the timers run in different threads and change the maps *)
(* callbacks and timeoutActors, which are unsynchronized hash maps.  A put *)
(* or a remove is therefore two steps, of which the second works from what *)
(* the thread saw at the first: a change that another thread made to the   *)
(* map in between may be undone, and a removal may miss its entry.         *)
(***************************************************************************)
EXTENDS Naturals, Sequences, FiniteSets

CONSTANTS MaxRequests, \* bound: the requests the GUI sends
          MaxLines     \* bound: the lines the core writes

ASSUME ManagerAssumption == MaxRequests \in Nat /\ MaxLines \in Nat

VARIABLES link,          \* the connection to the core
          mailbox,       \* the messages to the Manager
          lastId,        \* the id of the last request
          busy,          \* what the Manager is at, and for which id
          callbacks,     \* the ids with a callback
          timeoutActors, \* the ids with a timer in the table
          saw,           \* what a thread saw of the map it is changing
          timer,         \* the timer of each request
          wire,          \* the requests that were written to the core
          lines,         \* how many lines were read
          called,        \* history: how often each callback ran
          heard,         \* history: the requests with a response of any kind
          raced          \* history: the entries lost or kept because two threads
                         \* changed a map at once

maps == <<callbacks, timeoutActors, saw, raced>>
core == <<wire, lines>>
vars == <<link, mailbox, lastId, busy, maps, timer, core, called, heard>>

Id == 1..MaxRequests
Actor == 0    \* the Manager, beside the timers the one thread that changes the maps
Thread == Id \cup {Actor}
Entry == {"callbacks", "timeoutActors"} \X Id

Stage == {"idle", "storing", "listing", "getting", "running"}
At(stage, id) == [at |-> stage, id |-> id, timed |-> FALSE]
Storing(id, t) == [at |-> "storing", id |-> id, timed |-> t]
Idle == At("idle", 0)

Request(t) == [type |-> "request", timed |-> t]
Received(k, id) == [type |-> k, id |-> id]
\* A response with a result, one with an error, and a line that cannot be parsed,
\* as every line that is read after the connection has ended.
Line == [type : {"result", "error"}, id : Id] \cup {Received("junk", 0)}
Message == [type : {"request"}, timed : BOOLEAN] \cup Line

TypeOK ==
    /\ link \in {"connecting", "launched", "started", "exited"}
    /\ mailbox \in Seq(Message)
    /\ lastId \in 0..MaxRequests
    /\ busy \in [at : Stage, id : 0..MaxRequests, timed : BOOLEAN]
    /\ callbacks \subseteq Id /\ timeoutActors \subseteq Id
    /\ saw \in [Thread -> SUBSET Id]
    /\ timer \in [Id -> {"none", "waiting", "forgetting", "unlisting", "expired", "disabled"}]
    /\ wire \subseteq Id /\ lines \in 0..MaxLines
    /\ called \in [Id -> Nat] /\ heard \subseteq Id
    /\ raced \subseteq Entry

Init ==
    /\ link = "connecting"
    /\ mailbox = <<>>
    /\ lastId = 0 /\ busy = Idle
    /\ callbacks = {} /\ timeoutActors = {}
    /\ saw = [t \in Thread |-> {}]
    /\ timer = [id \in Id |-> "none"]
    /\ wire = {} /\ lines = 0
    /\ called = [id \in Id |-> 0] /\ heard = {}
    /\ raced = {}

(***************************************************************************)
(* Changing a map.  Where what a thread saw and what the map holds now     *)
(* differ, either may remain.                                              *)
(***************************************************************************)
Differ(now, then) == (now \ then) \cup (then \ now)
Merged(now, then) == {(now \cap then) \cup d : d \in SUBSET Differ(now, then)}
AfterPut(now, then, id) == {m \cup {id} : m \in Merged(now, then)}
AfterRemove(now, then, id) ==
    {m \ {id} : m \in Merged(now, then)} \cup (IF now = then THEN {} ELSE Merged(now, then))

Sees(t, map) == saw' = [saw EXCEPT ![t] = map]

\* The entries that are not as they were, or missed their removal, because of a race.
Undone(now, then, after) == {x \in Differ(now, then) : ~(x \in now <=> x \in after)}
Missed(now, then, after, id) == IF now = then THEN {} ELSE {id} \cap after

Put(name, map, t, id, after) ==
    /\ after \in AfterPut(map, saw[t], id)
    /\ raced' = raced \cup ({name} \X Undone(map, saw[t], after))
Remove(name, map, t, id, after) ==
    /\ after \in AfterRemove(map, saw[t], id)
    /\ raced' = raced \cup ({name} \X (Undone(map, saw[t], after)
                                         \cup Missed(map, saw[t], after, id)))

(***************************************************************************)
(* The connection.  When it cannot be made the user is asked: the GUI      *)
(* tries again or exits.  The GUI is launched, and may send requests,      *)
(* before the Manager gets to react to them.                               *)
(***************************************************************************)
InitializeConnection ==
    /\ link = "connecting"
    /\ link' \in {"launched", "exited"}
    /\ UNCHANGED <<mailbox, lastId, busy, maps, timer, core, called, heard>>

InitializedConnection ==
    /\ link = "launched"
    /\ link' = "started"
    /\ UNCHANGED <<mailbox, lastId, busy, maps, timer, core, called, heard>>

Waiting == {k \in DOMAIN mailbox : mailbox[k].type = "request"}

GuiRequests(t) ==
    /\ link \in {"launched", "started"}
    /\ lastId + Cardinality(Waiting) < MaxRequests
    /\ mailbox' = Append(mailbox, Request(t))
    /\ UNCHANGED <<link, lastId, busy, maps, timer, core, called, heard>>

\* Listener.  The core answers a request when it likes, as often as it likes.
Listen(l) ==
    /\ link = "started"
    /\ l.type # "junk" => l.id \in wire
    /\ lines < MaxLines
    /\ lines' = lines + 1
    /\ mailbox' = Append(mailbox, l)
    /\ UNCHANGED <<link, lastId, busy, maps, timer, wire, called, heard>>

(***************************************************************************)
(* sendMessage: the callback is stored, the request goes to the Writer,    *)
(* and the timer, if there is to be one, is started before it is listed.   *)
(***************************************************************************)
Takes == link = "started" /\ busy = Idle /\ mailbox # <<>> /\ mailbox' = Tail(mailbox)

SendMessage ==
    /\ Takes /\ Head(mailbox).type = "request"
    /\ lastId < MaxRequests     \* as GuiRequests has it
    /\ lastId' = lastId + 1
    /\ busy' = Storing(lastId', Head(mailbox).timed)
    /\ Sees(Actor, callbacks)
    /\ UNCHANGED <<link, callbacks, timeoutActors, raced, timer, core, called,
                   heard>>

StoreCallback(id) ==
    /\ \E t \in BOOLEAN :
         /\ busy = Storing(id, t)
         /\ IF t THEN /\ busy' = At("listing", id)
                      /\ timer' = [timer EXCEPT ![id] = "waiting"]
                      /\ Sees(Actor, timeoutActors)
                 ELSE busy' = Idle /\ Sees(Actor, {}) /\ UNCHANGED timer
    /\ Put("callbacks", callbacks, Actor, id, callbacks')
    /\ wire' = wire \cup {id}
    /\ UNCHANGED <<link, mailbox, lastId, timeoutActors, lines, called, heard>>

\* registerTimeout, its last line.
RegisterTimeout(id) ==
    /\ busy = At("listing", id)
    /\ busy' = Idle
    /\ Put("timeoutActors", timeoutActors, Actor, id, timeoutActors')
    /\ Sees(Actor, {})
    /\ UNCHANGED <<link, mailbox, lastId, callbacks, timer, core, called, heard>>

(***************************************************************************)
(* The timer's actor.  It reacts to one message, TIMEOUT or 'Disable; the  *)
(* entry of a timer that was disabled stays in timeoutActors.              *)
(***************************************************************************)
TimedOut(id) ==
    /\ timer[id] = "waiting"
    /\ timer' = [timer EXCEPT ![id] = "forgetting"]
    /\ Sees(id, callbacks)
    /\ UNCHANGED <<link, mailbox, lastId, busy, callbacks, timeoutActors, raced,
                   core, called, heard>>

\* Slip: the callback of the last request is removed.
RemoveLast(id) ==
    /\ timer[id] = "forgetting"
    /\ timer' = [timer EXCEPT ![id] = "unlisting"]
    /\ Remove("callbacks", callbacks, id, lastId, callbacks')
    /\ Sees(id, timeoutActors)
    /\ UNCHANGED <<link, mailbox, lastId, busy, timeoutActors, core, called, heard>>
RemoveCallback(id) ==
    /\ timer[id] = "forgetting"
    /\ timer' = [timer EXCEPT ![id] = "unlisting"]
    /\ Remove("callbacks", callbacks, id, id, callbacks')
    /\ Sees(id, timeoutActors)
    /\ UNCHANGED <<link, mailbox, lastId, busy, timeoutActors, core, called, heard>>

\* The timer leaves the table and calls timeoutCallback.
TimeoutCallback(id) ==
    /\ timer[id] = "unlisting"
    /\ timer' = [timer EXCEPT ![id] = "expired"]
    /\ Remove("timeoutActors", timeoutActors, id, id, timeoutActors')
    /\ Sees(id, {})
    /\ UNCHANGED <<link, mailbox, lastId, busy, callbacks, core, called, heard>>

\* Slip: the timer of the last request is disabled.
DisableLast(id) ==
    timer' = IF lastId \in timeoutActors /\ timer[lastId] = "waiting"
               THEN [timer EXCEPT ![lastId] = "disabled"] ELSE timer
Disable(id) ==
    timer' = IF id \in timeoutActors /\ timer[id] = "waiting"
               THEN [timer EXCEPT ![id] = "disabled"] ELSE timer

(***************************************************************************)
(* parseResponse and handleResponse.  An error is printed, and so is what  *)
(* cannot be parsed.                                                       *)
(***************************************************************************)
\* Slips: an error disables the timer too; junk is taken for a response.
ParseDisables ==
    /\ Takes /\ Head(mailbox).type \in {"error", "junk"}
    /\ heard' = heard \cup ({Head(mailbox).id} \cap Id)
    /\ Disable(Head(mailbox).id)
    /\ UNCHANGED <<link, lastId, busy, maps, core, called>>
ParseJunk ==
    /\ Takes /\ Head(mailbox).type \in {"error", "junk"}
    /\ heard' = heard \cup {Head(mailbox).id}
    /\ UNCHANGED <<link, lastId, busy, maps, timer, core, called>>
ParseResponse ==
    /\ Takes /\ Head(mailbox).type \in {"error", "junk"}
    /\ heard' = heard \cup ({Head(mailbox).id} \cap Id)
    /\ UNCHANGED <<link, lastId, busy, maps, timer, core, called>>

HandleResponse ==
    LET id == Head(mailbox).id IN
    /\ Takes /\ Head(mailbox).type = "result"
    /\ heard' = heard \cup {id}
    /\ Disable(id)
    /\ busy' = At("getting", id)
    /\ UNCHANGED <<link, lastId, maps, core, called>>

\* Slip: only requests with a timer are looked up.
GetTimed(id) ==
    /\ busy = At("getting", id)
    /\ busy' = IF id \in callbacks \cap timeoutActors THEN At("running", id) ELSE Idle
    /\ UNCHANGED <<link, mailbox, lastId, maps, timer, core, called, heard>>
GetCallback(id) ==
    /\ busy = At("getting", id)
    /\ busy' = IF id \in callbacks THEN At("running", id) ELSE Idle
    /\ UNCHANGED <<link, mailbox, lastId, maps, timer, core, called, heard>>

RunCallback(id) ==
    /\ busy = At("running", id)
    /\ busy' = Idle
    /\ called' = [called EXCEPT ![id] = @ + 1]
    /\ UNCHANGED <<link, mailbox, lastId, maps, timer, core, heard>>

ManagerStep ==
    \/ SendMessage \/ ParseResponse \/ HandleResponse
    \/ \E id \in Id : \/ StoreCallback(id) \/ RegisterTimeout(id)
                      \/ GetCallback(id) \/ RunCallback(id)
TimerStep(id) == TimedOut(id) \/ RemoveCallback(id) \/ TimeoutCallback(id)

Next ==
    \/ InitializeConnection \/ InitializedConnection
    \/ \E t \in BOOLEAN : GuiRequests(t)
    \/ \E l \in Line : Listen(l)
    \/ ManagerStep
    \/ \E id \in Id : TimerStep(id)

Spec == Init /\ [][Next]_vars

(***************************************************************************)
(* Fairness.  The actors' scheduler runs the Manager while it has          *)
(* something to do, and time passes for every timer.  A callback that      *)
(* shows a dialog is assumed to be closed by the user.  The core need not  *)
(* answer.                                                                 *)
(***************************************************************************)
LiveSpec == Spec /\ WF_vars(ManagerStep) /\ \A id \in Id : WF_vars(TimerStep(id))

(***************************************************************************)
(*                               Properties                                *)
(***************************************************************************)

Raced(name, id) == <<name, id>> \in raced

\* A request that was written has its callback until its own timeout, and not after
\* it, so that later responses are discarded; what other requests and their timers
\* do changes this only where two threads changed the map at once.
CallbacksTrack ==
    \A id \in Id : ~Raced("callbacks", id) =>
       (id \in callbacks <=> id \in wire /\ timer[id] \notin {"unlisting", "expired"})

\* Once the callback of a request ran, its timer is not waiting any more: it was
\* disabled or was already running out, unless its entry in the table was lost.
AnsweredDisarmed ==
    \A id \in Id : called[id] > 0 =>
       timer[id] # "waiting" \/ Raced("timeoutActors", id)

\* A request with a timeout ends in its callback or in its timeoutCallback, whatever
\* the core answers and however the response meets the timer, unless its callback
\* was lost.
TimedRequestEnds ==
    \A id \in Id : timer[id] = "waiting" ~>
       (called[id] > 0 \/ timer[id] = "expired" \/ Raced("callbacks", id))

HasResult(id) == \E k \in DOMAIN mailbox : mailbox[k] = Received("result", id)

\* A response with a result that is read reaches the callback of its request, unless
\* the request timed out or its callback was lost.
ResultReaches ==
    \A id \in Id : HasResult(id) ~>
       (called[id] > 0 \/ timer[id] = "expired" \/ Raced("callbacks", id))

(***************************************************************************)
(* What the source says, and the code does not do.                         *)
(***************************************************************************)

\* Manager.scala:34-37 says that timeoutCallback is not called if a response for the
\* request was received.
TimeoutOnlyUnanswered ==
    [][\A id \in Id : timer[id] = "unlisting" /\ timer'[id] = "expired" => id \notin heard]_vars
================================================================================
