------------------------------- MODULE Backend -------------------------------
(***************************************************************************)
(* The JSON-RPC client of the Java test program                            *)
(* (devtest/rpctest/src/rpctest/JsonRpcBackend.java): threads that call    *)
(* sendRequest, a reader of the socket, a worker that does all reading of  *)
(* input and writing of output, and whoever stops it.  They share four     *)
(* queues, the flag stop, and a condition with a flag that remembers a     *)
(* signal nobody waited for.                                               *)
(*                                                                         *)
(* An action is what a thread does under one lock, or one access to what   *)
(* no lock protects.  A call is identified by its caller, a response by    *)
(* the call it answers.  The other end (the core) answers the calls in any *)
(* order, makes requests, and may send lines that are no message.          *)
(***************************************************************************)
EXTENDS Naturals, Sequences

CONSTANTS Caller,  \* the threads that call sendRequest, once each
          NoCall,  \* the call of a line that answers none
          MaxLines \* bound: the lines of the other end that answer no call

ASSUME BackendAssumption == MaxLines \in Nat /\ NoCall \notin Caller

VARIABLES stop,              \* the flag of the backend
          shouldBlock,       \* FALSE if there was a signal since the last round
          rawInput,          \* lines from the reader, by kind
          responses,         \* lines for the callers
          outgoingResponses, \* how many replies to requests are to be written
          outgoingCalls,     \* the calls to be written
          worker,            \* where the worker is
          inputs,            \* its local list of lines
          reader,            \* where the reader is
          readerStop,        \* the flag of the reader
          caller,            \* where each caller is
          result,            \* what each caller got
          stopper,           \* where a call of stopHandling from outside is
          sent,              \* the calls that were written to the socket
          answered,          \* the calls the other end has answered
          lines              \* how many other lines it has sent

flags == <<stop, shouldBlock>>
queues == <<rawInput, responses, outgoingResponses, outgoingCalls>>
threads == <<inputs, readerStop, result>>
wire == <<sent, answered, lines>>
vars == <<flags, queues, threads, wire, worker, reader, caller, stopper>>

Line == [kind : {"response"}, call : Caller]
        \cup [kind : {"request", "illformed", "garbage"}, call : {NoCall}]
Stopped == [kind |-> "stopped", call |-> NoCall]
Result == [kind : {"response"}, call : Caller] \cup {Stopped}
Nothing == [kind |-> "nothing", call |-> NoCall]

TypeOK ==
    /\ stop \in BOOLEAN /\ shouldBlock \in BOOLEAN /\ readerStop \in BOOLEAN
    /\ rawInput \in Seq(Line) /\ inputs \in Seq(Line)
    /\ responses \in Seq(Result)
    /\ outgoingResponses \in Nat
    /\ outgoingCalls \subseteq Caller
    /\ worker \in {"connect", "check", "fetch", "process", "write", "block", "waiting",
                   "closing", "done"}
    /\ reader \in {"off", "reading", "signalling", "null", "stopping", "ended"}
    /\ caller \in [Caller -> {"idle", "checked", "added", "taking", "returned", "thrown"}]
    /\ result \in [Caller -> Result \cup {Nothing}]
    /\ \A c \in Caller : result[c] = Nothing <=> caller[c] # "returned"
    /\ stopper \in {"idle", "stopping", "done"}
    /\ sent \subseteq Caller /\ answered \subseteq sent
    /\ lines \in 0..MaxLines

Init ==
    /\ stop = FALSE /\ shouldBlock = TRUE /\ readerStop = FALSE
    /\ rawInput = <<>> /\ inputs = <<>> /\ responses = <<>>
    /\ outgoingResponses = 0 /\ outgoingCalls = {}
    /\ worker = "connect" /\ reader = "off" /\ stopper = "idle"
    /\ caller = [c \in Caller |-> "idle"]
    /\ result = [c \in Caller |-> Nothing]
    /\ sent = {} /\ answered = {} /\ lines = 0

\* Under conditionLock: remember the signal, and wake the worker if it waits.
\* Slip: a signal that nobody waits for is not remembered.
SignalOnly ==
    /\ UNCHANGED shouldBlock
    /\ worker' = IF worker = "waiting" THEN "block" ELSE worker
Signal ==
    /\ shouldBlock' = FALSE
    /\ worker' = IF worker = "waiting" THEN "block" ELSE worker

\* The flags stop are not volatile: a thread that reads one without a lock may see
\* the value of before.  (The worker reads its flag after a round with
\* conditionLock, which whoever sets it takes next; to see it late is the same
\* as its being set late.)
MaySee(flag) == {flag, FALSE}

(***************************************************************************)
(* sendRequest: look at stop, put the call in the queue, signal, take the  *)
(* next response, whosever it is.                                          *)
(***************************************************************************)
CallerAt(c, s) == caller' = [caller EXCEPT ![c] = s]

SendRequest(c) ==
    /\ caller[c] = "idle"
    /\ \E seen \in MaySee(stop) : CallerAt(c, IF seen THEN "thrown" ELSE "checked")
    /\ UNCHANGED <<flags, queues, threads, wire, worker, reader, stopper>>

AddCall(c) ==
    /\ caller[c] = "checked"
    /\ CallerAt(c, "added")
    /\ outgoingCalls' = outgoingCalls \cup {c}
    /\ UNCHANGED <<flags, rawInput, responses, outgoingResponses, threads, wire, worker,
                   reader, stopper>>

SignalCall(c) ==
    /\ caller[c] = "added"
    /\ CallerAt(c, "taking")
    /\ Signal
    /\ UNCHANGED <<stop, queues, threads, wire, reader, stopper>>

\* Slip: what the queue holds now, which may be nothing.
Poll(c) ==
    /\ caller[c] = "taking"
    /\ CallerAt(c, "returned")
    /\ IF responses = <<>> THEN UNCHANGED <<result, responses>>
       ELSE /\ result' = [result EXCEPT ![c] = Head(responses)]
            /\ responses' = Tail(responses)
    /\ UNCHANGED <<flags, rawInput, outgoingResponses, outgoingCalls, inputs, readerStop,
                   wire, worker, reader, stopper>>
Take(c) ==
    /\ caller[c] = "taking"
    /\ responses # <<>>
    /\ CallerAt(c, "returned")
    /\ result' = [result EXCEPT ![c] = Head(responses)]
    /\ responses' = Tail(responses)
    /\ UNCHANGED <<flags, rawInput, outgoingResponses, outgoingCalls, inputs, readerStop,
                   wire, worker, reader, stopper>>

(***************************************************************************)
(* InputReader.run and socketInput.  inputLock is held by the worker from  *)
(* fetching the lines until it has processed them, and by the reader while *)
(* it stops the backend.                                                   *)
(***************************************************************************)
InputFree == worker # "process"

ReadLine ==
    /\ reader = "reading" /\ InputFree
    /\ reader' = "signalling"
    /\ \/ \E c \in sent \ answered :
             /\ rawInput' = Append(rawInput, [kind |-> "response", call |-> c])
             /\ answered' = answered \cup {c}
             /\ UNCHANGED lines
       \/ \E k \in {"request", "illformed", "garbage"} :
             /\ lines < MaxLines
             /\ lines' = lines + 1
             /\ rawInput' = Append(rawInput, [kind |-> k, call |-> NoCall])
             /\ UNCHANGED answered
    /\ UNCHANGED <<flags, responses, outgoingResponses, outgoingCalls, threads, sent, worker,
                   caller, stopper>>

SignalInput ==
    /\ reader = "signalling"
    /\ \E seen \in MaySee(readerStop) : reader' = IF seen THEN "ended" ELSE "reading"
    /\ Signal
    /\ UNCHANGED <<stop, queues, threads, wire, caller, stopper>>

\* The other end closed the connection: a null line, and stopHandling in two steps.
ReadNull ==
    /\ reader = "reading"
    /\ reader' = "null"
    /\ UNCHANGED <<flags, queues, threads, wire, worker, caller, stopper>>

\* Slip: only the flag is set.
FlagOnNull ==
    /\ reader = "null" /\ InputFree
    /\ reader' = "ended"
    /\ stop' = TRUE
    /\ UNCHANGED <<shouldBlock, queues, threads, wire, worker, caller, stopper>>
StopOnNull ==
    /\ reader = "null" /\ InputFree
    /\ reader' = "stopping"
    /\ stop' = TRUE
    /\ UNCHANGED <<shouldBlock, queues, threads, wire, worker, caller, stopper>>

SignalNull ==
    /\ reader = "stopping"
    /\ reader' = "ended"
    /\ Signal
    /\ UNCHANGED <<stop, queues, threads, wire, caller, stopper>>

\* readLine throws: the thread ends and tells nobody.
ReadThrows ==
    /\ reader = "reading"
    /\ reader' = "ended"
    /\ UNCHANGED <<flags, queues, threads, wire, worker, caller, stopper>>

\* stopHandling, called from outside.
StopHandling ==
    /\ stopper = "idle"
    /\ stopper' = "stopping"
    /\ stop' = TRUE
    /\ UNCHANGED <<shouldBlock, queues, threads, wire, worker, reader, caller>>

SignalStop ==
    /\ stopper = "stopping"
    /\ stopper' = "done"
    /\ Signal
    /\ UNCHANGED <<stop, queues, threads, wire, reader, caller>>

(***************************************************************************)
(* run.                                                                    *)
(***************************************************************************)
Goto(s) == worker' = s

Connect ==
    /\ worker = "connect"
    /\ \/ Goto("check") /\ reader' = "reading"
       \/ Goto("closing") /\ UNCHANGED reader
    /\ UNCHANGED <<flags, queues, threads, wire, caller, stopper>>

CheckStop ==
    /\ worker = "check"
    /\ Goto(IF stop THEN "closing" ELSE "fetch")
    /\ UNCHANGED <<flags, queues, threads, wire, reader, caller, stopper>>

\* Slip: the lines stay with the reader.
FetchKeeps ==
    /\ worker = "fetch" /\ reader # "stopping"
    /\ Goto("process")
    /\ inputs' = rawInput
    /\ UNCHANGED <<rawInput, flags, responses, outgoingResponses, outgoingCalls, readerStop,
                   result, wire, reader, caller, stopper>>
Fetch ==
    /\ worker = "fetch" /\ reader # "stopping"
    /\ Goto("process")
    /\ inputs' = rawInput /\ rawInput' = <<>>
    /\ UNCHANGED <<flags, responses, outgoingResponses, outgoingCalls, readerStop, result,
                   wire, reader, caller, stopper>>

\* Slip: a response is put at the head of the callers' queue.
ProcessPush ==
    /\ worker = "process" /\ inputs # <<>>
    /\ LET line == Head(inputs) IN
       /\ inputs' = IF line.kind = "garbage" THEN <<>> ELSE Tail(inputs)
       /\ Goto(IF line.kind = "garbage" THEN "closing" ELSE "process")
       /\ responses' = IF line.kind = "response" THEN <<line>> \o responses ELSE responses
       /\ \/ line.kind = "request" /\ outgoingResponses' = outgoingResponses + 1
          \/ UNCHANGED outgoingResponses
       /\ IF line.kind = "illformed" THEN stop' = TRUE /\ shouldBlock' = FALSE
                                     ELSE UNCHANGED flags
    /\ UNCHANGED <<rawInput, outgoingCalls, readerStop, result, wire, reader, caller, stopper>>
\* One line.  A response goes to the callers; a request to the receiver, if there
\* is one; an object that is neither stops the backend after this round; a line
\* that is no JSON object throws out of the loop.
Process ==
    /\ worker = "process" /\ inputs # <<>>
    /\ LET line == Head(inputs) IN
       /\ inputs' = IF line.kind = "garbage" THEN <<>> ELSE Tail(inputs)
       /\ Goto(IF line.kind = "garbage" THEN "closing" ELSE "process")
       /\ responses' = IF line.kind = "response" THEN Append(responses, line) ELSE responses
       /\ \/ line.kind = "request" /\ outgoingResponses' = outgoingResponses + 1
          \/ UNCHANGED outgoingResponses
       /\ IF line.kind = "illformed" THEN stop' = TRUE /\ shouldBlock' = FALSE
                                     ELSE UNCHANGED flags
    /\ UNCHANGED <<rawInput, outgoingCalls, readerStop, result, wire, reader, caller, stopper>>

ProcessEnds ==
    /\ worker = "process" /\ inputs = <<>>
    /\ Goto("write")
    /\ UNCHANGED <<flags, queues, threads, wire, reader, caller, stopper>>

Write ==
    /\ worker = "write"
    /\ Goto("block")
    /\ outgoingResponses' = 0
    /\ sent' = sent \cup outgoingCalls
    /\ outgoingCalls' = {}
    /\ UNCHANGED <<flags, rawInput, responses, threads, answered, lines, reader, caller,
                   stopper>>

\* Under conditionLock.  Waiting releases the lock; a wakeup may be spurious.
\* Slip: it waits without a look at the flag.
BlockAlways ==
    /\ worker = "block"
    /\ shouldBlock' = TRUE
    /\ Goto("waiting")
    /\ UNCHANGED <<stop, queues, threads, wire, reader, caller, stopper>>
Block ==
    /\ worker = "block"
    /\ shouldBlock' = TRUE
    /\ Goto(IF shouldBlock THEN "waiting" ELSE "check")
    /\ UNCHANGED <<stop, queues, threads, wire, reader, caller, stopper>>

SpuriousWakeup ==
    /\ worker = "waiting"
    /\ Goto("block")
    /\ UNCHANGED <<flags, queues, threads, wire, reader, caller, stopper>>

\* The finally clause: one error response, whoever waits; the reader is told.
Close ==
    /\ worker = "closing"
    /\ Goto("done")
    /\ responses' = Append(responses, Stopped)
    /\ readerStop' = (reader # "off")
    /\ UNCHANGED <<flags, rawInput, outgoingResponses, outgoingCalls, inputs, result, wire,
                   reader, caller, stopper>>

Worker == Connect \/ CheckStop \/ Fetch \/ Process \/ ProcessEnds \/ Write \/ Block \/ Close
Signalling == SignalInput \/ StopOnNull \/ SignalNull \/ SignalStop

Next ==
    \/ Worker \/ SpuriousWakeup
    \/ ReadLine \/ ReadNull \/ ReadThrows \/ Signalling
    \/ StopHandling
    \/ \E c \in Caller : SendRequest(c) \/ AddCall(c) \/ SignalCall(c) \/ Take(c)

Spec == Init /\ [][Next]_vars

(***************************************************************************)
(* Fairness: a thread that is neither blocked nor waiting goes on, and a   *)
(* caller takes a response that stays.  Spurious wakeups are not relied    *)
(* on, the other end owes nothing, and nobody needs to call or to stop.    *)
(***************************************************************************)
LiveSpec ==
    /\ Spec
    /\ WF_vars(Worker)
    /\ WF_vars(SignalInput) /\ WF_vars(StopOnNull) /\ WF_vars(SignalNull) /\ WF_vars(SignalStop)
    /\ \A c \in Caller : WF_vars(AddCall(c)) /\ WF_vars(SignalCall(c)) /\ WF_vars(Take(c))

(***************************************************************************)
(*                               Properties                                *)
(***************************************************************************)

\* The worker is about to wait, or waits, and no signal was given to it.
Asleep == worker \in {"block", "waiting"} /\ shouldBlock

\* The worker never sleeps over work: while it does, each call in the queue, each
\* line and each wish to stop belongs to a thread that has still to signal; and a
\* worker that waits has not been signalled.
NoLostWakeup ==
    /\ Asleep => /\ \A c \in outgoingCalls : caller[c] = "added"
                 /\ rawInput # <<>> => reader = "signalling"
                 /\ stop => reader = "stopping" \/ stopper = "stopping"
                 /\ outgoingResponses = 0
    /\ worker = "waiting" => shouldBlock

\* A call that was put in the queue is written, or the worker ends.
CallWritten == \A c \in Caller : caller[c] = "added" ~> (c \in sent \/ worker = "done")

\* A backend that is told to stop does.
StopEnds == stop ~> worker = "done"

\* Where a response may be.
places == [rawInput |-> rawInput, inputs |-> inputs, responses |-> responses, result |-> result]
Has(place, c) == \E k \in DOMAIN place : place[k].call = c
Single(place, c) ==
    \A j, k \in DOMAIN place : place[j].call = c /\ place[k].call = c => j = k
Holders(c) == {x \in DOMAIN places : Has(places[x], c)}

\* The response to a call that was answered is in one place, there once, until the
\* worker ends: none is dropped between the reader, the worker and the callers, and no
\* two callers get the same one, though a caller takes whichever comes first.
HandedOnce ==
    \A c \in Caller :
       /\ \A x, y \in Holders(c) : x = y
       /\ \A x \in Holders(c) : Single(places[x], c)
       /\ c \in answered /\ worker \notin {"closing", "done"} => Holders(c) # {}

\* What a caller lets know of its call, where the worker is as seen from outside, and
\* the lines that were read and not handed out, in order: the worker's end drops those
\* it has not passed on.
StageOf == [idle |-> "none", checked |-> "none", added |-> "made", taking |-> "made",
            returned |-> "returned", thrown |-> "refused"]
Stages == [c \in Caller |-> StageOf[caller[c]]]
Phase == IF worker = "closing" THEN "ending" ELSE IF worker = "done" THEN "ended" ELSE "running"
InOrder == IF Phase = "running" THEN (responses \o inputs) \o rawInput ELSE responses

Promised == INSTANCE Handover
    WITH Response <- [c \in Caller |-> [kind |-> "response", call |-> c]],
         Other <- {line \in Line : line.kind # "response"},
         calls <- Stages, got <- result, queue <- InOrder, stopping <- stop, phase <- Phase

\* The client implements Handover: over the reader's queue, the worker's list and the
\* callers' queue, responses are handed out in the order they were read, each once, to
\* callers that were not refused, and none is lost before the worker ends, which takes
\* a wish to stop or a line that is no message.
ResponsesInOrder == Promised!Spec

(***************************************************************************)
(* What the source says, and the code does not do.                         *)
(***************************************************************************)

\* JsonRpcBackend.java:379-380 says that the end of run wakes all threads that
\* wait for results.
AllWoken == \A c \in Caller : worker = "done" /\ caller[c] = "taking" ~> caller[c] = "returned"

\* JsonRpcBackend.java:135 says that sendRequest returns the result of the call.
OwnResult == \A c \in Caller : result[c].kind = "response" => result[c].call = c
==============================================================================
