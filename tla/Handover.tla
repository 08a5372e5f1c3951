------------------------------- MODULE Handover -------------------------------
(***************************************************************************)
(* What the Java client promises the threads that call sendRequest,        *)
(* whatever its reader, its worker and whoever stops it do at a time:      *)
(*                                                                         *)
(*   - a call is refused only if the client was told to stop;              *)
(*   - responses are handed out in the order they came in, each once, to   *)
(*     callers that wait; only calls that were made are answered;          *)
(*   - until the client ends none is lost; it ends when it is told to, at  *)
(*     a line that is no response, or before there was any answer, and     *)
(*     then drops the last ones that were not handed out;                  *)
(*   - after its end it hands out what is left and one error, once.        *)
(*                                                                         *)
(* It does not promise that a caller gets the response to its own call,    *)
(* nor that every caller gets one.  The specification Backend implements   *)
(* it (Backend!ResponsesInOrder, checked by the runs of Backend and proved *)
(* in BackendProofs).                                                      *)
(***************************************************************************)
EXTENDS Naturals, Sequences

CONSTANTS Caller,   \* the threads that call
          Response, \* the response to the call of each
          Other,    \* the lines that are no response
          Stopped,  \* the error at the end
          Nothing   \* got nothing yet

VARIABLES calls,    \* the call of each caller
          got,      \* what each caller got
          queue,    \* the lines that came in and were not handed out, in order
          answered, \* the calls that were answered
          stopping, \* whether the client was told to stop
          phase     \* whether the client runs

vars == <<calls, got, queue, answered, stopping, phase>>

Init == /\ calls = [c \in Caller |-> "none"]
        /\ got = [c \in Caller |-> Nothing]
        /\ queue = <<>>
        /\ answered = {}
        /\ stopping = FALSE
        /\ phase = "running"

Call(c) ==
    /\ calls[c] = "none"
    /\ calls' = [calls EXCEPT ![c] = "made"]
    /\ UNCHANGED <<got, queue, answered, stopping, phase>>

Refuse(c) ==
    /\ calls[c] = "none" /\ stopping
    /\ calls' = [calls EXCEPT ![c] = "refused"]
    /\ UNCHANGED <<got, queue, answered, stopping, phase>>

Arrive(c) ==
    /\ calls[c] \in {"made", "returned"} /\ c \notin answered
    /\ answered' = answered \cup {c}
    /\ queue' = IF phase = "running" THEN Append(queue, Response[c]) ELSE queue
    /\ UNCHANGED <<calls, got, stopping, phase>>

ArriveOther ==
    /\ phase = "running"
    /\ \E line \in Other : queue' = Append(queue, line)
    /\ UNCHANGED <<calls, got, answered, stopping, phase>>

\* A line that is no response is worked off, and may tell the client to stop.
Skip ==
    /\ phase = "running"
    /\ \E i \in DOMAIN queue :
          /\ queue[i] \in Other
          /\ queue' = SubSeq(queue, 1, i - 1) \o SubSeq(queue, i + 1, Len(queue))
    /\ stopping' \in {stopping, TRUE}
    /\ UNCHANGED <<calls, got, answered, phase>>

Take(c) ==
    /\ calls[c] = "made"
    /\ queue # <<>> /\ Head(queue) \notin Other
    /\ calls' = [calls EXCEPT ![c] = "returned"]
    /\ got' = [got EXCEPT ![c] = Head(queue)]
    /\ queue' = Tail(queue)
    /\ UNCHANGED <<answered, stopping, phase>>

Stop ==
    /\ stopping' = TRUE
    /\ UNCHANGED <<calls, got, queue, answered, phase>>

End ==
    /\ phase = "running"
    /\ phase' = "ending"
    /\ \E i \in 0..Len(queue) :
          /\ queue' = SubSeq(queue, 1, i)
          /\ \/ stopping
             \/ i < Len(queue) /\ queue[i + 1] \in Other
             \/ answered = {}
    /\ UNCHANGED <<calls, got, answered, stopping>>

Close ==
    /\ phase = "ending"
    /\ phase' = "ended"
    /\ queue' = Append(queue, Stopped)
    /\ UNCHANGED <<calls, got, answered, stopping>>

Next ==
    \/ \E c \in Caller : Call(c) \/ Refuse(c) \/ Arrive(c) \/ Take(c)
    \/ ArriveOther \/ Skip \/ Stop \/ End \/ Close

Spec == Init /\ [][Next]_vars
===============================================================================
