---------------------------- MODULE BackendProofs ----------------------------
(***************************************************************************)
(* Theorems about Backend, for any number of callers and of lines from the *)
(* other end: its type invariant, that no wakeup is lost, that a response  *)
(* is handed out once, and that the client implements Handover.            *)
(***************************************************************************)
EXTENDS Backend, TLAPS, SequenceTheorems

(***************************************************************************)
(* The type invariant.                                                     *)
(***************************************************************************)

LEMMA QueueTail ==
    ASSUME NEW S, NEW q \in Seq(S), q # <<>>
    PROVE  Head(q) \in S /\ Tail(q) \in Seq(S)
  BY HeadTailProperties

LEMMA QueueAppend ==
    ASSUME NEW S, NEW q \in Seq(S), NEW x \in S
    PROVE  Append(q, x) \in Seq(S)
  BY AppendProperties

\* A line that is a response is also a result.
LEMMA ResponseIsResult ==
    ASSUME NEW line \in Line, line.kind = "response"
    PROVE  line \in Result
  BY DEF Line, Result

\* What a caller gets is not nothing.
LEMMA ResultIsSomething == \A r \in Result : r # Nothing
<1>1. \A r \in Result : r.kind \in {"response", "stopped"}
  BY DEF Result, Stopped
<1> QED
  BY <1>1 DEF Nothing

LEMMA TypeInit == Init => TypeOK
<1> SUFFICES ASSUME Init PROVE TypeOK
  OBVIOUS
<1>1. rawInput \in Seq(Line) /\ inputs \in Seq(Line) /\ responses \in Seq(Result)
  BY DEF Init
<1>2. result \in [Caller -> Result \cup {Nothing}]
  BY DEF Init
<1>3. \A c \in Caller : result[c] = Nothing /\ caller[c] # "returned"
  BY DEF Init
<1>4. caller \in [Caller -> {"idle", "checked", "added", "taking", "returned", "thrown"}]
  BY DEF Init
<1>5. /\ stop \in BOOLEAN /\ shouldBlock \in BOOLEAN /\ readerStop \in BOOLEAN
      /\ worker = "connect" /\ reader = "off" /\ stopper = "idle"
  BY DEF Init
<1>6. outgoingResponses \in Nat /\ lines \in 0..MaxLines
  BY BackendAssumption DEF Init
<1>7. outgoingCalls \subseteq Caller /\ sent \subseteq Caller /\ answered \subseteq sent
  BY DEF Init
<1> QED
  BY <1>1, <1>2, <1>3, <1>4, <1>5, <1>6, <1>7 DEF TypeOK

\* A caller that goes on, but not to its end, changes no type.
LEMMA CallerType ==
    ASSUME TypeOK, NEW c \in Caller, NEW s \in {"checked", "added", "taking", "thrown"},
           caller[c] # "returned", CallerAt(c, s), UNCHANGED result
    PROVE  /\ caller' \in [Caller -> {"idle", "checked", "added", "taking", "returned", "thrown"}]
           /\ \A d \in Caller : result'[d] = Nothing <=> caller'[d] # "returned"
  BY DEF TypeOK, CallerAt

LEMMA TypeStep == TypeOK /\ [Next]_vars => TypeOK'
<1> SUFFICES ASSUME TypeOK, [Next]_vars PROVE TypeOK'
  OBVIOUS
<1> USE DEF vars, flags, queues, threads, wire
<1>1. ASSUME NEW c \in Caller, SendRequest(c) PROVE TypeOK'
  <2>1. PICK s \in {"checked", "thrown"} : CallerAt(c, s)
    BY <1>1 DEF SendRequest
  <2>2. caller[c] # "returned" /\ UNCHANGED result
    BY <1>1 DEF SendRequest
  <2> QED
    BY <1>1, <2>1, <2>2, CallerType DEF SendRequest, TypeOK
<1>2. ASSUME NEW c \in Caller, AddCall(c) PROVE TypeOK'
  <2>1. CallerAt(c, "added") /\ caller[c] # "returned" /\ UNCHANGED result
    BY <1>2 DEF AddCall
  <2> QED
    BY <1>2, <2>1, CallerType DEF AddCall, TypeOK
<1>3. ASSUME NEW c \in Caller, SignalCall(c) PROVE TypeOK'
  <2>1. CallerAt(c, "taking") /\ caller[c] # "returned" /\ UNCHANGED result
    BY <1>3 DEF SignalCall
  <2> QED
    BY <1>3, <2>1, CallerType DEF SignalCall, Signal, TypeOK
<1>4. ASSUME NEW c \in Caller, Take(c) PROVE TypeOK'
  <2>1. /\ responses # <<>> /\ responses \in Seq(Result)
        /\ result' = [result EXCEPT ![c] = Head(responses)]
        /\ responses' = Tail(responses)
        /\ caller' = [caller EXCEPT ![c] = "returned"]
    BY <1>4 DEF Take, CallerAt, TypeOK
  <2>2. Head(responses) \in Result /\ responses' \in Seq(Result)
    BY <2>1, QueueTail
  <2>3. Head(responses) # Nothing
    BY <2>2, ResultIsSomething
  <2>4. /\ result' \in [Caller -> Result \cup {Nothing}]
        /\ caller' \in [Caller -> {"idle", "checked", "added", "taking", "returned", "thrown"}]
        /\ \A d \in Caller : result'[d] = Nothing <=> caller'[d] # "returned"
    BY <2>1, <2>2, <2>3 DEF TypeOK
  <2> QED
    BY <1>4, <2>2, <2>4 DEF Take, TypeOK
<1>5. CASE ReadLine
  <2>1. PICK line \in Line : rawInput' = Append(rawInput, line)
    BY <1>5 DEF ReadLine, Line, TypeOK
  <2>2. rawInput' \in Seq(Line)
    BY <2>1, QueueAppend DEF TypeOK
  <2>3. answered' \subseteq sent
    BY <1>5 DEF ReadLine, TypeOK
  <2>4. lines' \in 0..MaxLines
    <3>1. lines' = lines \/ (lines < MaxLines /\ lines' = lines + 1)
      BY <1>5 DEF ReadLine
    <3> QED
      BY <3>1, BackendAssumption DEF TypeOK
  <2> QED
    BY <1>5, <2>2, <2>3, <2>4 DEF ReadLine, TypeOK
<1>6. CASE SignalInput
  BY <1>6 DEF SignalInput, Signal, TypeOK
<1>7. CASE ReadNull \/ ReadThrows \/ StopOnNull \/ StopHandling
  BY <1>7 DEF ReadNull, ReadThrows, StopOnNull, StopHandling, TypeOK
<1>8. CASE SignalNull \/ SignalStop
  BY <1>8 DEF SignalNull, SignalStop, Signal, TypeOK
<1>9. CASE Connect \/ CheckStop \/ ProcessEnds \/ Block \/ SpuriousWakeup
  BY <1>9 DEF Connect, CheckStop, ProcessEnds, Block, SpuriousWakeup, Goto, TypeOK
<1>10. CASE Fetch
  BY <1>10 DEF Fetch, Goto, TypeOK
<1>11. CASE Process
  <2> DEFINE line == Head(inputs)
  <2>1. line \in Line /\ Tail(inputs) \in Seq(Line)
    BY <1>11, QueueTail DEF Process, TypeOK
  <2>2. inputs' \in Seq(Line)
    BY <1>11, <2>1 DEF Process
  <2>3. responses' \in Seq(Result)
    BY <1>11, <2>1, ResponseIsResult, QueueAppend DEF Process, TypeOK
  <2>4. stop' \in BOOLEAN /\ shouldBlock' \in BOOLEAN
    <3>1. CASE line.kind = "illformed"
      BY <1>11, <3>1 DEF Process
    <3>2. CASE line.kind # "illformed"
      BY <1>11, <3>2 DEF Process, TypeOK
    <3> QED
      BY <3>1, <3>2
  <2>6. outgoingResponses' \in Nat
    <3>1. outgoingResponses' \in {outgoingResponses, outgoingResponses + 1}
      BY <1>11 DEF Process
    <3> QED
      BY <3>1 DEF TypeOK
  <2>5. worker' \in {"closing", "process"}
    BY <1>11 DEF Process, Goto
  <2> QED
    BY <1>11, <2>2, <2>3, <2>4, <2>5, <2>6 DEF Process, TypeOK
<1>12. CASE Write
  BY <1>12 DEF Write, Goto, TypeOK
<1>13. CASE Close
  <2>1. responses' \in Seq(Result)
    BY <1>13, QueueAppend DEF Close, Result, TypeOK
  <2> QED
    BY <1>13, <2>1 DEF Close, Goto, TypeOK
<1>14. CASE UNCHANGED vars
  BY <1>14 DEF TypeOK
<1> QED
  BY <1>1, <1>2, <1>3, <1>4, <1>5, <1>6, <1>7, <1>8, <1>9, <1>10, <1>11, <1>12, <1>13,
     <1>14 DEF Next, Worker, Signalling

\* Spec => []TypeOK: every queue holds what belongs in it, and a caller has a result
\* exactly when it returned.
THEOREM TypeCorrect == Spec => []TypeOK
  BY TypeInit, TypeStep, PTL DEF Spec

(***************************************************************************)
(* No lost wakeup.  The worker looks at its sources of work one after the  *)
(* other: stop, the lines, the replies, the calls.  Once it has looked at  *)
(* one in a round, nothing more may come from there without a signal in    *)
(* hand or still to be given; each invariant says so from the place where  *)
(* the worker has looked.                                                  *)
(***************************************************************************)

StopSignalled ==
    shouldBlock /\ worker \in {"fetch", "process", "write", "block", "waiting"} /\ stop
      => reader = "stopping" \/ stopper = "stopping"

LinesSignalled ==
    shouldBlock /\ worker \in {"process", "write", "block", "waiting"} /\ rawInput # <<>>
      => reader = "signalling"

CallsSignalled ==
    shouldBlock /\ worker \in {"block", "waiting"}
      => \A c \in outgoingCalls : caller[c] = "added"

\* Replies come from the worker itself.
RepliesWritten ==
    worker \notin {"process", "write", "closing", "done"} => outgoingResponses = 0

WaitsUnsignalled == worker = "waiting" => shouldBlock

Awake == /\ StopSignalled /\ LinesSignalled /\ CallsSignalled
         /\ RepliesWritten /\ WaitsUnsignalled

LEMMA AwakeInit == Init => Awake
  BY DEF Init, Awake, StopSignalled, LinesSignalled, CallsSignalled, RepliesWritten,
         WaitsUnsignalled

\* After a signal the worker neither waits nor would.
LEMMA SignalWakes ==
    ASSUME TypeOK, Awake, Signal, UNCHANGED outgoingResponses
    PROVE  Awake'
  BY DEF Signal, TypeOK, Awake, StopSignalled, LinesSignalled, CallsSignalled,
         RepliesWritten, WaitsUnsignalled

LEMMA AwakeStep == TypeOK /\ Awake /\ [Next]_vars => Awake'
<1> SUFFICES ASSUME TypeOK, Awake, [Next]_vars PROVE Awake'
  OBVIOUS
<1> USE DEF vars, flags, queues, threads, wire, Awake, StopSignalled, LinesSignalled,
            CallsSignalled, RepliesWritten, WaitsUnsignalled
<1>1. ASSUME NEW c \in Caller, SendRequest(c) PROVE Awake'
  BY <1>1 DEF SendRequest, CallerAt, TypeOK
<1>2. ASSUME NEW c \in Caller, AddCall(c) PROVE Awake'
  BY <1>2 DEF AddCall, CallerAt, TypeOK
<1>3. ASSUME NEW c \in Caller, SignalCall(c) PROVE Awake'
  BY <1>3, SignalWakes DEF SignalCall
<1>4. ASSUME NEW c \in Caller, Take(c) PROVE Awake'
  BY <1>4 DEF Take, CallerAt, TypeOK
<1>5. CASE ReadLine
  BY <1>5 DEF ReadLine, InputFree
<1>6. CASE SignalInput
  BY <1>6, SignalWakes DEF SignalInput
<1>7. CASE ReadNull \/ ReadThrows \/ StopOnNull \/ StopHandling
  BY <1>7 DEF ReadNull, ReadThrows, StopOnNull, StopHandling
<1>8. CASE SignalNull \/ SignalStop
  BY <1>8, SignalWakes DEF SignalNull, SignalStop
<1>9. CASE Connect \/ CheckStop \/ ProcessEnds \/ Block \/ SpuriousWakeup
  BY <1>9 DEF Connect, CheckStop, ProcessEnds, Block, SpuriousWakeup, Goto
<1>10. CASE Fetch
  BY <1>10 DEF Fetch, Goto
<1>11. CASE Process
  BY <1>11 DEF Process, Goto
<1>12. CASE Write
  BY <1>12 DEF Write, Goto
<1>13. CASE Close
  BY <1>13 DEF Close, Goto
<1>14. CASE UNCHANGED vars
  BY <1>14
<1> QED
  BY <1>1, <1>2, <1>3, <1>4, <1>5, <1>6, <1>7, <1>8, <1>9, <1>10, <1>11, <1>12, <1>13,
     <1>14 DEF Next, Worker, Signalling

\* Spec => []NoLostWakeup: while the worker sleeps, all work in its queues belongs to
\* a thread that has still to signal.
THEOREM WakeupsKept == Spec => []NoLostWakeup
<1>1. TypeOK /\ Awake => NoLostWakeup
  BY DEF NoLostWakeup, Asleep, Awake, StopSignalled, LinesSignalled, CallsSignalled,
         RepliesWritten, WaitsUnsignalled
<1>2. Init => TypeOK /\ Awake
  BY TypeInit, AwakeInit
<1>3. TypeOK /\ Awake /\ [Next]_vars => (TypeOK /\ Awake)'
  BY TypeStep, AwakeStep
<1> QED
  BY <1>1, <1>2, <1>3, PTL DEF Spec

(***************************************************************************)
(* Every response is handed to one caller at most.  The worker's local     *)
(* list is empty between two rounds, so that fetching drops nothing.       *)
(***************************************************************************)
LEMMA CallAppended ==
    ASSUME NEW S, NEW q \in Seq(S), NEW x \in S, NEW c
    PROVE  /\ Has(Append(q, x), c) <=> Has(q, c) \/ x.call = c
           /\ Single(q, c) /\ ~(Has(q, c) /\ x.call = c) => Single(Append(q, x), c)
<1> DEFINE a == Append(q, x)
<1>1. /\ a \in Seq(S) /\ Len(a) = Len(q) + 1
      /\ \A i \in 1..Len(q) : a[i] = q[i]
      /\ a[Len(q) + 1] = x
  BY AppendProperties
<1>2. DOMAIN q = 1..Len(q) /\ DOMAIN a = 1..Len(a) /\ Len(q) \in Nat
  BY <1>1, LenProperties
<1> HIDE DEF a
<1>3. \A i \in DOMAIN a : i = Len(q) + 1 \/ (i \in DOMAIN q /\ a[i] = q[i])
  BY <1>1, <1>2
<1>4. \A i \in DOMAIN q : i \in DOMAIN a /\ a[i] = q[i]
  BY <1>1, <1>2
<1>5. Len(q) + 1 \in DOMAIN a
  BY <1>1, <1>2
<1>6. Has(a, c) <=> Has(q, c) \/ x.call = c
  BY <1>1, <1>3, <1>4, <1>5 DEF Has
<1>7. ASSUME Single(q, c), ~(Has(q, c) /\ x.call = c) PROVE Single(a, c)
  BY <1>1, <1>3, <1>7 DEF Has, Single
<1> QED
  BY <1>6, <1>7 DEF a

LEMMA CallTaken ==
    ASSUME NEW S, NEW q \in Seq(S), q # <<>>, NEW c
    PROVE  /\ Has(q, c) <=> Has(Tail(q), c) \/ Head(q).call = c
           /\ Single(q, c) => Single(Tail(q), c) /\ ~(Has(Tail(q), c) /\ Head(q).call = c)
<1> DEFINE r == Tail(q)
<1>1. r \in Seq(S) /\ Len(r) = Len(q) - 1 /\ \A i \in 1..Len(r) : r[i] = q[i + 1]
  BY HeadTailProperties
<1>2. /\ DOMAIN q = 1..Len(q) /\ DOMAIN r = 1..Len(r)
      /\ Len(q) \in Nat /\ Len(q) > 0 /\ Head(q) = q[1]
  BY <1>1, LenProperties
<1> HIDE DEF r
<1>3. 1 \in DOMAIN q /\ \A i \in DOMAIN r : i + 1 \in DOMAIN q /\ r[i] = q[i + 1]
  BY <1>1, <1>2
<1>4. \A i \in DOMAIN q : i = 1 \/ (i - 1 \in DOMAIN r /\ r[i - 1] = q[i])
  BY <1>1, <1>2
<1>5. Has(q, c) <=> Has(r, c) \/ Head(q).call = c
  BY <1>2, <1>3, <1>4 DEF Has
<1>6. ASSUME Single(q, c) PROVE Single(r, c) /\ ~(Has(r, c) /\ Head(q).call = c)
  <2>1. \A i \in DOMAIN r : i \in Nat /\ i > 0
    BY <1>2
  <2>2. Single(r, c)
    BY <1>3, <1>6, <2>1 DEF Single
  <2>3. ~(Has(r, c) /\ Head(q).call = c)
    BY <1>2, <1>3, <1>6, <2>1 DEF Single, Has
  <2> QED
    BY <2>2, <2>3
<1> QED
  BY <1>5, <1>6 DEF r

\* The response to c is in one place at most, there once, and nowhere before c was
\* answered.
Held(c) ==
    /\ Single(rawInput, c) /\ Single(inputs, c) /\ Single(responses, c) /\ Single(result, c)
    /\ Has(rawInput, c) => ~Has(inputs, c) /\ ~Has(responses, c) /\ ~Has(result, c)
    /\ Has(inputs, c) => ~Has(responses, c) /\ ~Has(result, c)
    /\ Has(responses, c) => ~Has(result, c)

Somewhere(c) == Has(rawInput, c) \/ Has(inputs, c) \/ Has(responses, c) \/ Has(result, c)

Handed ==
    /\ inputs # <<>> => worker = "process"
    /\ \A c \in Caller :
          /\ Held(c)
          /\ Somewhere(c) => c \in answered
          /\ c \in answered /\ worker \notin {"closing", "done"} => Somewhere(c)

LEMMA EmptyHas == \A c : ~Has(<<>>, c) /\ Single(<<>>, c)
BY DEF Has, Single

LEMMA HandedInit == Init => Handed
<1> SUFFICES ASSUME Init, NEW c \in Caller PROVE Held(c) /\ ~Somewhere(c)
  BY DEF Init, Handed
<1>1. ~Has(result, c) /\ Single(result, c)
  BY BackendAssumption DEF Init, Has, Single, Nothing
<1> QED
  BY <1>1, EmptyHas DEF Init, Held, Somewhere

LEMMA HandedStep == TypeOK /\ Handed /\ [Next]_vars => Handed'
<1> SUFFICES ASSUME TypeOK, Handed, [Next]_vars PROVE Handed'
  OBVIOUS
<1> USE DEF vars, flags, queues, threads, wire
<1>a. \A c \in Caller : c # NoCall
  BY BackendAssumption
<1>b. ASSUME UNCHANGED <<rawInput, inputs, responses, result, answered>>,
             inputs # <<>> => worker' = "process",
             worker' \in {"closing", "done"} \/ worker \notin {"closing", "done"}
      PROVE  Handed'
  BY <1>b DEF Handed, Held, Somewhere
<1>1. ASSUME NEW c \in Caller, SendRequest(c) \/ AddCall(c) PROVE Handed'
  BY <1>1, <1>b DEF SendRequest, AddCall, Handed
<1>2. ASSUME NEW c \in Caller, SignalCall(c) PROVE Handed'
  BY <1>2, <1>b DEF SignalCall, Signal, Handed
<1>3. ASSUME NEW d \in Caller, Take(d) PROVE Handed'
  <2>1. /\ responses # <<>> /\ responses \in Seq(Result)
        /\ result' = [result EXCEPT ![d] = Head(responses)]
        /\ responses' = Tail(responses)
        /\ UNCHANGED <<rawInput, inputs, answered, worker>>
        /\ caller[d] = "taking"
    BY <1>3 DEF Take, TypeOK
  <2>2. result[d] = Nothing /\ result \in [Caller -> Result \cup {Nothing}]
    BY <2>1 DEF TypeOK
  <2>3. ASSUME NEW c \in Caller
        PROVE  /\ Has(result', c) <=> Has(result, c) \/ Head(responses).call = c
               /\ Single(result, c) /\ ~(Has(result, c) /\ Head(responses).call = c)
                     => Single(result', c)
    <3>1. Nothing.call # c
      BY <1>a DEF Nothing
    <3>2. DOMAIN result = Caller /\ DOMAIN result' = Caller
      BY <2>1, <2>2
    <3>3. result'[d] = Head(responses) /\ \A e \in Caller : e # d => result'[e] = result[e]
      BY <2>1, <2>2
    <3> QED
      BY <2>2, <3>1, <3>2, <3>3 DEF Has, Single
  <2>4. ASSUME NEW c \in Caller
        PROVE  /\ Held(c)'
               /\ Somewhere(c)' <=> Somewhere(c)
    BY <2>1, <2>3, CallTaken DEF Handed, Held, Somewhere
  <2> QED
    BY <2>1, <2>4 DEF Handed
<1>4. CASE ReadLine
  <2>1. PICK line \in Line :
          /\ rawInput' = Append(rawInput, line)
          /\ \/ line.call \in Caller \ answered /\ answered' = answered \cup {line.call}
             \/ line.call = NoCall /\ answered' = answered
    <3>1. CASE \E c \in sent \ answered :
                  /\ rawInput' = Append(rawInput, [kind |-> "response", call |-> c])
                  /\ answered' = answered \cup {c}
      <4>1. PICK c \in sent \ answered :
                  /\ rawInput' = Append(rawInput, [kind |-> "response", call |-> c])
                  /\ answered' = answered \cup {c}
        BY <3>1
      <4>2. c \in Caller \ answered /\ [kind |-> "response", call |-> c] \in Line
        BY <4>1 DEF TypeOK, Line
      <4> QED
        BY <4>1, <4>2
    <3>2. CASE \E k \in {"request", "illformed", "garbage"} :
                  /\ rawInput' = Append(rawInput, [kind |-> k, call |-> NoCall])
                  /\ answered' = answered
      <4>1. PICK k \in {"request", "illformed", "garbage"} :
                  /\ rawInput' = Append(rawInput, [kind |-> k, call |-> NoCall])
                  /\ answered' = answered
        BY <3>2
      <4>2. [kind |-> k, call |-> NoCall] \in Line
        BY DEF Line
      <4> QED
        BY <4>1, <4>2
    <3> QED
      BY <1>4, <3>1, <3>2 DEF ReadLine
  <2>2. rawInput \in Seq(Line) /\ UNCHANGED <<inputs, responses, result, worker>>
    BY <1>4 DEF ReadLine, TypeOK
  <2>3. ASSUME NEW c \in Caller
        PROVE  /\ Held(c)'
               /\ Somewhere(c)' <=> Somewhere(c) \/ line.call = c
    BY <1>a, <2>1, <2>2, CallAppended DEF Handed, Held, Somewhere
  <2> QED
    BY <1>a, <2>1, <2>2, <2>3 DEF Handed
<1>5. CASE SignalInput \/ SignalNull \/ SignalStop
  BY <1>5, <1>b DEF SignalInput, SignalNull, SignalStop, Signal, Handed
<1>6. CASE ReadNull \/ ReadThrows \/ StopOnNull \/ StopHandling
  BY <1>6, <1>b DEF ReadNull, ReadThrows, StopOnNull, StopHandling, Handed
<1>7. CASE Connect \/ CheckStop \/ ProcessEnds \/ Block \/ SpuriousWakeup \/ Write
  BY <1>7, <1>b DEF Connect, CheckStop, ProcessEnds, Block, SpuriousWakeup, Write, Goto, Handed
<1>8. CASE Fetch
  <2>1. /\ inputs = <<>> /\ inputs' = rawInput /\ rawInput' = <<>>
        /\ worker = "fetch" /\ worker' = "process"
        /\ UNCHANGED <<responses, result, answered>>
    BY <1>8 DEF Fetch, Goto, Handed
  <2>2. ASSUME NEW c \in Caller PROVE Held(c)' /\ (Somewhere(c)' <=> Somewhere(c))
    BY <2>1, EmptyHas DEF Handed, Held, Somewhere
  <2> QED
    BY <2>1, <2>2 DEF Handed
<1>9. CASE Process
  <2> DEFINE line == Head(inputs)
  <2>1. /\ worker = "process" /\ inputs # <<>> /\ inputs \in Seq(Line) /\ line \in Line
        /\ UNCHANGED <<rawInput, result, answered>>
        /\ responses \in Seq(Result)
    BY <1>9, QueueTail DEF Process, TypeOK
  <2>2. line.kind # "response" => line.call = NoCall
    BY <2>1 DEF Line
  <2>3. CASE line.kind = "response"
    <3>1. /\ inputs' = Tail(inputs) /\ worker' = "process"
          /\ responses' = Append(responses, line) /\ line \in Result
      BY <1>9, <2>1, <2>3, ResponseIsResult DEF Process, Goto
    <3> HIDE DEF line
    <3>2. ASSUME NEW c \in Caller PROVE Held(c)' /\ (Somewhere(c)' <=> Somewhere(c))
      BY <2>1, <3>1, CallTaken, CallAppended DEF Handed, Held, Somewhere, line
    <3> QED
      BY <2>1, <3>1, <3>2 DEF Handed
  <2>4. CASE line.kind \notin {"response", "garbage"}
    <3>1. inputs' = Tail(inputs) /\ worker' = "process" /\ responses' = responses
      BY <1>9, <2>4 DEF Process, Goto
    <3>2. ASSUME NEW c \in Caller PROVE Held(c)' /\ (Somewhere(c)' <=> Somewhere(c))
      BY <1>a, <2>1, <2>2, <2>4, <3>1, CallTaken DEF Handed, Held, Somewhere
    <3> QED
      BY <2>1, <3>1, <3>2 DEF Handed
  <2>5. CASE line.kind = "garbage"
    <3>1. inputs' = <<>> /\ worker' = "closing" /\ responses' = responses
      BY <1>9, <2>5 DEF Process, Goto
    <3>2. ASSUME NEW c \in Caller PROVE Held(c)' /\ (Somewhere(c)' => Somewhere(c))
      BY <2>1, <3>1, EmptyHas DEF Handed, Held, Somewhere
    <3> QED
      BY <2>1, <3>1, <3>2 DEF Handed
  <2> QED
    BY <2>3, <2>4, <2>5
<1>10. CASE Close
  <2>1. /\ responses' = Append(responses, Stopped) /\ responses \in Seq(Result)
        /\ Stopped \in Result /\ Stopped.call = NoCall
        /\ worker = "closing" /\ worker' = "done"
        /\ UNCHANGED <<rawInput, inputs, result, answered>>
    BY <1>10 DEF Close, Goto, TypeOK, Result, Stopped
  <2>2. ASSUME NEW c \in Caller PROVE Held(c)' /\ (Somewhere(c)' <=> Somewhere(c))
    BY <1>a, <2>1, CallAppended DEF Handed, Held, Somewhere
  <2> QED
    BY <2>1, <2>2 DEF Handed
<1>11. CASE UNCHANGED vars
  BY <1>11, <1>b DEF Handed
<1> QED
  BY <1>1, <1>2, <1>3, <1>4, <1>5, <1>6, <1>7, <1>8, <1>9, <1>10, <1>11
     DEF Next, Worker, Signalling

\* Spec => []HandedOnce: no response is dropped while the worker runs, and none is
\* handed out twice, for any number of callers and lines.
THEOREM ResponsesKept == Spec => []HandedOnce
<1>1. Handed => HandedOnce
  <2> SUFFICES ASSUME Handed, NEW c \in Caller
               PROVE  /\ \A x, y \in Holders(c) : x = y
                      /\ \A x \in Holders(c) : Single(places[x], c)
                      /\ c \in answered /\ worker \notin {"closing", "done"} => Holders(c) # {}
    BY DEF HandedOnce
  <2>1. /\ DOMAIN places = {"rawInput", "inputs", "responses", "result"}
        /\ places["rawInput"] = rawInput /\ places["inputs"] = inputs
        /\ places["responses"] = responses /\ places["result"] = result
    BY DEF places
  <2> QED
    BY <2>1 DEF Handed, Held, Somewhere, Holders
<1>2. Init => TypeOK /\ Handed
  BY TypeInit, HandedInit
<1>3. TypeOK /\ Handed /\ [Next]_vars => (TypeOK /\ Handed)'
  BY TypeStep, HandedStep
<1> QED
  BY <1>1, <1>2, <1>3, PTL DEF Spec

(***************************************************************************)
(* The client implements Handover.  First, three queues end to end.        *)
(***************************************************************************)

LEMMA Front ==
    ASSUME NEW S, NEW s \in Seq(S), NEW u \in Seq(S)
    PROVE  SubSeq(s \o u, 1, Len(s)) = s
<1>1. Len(s) \in Nat BY LenProperties
<1>2. CASE s = <<>>
  <2>1. Len(s) < 1 /\ Len(s) \in Int /\ 1 \in Int BY <1>2, EmptySeq
  <2> QED BY <1>2, <2>1, SubSeqEmpty
<1>3. CASE s # <<>>
  <2>1. 1 \in 1..Len(s) /\ Len(s) \in 1..Len(s) BY <1>1, <1>3, EmptySeq
  <2>2. SubSeq(s \o u, 1, Len(s)) = SubSeq(s, 1, Len(s)) BY <2>1, SubSeqOfConcat1
  <2> QED BY <2>2, SubSeqFull
<1> QED BY <1>2, <1>3

LEMMA Rest ==
    ASSUME NEW S, NEW s \in Seq(S), NEW u \in Seq(S)
    PROVE  SubSeq(s \o u, Len(s) + 1, Len(s \o u)) = u
<1>1. Len(s) \in Nat /\ Len(u) \in Nat BY LenProperties
<1>2. Len(s \o u) = Len(s) + Len(u) BY ConcatProperties
<1> DEFINE m == Len(s) + 1
           n == Len(s) + Len(u)
<1>3. CASE u = <<>>
  <2>1. Len(u) = 0 BY <1>3, EmptySeq
  <2>2. n < m /\ n \in Int /\ m \in Int BY <1>1, <2>1
  <2>3. SubSeq(s \o u, m, n) = <<>> BY <2>2, SubSeqEmpty
  <2> QED BY <1>2, <1>3, <2>3
<1>4. CASE u # <<>>
  <2>1. Len(u) # 0 BY <1>4, EmptySeq
  <2>2. m \in m..n /\ n \in m..n /\ m - Len(s) = 1 /\ n - Len(s) = Len(u) BY <1>1, <2>1
  <2>3. SubSeq(s \o u, m, n) = SubSeq(u, m - Len(s), n - Len(s)) BY <2>2, SubSeqOfConcat2
  <2> QED BY <1>2, <2>2, <2>3, SubSeqFull
<1> QED BY <1>3, <1>4

LEMMA HeadAndTail ==
    ASSUME NEW S, NEW s \in Seq(S), s # <<>>
    PROVE  /\ s = <<Head(s)>> \o Tail(s)
           /\ Tail(s) \in Seq(S) /\ Head(s) \in S /\ <<Head(s)>> \in Seq(S)
<1>1. Len(s) \in Nat /\ Len(s) # 0 BY EmptySeq
<1>2. 1 \in 1..Len(s) /\ Len(s) \in 1..Len(s) /\ 1 + 1 = 2 BY <1>1
<1>3. SubSeq(s, 1, Len(s)) = <<s[1]>> \o SubSeq(s, 1 + 1, Len(s))
  BY <1>2, SubSeqRecursiveFirst
<1>4. Tail(s) = SubSeq(s, 2, Len(s)) /\ SubSeq(s, 1, Len(s)) = s BY TailIsSubSeq, SubSeqFull
<1>5. Head(s) = s[1] /\ Tail(s) \in Seq(S) /\ Head(s) \in S BY HeadTailProperties
<1>6. <<Head(s)>> \in Seq(S) BY <1>5
<1> QED BY <1>2, <1>3, <1>4, <1>5, <1>6

\* The first line of the second queue goes to the end of the first.
LEMMA JoinMoves ==
    ASSUME NEW S, NEW r \in Seq(S), NEW i \in Seq(S), i # <<>>
    PROVE  Append(r, Head(i)) \o Tail(i) = r \o i
<1>1. /\ i = <<Head(i)>> \o Tail(i)
      /\ Tail(i) \in Seq(S) /\ Head(i) \in S /\ <<Head(i)>> \in Seq(S)
  BY HeadAndTail
<1>2. Append(r, Head(i)) = r \o <<Head(i)>> BY <1>1, AppendIsConcat
<1>3. (r \o <<Head(i)>>) \o Tail(i) = r \o (<<Head(i)>> \o Tail(i))
  BY <1>1, ConcatAssociative
<1> QED BY <1>1, <1>2, <1>3

\* A call is queued, and written, after it was made; and nothing is written before the
\* worker has connected.
CallsQueued ==
    /\ \A c \in outgoingCalls \cup sent : caller[c] \in {"added", "taking", "returned"}
    /\ worker = "connect" => sent = {}

LEMMA QueuedInit == Init => CallsQueued
BY DEF Init, CallsQueued

LEMMA QueuedStep == TypeOK /\ CallsQueued /\ [Next]_vars => CallsQueued'
<1> SUFFICES ASSUME TypeOK, CallsQueued, [Next]_vars PROVE CallsQueued'
  OBVIOUS
<1> USE DEF vars, flags, queues, threads, wire
<1>1. /\ outgoingCalls \subseteq Caller /\ sent \subseteq Caller
      /\ \A c \in Caller : caller[c] \in {"idle", "checked", "added", "taking", "returned", "thrown"}
      /\ caller \in [Caller -> {"idle", "checked", "added", "taking", "returned", "thrown"}]
  BY DEF TypeOK
<1>2. ASSUME NEW c \in Caller, SendRequest(c) PROVE CallsQueued'
  BY <1>1, <1>2 DEF SendRequest, CallerAt, CallsQueued
<1>3. ASSUME NEW c \in Caller, AddCall(c) PROVE CallsQueued'
  BY <1>1, <1>3 DEF AddCall, CallerAt, CallsQueued
<1>4. ASSUME NEW c \in Caller, SignalCall(c) PROVE CallsQueued'
  BY <1>1, <1>4 DEF SignalCall, Signal, CallerAt, CallsQueued
<1>5. ASSUME NEW c \in Caller, Take(c) PROVE CallsQueued'
  BY <1>1, <1>5 DEF Take, CallerAt, CallsQueued
<1>6. CASE Write
  BY <1>1, <1>6 DEF Write, Goto, CallsQueued
<1>7. CASE ReadLine \/ ReadNull \/ ReadThrows \/ StopOnNull \/ StopHandling
  BY <1>7 DEF ReadLine, ReadNull, ReadThrows, StopOnNull, StopHandling, CallsQueued
<1>8. CASE SignalInput \/ SignalNull \/ SignalStop
  BY <1>8 DEF SignalInput, SignalNull, SignalStop, Signal, CallsQueued
<1>9. CASE Connect \/ CheckStop \/ Fetch \/ ProcessEnds \/ Block \/ SpuriousWakeup \/ Close
  BY <1>9 DEF Connect, CheckStop, Fetch, ProcessEnds, Block, SpuriousWakeup, Close, Goto,
              CallsQueued
<1>10. CASE Process
  BY <1>10 DEF Process, Goto, CallsQueued
<1>11. CASE UNCHANGED vars
  BY <1>11 DEF CallsQueued
<1> QED
  BY <1>2, <1>3, <1>4, <1>5, <1>6, <1>7, <1>8, <1>9, <1>10, <1>11
     DEF Next, Worker, Signalling

\* What the queues may hold.
Queued == Line \cup Result
LEMMA QueueTypes ==
    ASSUME TypeOK
    PROVE  /\ responses \in Seq(Queued) /\ inputs \in Seq(Queued) /\ rawInput \in Seq(Queued)
           /\ (responses \o inputs) \o rawInput \in Seq(Queued)
           /\ InOrder \in Seq(Queued)
<1>1. Line \subseteq Queued /\ Result \subseteq Queued BY DEF Queued
<1>2. responses \in Seq(Result) /\ inputs \in Seq(Line) /\ rawInput \in Seq(Line)
  BY DEF TypeOK
<1>3. responses \in Seq(Queued) /\ inputs \in Seq(Queued) /\ rawInput \in Seq(Queued)
  BY <1>1, <1>2, SeqMonotonic
<1>4. responses \o inputs \in Seq(Queued) BY <1>3, ConcatProperties
<1>5. (responses \o inputs) \o rawInput \in Seq(Queued) BY <1>3, <1>4, ConcatProperties
<1> QED BY <1>3, <1>5 DEF InOrder

\* A step that shows nothing to the outside.
LEMMA Stutters ==
    ASSUME UNCHANGED <<caller, result, answered, stop>>, Phase' = Phase, InOrder' = InOrder
    PROVE  UNCHANGED Promised!vars
<1>1. Stages' = Stages BY DEF Stages
<1> QED BY <1>1 DEF Promised!vars

\* A caller that goes on.
LEMMA StageChanges ==
    ASSUME TypeOK, NEW c \in Caller,
           NEW s \in {"idle", "checked", "added", "taking", "returned", "thrown"}, CallerAt(c, s)
    PROVE  /\ Stages[c] = StageOf[caller[c]]
           /\ Stages' = [Stages EXCEPT ![c] = StageOf[s]]
           /\ StageOf[s] = StageOf[caller[c]] => Stages' = Stages
<1>1. caller' = [caller EXCEPT ![c] = s] /\ caller \in [Caller -> DOMAIN StageOf]
  BY DEF CallerAt, TypeOK, StageOf
<1>2. \A d \in Caller : caller'[d] = IF d = c THEN s ELSE caller[d] BY <1>1
<1> QED BY <1>2 DEF Stages

LEMMA InitHandover == Init => Promised!Init
<1> SUFFICES ASSUME Init PROVE Promised!Init OBVIOUS
<1>1. Stages = [c \in Caller |-> "none"] BY DEF Init, Stages, StageOf
<1>2. Phase = "running" BY DEF Init, Phase
<1>3. InOrder = <<>>
  <2>1. <<>> \in Seq(Line) BY EmptySeq
  <2>2. <<>> \o <<>> = <<>> BY <2>1, ConcatEmptySeq
  <2> QED BY <1>2, <2>2 DEF Init, InOrder
<1> QED BY <1>1, <1>2, <1>3 DEF Init, Promised!Init

(***************************************************************************)
(* The callers.                                                            *)
(***************************************************************************)
LEMMA CallersHandover ==
    ASSUME TypeOK, NEW c \in Caller, SendRequest(c) \/ AddCall(c) \/ SignalCall(c)
    PROVE  [Promised!Next]_Promised!vars
<1> USE DEF vars, flags, queues, threads, wire
<1>1. CASE SendRequest(c)
  <2>1. UNCHANGED <<Phase, InOrder, result, answered, stop>>
    BY <1>1 DEF SendRequest, Phase, InOrder
  <2>2. PICK s \in {"checked", "thrown"} : CallerAt(c, s) /\ (s = "thrown" => stop)
    <3>1. PICK seen \in MaySee(stop) : CallerAt(c, IF seen THEN "thrown" ELSE "checked")
      BY <1>1 DEF SendRequest
    <3>2. CASE seen
      <4>1. stop BY <3>1, <3>2, Zenon DEF MaySee
      <4> QED BY <3>1, <3>2, <4>1
    <3>3. CASE ~seen
      BY <3>1, <3>3
    <3> QED BY <3>2, <3>3
  <2>3. caller[c] = "idle" BY <1>1 DEF SendRequest
  <2>4. CASE s = "checked"
    <3>1. Stages' = Stages BY <2>2, <2>3, <2>4, StageChanges DEF StageOf
    <3> QED BY <2>1, <3>1 DEF Promised!vars
  <2>5. CASE s = "thrown"
    <3>1. Stages[c] = "none" /\ Stages' = [Stages EXCEPT ![c] = "refused"]
      BY <2>2, <2>3, <2>5, StageChanges DEF StageOf
    <3>2. Promised!Refuse(c) BY <2>1, <2>2, <2>5, <3>1 DEF Promised!Refuse
    <3> QED BY <3>2 DEF Promised!Next
  <2> QED BY <2>2, <2>4, <2>5
<1>2. CASE AddCall(c)
  <2>1. UNCHANGED <<Phase, InOrder, result, answered, stop>>
    BY <1>2 DEF AddCall, Phase, InOrder
  <2>2. Stages[c] = "none" /\ Stages' = [Stages EXCEPT ![c] = "made"]
    BY <1>2, StageChanges DEF AddCall, StageOf
  <2>3. Promised!Call(c) BY <2>1, <2>2 DEF Promised!Call
  <2> QED BY <2>3 DEF Promised!Next
<1>3. CASE SignalCall(c)
  <2>1. UNCHANGED <<Phase, InOrder, result, answered, stop>>
    BY <1>3 DEF SignalCall, Signal, Phase, InOrder
  <2>2. Stages' = Stages BY <1>3, StageChanges DEF SignalCall, StageOf
  <2> QED BY <2>1, <2>2 DEF Promised!vars
<1> QED BY <1>1, <1>2, <1>3

\* What is taken from the first queue is taken from all.
LEMMA HeadOfAll ==
    ASSUME TypeOK, responses # <<>>
    PROVE  /\ InOrder # <<>> /\ Head(InOrder) = Head(responses)
           /\ Phase = "running" => (Tail(responses) \o inputs) \o rawInput = Tail(InOrder)
<1> DEFINE r == responses
           rest == inputs \o rawInput
<1>1. r \in Seq(Queued) /\ inputs \in Seq(Queued) /\ rawInput \in Seq(Queued)
  BY QueueTypes
<1>2. CASE Phase # "running"
  BY <1>2 DEF InOrder
<1>3. CASE Phase = "running"
  <2>1. rest \in Seq(Queued) BY <1>1, ConcatProperties
  <2>2. Tail(r) \in Seq(Queued) /\ Len(r) \in Nat /\ Len(r) # 0 /\ Len(rest) \in Nat
        /\ Head(r) = r[1] /\ Len(Tail(r)) = Len(r) - 1
        /\ \A k \in 1..Len(Tail(r)) : Tail(r)[k] = r[k + 1]
    BY <1>1, <2>1, EmptySeq, HeadTailProperties, LenProperties
  <2>3. InOrder = r \o rest BY <1>1, <1>3, ConcatAssociative DEF InOrder
  <2>4. (Tail(r) \o inputs) \o rawInput = Tail(r) \o rest BY <1>1, <2>2, ConcatAssociative
  <2> HIDE DEF r, rest
  <2>5. /\ r \o rest \in Seq(Queued) /\ Len(r \o rest) = Len(r) + Len(rest)
        /\ \A k \in 1..(Len(r) + Len(rest)) :
              (r \o rest)[k] = IF k <= Len(r) THEN r[k] ELSE rest[k - Len(r)]
    BY <1>1, <2>1, ConcatProperties
  <2>6. r \o rest # <<>> /\ Head(r \o rest) = (r \o rest)[1] /\ (r \o rest)[1] = r[1]
    <3>1. r \o rest # <<>> BY <2>2, <2>5, EmptySeq
    <3>2. 1 \in 1..(Len(r) + Len(rest)) /\ 1 <= Len(r) BY <2>2
    <3>3. Head(r \o rest) = (r \o rest)[1] BY <3>1, <2>5, HeadTailProperties
    <3> QED BY <2>5, <3>1, <3>2, <3>3
  <2>7. /\ Tail(r \o rest) \in Seq(Queued) /\ Len(Tail(r \o rest)) = Len(r) + Len(rest) - 1
        /\ \A k \in 1..Len(Tail(r \o rest)) : Tail(r \o rest)[k] = (r \o rest)[k + 1]
    BY <2>5, <2>6, HeadTailProperties
  <2>8. /\ Tail(r) \o rest \in Seq(Queued)
        /\ Len(Tail(r) \o rest) = Len(Tail(r)) + Len(rest)
        /\ \A k \in 1..(Len(Tail(r)) + Len(rest)) :
              (Tail(r) \o rest)[k]
                 = IF k <= Len(Tail(r)) THEN Tail(r)[k] ELSE rest[k - Len(Tail(r))]
    BY <2>1, <2>2, ConcatProperties
  <2>9. Len(Tail(r) \o rest) = Len(Tail(r \o rest)) BY <2>2, <2>7, <2>8
  <2>10. ASSUME NEW k \in 1..Len(Tail(r) \o rest)
         PROVE  (Tail(r) \o rest)[k] = Tail(r \o rest)[k]
    <3>1. k \in 1..(Len(r) + Len(rest) - 1) /\ k + 1 \in 1..(Len(r) + Len(rest))
      BY <2>2, <2>8
    <3>2. Tail(r \o rest)[k] = IF k + 1 <= Len(r) THEN r[k + 1] ELSE rest[k + 1 - Len(r)]
      BY <2>5, <2>7, <3>1
    <3>3. (Tail(r) \o rest)[k]
             = IF k <= Len(r) - 1 THEN Tail(r)[k] ELSE rest[k - (Len(r) - 1)]
      BY <2>2, <2>8, <3>1
    <3>4. CASE k <= Len(r) - 1
      BY <2>2, <3>1, <3>2, <3>3, <3>4
    <3>5. CASE ~(k <= Len(r) - 1)
      <4>1. k + 1 - Len(r) = k - (Len(r) - 1) /\ ~(k + 1 <= Len(r)) BY <2>2, <3>1, <3>5
      <4> QED BY <3>2, <3>3, <3>5, <4>1
    <3> QED BY <3>4, <3>5
  <2>11. Tail(r) \o rest = Tail(r \o rest) BY <2>7, <2>8, <2>9, <2>10, SeqEqual
  <2> QED BY <2>2, <2>3, <2>4, <2>6, <2>11 DEF r
<1> QED BY <1>2, <1>3

LEMMA TakeHandover ==
    ASSUME TypeOK, NEW c \in Caller, Take(c)
    PROVE  Promised!Next
<1> USE DEF vars, flags, queues, threads, wire
<1>1. /\ responses # <<>> /\ responses' = Tail(responses)
      /\ result' = [result EXCEPT ![c] = Head(responses)]
      /\ UNCHANGED <<Phase, inputs, rawInput, answered, stop>>
  BY DEF Take, Phase
<1>2. Stages[c] = "made" /\ Stages' = [Stages EXCEPT ![c] = "returned"]
  BY StageChanges DEF Take, StageOf
<1>3. InOrder # <<>> /\ Head(InOrder) = Head(responses) /\ InOrder' = Tail(InOrder)
  BY <1>1, HeadOfAll DEF InOrder
<1>4. Head(responses) \notin {line \in Line : line.kind # "response"}
  <2>1. Head(responses) \in Result BY <1>1, HeadTailProperties DEF TypeOK
  <2>2. \A r \in Result : r \in Line => r.kind = "response"
    BY DEF Result, Line, Stopped
  <2> QED BY <2>1, <2>2
<1>5. Promised!Take(c) BY <1>1, <1>2, <1>3, <1>4 DEF Promised!Take
<1> QED BY <1>5 DEF Promised!Next

(***************************************************************************)
(* The reader and those who stop the client.                               *)
(***************************************************************************)
LEMMA ReaderHandover ==
    ASSUME TypeOK, CallsQueued, ReadLine
    PROVE  [Promised!Next]_Promised!vars
<1> USE DEF vars, flags, queues, threads, wire
<1>1. UNCHANGED <<caller, result, stop, responses, inputs, worker>>
  BY DEF ReadLine
<1>2. Stages' = Stages /\ Phase' = Phase BY <1>1 DEF Stages, Phase
<1>3. \A line \in Line : rawInput' = Append(rawInput, line)
         => InOrder' = IF Phase = "running" THEN Append(InOrder, line) ELSE InOrder
  <2> SUFFICES ASSUME NEW line \in Line, rawInput' = Append(rawInput, line)
               PROVE  InOrder' = IF Phase = "running" THEN Append(InOrder, line) ELSE InOrder
    OBVIOUS
  <2> DEFINE h == responses \o inputs
  <2>1. rawInput \in Seq(Queued) /\ h \in Seq(Queued) /\ line \in Queued
    BY QueueTypes, ConcatProperties DEF Queued
  <2>2. Append(rawInput, line) = rawInput \o <<line>> /\ <<line>> \in Seq(Queued)
    BY <2>1, AppendIsConcat
  <2>3. Append(h \o rawInput, line) = (h \o rawInput) \o <<line>>
    BY QueueTypes, <2>1, AppendIsConcat
  <2>4. h \o Append(rawInput, line) = Append(h \o rawInput, line)
    <3> HIDE DEF h
    <3> QED BY <2>1, <2>2, <2>3, ConcatAssociative
  <2> QED BY <1>1, <1>2, <2>4 DEF InOrder
<1>4. ASSUME NEW c \in sent \ answered,
             rawInput' = Append(rawInput, [kind |-> "response", call |-> c]),
             answered' = answered \cup {c}
      PROVE  Promised!Next
  <2>1. c \in Caller /\ caller[c] \in {"added", "taking", "returned"}
    BY DEF TypeOK, CallsQueued
  <2>2. [kind |-> "response", call |-> c] \in Line BY <2>1 DEF Line
  <2>3. Stages[c] \in {"made", "returned"} BY <2>1 DEF Stages, StageOf
  <2>4. [d \in Caller |-> [kind |-> "response", call |-> d]][c]
           = [kind |-> "response", call |-> c]
    BY <2>1
  <2>5. InOrder' = IF Phase = "running"
                     THEN Append(InOrder, [kind |-> "response", call |-> c]) ELSE InOrder
    BY <1>3, <1>4, <2>2
  <2>6. Promised!Arrive(c)
    BY <1>1, <1>2, <1>4, <2>3, <2>4, <2>5 DEF Promised!Arrive
  <2> QED BY <2>1, <2>6 DEF Promised!Next
<1>5. ASSUME NEW k \in {"request", "illformed", "garbage"},
             rawInput' = Append(rawInput, [kind |-> k, call |-> NoCall]), answered' = answered
      PROVE  [Promised!Next]_Promised!vars
  <2> DEFINE line == [kind |-> k, call |-> NoCall]
  <2>1. line \in Line /\ line.kind # "response" BY DEF Line
  <2>2. InOrder' = IF Phase = "running" THEN Append(InOrder, line) ELSE InOrder
    BY <1>3, <1>5, <2>1
  <2>3. line \in {l \in Line : l.kind # "response"} BY <2>1
  <2> HIDE DEF line
  <2>4. CASE Phase = "running"
    <3>1. Promised!ArriveOther
      BY <1>1, <1>2, <1>5, <2>2, <2>3, <2>4 DEF Promised!ArriveOther
    <3> QED BY <3>1 DEF Promised!Next
  <2>5. CASE Phase # "running"
    BY <1>1, <1>2, <1>5, <2>2, <2>5, Stutters
  <2> QED BY <2>4, <2>5
<1> QED BY <1>4, <1>5 DEF ReadLine

LEMMA StoppersHandover ==
    ASSUME ReadNull \/ ReadThrows \/ SignalInput \/ SignalNull \/ SignalStop \/ StopOnNull
              \/ StopHandling
    PROVE  [Promised!Next]_Promised!vars
<1> USE DEF vars, flags, queues, threads, wire
<1>1. UNCHANGED <<Phase, InOrder, Stages, result, answered>>
  BY DEF ReadNull, ReadThrows, SignalInput, SignalNull, SignalStop, StopOnNull, StopHandling,
         Signal, Phase, InOrder, Stages
<1>2. stop' = stop \/ stop' = TRUE
  BY DEF ReadNull, ReadThrows, SignalInput, SignalNull, SignalStop, StopOnNull, StopHandling,
         Signal
<1>3. CASE stop' = stop
  BY <1>1, <1>3 DEF Promised!vars
<1>4. CASE stop' = TRUE
  BY <1>1, <1>4 DEF Promised!Stop, Promised!Next
<1> QED BY <1>2, <1>3, <1>4

(***************************************************************************)
(* The worker.                                                             *)
(***************************************************************************)
LEMMA EndsEarly ==
    ASSUME TypeOK, Phase = "running", Phase' = "ending", UNCHANGED <<caller, result, answered, stop>>,
           responses' = responses, stop \/ answered = {}
    PROVE  Promised!Next
<1> DEFINE rest == inputs \o rawInput
<1>1. responses \in Seq(Queued) /\ rest \in Seq(Queued) /\ InOrder \in Seq(Queued)
  BY QueueTypes, ConcatProperties
<1>2. InOrder = responses \o rest BY QueueTypes, ConcatAssociative DEF InOrder
<1> HIDE DEF rest
<1>3. SubSeq(InOrder, 1, Len(responses)) = responses BY <1>1, <1>2, Front
<1>4. Len(responses) \in 0..Len(InOrder)
  <2>1. Len(InOrder) = Len(responses) + Len(rest) BY <1>1, <1>2, ConcatProperties
  <2>2. Len(responses) \in Nat /\ Len(rest) \in Nat BY <1>1, LenProperties
  <2> QED BY <2>1, <2>2
<1>5. InOrder' = SubSeq(InOrder, 1, Len(responses)) BY <1>3 DEF InOrder
<1>6. Stages' = Stages BY DEF Stages
<1>7. Promised!End BY <1>4, <1>5, <1>6 DEF Promised!End
<1> QED BY <1>7 DEF Promised!Next

\* The worker goes on without a line.
LEMMA RoundHandover ==
    ASSUME TypeOK, Handed, CallsQueued,
           Connect \/ CheckStop \/ Fetch \/ ProcessEnds \/ Write \/ Block \/ SpuriousWakeup
    PROVE  [Promised!Next]_Promised!vars
<1> USE DEF vars, flags, queues, threads, wire
<1>1. CASE Connect
  <2>1. UNCHANGED <<caller, result, answered, stop, responses, inputs, rawInput>>
    BY <1>1 DEF Connect
  <2>2. Phase = "running" /\ Phase' \in {"running", "ending"}
    BY <1>1 DEF Connect, Goto, Phase
  <2>3. answered = {} BY <1>1 DEF Connect, CallsQueued, TypeOK
  <2>4. CASE Phase' = "running"
    BY <2>1, <2>2, <2>4, Stutters DEF InOrder
  <2>5. CASE Phase' = "ending"
    BY <2>1, <2>2, <2>3, <2>5, EndsEarly
  <2> QED BY <2>2, <2>4, <2>5
<1>2. CASE CheckStop
  <2>1. UNCHANGED <<caller, result, answered, stop, responses, inputs, rawInput>>
    BY <1>2 DEF CheckStop
  <2>2. Phase = "running" /\ Phase' = IF stop THEN "ending" ELSE "running"
    BY <1>2 DEF CheckStop, Goto, Phase
  <2>4. CASE ~stop
    BY <2>1, <2>2, <2>4, Stutters DEF InOrder
  <2>5. CASE stop
    BY <2>1, <2>2, <2>5, EndsEarly
  <2> QED BY <2>4, <2>5
<1>3. CASE Fetch
  <2>1. UNCHANGED <<caller, result, answered, stop, responses>> /\ inputs' = rawInput /\ rawInput' = <<>>
    BY <1>3 DEF Fetch
  <2>2. Phase = "running" /\ Phase' = "running" BY <1>3 DEF Fetch, Goto, Phase
  <2>3. inputs = <<>> BY <1>3 DEF Fetch, Handed
  <2>4. responses \o rawInput \in Seq(Queued) BY QueueTypes, ConcatProperties
  <2>5. (responses \o rawInput) \o <<>> = responses \o rawInput BY <2>4, ConcatEmptySeq
  <2>6. responses \o <<>> = responses BY QueueTypes, ConcatEmptySeq
  <2>7. InOrder' = InOrder BY <2>1, <2>2, <2>3, <2>5, <2>6 DEF InOrder
  <2> QED BY <2>1, <2>2, <2>7, Stutters
<1>4. CASE ProcessEnds \/ Write \/ Block \/ SpuriousWakeup
  <2>1. UNCHANGED <<caller, result, answered, stop, responses, inputs, rawInput>>
    BY <1>4 DEF ProcessEnds, Write, Block, SpuriousWakeup
  <2>2. Phase = "running" /\ Phase' = "running"
    BY <1>4 DEF ProcessEnds, Write, Block, SpuriousWakeup, Goto, Phase
  <2> QED BY <2>1, <2>2, Stutters DEF InOrder
<1> QED BY <1>1, <1>2, <1>3, <1>4

LEMMA CloseHandover ==
    ASSUME Close
    PROVE  Promised!Next
<1> USE DEF vars, flags, queues, threads, wire
<1>1. UNCHANGED <<caller, result, answered, stop>> /\ responses' = Append(responses, Stopped)
  BY DEF Close
<1>2. Phase = "ending" /\ Phase' = "ended" BY DEF Close, Goto, Phase
<1>3. InOrder' = Append(InOrder, Stopped) /\ Stages' = Stages
  BY <1>1, <1>2 DEF InOrder, Stages
<1>4. Promised!Close BY <1>1, <1>2, <1>3 DEF Promised!Close
<1> QED BY <1>4 DEF Promised!Next

\* It does not matter in which order queues are joined.
LEMMA QueuesJoin ==
    ASSUME NEW s \in Seq(Queued), NEW t \in Seq(Queued), NEW u \in Seq(Queued)
    PROVE  (s \o t) \o u = s \o (t \o u)
BY ConcatAssociative

\* A line that is worked off is taken from behind the responses.
LEMMA LineSkipped ==
    ASSUME TypeOK, inputs # <<>>, InOrder = (responses \o inputs) \o rawInput
    PROVE  LET n == Len(responses) + 1
           IN  /\ n \in DOMAIN InOrder /\ InOrder[n] = Head(inputs)
               /\ (responses \o Tail(inputs)) \o rawInput
                     = SubSeq(InOrder, 1, n - 1) \o SubSeq(InOrder, n + 1, Len(InOrder))
<1> DEFINE r == responses
           w == rawInput
           h == <<Head(inputs)>>
           t == Tail(inputs)
           n == Len(r) + 1
           q == InOrder
           a == r \o h
           u == t \o w
<1>1. r \in Seq(Queued) /\ w \in Seq(Queued) /\ h \in Seq(Queued) /\ t \in Seq(Queued)
  BY QueueTypes, HeadAndTail
<1>a. inputs = h \o t /\ Len(h) = 1 /\ h[1] = Head(inputs)
  BY QueueTypes, HeadAndTail
<1>b. q = (r \o inputs) \o w OBVIOUS
<1> HIDE DEF r, w, h, t, q
<1>2. a \in Seq(Queued) /\ u \in Seq(Queued) BY <1>1, ConcatProperties
<1>3. q = a \o u
  <2>1. q = (r \o (h \o t)) \o w BY <1>a, <1>b
  <2>2. r \o (h \o t) = a \o t BY <1>1, QueuesJoin
  <2> HIDE DEF a
  <2>3. (a \o t) \o w = a \o (t \o w) BY <1>1, <1>2, QueuesJoin
  <2> QED BY <2>1, <2>2, <2>3
<1>4. q = r \o (h \o u)
  <2> HIDE DEF u, n
  <2>1. (r \o h) \o u = r \o (h \o u) BY <1>1, <1>2, QueuesJoin
  <2> QED BY <1>3, <2>1
<1>5. (r \o t) \o w = r \o u BY <1>1, QueuesJoin
<1>6. h \o u \in Seq(Queued) BY <1>1, <1>2, ConcatProperties
<1>7. Len(r) \in Nat /\ Len(u) \in Nat BY <1>1, <1>2, LenProperties
<1>8. Len(a) = n /\ a[n] = Head(inputs)
  <2>1. /\ Len(a) = Len(r) + Len(h)
        /\ \A k \in 1..(Len(r) + Len(h)) : a[k] = IF k <= Len(r) THEN r[k] ELSE h[k - Len(r)]
    BY <1>1, ConcatProperties
  <2>2. n \in 1..(Len(r) + Len(h)) /\ ~(n <= Len(r)) /\ n - Len(r) = 1 BY <1>a, <1>7
  <2> QED BY <1>a, <2>1, <2>2
<1>9. SubSeq(q, 1, n - 1) = r
  <2>1. n - 1 = Len(r) BY <1>7
  <2> HIDE DEF n, r, u
  <2> QED BY <1>1, <1>4, <1>6, <2>1, Front
<1> HIDE DEF a, u, n
<1>10. SubSeq(q, n + 1, Len(q)) = u BY <1>2, <1>3, <1>8, Rest
<1>11. n \in DOMAIN q /\ q[n] = Head(inputs)
  <2>1. /\ q \in Seq(Queued) /\ Len(q) = Len(a) + Len(u)
        /\ \A k \in 1..(Len(a) + Len(u)) : q[k] = IF k <= Len(a) THEN a[k] ELSE u[k - Len(a)]
    BY <1>2, <1>3, ConcatProperties
  <2>2. DOMAIN q = 1..Len(q) BY <2>1, LenProperties
  <2>3. n \in 1..(Len(a) + Len(u)) /\ n <= Len(a) BY <1>7, <1>8 DEF n
  <2> QED BY <1>8, <2>1, <2>2, <2>3
<1>12. (r \o t) \o w = SubSeq(q, 1, n - 1) \o SubSeq(q, n + 1, Len(q))
  BY <1>5, <1>9, <1>10
<1> QED BY <1>11, <1>12 DEF q, n, t, r, w

\* A line is worked off: a response goes on to the callers, another is skipped or ends
\* the worker.
LEMMA ProcessHandover ==
    ASSUME TypeOK, Process
    PROVE  [Promised!Next]_Promised!vars
<1> USE DEF vars, flags, queues, threads, wire
<1> DEFINE line == Head(inputs)
           n == Len(responses) + 1
<1>1. inputs # <<>> /\ line \in Line /\ Phase = "running"
  BY HeadTailProperties DEF Process, TypeOK, Phase
<1>2. UNCHANGED <<caller, result, answered, rawInput>> BY DEF Process
<1>3. responses \in Seq(Queued) /\ inputs \in Seq(Queued) /\ rawInput \in Seq(Queued)
  BY QueueTypes
<1>4. CASE line.kind = "response"
  <2>1. /\ inputs' = Tail(inputs) /\ responses' = Append(responses, line) /\ stop' = stop
        /\ Phase' = "running"
    BY <1>4 DEF Process, Goto, Phase
  <2>2. Append(responses, line) \o Tail(inputs) = responses \o inputs
    BY <1>1, <1>3, JoinMoves
  <2>3. InOrder' = InOrder BY <1>1, <1>2, <2>1, <2>2 DEF InOrder
  <2> QED BY <1>1, <1>2, <2>1, <2>3, Stutters
<1>5. CASE line.kind # "response"
  <2>1. responses' = responses /\ stop' \in {stop, TRUE} BY <1>5 DEF Process
  <2>2. InOrder = (responses \o inputs) \o rawInput BY <1>1 DEF InOrder
  <2>3. /\ n \in DOMAIN InOrder /\ InOrder[n] = line
        /\ (responses \o Tail(inputs)) \o rawInput
               = SubSeq(InOrder, 1, n - 1) \o SubSeq(InOrder, n + 1, Len(InOrder))
    BY <1>1, <2>2, LineSkipped
  <2>4. line \in {l \in Line : l.kind # "response"} BY <1>1, <1>5
  <2>5. Stages' = Stages BY <1>2 DEF Stages
  <2>6. CASE line.kind # "garbage"
    <3>1. inputs' = Tail(inputs) /\ Phase' = "running" BY <2>6 DEF Process, Goto, Phase
    <3>2. InOrder' = SubSeq(InOrder, 1, n - 1) \o SubSeq(InOrder, n + 1, Len(InOrder))
      BY <1>2, <2>1, <2>3, <3>1 DEF InOrder
    <3> HIDE DEF line, n
    <3>3. Promised!Skip BY <1>1, <1>2, <2>1, <2>3, <2>4, <2>5, <3>1, <3>2 DEF Promised!Skip
    <3> QED BY <3>3 DEF Promised!Next
  <2>7. CASE line.kind = "garbage"
    <3>1. Phase' = "ending" /\ stop' = stop BY <2>7 DEF Process, Goto, Phase
    <3>2. InOrder' = responses BY <2>1, <3>1 DEF InOrder
    <3>3. SubSeq(InOrder, 1, Len(responses)) = responses
      <4>1. inputs \o rawInput \in Seq(Queued) BY <1>3, ConcatProperties
      <4>2. InOrder = responses \o (inputs \o rawInput) BY <1>3, <2>2, ConcatAssociative
      <4> QED BY <1>3, <4>1, <4>2, Front
    <3>4. Len(responses) \in 0..Len(InOrder) /\ Len(responses) < Len(InOrder)
      <4>1. InOrder \in Seq(Queued) BY QueueTypes
      <4>2. DOMAIN InOrder = 1..Len(InOrder) /\ Len(InOrder) \in Nat /\ Len(responses) \in Nat
        BY <1>3, <4>1, LenProperties
      <4> QED BY <2>3, <4>2
    <3>5. InOrder[Len(responses) + 1] \in {l \in Line : l.kind # "response"}
      BY <2>3, <2>4
    <3> HIDE DEF line, n
    <3>6. Promised!End
      BY <1>1, <1>2, <2>5, <3>1, <3>2, <3>3, <3>4, <3>5 DEF Promised!End
    <3> QED BY <3>6 DEF Promised!Next
  <2> QED BY <2>6, <2>7
<1> QED BY <1>4, <1>5

LEMMA NextHandover == TypeOK /\ Handed /\ CallsQueued /\ [Next]_vars => [Promised!Next]_Promised!vars
<1> SUFFICES ASSUME TypeOK, Handed, CallsQueued, [Next]_vars
             PROVE  [Promised!Next]_Promised!vars
  OBVIOUS
<1>1. ASSUME UNCHANGED vars PROVE UNCHANGED Promised!vars
  <2>1. UNCHANGED <<caller, result, answered, stop, Phase, InOrder>>
    BY <1>1 DEF vars, flags, queues, threads, wire, Phase, InOrder
  <2> QED BY <2>1, Stutters
<1>2. ASSUME NEW c \in Caller, SendRequest(c) \/ AddCall(c) \/ SignalCall(c) \/ Take(c)
      PROVE  [Promised!Next]_Promised!vars
  BY <1>2, CallersHandover, TakeHandover
<1>3. CASE ReadLine
  BY <1>3, ReaderHandover
<1>4. CASE ReadNull \/ ReadThrows \/ Signalling \/ StopHandling
  BY <1>4, StoppersHandover DEF Signalling
<1>5. CASE Worker \/ SpuriousWakeup
  BY <1>5, RoundHandover, ProcessHandover, CloseHandover DEF Worker
<1> QED
  BY <1>1, <1>2, <1>3, <1>4, <1>5 DEF Next

\* Spec => ResponsesInOrder: the client implements Handover, for any callers and lines.
THEOREM BackendIsHandover == Spec => ResponsesInOrder
<1>1. Init => TypeOK /\ Handed /\ CallsQueued
  BY TypeInit, HandedInit, QueuedInit
<1>2. TypeOK /\ Handed /\ CallsQueued /\ [Next]_vars => (TypeOK /\ Handed /\ CallsQueued)'
  BY TypeStep, HandedStep, QueuedStep
<1>3. TypeOK /\ Handed /\ CallsQueued /\ [Next]_vars => [Promised!Next]_Promised!vars
  BY NextHandover
<1> QED
  BY <1>1, <1>2, <1>3, InitHandover, PTL DEF Spec, ResponsesInOrder, Promised!Spec
=====
