------------------------- MODULE FileTransferProofs -------------------------
(***************************************************************************)
(* Theorems about Publishing and FileTransfer, for every set of files,     *)
(* folders and downloads.                                                  *)
(***************************************************************************)
EXTENDS FileTransfer, TLAPS, SequenceTheorems

(***************************************************************************)
(* What is shared and announced.                                           *)
(***************************************************************************)

\* Every file of list l is in a, or some timer of t is set for it or before it.
Reached(l, t, a) ==
    \A j \in DOMAIN l : l[j] \in a \/ \E k \in 1..j : t[k] > 0

\* A folder is set only while the network is joined; setShareFolder relies on it.
FolderOfJoined == hasFolder => Joined

PInv == PTypeOK /\ WalkReaches /\ IntervalRuns /\ FolderOfJoined

LEMMA ListType ==
    ASSUME NEW l \in Scan \cup {<<>>}
    PROVE  l \in Seq(File) /\ Len(l) \in 0..MaxFiles /\ DOMAIN l = 1..Len(l) /\ l # NotJoined
<1>1. CASE l = <<>>
  <2>1. l \in Seq(File) /\ Len(l) = 0 /\ DOMAIN l = 1..0
    BY <1>1
  <2> QED
    BY <2>1, PublishingAssumption
<1>2. CASE l \in Scan
  <2>1. l \in Seq(File) /\ Len(l) <= MaxFiles /\ l # NotJoined /\ MaxFiles \in Nat
    BY <1>2, PublishingAssumption
  <2> QED
    BY <2>1, LenProperties
<1> QED
  BY <1>1, <1>2

\* One call of add(i) keeps the tables well typed; and if the files before i are
\* reached without it, all files are reached after it.
LEMMA AddReaches ==
    ASSUME NEW l \in Scan \cup {<<>>}, NEW i \in Index, NEW t \in [Index -> Nat],
           NEW a \in SUBSET File, dht \subseteq File, AddFile(i, l, t, a)
    PROVE  /\ timers' \in [Index -> Nat]
           /\ announced' \subseteq File
           /\ dht' \subseteq File
           /\ (\A j \in DOMAIN l : l[j] \in a \/ i <= j \/ \E k \in 1..j : t[k] > 0)
                 => Reached(l, timers, announced)'
<1>1. /\ l \in Seq(File) /\ Len(l) \in Nat /\ Len(l) <= MaxFiles /\ DOMAIN l = 1..Len(l)
      /\ MaxFiles \in Nat /\ i \in Nat /\ 1 <= i
  BY ListType, PublishingAssumption DEF Index
<1>2. CASE i > Len(l)
  BY <1>1, <1>2 DEF AddFile, DHTput, Reached
<1>3. CASE ~(i > Len(l))
  <2>1. /\ timers' = [t EXCEPT ![i + 1] = @ + 1]
        /\ announced' = a \cup {l[i]}
        /\ dht' = dht \cup {l[i]}
    BY <1>3 DEF AddFile, DHTput
  <2>2. i \in DOMAIN l /\ i + 1 \in Index /\ l[i] \in File
    BY <1>1, <1>3 DEF Index
  <2>3. timers' \in [Index -> Nat]
    BY <2>1, <2>2
  <2>4. \A k \in Index : timers'[k] >= t[k]
    BY <2>1, <2>2
  <2>5. timers'[i + 1] > 0
    BY <2>1, <2>2
  <2>6. ASSUME \A j \in DOMAIN l : l[j] \in a \/ i <= j \/ \E k \in 1..j : t[k] > 0,
               NEW j \in DOMAIN l
        PROVE  l[j] \in announced' \/ \E k \in 1..j : timers'[k] > 0
    <3>1. j \in Nat /\ 1..j \subseteq Index
      BY <1>1 DEF Index
    <3>2. CASE l[j] \in a \/ i = j
      BY <3>2, <2>1
    <3>3. CASE i < j
      <4>1. i + 1 \in 1..j
        BY <3>3, <3>1, <1>1
      <4> QED
        BY <4>1, <2>5
    <3>4. CASE \E k \in 1..j : t[k] > 0
      <4>1. PICK k \in 1..j : t[k] > 0
        BY <3>4
      <4>2. timers'[k] >= t[k] /\ timers'[k] \in Nat /\ t[k] \in Nat
        BY <4>1, <3>1, <2>3, <2>4
      <4> QED
        BY <4>1, <4>2
    <3> QED
      BY <2>6, <3>1, <3>2, <3>3, <3>4, <1>1
  <2> QED
    BY <2>1, <2>2, <2>3, <2>6 DEF Reached
<1> QED
  BY <1>2, <1>3

LEMMA PInitInv == PInit => PInv
<1> SUFFICES ASSUME PInit PROVE PInv
  OBVIOUS
<1>1. timers \in [Index -> Nat]
  BY DEF PInit
<1>2. publishing \in 0..MaxJoins /\ intervals \subseteq 1..publishing
  BY PublishingAssumption DEF PInit
<1> QED
  BY <1>1, <1>2 DEF PInit, PInv, PTypeOK, WalkReaches, IntervalRuns, FolderOfJoined, Joined

LEMMA PStepInv == PInv /\ [PNext]_pvars => PInv'
<1> SUFFICES ASSUME PInv, [PNext]_pvars PROVE PInv'
  OBVIOUS
<1>t. /\ MaxJoins \in Nat /\ MaxFiles \in Nat /\ DefaultFolder \in BOOLEAN
      /\ <<>> \in Scan \cup {<<>>} /\ 1 \in Index /\ publishing \in Nat
  BY PublishingAssumption DEF Index, PInv, PTypeOK
<1> USE DEF PInv, PTypeOK, Joined, FolderOfJoined
\* A list that replaces the current one is walked over from its start.
<1>r. ASSUME NEW l \in Scan \cup {<<>>}, Replace(l)
      PROVE  /\ publicFiles' = l /\ publicFiles' # NotJoined
             /\ timers' \in [Index -> Nat] /\ announced' \subseteq File /\ dht' \subseteq File
             /\ WalkReaches'
  <2>1. publicFiles' = l /\ l # NotJoined /\ AddFile(1, l, timers, {})
    BY <1>r, ListType DEF Replace
  <2>2. \A j \in DOMAIN l : 1 <= j /\ j \in Nat
    BY ListType
  <2>3. /\ timers' \in [Index -> Nat] /\ announced' \subseteq File /\ dht' \subseteq File
        /\ Reached(l, timers, announced)'
    BY <2>1, <2>2, <1>t, AddReaches
  <2> QED
    BY <2>1, <2>3 DEF Reached, WalkReaches
<1>1. ASSUME NEW s \in Scan, NetworkJoined(s) PROVE PInv'
  <2>1. PICK l \in Scan \cup {<<>>} : Replace(l)
    BY <1>1, <1>t DEF NetworkJoined
  <2>2. publishing' = publishing + 1 /\ publishing' \in intervals' /\ publishing' \in 0..MaxJoins
        /\ intervals' \subseteq 1..publishing' /\ hasFolder' \in BOOLEAN
    BY <1>1, <1>t DEF NetworkJoined
  <2> QED
    BY <2>1, <2>2, <1>r DEF IntervalRuns
<1>2. ASSUME NEW s \in Scan, SetShareFolder(s) PROVE PInv'
  <2>1. Replace(s) /\ UNCHANGED <<hasFolder, publishing, intervals>> /\ hasFolder
    BY <1>2 DEF SetShareFolder
  <2> QED
    BY <2>1, <1>r DEF IntervalRuns
<1>3. CASE NetworkLeft
  BY <1>3, <1>t DEF NetworkLeft, WalkReaches, IntervalRuns
<1>4. CASE ProcessEnds
  BY <1>4, <1>t DEF ProcessEnds, WalkReaches, IntervalRuns
<1>5. ASSUME NEW n \in intervals, RefreshFileList(n) PROVE PInv'
  <2>1. /\ AddFile(1, publicFiles, timers, announced) /\ Joined
        /\ UNCHANGED <<publicFiles, hasFolder, publishing, intervals>>
    BY <1>5 DEF RefreshFileList
  <2>2. publicFiles \in Scan \cup {<<>>}
    BY <2>1
  <2>3. \A j \in DOMAIN publicFiles : 1 <= j
    BY <2>2, ListType
  <2>4. /\ timers' \in [Index -> Nat] /\ announced' \subseteq File /\ dht' \subseteq File
        /\ Reached(publicFiles, timers', announced')
    BY <2>1, <2>2, <2>3, <1>t, AddReaches DEF Reached
  <2> QED
    BY <2>1, <2>4 DEF Reached, WalkReaches, IntervalRuns
<1>6. ASSUME NEW i \in Index, AddNext(i) PROVE PInv'
  <2> DEFINE t == [timers EXCEPT ![i] = @ - 1]
  <2>1. /\ timers[i] > 0 /\ UNCHANGED <<publicFiles, hasFolder, publishing, intervals>>
        /\ IF Joined THEN AddFile(i, publicFiles, t, announced)
                     ELSE timers' = t /\ UNCHANGED <<dht, announced>>
    BY <1>6 DEF AddNext
  <2>2. t \in [Index -> Nat]
    BY <2>1
  <2>3. \A k \in Index : k # i => t[k] = timers[k]
    BY <2>1
  <2> HIDE DEF t
  <2>4. CASE ~Joined
    BY <2>4, <2>1, <2>2 DEF WalkReaches, IntervalRuns
  <2>5. CASE Joined
    <3>1. publicFiles \in Scan \cup {<<>>}
      BY <2>5
    <3>2. ASSUME NEW j \in DOMAIN publicFiles
          PROVE  publicFiles[j] \in announced \/ i <= j \/ \E k \in 1..j : t[k] > 0
      <4>1. j \in Nat /\ 1..j \subseteq Index
        BY <3>1, ListType, <1>t DEF Index
      <4>2. CASE \E k \in 1..j : timers[k] > 0
        <5>1. PICK k \in 1..j : timers[k] > 0
          BY <4>2
        <5>2. k = i => i <= j
          BY <4>1
        <5>3. k # i => t[k] > 0
          BY <5>1, <4>1, <2>3
        <5> QED
          BY <5>1, <5>2, <5>3
      <4> QED
        BY <4>2, <2>5 DEF WalkReaches
    <3>3. /\ timers' \in [Index -> Nat] /\ announced' \subseteq File /\ dht' \subseteq File
          /\ Reached(publicFiles, timers', announced')
      BY <2>1, <2>2, <2>5, <3>1, <3>2, AddReaches DEF Reached
    <3> QED
      BY <2>1, <3>3 DEF Reached, WalkReaches, IntervalRuns
  <2> QED
    BY <2>4, <2>5
<1>7. ASSUME NEW f \in dht, Expire(f) PROVE PInv'
  BY <1>7 DEF Expire, WalkReaches, IntervalRuns
<1>8. CASE UNCHANGED pvars
  BY <1>8 DEF pvars, WalkReaches, IntervalRuns
<1> QED
  BY <1>1, <1>2, <1>3, <1>4, <1>5, <1>6, <1>7, <1>8 DEF PNext

(***************************************************************************)
(* Downloads.  The inductive invariant says of each download how its       *)
(* connection, its record and the blocks on the way fit together.          *)
(***************************************************************************)
InfoKnown(d) == \E m \in net \cup lost : m.type = "info" /\ m.id = d

ConSound(d) ==
    /\ phase[d] # "asked" => con[d] = "none"
    /\ con[d] \in {"connecting", "accepted"} => received[d] = 0
    /\ con[d] \in {"ending", "ended"} /\ up =>
          d \in served /\ received[d] + flight[d] = sent[d]
    /\ con[d] = "ended" => flight[d] = 0
    /\ d \in finished => con[d] = "ended"

Tracked(d) == d \in records <=> phase[d] = "asked" /\ con[d] \notin {"ended", "broken"}

Accounted(d) ==
    server[d] = "listening" => InfoKnown(d) \/ con[d] \in {"connecting", "broken"}
                                            \/ d \in failed

DInv == DTypeOK /\ \A d \in Download : ConSound(d) /\ Tracked(d) /\ Accounted(d)

IInv == PInv /\ DInv

LEMMA InitInv == Init => IInv
<1> SUFFICES ASSUME Init PROVE IInv
  OBVIOUS
<1>1. PInv
  BY PInitInv DEF Init
<1>2. 0 \in Blocks
  BY FileTransferAssumption DEF Blocks
<1>3. DTypeOK
  BY <1>2 DEF Init, DTypeOK, Zero, Phase, ServerState, ConState
<1>4. ASSUME NEW d \in Download PROVE ConSound(d) /\ Tracked(d) /\ Accounted(d)
  BY DEF Init, ConSound, Tracked, Accounted, Zero
<1> QED
  BY <1>1, <1>3, <1>4 DEF IInv, DInv

\* A message is of one of the types, and a new one is a message.
LEMMA MsgType ==
    ASSUME NEW d \in Download, NEW n \in Blocks
    PROVE  Msg("info", d, n) \in Message /\ Msg("getFile", d, 0) \in Message
           /\ Msg("error", d, 0) \in Message
BY DEF Msg, Message

LEMMA MessageId == ASSUME NEW m \in Message PROVE m.id \in Download /\ m.size \in Blocks
<1>1. 0 \in Blocks
  BY FileTransferAssumption DEF Blocks
<1> QED
  BY <1>1 DEF Message

\* What each download's step can disturb is the download itself; the info
\* messages that are known only grow, or become a connection.
LEMMA DStepInv == DInv /\ Next => DInv'
<1> SUFFICES ASSUME DInv, Next PROVE DInv'
  OBVIOUS
<1> USE DEF DInv
<1>a. /\ 0 \in Blocks /\ Blocks \subseteq Nat /\ MaxBlocks \in Nat
      /\ Wanted \in [Download -> File]
  BY FileTransferAssumption DEF Blocks
<1>1. CASE ReadFolder
  BY <1>1 DEF ReadFolder, DTypeOK, ConSound, Tracked, Accounted, InfoKnown, requester, links
<1>2. CASE Publish
  BY <1>2 DEF Publish, DTypeOK, ConSound, Tracked, Accounted, InfoKnown,
              dvars, provider, requester, links
<1>3. CASE ProviderStops
  <2>1. DTypeOK'
    BY <1>3 DEF ProviderStops, DTypeOK, requester, ServerState, ConState
  <2>2. ASSUME NEW d \in Download PROVE (ConSound(d) /\ Tracked(d) /\ Accounted(d))'
    BY <1>3 DEF ProviderStops, DTypeOK, ConSound, Tracked, Accounted, requester, InfoKnown,
                ServerState, ConState, Blocks
  <2> QED
    BY <2>1, <2>2
<1>4. ASSUME NEW f \in File, NEW n \in Blocks, Write(f, n) PROVE DInv'
  BY <1>4 DEF Write, DTypeOK, ConSound, Tracked, Accounted, InfoKnown, requester, links
<1>5. ASSUME NEW d \in Download, RetrieveFile(d) PROVE DInv'
  BY <1>5 DEF RetrieveFile, DTypeOK, ConSound, Tracked, Accounted, InfoKnown,
              provider, links, Phase
<1>6. ASSUME NEW d \in Download, FileFound(d) PROVE DInv'
  BY <1>6, <1>a, MsgType
     DEF FileFound, RegisterDownload, SendMessage, DTypeOK, ConSound, Tracked, Accounted,
            InfoKnown, provider, Phase
<1>7. ASSUME NEW d \in Download, FileNotFound(d) PROVE DInv'
  BY <1>7 DEF FileNotFound, DTypeOK, ConSound, Tracked, Accounted, InfoKnown,
              provider, links, Phase
<1>8. ASSUME NEW m \in net, AnswerFileRequest(m) PROVE DInv'
  <2>1. m.id \in Download /\ m.type = "getFile" /\ sizes[Wanted[m.id]] \in Blocks
    BY <1>8, <1>a, MessageId DEF AnswerFileRequest, DTypeOK
  <2>2. DTypeOK'
    BY <1>8, <2>1, <1>a, MsgType
       DEF AnswerFileRequest, DTypeOK, requester, InState, Without, Answer, ServerState
  <2>3. \A d \in Download : InfoKnown(d) => InfoKnown(d)'
    BY <1>8, <2>1 DEF AnswerFileRequest, InfoKnown, Without, Answer, Msg
  <2>4. ASSUME NEW d \in Download PROVE (ConSound(d) /\ Tracked(d) /\ Accounted(d))'
    BY <1>8, <2>1, <2>3
       DEF AnswerFileRequest, DTypeOK, ConSound, Tracked, Accounted, requester, InState
  <2> QED
    BY <2>2, <2>4
<1>9. ASSUME NEW d \in Download, Listen(d) PROVE DInv'
  <2>1. DTypeOK'
    BY <1>9, MsgType DEF Listen, SendMessage, DTypeOK, requester, InState, ServerState
  <2>2. \A c \in Download : InfoKnown(c) => InfoKnown(c)'
    BY <1>9 DEF Listen, SendMessage, InfoKnown
  <2>3. server'[d] = "listening" => InfoKnown(d)'
    <3>1. server'[d] = "listening" => net' = net \cup {Msg("info", d, fileSize[d])}
      BY <1>9 DEF Listen, SendMessage, InState, DTypeOK
    <3>2. Msg("info", d, fileSize[d]).type = "info" /\ Msg("info", d, fileSize[d]).id = d
      BY DEF Msg
    <3> QED
      BY <3>1, <3>2 DEF InfoKnown
  <2>4. ASSUME NEW c \in Download PROVE (ConSound(c) /\ Tracked(c) /\ Accounted(c))'
    BY <1>9, <2>2, <2>3
       DEF Listen, SendMessage, DTypeOK, ConSound, Tracked, Accounted, requester, InState
  <2> QED
    BY <2>1, <2>4
<1>10. ASSUME NEW d \in Download, Accept(d) PROVE DInv'
  BY <1>10 DEF Accept, DTypeOK, ConSound, Tracked, Accounted, InfoKnown, requester, InState,
               ConIn, ServerState, ConState
<1>11. ASSUME NEW d \in Download, ReadAndClose(d) PROVE DInv'
  <2>1. disk[Wanted[d]] \in Blocks
    BY <1>a DEF DTypeOK
  <2>2. DTypeOK'
    BY <1>11, <2>1 DEF ReadAndClose, ReadInto, DTypeOK, requester, InState, ConIn,
                       ServerState, ConState
  <2>3. ASSUME NEW c \in Download PROVE (ConSound(c) /\ Tracked(c) /\ Accounted(c))'
    <3>1. /\ server' = [server EXCEPT ![d] = "closed"] /\ served' = served \cup {d}
          /\ UNCHANGED <<up, failed, phase, records, received, finished, net, lost>>
          /\ server \in [Download -> ServerState]
      BY <1>11 DEF ReadAndClose, ReadInto, requester, InState, DTypeOK
    <3>2. CASE con[d] = "accepted"
      <4>1. /\ con' = [con EXCEPT ![d] = "ending"]
            /\ flight' = [flight EXCEPT ![d] = disk[Wanted[d]]]
            /\ sent' = [sent EXCEPT ![d] = disk[Wanted[d]]]
        BY <1>11, <3>2 DEF ReadAndClose, ReadInto, ConIn
      <4>2. received[d] = 0 /\ 0 + disk[Wanted[d]] = disk[Wanted[d]] /\ d \notin finished
            /\ phase[d] = "asked"
        <5>1. ConSound(d) /\ con[d] \notin {"none", "ended"}
          BY <3>2
        <5>2. disk[Wanted[d]] \in Nat
          BY <2>1, <1>a
        <5> QED
          BY <5>1, <5>2, <3>2 DEF ConSound
      <4>3. c # d => /\ con'[c] = con[c] /\ flight'[c] = flight[c] /\ sent'[c] = sent[c]
                     /\ server'[c] = server[c] /\ (c \in served' <=> c \in served)
        BY <3>1, <4>1 DEF DTypeOK
      <4>4. /\ con'[d] = "ending" /\ flight'[d] = disk[Wanted[d]] /\ server'[d] = "closed"
            /\ sent'[d] = disk[Wanted[d]] /\ d \in served'
        BY <3>1, <4>1 DEF DTypeOK
      <4> QED
        <5>1. CASE c = d
          BY <5>1, <3>1, <3>2, <4>2, <4>4 DEF ConSound, Tracked, Accounted
        <5>2. CASE c # d
          <6>1. con'[c] = con[c] /\ flight'[c] = flight[c] /\ sent'[c] = sent[c]
                /\ server'[c] = server[c] /\ (c \in served' <=> c \in served)
            BY <5>2, <4>3
          <6> QED
            BY <6>1, <3>1 DEF ConSound, Tracked, Accounted, InfoKnown
        <5> QED
          BY <5>1, <5>2
    <3>3. CASE con[d] # "accepted"
      <4>1. UNCHANGED <<con, flight, sent>>
        BY <1>11, <3>3 DEF ReadAndClose, ReadInto
      <4> QED
        BY <3>1, <4>1 DEF DTypeOK, ConSound, Tracked, Accounted, InfoKnown
    <3> QED
      BY <3>2, <3>3
  <2> QED
    BY <2>2, <2>3
<1>12. ASSUME NEW d \in Download, ReadFails(d) PROVE DInv'
  BY <1>12 DEF ReadFails, DTypeOK, ConSound, Tracked, Accounted, InfoKnown, requester, links,
               InState, ServerState
<1>13. ASSUME NEW d \in Download, Data(d) PROVE DInv'
  <2>1. flight[d] - 1 \in Blocks /\ received[d] + 1 \in Nat /\ flight[d] \in Nat
    BY <1>13, <1>a DEF Data, DTypeOK, Blocks
  <2>2. DTypeOK'
    BY <1>13, <2>1 DEF Data, DTypeOK, provider
  <2>3. ASSUME NEW c \in Download PROVE (ConSound(c) /\ Tracked(c) /\ Accounted(c))'
    BY <1>13, <2>1
       DEF Data, DTypeOK, ConSound, Tracked, Accounted, InfoKnown, provider
  <2> QED
    BY <2>2, <2>3
<1>14. ASSUME NEW d \in Download, End(d) PROVE DInv'
  BY <1>14 DEF End, DeleteDownload, DTypeOK, ConSound, Tracked, Accounted, InfoKnown,
         provider, ConIn, ConState
<1>15. ASSUME NEW d \in Download, ConnectionError(d) PROVE DInv'
  BY <1>15 DEF ConnectionError, DeleteDownload, DTypeOK, ConSound, Tracked, Accounted,
         InfoKnown, provider,
               ConIn, ConState
<1>16. ASSUME NEW m \in net, ErrorArrives(m) PROVE DInv'
  <2>1. \A d \in Download : InfoKnown(d) => InfoKnown(d)'
    BY <1>16 DEF ErrorArrives, InfoKnown, Without
  <2> QED
    BY <1>16, <2>1 DEF ErrorArrives, DTypeOK, ConSound, Tracked, Accounted, provider, requester,
                       Without
<1>17. ASSUME NEW m \in net, InfoArrives(m) PROVE DInv'
  <2>1. m.id \in Download /\ m.size \in Blocks
    BY <1>17, MessageId DEF DTypeOK
  <2>2. DTypeOK'
    BY <1>17, <2>1, <1>a DEF InfoArrives, DTypeOK, provider, Without, ConIn, ConState
  <2>3. \A d \in Download : d # m.id /\ InfoKnown(d) => InfoKnown(d)'
    BY <1>17 DEF InfoArrives, InfoKnown, Without
  <2>4. ASSUME NEW d \in Download PROVE (ConSound(d) /\ Tracked(d) /\ Accounted(d))'
    BY <1>17, <2>1, <2>3
       DEF InfoArrives, DTypeOK, ConSound, Tracked, Accounted, provider, ConIn
  <2> QED
    BY <2>2, <2>4
<1>18. ASSUME NEW m \in net, Lose(m) PROVE DInv'
  <2>1. \A d \in Download : InfoKnown(d) => InfoKnown(d)'
    BY <1>18 DEF Lose, InfoKnown, Without
  <2> QED
    BY <1>18, <2>1 DEF Lose, DTypeOK, ConSound, Tracked, Accounted, provider, requester, Without
<1> QED
  BY <1>1, <1>2, <1>3, <1>4, <1>5, <1>6, <1>7, <1>8, <1>9, <1>10, <1>11, <1>12, <1>13,
     <1>14, <1>15, <1>16, <1>17, <1>18 DEF Next, Transfer, Deliver

\* Every step of FileTransfer is a step of Publishing, or leaves it alone.
LEMMA StepPublishes == Next => [PNext]_pvars
<1> SUFFICES ASSUME Next PROVE [PNext]_pvars
  OBVIOUS
<1>1. CASE ReadFolder
  BY <1>1 DEF ReadFolder, PNext
<1>2. CASE Publish
  BY <1>2 DEF Publish, PNext
<1>3. CASE ProviderStops
  BY <1>3 DEF ProviderStops, PNext
<1>4. CASE \E f \in File, n \in Blocks : Write(f, n)
  BY <1>4 DEF Write
<1>5. CASE \E d \in Download : \/ RetrieveFile(d) \/ FileFound(d) \/ FileNotFound(d)
                               \/ Listen(d) \/ Transfer(d) \/ ConnectionError(d)
  BY <1>5 DEF RetrieveFile, FileFound, FileNotFound, Listen, Transfer, Accept, ReadAndClose,
              ReadInto, ReadFails, Data, End, ConnectionError
<1>6. CASE \E m \in net : Deliver(m) \/ Lose(m)
  BY <1>6 DEF Deliver, AnswerFileRequest, ErrorArrives, InfoArrives, Lose
<1> QED
  BY <1>1, <1>2, <1>3, <1>4, <1>5, <1>6 DEF Next

LEMMA StepInv == IInv /\ [Next]_vars => IInv'
<1> SUFFICES ASSUME IInv, [Next]_vars PROVE IInv'
  OBVIOUS
<1>1. CASE Next
  BY <1>1, DStepInv, StepPublishes, PStepInv DEF IInv
<1>2. CASE UNCHANGED vars
  <2>1. PInv'
    BY <1>2, PStepInv DEF vars, IInv
  <2>2. DInv'
    BY <1>2 DEF vars, dvars, provider, requester, links, IInv, DInv, DTypeOK, ConSound,
                Tracked, Accounted, InfoKnown
  <2> QED
    BY <2>1, <2>2 DEF IInv
<1> QED
  BY <1>1, <1>2

LEMMA Invariant == Spec => []IInv
BY InitInv, StepInv, PTL DEF Spec

(***************************************************************************)
(* The theorems.                                                           *)
(***************************************************************************)

\* Every variable has its type.
THEOREM TypeCorrect == Spec => []TypeOK
<1>1. IInv => TypeOK
  BY DEF IInv, PInv, DInv, TypeOK
<1> QED
  BY <1>1, Invariant, PTL

\* For every folder and every order of joins, leaves and timers, no file of the
\* list is passed over.
THEOREM EveryFileWalked == Spec => []WalkReaches
<1>1. IInv => WalkReaches
  BY DEF IInv, PInv
<1> QED
  BY <1>1, Invariant, PTL

\* The peer goes on announcing while it is in the network.
THEOREM KeepsPublishing == Spec => []IntervalRuns
<1>1. IInv => IntervalRuns
  BY DEF IInv, PInv
<1> QED
  BY <1>1, Invariant, PTL

\* The table of downloads holds those that are not over.
THEOREM TableTracks == Spec => []RecordsTrack
<1>1. IInv => RecordsTrack
  BY DEF IInv, DInv, Tracked, RecordsTrack, Known
<1> QED
  BY <1>1, Invariant, PTL

\* A finished download has all that the provider sent.
THEOREM FinishedHasAll == Spec => []FinishedWhole
<1>1. IInv => FinishedWhole
  <2> SUFFICES ASSUME IInv, NEW d \in finished, up
               PROVE  d \in served /\ received[d] = sent[d]
    BY DEF FinishedWhole
  <2>1. d \in Download /\ received[d] \in Nat /\ ConSound(d)
    BY DEF IInv, DInv, DTypeOK
  <2> QED
    BY <2>1 DEF ConSound
<1> QED
  BY <1>1, Invariant, PTL

\* A server that listens for nobody has lost its requester in a known way.
THEOREM ServersKnown == Spec => []ServersAccounted
<1>1. IInv => ServersAccounted
  BY DEF IInv, DInv, Accounted, InfoKnown, ServersAccounted
<1> QED
  BY <1>1, Invariant, PTL

(***************************************************************************)
(* FileTransfer implements Tracking.  It takes one more invariant: of each *)
(* download at most one message is under way, and only before there is a   *)
(* connection, so that the answer that sets the size comes once.           *)
(***************************************************************************)
Quiet(d) == \A m \in net : m.id # d

Once(d) ==
    /\ \A m \in net : m.id = d => con[d] = "none" /\ \A n \in net : n.id = d => n = m
    /\ \A m \in net : m.id = d /\ m.type = "getFile" => server[d] = "none"
    /\ server[d] = "starting" => con[d] = "none" /\ Quiet(d)
    /\ phase[d] # "asked" => server[d] = "none" /\ Quiet(d)

OInv == IInv /\ \A d \in Download : Once(d)

LEMMA OnceInit == Init => OInv
<1> SUFFICES ASSUME Init PROVE OInv
  OBVIOUS
<1>1. ASSUME NEW d \in Download PROVE Once(d)
  BY DEF Init, Once, Quiet
<1> QED
  BY <1>1, InitInv DEF OInv

LEMMA OnceNext ==
    ASSUME OInv, Next
    PROVE  \A d \in Download : Once(d)'
<1>1. IInv /\ DTypeOK /\ \A d \in Download : ConSound(d) /\ Once(d)
  BY DEF OInv, IInv, DInv
<1>2. CASE ReadFolder \/ Publish \/ \E f \in File, n \in Blocks : Write(f, n)
  BY <1>1, <1>2 DEF ReadFolder, Publish, Write, Once, Quiet, requester, links, dvars, provider
<1>3. CASE ProviderStops
  <2>1. /\ UNCHANGED <<net, phase>>
        /\ server' = [d \in Download |-> IF server[d] = "none" THEN "none" ELSE "closed"]
        /\ con' = [d \in Download |-> IF con[d] = "accepted" THEN "ending" ELSE con[d]]
    BY <1>3 DEF ProviderStops, requester
  <2>2. ASSUME NEW d \in Download PROVE Once(d)'
    <3>1. /\ server'[d] # "starting" /\ (server[d] = "none" => server'[d] = "none")
          /\ con[d] = "none" => con'[d] = "none"
      BY <2>1
    <3>2. Once(d)
      BY <1>1
    <3> QED
      BY <2>1, <3>1, <3>2 DEF Once, Quiet
  <2> QED
    BY <2>2
<1>4. ASSUME NEW d \in Download, RetrieveFile(d) \/ FileNotFound(d)
      PROVE  \A c \in Download : Once(c)'
  <2>1. /\ phase[d] # "asked" /\ UNCHANGED <<net, con, server>>
        /\ \A c \in Download : phase'[c] = "asked" <=> phase[c] = "asked"
    BY <1>1, <1>4 DEF RetrieveFile, FileNotFound, DTypeOK, provider, links
  <2> QED
    BY <1>1, <2>1 DEF Once, Quiet
<1>5. ASSUME NEW d \in Download, FileFound(d)
      PROVE  \A c \in Download : Once(c)'
  <2>1. /\ net' = net \cup {Msg("getFile", d, 0)} /\ Msg("getFile", d, 0).id = d
        /\ phase[d] = "searching" /\ phase' = [phase EXCEPT ![d] = "asked"]
        /\ UNCHANGED <<server, con>>
    BY <1>5 DEF FileFound, SendMessage, Msg, provider
  <2>2. con[d] = "none" /\ server[d] = "none" /\ Quiet(d)
    BY <1>1, <2>1 DEF ConSound, Once
  <2>3. ASSUME NEW c \in Download PROVE Once(c)'
    BY <1>1, <2>1, <2>2 DEF Once, Quiet, DTypeOK
  <2> QED
    BY <2>3
<1>6. ASSUME NEW m \in net, AnswerFileRequest(m)
      PROVE  \A c \in Download : Once(c)'
  <2>1. m.id \in Download /\ m.type = "getFile" /\ UNCHANGED <<phase, con>>
    BY <1>1, <1>6, MessageId DEF AnswerFileRequest, DTypeOK, requester
  <2>2. con[m.id] = "none" /\ server[m.id] = "none" /\ phase[m.id] = "asked"
    BY <1>1, <2>1 DEF Once, Quiet
  <2>3. \/ server' = [server EXCEPT ![m.id] = "starting"] /\ net' = net \ {m}
        \/ server' = server /\ (net' = net \ {m} \/ net' = (net \ {m}) \cup {Msg("error", m.id, 0)})
    BY <1>6 DEF AnswerFileRequest, InState, Without, Answer
  <2>4. Msg("error", m.id, 0).id = m.id /\ Msg("error", m.id, 0).type = "error"
    BY DEF Msg
  <2>5. ASSUME NEW c \in Download, c # m.id PROVE Once(c)'
    BY <1>1, <2>1, <2>3, <2>4, <2>5 DEF Once, Quiet, DTypeOK
  <2>6. Once(m.id)'
    <3>1. \A n \in net \ {m} : n.id # m.id
      BY <1>1, <2>1 DEF Once
    <3> QED
      BY <2>1, <2>2, <2>3, <2>4, <3>1 DEF Once, Quiet, DTypeOK
  <2> QED
    BY <2>5, <2>6
<1>7. ASSUME NEW d \in Download, Listen(d)
      PROVE  \A c \in Download : Once(c)'
  <2>1. /\ server[d] = "starting" /\ UNCHANGED <<phase, con>>
        /\ \/ server' = [server EXCEPT ![d] = "listening"]
              /\ net' = net \cup {Msg("info", d, fileSize[d])}
           \/ server' = [server EXCEPT ![d] = "none"] /\ net' = net
    BY <1>7 DEF Listen, InState, SendMessage, requester
  <2>2. con[d] = "none" /\ Quiet(d) /\ phase[d] = "asked"
    BY <1>1, <2>1 DEF Once
  <2>3. Msg("info", d, fileSize[d]).id = d /\ Msg("info", d, fileSize[d]).type = "info"
    BY DEF Msg
  <2>4. ASSUME NEW c \in Download, c # d PROVE Once(c)'
    BY <1>1, <2>1, <2>3, <2>4 DEF Once, Quiet, DTypeOK
  <2>5. Once(d)'
    BY <1>1, <2>1, <2>2, <2>3 DEF Once, Quiet, DTypeOK
  <2> QED
    BY <2>4, <2>5
<1>8. ASSUME NEW d \in Download, Accept(d) \/ ReadAndClose(d) \/ ReadFails(d) \/ Data(d)
                                 \/ End(d) \/ ConnectionError(d)
      PROVE  \A c \in Download : Once(c)'
  <2>1. /\ con[d] # "none" \/ con' = con
        /\ \E s \in ConState : con' = [con EXCEPT ![d] = s]
        /\ server' = server \/ (\E s \in {"reading", "closed", "listening"} :
                                  server[d] # "none" /\ server' = [server EXCEPT ![d] = s])
        /\ UNCHANGED <<net, phase>>
    BY <1>1, <1>8 DEF Accept, ReadAndClose, ReadInto, ReadFails, Data, End, ConnectionError,
       InState, ConIn, provider, requester, links, DTypeOK, ConState
  <2>2. ASSUME NEW c \in Download, c # d PROVE Once(c)'
    BY <1>1, <2>1, <2>2 DEF Once, Quiet, DTypeOK
  <2>3. Once(d)'
    BY <1>1, <2>1 DEF Once, Quiet, DTypeOK
  <2> QED
    BY <2>2, <2>3
<1>9. ASSUME NEW m \in net, ErrorArrives(m) \/ Lose(m)
      PROVE  \A c \in Download : Once(c)'
  <2>1. net' = net \ {m} /\ UNCHANGED <<con, server, phase>>
    BY <1>9 DEF ErrorArrives, Lose, Without, provider, requester
  <2> QED
    BY <1>1, <2>1 DEF Once, Quiet
<1>10. ASSUME NEW m \in net, InfoArrives(m)
       PROVE  \A c \in Download : Once(c)'
  <2>1. /\ net' = net \ {m} /\ con' = [con EXCEPT ![m.id] = "connecting"]
        /\ UNCHANGED <<server, phase>>
    BY <1>10 DEF InfoArrives, Without, ConIn, provider
  <2>2. m.id \in Download /\ con[m.id] = "none"
    BY <1>1, MessageId DEF Once, DTypeOK
  <2>3. \A n \in net \ {m} : n.id # m.id
    BY <1>1, <2>2 DEF Once
  <2>4. server[m.id] # "starting"
    BY <1>1, <2>2 DEF Once, Quiet
  <2>5. ASSUME NEW c \in Download, c # m.id PROVE Once(c)'
    BY <1>1, <2>1, <2>5 DEF Once, Quiet, DTypeOK
  <2>6. Once(m.id)'
    BY <1>1, <2>1, <2>2, <2>3, <2>4 DEF Once, Quiet, DTypeOK
  <2> QED
    BY <2>5, <2>6
<1> QED
  BY <1>2, <1>3, <1>4, <1>5, <1>6, <1>7, <1>8, <1>9, <1>10 DEF Next, Transfer, Deliver

LEMMA OInvariant == Spec => []OInv
<1>1. OInv /\ [Next]_vars => OInv'
  <2>1. ASSUME OInv, Next PROVE OInv'
    BY <2>1, OnceNext, StepInv DEF OInv
  <2>2. ASSUME OInv, UNCHANGED vars PROVE OInv'
    <3>1. \A d \in Download : Once(d)'
      BY <2>2 DEF OInv, Once, Quiet, vars, dvars, provider, requester, links
    <3> QED
      BY <2>2, <3>1, StepInv DEF OInv
  <2> QED
    BY <2>1, <2>2
<1> QED
  BY <1>1, OnceInit, PTL DEF Spec

(***************************************************************************)
(* The mapping.                                                            *)
(***************************************************************************)
Stages == [d \in Download |-> StageOf(d)]

LEMMA StageCases ==
    ASSUME OInv, NEW d \in Download
    PROVE  StageOf(d) = IF phase[d] = "refused" THEN "refused"
                        ELSE IF phase[d] # "asked" THEN "new"
                        ELSE IF con[d] \in {"ended", "broken"} THEN "over"
                        ELSE IF con[d] = "none" THEN "pending" ELSE "running"
<1>1. phase[d] \in Phase /\ (d \in records <=> phase[d] = "asked" /\ con[d] \notin {"ended", "broken"})
  BY DEF OInv, IInv, DInv, DTypeOK, Tracked
<1> QED
  BY <1>1 DEF StageOf, Known, Phase

LEMMA StageCasesNext ==
    ASSUME OInv', NEW d \in Download
    PROVE  StageOf(d)' = IF phase'[d] = "refused" THEN "refused"
                         ELSE IF phase'[d] # "asked" THEN "new"
                         ELSE IF con'[d] \in {"ended", "broken"} THEN "over"
                         ELSE IF con'[d] = "none" THEN "pending" ELSE "running"
<1>1. /\ phase'[d] \in Phase
      /\ d \in records' <=> phase'[d] = "asked" /\ con'[d] \notin {"ended", "broken"}
  BY DEF OInv, IInv, DInv, DTypeOK, Tracked
<1> QED
  BY <1>1 DEF StageOf, Known, Phase

LEMMA StageMoves ==
    ASSUME NEW d \in Download, NEW to, StageOf(d)' = to,
           \A c \in Download : c # d => StageOf(c)' = StageOf(c)
    PROVE  Stages' = [Stages EXCEPT ![d] = to]
BY DEF Stages

\* Stages of downloads whose call and connection are left alone.
LEMMA StageKept ==
    ASSUME OInv, OInv', NEW c \in Download, phase'[c] = phase[c], con'[c] = con[c]
    PROVE  StageOf(c)' = StageOf(c)
BY StageCases, StageCasesNext

\* No download moves when each keeps its call and its connection lives on.
LEMMA StagesKept ==
    ASSUME OInv, OInv',
           \A c \in Download :
              /\ phase'[c] = phase[c] \/ {phase[c], phase'[c]} \subseteq {"idle", "searching"}
              /\ \/ con'[c] = con[c]
                 \/ {con[c], con'[c]} \subseteq {"connecting", "accepted", "ending"}
    PROVE  Stages' = Stages
<1>1. ASSUME NEW c \in Download PROVE StageOf(c)' = StageOf(c)
  BY <1>1, StageCases, StageCasesNext
<1> QED
  BY <1>1 DEF Stages

LEMMA TracksInit == Init => Polled!Init
<1> SUFFICES ASSUME Init PROVE Polled!Init
  OBVIOUS
<1>1. Stages = [d \in Download |-> "new"]
  <2>1. ASSUME NEW d \in Download PROVE StageOf(d) = "new"
    BY DEF Init, StageOf
  <2> QED
    BY <2>1 DEF Stages
<1> QED
  BY <1>1 DEF Init, Polled!Init, Stages, Zero

LEMMA TracksStep ==
    ASSUME OInv, OInv', Next
    PROVE  [Polled!Next]_Polled!vars
<1> DEFINE Step == [Polled!Next]_Polled!vars
<1>1. /\ DTypeOK /\ \A d \in Download : ConSound(d) /\ Tracked(d) /\ Once(d)
  BY DEF OInv, IInv, DInv
<1>2. ASSUME Stages' = Stages, UNCHANGED <<size, received, finished>> PROVE Step
  BY <1>2 DEF Polled!vars, Stages
<1>3. CASE ReadFolder \/ Publish \/ \E f \in File, n \in Blocks : Write(f, n)
  <2>1. UNCHANGED <<phase, con, size, received, finished>>
    BY <1>3 DEF ReadFolder, Publish, Write, requester, links, dvars
  <2> QED
    BY <2>1, <1>2, StagesKept
<1>4. CASE ProviderStops
  <2>1. /\ UNCHANGED <<phase, size, received, finished>>
        /\ con' = [d \in Download |-> IF con[d] = "accepted" THEN "ending" ELSE con[d]]
    BY <1>4 DEF ProviderStops, requester
  <2>2. Stages' = Stages
    BY <2>1, StagesKept
  <2> QED
    BY <2>1, <2>2, <1>2
<1>5. ASSUME NEW d \in Download, RetrieveFile(d) PROVE Step
  <2>1. /\ phase[d] = "idle" /\ UNCHANGED <<con, size, received, finished>>
        /\ \/ phase' = [phase EXCEPT ![d] = "searching"]
           \/ phase' = [phase EXCEPT ![d] = "refused"]
    BY <1>5 DEF RetrieveFile, links
  <2>2. CASE phase' = [phase EXCEPT ![d] = "searching"]
    <3>1. Stages' = Stages
      BY <1>1, <2>1, <2>2, StagesKept DEF DTypeOK
    <3> QED
      BY <2>1, <3>1, <1>2
  <2>3. CASE phase' = [phase EXCEPT ![d] = "refused"]
    <3>1. StageOf(d) = "new" /\ StageOf(d)' = "refused"
      BY <1>1, <2>1, <2>3, StageCases, StageCasesNext DEF DTypeOK
    <3>2. Stages' = [Stages EXCEPT ![d] = "refused"] /\ Stages[d] = "new"
      BY <1>1, <2>1, <2>3, <3>1, StageKept, StageMoves DEF DTypeOK, Stages
    <3> QED
      BY <2>1, <3>2 DEF Polled!Next, Polled!Refuse, Polled!Moves, Stages
  <2> QED
    BY <2>1, <2>2, <2>3
<1>6. ASSUME NEW d \in Download, FileFound(d) PROVE Step
  <2>1. /\ phase[d] = "searching" /\ phase' = [phase EXCEPT ![d] = "asked"]
        /\ UNCHANGED <<con, size, received, finished>>
    BY <1>6 DEF FileFound
  <2>2. con[d] = "none"
    BY <1>1, <2>1 DEF ConSound
  <2>3. StageOf(d) = "new" /\ StageOf(d)' = "pending"
    BY <1>1, <2>1, <2>2, StageCases, StageCasesNext DEF DTypeOK
  <2>4. Stages' = [Stages EXCEPT ![d] = "pending"] /\ Stages[d] = "new"
    BY <1>1, <2>1, <2>3, StageKept, StageMoves DEF DTypeOK, Stages
  <2> QED
    BY <2>1, <2>4 DEF Polled!Next, Polled!Give, Polled!Moves, Stages
<1>7. ASSUME NEW d \in Download, FileNotFound(d) PROVE Step
  <2>1. /\ phase[d] = "searching" /\ phase' = [phase EXCEPT ![d] = "refused"]
        /\ UNCHANGED <<con, size, received, finished>>
    BY <1>7 DEF FileNotFound, links
  <2>2. StageOf(d) = "new" /\ StageOf(d)' = "refused"
    BY <1>1, <2>1, StageCases, StageCasesNext DEF DTypeOK
  <2>3. Stages' = [Stages EXCEPT ![d] = "refused"] /\ Stages[d] = "new"
    BY <1>1, <2>1, <2>2, StageKept, StageMoves DEF DTypeOK, Stages
  <2> QED
    BY <2>1, <2>3 DEF Polled!Next, Polled!Refuse, Polled!Moves, Stages
<1>8. ASSUME NEW m \in net, AnswerFileRequest(m) \/ ErrorArrives(m) \/ Lose(m) PROVE Step
  <2>1. UNCHANGED <<phase, con, size, received, finished>>
    BY <1>8 DEF AnswerFileRequest, ErrorArrives, Lose, requester
  <2> QED
    BY <2>1, <1>2, StagesKept
<1>9. ASSUME NEW d \in Download, Listen(d) \/ Accept(d) \/ ReadAndClose(d) \/ ReadFails(d)
      PROVE  Step
  <2>1. /\ UNCHANGED <<phase, size, received, finished>>
        /\ \/ con' = con
           \/ con[d] = "connecting" /\ con' = [con EXCEPT ![d] = "accepted"]
           \/ con[d] = "accepted" /\ con' = [con EXCEPT ![d] = "ending"]
    BY <1>9 DEF Listen, Accept, ReadAndClose, ReadInto, ReadFails, ConIn, requester, links
  <2>2. Stages' = Stages
    BY <1>1, <2>1, StagesKept DEF DTypeOK
  <2> QED
    BY <2>1, <2>2, <1>2
<1>10. ASSUME NEW m \in net, InfoArrives(m) PROVE Step
  <2> DEFINE d == m.id
  <2>1. /\ d \in records /\ con' = [con EXCEPT ![d] = "connecting"]
        /\ size' = [size EXCEPT ![d] = m.size] /\ received' = [received EXCEPT ![d] = 0]
        /\ UNCHANGED <<phase, finished>>
    BY <1>10 DEF InfoArrives, ConIn, provider
  <2>2. d \in Download /\ m.size \in Blocks
    BY <1>1, MessageId DEF DTypeOK
  <2>3. con[d] = "none" /\ phase[d] = "asked"
    BY <1>1, <2>1, <2>2 DEF Once, Tracked
  <2> HIDE DEF d
  <2>4. StageOf(d) = "pending" /\ StageOf(d)' = "running"
    BY <1>1, <2>1, <2>2, <2>3, StageCases, StageCasesNext DEF DTypeOK
  <2>5. Stages' = [Stages EXCEPT ![d] = "running"] /\ Stages[d] = "pending"
    BY <1>1, <2>1, <2>2, <2>4, StageKept, StageMoves DEF DTypeOK, Stages
  <2>6. Polled!Begin(d, m.size)
    BY <2>1, <2>5 DEF Polled!Begin, Polled!Moves, Stages
  <2> QED
    BY <2>2, <2>6 DEF Polled!Next
<1>11. ASSUME NEW d \in Download, Data(d) PROVE Step
  <2>1. /\ con[d] = "ending" /\ received' = [received EXCEPT ![d] = @ + 1]
        /\ UNCHANGED <<phase, con, size, finished>>
    BY <1>11 DEF Data
  <2>2. phase[d] = "asked"
    BY <1>1, <2>1 DEF ConSound
  <2>3. Stages' = Stages /\ Stages[d] = "running"
    BY <2>1, <2>2, StageCases, StagesKept DEF Stages
  <2> QED
    BY <2>1, <2>3 DEF Polled!Next, Polled!Progress, Stages
<1>12. ASSUME NEW d \in Download, End(d) \/ ConnectionError(d) PROVE Step
  <2>1. /\ con[d] \in {"connecting", "accepted", "ending"}
        /\ con' = [con EXCEPT ![d] = "ended"] \/ con' = [con EXCEPT ![d] = "broken"]
        /\ finished' = finished \cup {d} \/ finished' = finished
        /\ UNCHANGED <<phase, size, received>>
    BY <1>12 DEF End, ConnectionError, ConIn
  <2>2. phase[d] = "asked"
    BY <1>1, <2>1 DEF ConSound
  <2>3. StageOf(d) = "running" /\ StageOf(d)' = "over"
    BY <1>1, <2>1, <2>2, StageCases, StageCasesNext DEF DTypeOK
  <2>4. Stages' = [Stages EXCEPT ![d] = "over"] /\ Stages[d] = "running"
    BY <1>1, <2>1, <2>3, StageKept, StageMoves DEF DTypeOK, Stages
  <2> QED
    BY <2>1, <2>4 DEF Polled!Next, Polled!Finish, Polled!Fail, Polled!Moves, Stages
<1> QED
  BY <1>3, <1>4, <1>5, <1>6, <1>7, <1>8, <1>9, <1>10, <1>11, <1>12 DEF Next, Transfer, Deliver

\* FileTransfer implements Tracking: what whoever polls downloadInfo may rely on.
THEOREM TransferTracks == Spec => IdTracks
<1>1. OInv /\ OInv' /\ [Next]_vars => [Polled!Next]_Polled!vars
  <2>1. ASSUME OInv, OInv', UNCHANGED vars PROVE UNCHANGED Polled!vars
    <3>1. UNCHANGED <<phase, con, records, size, received, finished>>
      BY <2>1 DEF vars, dvars, requester, links
    <3>2. Stages' = Stages
      BY <2>1, <3>1, StagesKept
    <3> QED
      BY <3>1, <3>2 DEF Polled!vars, Stages
  <2> QED
    BY <2>1, TracksStep
<1> QED
  BY <1>1, TracksInit, OInvariant, PTL DEF Spec, IdTracks, Polled!Spec
=============================================================================
