----------------------------- MODULE ListingProofs -----------------------------
(***************************************************************************)
(* Theorems about Listing and the GUI at one of its connections            *)
(* (FileListUpdate), for any members, connections and lists.  That a list  *)
(* of files is split as it should be is proved in SplittingProofs; where   *)
(* the lists go does not depend on it.                                     *)
(***************************************************************************)
EXTENDS FileListUpdate, SplittingProofs

(***************************************************************************)
(* Requests and answers.                                                   *)
(***************************************************************************)
LEMMA AnswerForm ==
    \A q : \A m \in Answers(q) : m.type = "list" /\ m.q = q
BY DEF Answers, List

LEMMA AnswerableForm ==
    \A R : \A m \in Answerable(R) : m.type = "list" /\ m.q \in R /\ m \in Answers(m.q)
BY AnswerForm DEF Answerable

LEMMA AnswerableOf ==
    \A R : \A q \in R : Answers(q) \subseteq Answerable(R)
BY DEF Answerable

LEMMA AnswerableGrows ==
    \A R, S : R \subseteq S => Answerable(R) \subseteq Answerable(S)
BY DEF Answerable

\* What a message under way may be.
LEMMA NetForm ==
    ASSUME TypeOK, NEW m \in net
    PROVE  /\ m.q \in ownRequests /\ m.q \in Request
           /\ m.type = "list" => m \in Answers(m.q)
           /\ m.type # "list" => m \notin Answerable(Request)
<1>1. /\ net \subseteq {Query(q) : q \in ownRequests} \cup {Failure(q) : q \in ownRequests}
                       \cup Answerable(ownRequests)
      /\ ownRequests \subseteq Request
  BY DEF TypeOK
<1>2. CASE m \in Answerable(ownRequests)
  BY <1>1, <1>2, AnswerableForm
<1>3. CASE m \in {Query(q) : q \in ownRequests} \cup {Failure(q) : q \in ownRequests}
  <2>1. m.q \in ownRequests /\ m.type # "list"
    BY <1>3 DEF Query, Failure
  <2> QED
    BY <1>1, <2>1, AnswerableForm
<1> QED
  BY <1>1, <1>2, <1>3

\* Nobody changes its files while the call runs.
LEMMA FilesKept ==
    ASSUME [Next]_vars
    PROVE  publicFiles' = publicFiles
BY DEF Next, PeersListed, Connect, EndListing, ClientCloses, AnswerListFiles,
       ResponseReceived, Lose, vars

LEMMA AnswersKept ==
    ASSUME publicFiles' = publicFiles
    PROVE  /\ \A q : Answers(q)' = Answers(q)
           /\ \A R : Answerable(R)' = Answerable(R)
BY DEF Answers, Answerable

(***************************************************************************)
(* The server: its types, and the lists of the members that answered.      *)
(***************************************************************************)
\* A member that answered shares a list.
Sharing == \A q \in replied : publicFiles[q[2]] # NotJoined

Sound == TypeOK /\ ListsAccounted /\ Sharing

\* A list is written, or missed, where its request asked for it; nothing else is.
LEMMA HandleStep ==
    ASSUME TypeOK, NEW m \in net, Handle(m)
    PROVE  /\ ownRequests' = ownRequests
           /\ written' \in [Conn -> SUBSET Answerable(ownRequests)]
           /\ \A c \in Conn : \/ written'[c] = written[c]
                              \/ /\ c = m.q[1] /\ m.type = "list" /\ conn[c] = "open"
                                 /\ written'[c] = written[c] \cup {m}
           /\ missed \subseteq missed'
           /\ m.type = "list" => m \in written'[m.q[1]] \cup missed'
<1>1. m.q \in ownRequests /\ m.q[1] \in Conn
  BY NetForm DEF Request
<1>2. written \in [Conn -> SUBSET Answerable(ownRequests)]
  BY DEF TypeOK
<1>3. m.type = "list" => m \in Answerable(ownRequests)
  BY <1>1, NetForm, AnswerableOf
<1>4. ownRequests' = ownRequests
  BY DEF Handle
<1>5. CASE m.type = "list" /\ conn[m.q[1]] = "open"
  <2>1. written' = [written EXCEPT ![m.q[1]] = @ \cup {m}] /\ missed' = missed
    BY <1>1, <1>5 DEF Handle
  <2> QED
    BY <1>1, <1>2, <1>3, <1>4, <1>5, <2>1
<1>6. CASE m.type = "list" /\ conn[m.q[1]] # "open"
  <2>1. missed' = missed \cup {m} /\ written' = written
    BY <1>1, <1>6 DEF Handle
  <2> QED
    BY <1>2, <1>4, <2>1
<1>7. CASE m.type # "list"
  <2>1. missed' = missed /\ written' = written
    BY <1>7 DEF Handle
  <2> QED
    BY <1>2, <1>4, <1>7, <2>1
<1> QED
  BY <1>5, <1>6, <1>7

LEMMA TypeInit == Init => TypeOK
BY DEF Init, TypeOK, Answerable

LEMMA TypeNext ==
    ASSUME TypeOK, [Next]_vars
    PROVE  TypeOK'
<1>1. /\ publicFiles' = publicFiles
      /\ \A R : Answerable(R)' = Answerable(R)
  BY FilesKept, AnswersKept
<1>2. CASE UNCHANGED vars
  BY <1>2, <1>1 DEF vars, TypeOK
<1>3. CASE PeersListed
  <2>1. server' = "listening" /\ (peerList' = NoPeers \/ peerList' \subseteq Peer)
    BY <1>3 DEF PeersListed, StartFileListingServer
  <2>2. UNCHANGED <<conn, ownRequests, net, written, replied>>
    BY <1>3 DEF PeersListed
  <2> QED
    BY <1>1, <2>1, <2>2 DEF TypeOK
<1>4. ASSUME NEW c \in Conn, Connect(c) PROVE TypeOK'
  <2>1. CASE peerList = NoPeers
    BY <1>1, <1>4, <2>1 DEF Connect, TypeOK
  <2>2. CASE peerList # NoPeers
    <3>1. {c} \X peerList \subseteq Request
      BY <2>2 DEF TypeOK, Request
    <3>2. ownRequests' = ownRequests \cup ({c} \X peerList)
      BY <1>4, <2>2 DEF Connect, RegisterOwnRequests
    <3>3. net' = net \cup {Query(q) : q \in {c} \X peerList}
      BY <1>4, <2>2 DEF Connect
    <3>4. Answerable(ownRequests) \subseteq Answerable(ownRequests')
      BY <3>2, AnswerableGrows
    <3>5. net' \subseteq {Query(q) : q \in ownRequests'} \cup {Failure(q) : q \in ownRequests'}
                         \cup Answerable(ownRequests')
      <4>1. ownRequests \subseteq ownRequests' /\ {c} \X peerList \subseteq ownRequests'
        BY <3>2
      <4>2. net \subseteq {Query(q) : q \in ownRequests} \cup {Failure(q) : q \in ownRequests}
                         \cup Answerable(ownRequests)
        BY DEF TypeOK
      <4> QED
        BY <3>3, <3>4, <4>1, <4>2
    <3>6. written' \in [Conn -> SUBSET Answerable(ownRequests')] /\ written' = written
      BY <1>4, <3>4 DEF Connect, TypeOK
    <3>7. replied' = replied /\ conn' = [conn EXCEPT ![c] = "open"]
          /\ UNCHANGED <<server, peerList>>
      BY <1>4, <2>2 DEF Connect
    <3> QED
      BY <1>1, <3>1, <3>2, <3>5, <3>6, <3>7 DEF TypeOK
  <2> QED
    BY <2>1, <2>2
<1>5. ASSUME NEW m \in net, AnswerListFiles(m) PROVE TypeOK'
  <2>1. m.q \in ownRequests
    BY NetForm
  <2>2. /\ UNCHANGED <<server, peerList, conn, ownRequests, written>>
        /\ replied' \subseteq replied \cup {m.q}
    BY <1>5 DEF AnswerListFiles
  <2>3. net' \subseteq net \cup {Failure(m.q)} \cup Answers(m.q)
    BY <1>5 DEF AnswerListFiles, Answers
  <2>4. Answers(m.q) \subseteq Answerable(ownRequests)
    BY <2>1, AnswerableOf
  <2> QED
    BY <1>1, <2>1, <2>2, <2>3, <2>4 DEF TypeOK
<1>6. ASSUME NEW m \in net, ResponseReceived(m) PROVE TypeOK'
  <2>1. Handle(m) /\ net' = net \ {m} /\ UNCHANGED <<server, peerList, conn, replied>>
    BY <1>6 DEF ResponseReceived
  <2>2. /\ ownRequests' = ownRequests
        /\ written' \in [Conn -> SUBSET Answerable(ownRequests)]
        /\ \A c \in Conn : \A n \in written'[c] : n.q[1] = c
    BY <2>1, HandleStep DEF TypeOK
  <2> QED
    BY <1>1, <2>1, <2>2 DEF TypeOK
<1>7. ASSUME NEW c \in Conn, EndListing(c) \/ ClientCloses(c) PROVE TypeOK'
  BY <1>1, <1>7 DEF EndListing, ClientCloses, StopFileListingServer, TypeOK
<1>8. ASSUME NEW m \in net, Lose(m) PROVE TypeOK'
  BY <1>1, <1>8 DEF Lose, TypeOK
<1> QED
  BY <1>2, <1>3, <1>4, <1>5, <1>6, <1>7, <1>8 DEF Next

LEMMA AccountedNext ==
    ASSUME Sound, [Next]_vars
    PROVE  ListsAccounted'
<1>1. TypeOK /\ ListsAccounted
  BY DEF Sound
<1>2. \A q : Answers(q)' = Answers(q)
  BY FilesKept, AnswersKept
<1>3. ASSUME replied' = replied, net \subseteq net', written' = written, missed \subseteq missed'
      PROVE  ListsAccounted'
  BY <1>1, <1>2, <1>3 DEF ListsAccounted
<1>4. CASE UNCHANGED vars \/ PeersListed
  BY <1>3, <1>4 DEF vars, PeersListed
<1>5. ASSUME NEW c \in Conn, Connect(c) \/ EndListing(c) \/ ClientCloses(c)
      PROVE  ListsAccounted'
  BY <1>3, <1>5 DEF Connect, EndListing, ClientCloses
<1>6. ASSUME NEW m \in net, AnswerListFiles(m) PROVE ListsAccounted'
  <2>1. m.type = "query" /\ UNCHANGED <<written, missed>>
    BY <1>6 DEF AnswerListFiles
  <2>2. \A q : m \notin Answers(q)
    BY <2>1, AnswerForm
  <2>3. net \ {m} \subseteq net'
    BY <1>6 DEF AnswerListFiles
  <2>4. replied' = replied \/ (replied' = replied \cup {m.q} /\ Answers(m.q) \subseteq net')
    BY <1>6 DEF AnswerListFiles, Answers
  <2> QED
    BY <1>1, <1>2, <2>1, <2>2, <2>3, <2>4 DEF ListsAccounted
<1>7. ASSUME NEW m \in net, ResponseReceived(m) PROVE ListsAccounted'
  <2>1. Handle(m) /\ net' = net \ {m} /\ replied' = replied
    BY <1>7 DEF ResponseReceived
  <2>2. \A q \in replied : q[1] \in Conn
    BY <1>1 DEF TypeOK, Request
  <2>3. \A c \in Conn : written[c] \subseteq written'[c]
    BY <1>1, <2>1, HandleStep
  <2>4. missed \subseteq missed' /\ (m.type = "list" => m \in written'[m.q[1]] \cup missed')
    BY <1>1, <2>1, HandleStep
  <2>5. \A q : m \in Answers(q) => m.type = "list" /\ m.q = q
    BY AnswerForm
  <2> QED
    BY <1>1, <1>2, <2>1, <2>2, <2>3, <2>4, <2>5 DEF ListsAccounted
<1>8. ASSUME NEW m \in net, Lose(m) PROVE ListsAccounted'
  <2>1. net' = net \ {m} /\ missed' = missed \cup {m} /\ UNCHANGED <<replied, written>>
    BY <1>8 DEF Lose
  <2> QED
    BY <1>1, <1>2, <2>1 DEF ListsAccounted
<1> QED
  BY <1>4, <1>5, <1>6, <1>7, <1>8 DEF Next

LEMMA SharingNext ==
    ASSUME Sharing, [Next]_vars
    PROVE  Sharing'
<1>1. publicFiles' = publicFiles
  BY FilesKept
<1>2. ASSUME NEW m \in net, AnswerListFiles(m) PROVE Sharing'
  <2>1. \/ replied' = replied
        \/ publicFiles[m.q[2]] # NotJoined /\ replied' = replied \cup {m.q}
    BY <1>2 DEF AnswerListFiles
  <2> QED
    BY <1>1, <2>1 DEF Sharing
<1>3. ASSUME ~ \E m \in net : AnswerListFiles(m) PROVE replied' = replied
  BY <1>3 DEF Next, PeersListed, Connect, EndListing, ClientCloses, ResponseReceived, Lose, vars
<1> QED
  BY <1>1, <1>2, <1>3 DEF Sharing

LEMMA SoundNext == Sound /\ [Next]_vars => Sound'
BY TypeNext, AccountedNext, SharingNext DEF Sound

\* Nothing is written to a connection that is over.
LEMMA EndedStep ==
    ASSUME TypeOK, [Next]_vars, NEW c \in Conn, conn[c] # "open"
    PROVE  written'[c] = written[c]
<1>1. ASSUME NEW m \in net, ResponseReceived(m) PROVE written'[c] = written[c]
  BY <1>1, HandleStep DEF ResponseReceived
<1>2. ASSUME ~ \E m \in net : ResponseReceived(m) PROVE written' = written
  BY <1>2 DEF Next, PeersListed, Connect, EndListing, ClientCloses, AnswerListFiles, Lose, vars
<1> QED
  BY <1>1, <1>2

(***************************************************************************)
(* A step of the composition is one of the server's, or leaves it alone.   *)
(***************************************************************************)
LEMMA ServerStep == [GuiNext]_allVars => [Next]_vars
BY GuiAssumption DEF GuiNext, Others, Lists, Ends, Act, InitializeConnection, GuiExits, GuiStep,
   HandleIncomingData, EndOfStream, UpdaterResponded, UpdateTable, allVars, Next

LEMMA ServerSound == GuiSpec => []Sound
<1>1. GuiInit => Sound
  BY TypeInit DEF GuiInit, Sound, ListsAccounted, Sharing, Init
<1>2. Sound /\ [GuiNext]_allVars => Sound'
  BY ServerStep, SoundNext
<1> QED
  BY <1>1, <1>2, PTL DEF GuiSpec

\* Every list of a member that answered is written, under way, lost or too late.
THEOREM NoListDropped == GuiSpec => []ListsAccounted
<1>1. Sound => ListsAccounted
  BY DEF Sound
<1> QED
  BY <1>1, ServerSound, PTL

\* What a member that answered has split is a list of entries.
LEMMA SharedEntries ==
    ASSUME Sound, NEW q \in replied
    PROVE  publicFiles[q[2]] \in Seq(Nat \ {0})
<1>1. q[2] \in Peer /\ publicFiles[q[2]] \in Shares[q[2]]
  BY DEF Sound, TypeOK, Request
<1>2. publicFiles[q[2]] # NotJoined
  BY DEF Sound, Sharing
<1> QED
  BY <1>1, <1>2, ListingAssumption

\* Every file of a member that answered, whose entry fits a message, is in exactly
\* one of its lists, whatever the member shares.
THEOREM FilesListed == GuiSpec => []EveryFileListed
<1>1. Sound => EveryFileListed
  BY SharedEntries, SplitsSound DEF EveryFileListed
<1> QED
  BY <1>1, ServerSound, PTL

\* What fits a message of a list that was answered fits one together.
THEOREM ListsAreBounded == GuiSpec => []ListsFit
<1>1. Sound => ListsFit
  BY SharedEntries, SplitsSound DEF ListsFit
<1> QED
  BY <1>1, ServerSound, PTL

\* END is the last line of a connection.
THEOREM EndStaysLast == GuiSpec => EndIsLast
<1>1. Sound /\ [GuiNext]_allVars =>
        [\A c \in Conn : conn[c] = "ended" => written'[c] = written[c]]_vars
  BY ServerStep, EndedStep DEF Sound
<1> QED
  BY <1>1, ServerSound, PTL DEF GuiSpec, EndIsLast

(***************************************************************************)
(* Sequences of lines and messages, as sets and by position.               *)
(***************************************************************************)
Elements(s) == {s[i] : i \in DOMAIN s}
Without(s, t) == \A i \in DOMAIN s : s[i].type # t
OnlyLast(s, t) == \A i \in DOMAIN s : s[i].type = t => i = Len(s)
OfLists(s) == {x \in Elements(s) : x.type = "list"}

LEMMA AppendForm ==
    ASSUME NEW S, NEW s \in Seq(S), NEW x \in S
    PROVE  /\ Append(s, x) \in Seq(S)
           /\ Elements(Append(s, x)) = Elements(s) \cup {x}
           /\ \A t : Without(s, t) /\ x.type # t => Without(Append(s, x), t)
           /\ \A t : Without(s, t) => OnlyLast(Append(s, x), t)
<1> DEFINE a == Append(s, x)
<1>1. /\ a \in Seq(S) /\ Len(a) = Len(s) + 1
      /\ \A i \in 1..Len(s) : a[i] = s[i]
      /\ a[Len(s) + 1] = x
  BY AppendProperties
<1>2. DOMAIN s = 1..Len(s) /\ DOMAIN a = 1..Len(a) /\ Len(s) \in Nat
  BY <1>1, LenProperties
<1> HIDE DEF a
<1>3. Elements(a) = Elements(s) \cup {x}
  BY <1>1, <1>2 DEF Elements
<1>4. \A t : Without(s, t) /\ x.type # t => Without(a, t)
  BY <1>1, <1>2 DEF Without
<1>5. \A t : Without(s, t) => OnlyLast(a, t)
  BY <1>1, <1>2 DEF Without, OnlyLast
<1> QED
  BY <1>1, <1>3, <1>4, <1>5 DEF a

LEMMA TailForm ==
    ASSUME NEW S, NEW s \in Seq(S), s # <<>>
    PROVE  /\ Tail(s) \in Seq(S)
           /\ Head(s) \in S
           /\ Elements(s) = {Head(s)} \cup Elements(Tail(s))
           /\ \A t : Without(s, t) => Without(Tail(s), t)
           /\ \A t : OnlyLast(s, t) => OnlyLast(Tail(s), t)
           /\ \A t : OnlyLast(s, t) /\ Head(s).type = t => Tail(s) = <<>>
           /\ \A t : OnlyLast(s, t) /\ Tail(s) # <<>> => Head(s).type # t
           /\ \A t : Without(s, t) => Head(s).type # t
<1> DEFINE r == Tail(s)
<1>1. /\ r \in Seq(S) /\ Len(r) = Len(s) - 1
      /\ \A i \in 1..Len(r) : r[i] = s[i + 1]
      /\ Head(s) \in S
  BY HeadTailProperties
<1>2. DOMAIN s = 1..Len(s) /\ DOMAIN r = 1..Len(r) /\ Len(s) \in Nat /\ Len(s) > 0
  BY <1>1, LenProperties
<1>3. Head(s) = s[1]
  OBVIOUS
<1>4. r = <<>> <=> Len(r) = 0
  BY <1>1, LenProperties
<1> HIDE DEF r
<1>5. Elements(s) = {Head(s)} \cup Elements(r)
  <2>1. \A i \in DOMAIN s : i = 1 \/ (i - 1 \in DOMAIN r /\ r[i - 1] = s[i])
    BY <1>1, <1>2
  <2>2. 1 \in DOMAIN s /\ \A i \in DOMAIN r : i + 1 \in DOMAIN s /\ r[i] = s[i + 1]
    BY <1>1, <1>2
  <2>3. ASSUME NEW i \in DOMAIN s PROVE s[i] \in {Head(s)} \cup Elements(r)
    BY <1>3, <2>1 DEF Elements
  <2>4. ASSUME NEW i \in DOMAIN r PROVE r[i] \in Elements(s)
    BY <2>2 DEF Elements
  <2>5. Head(s) \in Elements(s)
    BY <1>3, <2>2 DEF Elements
  <2>6. Elements(s) \subseteq {Head(s)} \cup Elements(r)
    BY <2>3 DEF Elements
  <2>7. Elements(r) \subseteq Elements(s)
    BY <2>4 DEF Elements
  <2> QED
    BY <2>5, <2>6, <2>7
<1>6. \A t : Without(s, t) => Without(r, t)
  BY <1>1, <1>2 DEF Without
<1>7. \A t : OnlyLast(s, t) => OnlyLast(r, t)
  BY <1>1, <1>2 DEF OnlyLast
<1>8. \A t : OnlyLast(s, t) /\ Head(s).type = t => r = <<>>
  BY <1>1, <1>2, <1>3, <1>4 DEF OnlyLast
<1>9. \A t : OnlyLast(s, t) /\ r # <<>> => Head(s).type # t
  BY <1>8
<1>10. \A t : Without(s, t) => Head(s).type # t
  BY <1>2, <1>3 DEF Without
<1> QED
  BY <1>1, <1>5, <1>6, <1>7, <1>8, <1>9, <1>10 DEF r

\* What remains of lines that were cut off.
LEMMA PrefixForm ==
    ASSUME NEW S, NEW s \in Seq(S), NEW x \in S, NEW r \in Prefixes(Append(s, x))
    PROVE  /\ r \in Seq(S)
           /\ r # Append(s, x) =>
                /\ Elements(r) \subseteq Elements(s)
                /\ \A t : Without(s, t) => Without(r, t)
<1> DEFINE a == Append(s, x)
<1>1. /\ a \in Seq(S) /\ Len(a) = Len(s) + 1
      /\ \A i \in 1..Len(s) : a[i] = s[i]
  BY AppendProperties
<1>2. DOMAIN s = 1..Len(s) /\ DOMAIN a = 1..Len(a) /\ Len(s) \in Nat
  BY <1>1, LenProperties
<1>3. PICK n \in 0..Len(a) : r = SubSeq(a, 1, n)
  BY DEF Prefixes
<1> HIDE DEF a
<1>4. /\ r \in Seq(S) /\ Len(r) = n
      /\ \A i \in 1..n : r[i] = a[i]
  BY <1>1, <1>2, <1>3, SubSeqProperties
<1>5. DOMAIN r = 1..n
  BY <1>4, LenProperties
<1>6. n = Len(a) => r = a
  BY <1>1, <1>3, SubSeqFull
<1>7. ASSUME r # a PROVE DOMAIN r \subseteq DOMAIN s /\ \A i \in DOMAIN r : r[i] = s[i]
  BY <1>1, <1>2, <1>4, <1>5, <1>6, <1>7
<1> QED
  BY <1>4, <1>7 DEF a, Elements, Without

(***************************************************************************)
(* The types of the GUI.                                                   *)
(***************************************************************************)
GuiTypes ==
    /\ stream \in Seq(GuiLists \cup {END})
    /\ mailbox \in Seq(GuiLists \cup {Exit})
    /\ table \subseteq GuiLists

LEMMA GuiListsKept ==
    ASSUME [GuiNext]_allVars
    PROVE  GuiLists' = GuiLists
<1>1. publicFiles' = publicFiles
  BY ServerStep, FilesKept
<1> QED
  BY <1>1, AnswersKept DEF GuiLists

LEMMA GuiListForm ==
    \A m \in GuiLists : m.type = "list"
BY AnswerableForm DEF GuiLists

\* What the peer writes to the connection of the GUI.
LEMMA ListsStep ==
    ASSUME TypeOK, NEW m \in net, Lists(m)
    PROVE  \/ UNCHANGED <<stream, written[GuiConn]>>
           \/ /\ conn[GuiConn] = "open" /\ m \in GuiLists
              /\ stream' = Append(stream, m)
              /\ written'[GuiConn] = written[GuiConn] \cup {m}
<1>1. /\ Handle(m)
      /\ stream' = IF written'[GuiConn] = written[GuiConn] THEN stream ELSE Append(stream, m)
  BY DEF Lists, ResponseReceived
<1>2. CASE written'[GuiConn] = written[GuiConn]
  BY <1>1, <1>2
<1>3. CASE written'[GuiConn] # written[GuiConn]
  <2>1. /\ GuiConn = m.q[1] /\ m.type = "list" /\ conn[GuiConn] = "open"
        /\ written'[GuiConn] = written[GuiConn] \cup {m}
    BY <1>1, <1>3, HandleStep, GuiAssumption
  <2>2. m.q \in {GuiConn} \X Peer /\ m \in Answers(m.q)
    BY <2>1, NetForm DEF Request
  <2>3. m \in GuiLists
    BY <2>2, AnswerableOf DEF GuiLists
  <2> QED
    BY <1>1, <1>3, <2>1, <2>3
<1> QED
  BY <1>2, <1>3

LEMMA GuiTypesNext ==
    ASSUME TypeOK, GuiTypes, [GuiNext]_allVars
    PROVE  GuiTypes'
<1>1. GuiLists' = GuiLists
  BY GuiListsKept
<1>2. CASE UNCHANGED allVars
  BY <1>1, <1>2 DEF allVars, gui, GuiTypes, END, Exit
<1>3. CASE Others
  BY <1>1, <1>3 DEF Others, gui, GuiTypes, END, Exit
<1>4. ASSUME NEW m \in net, Lists(m) PROVE GuiTypes'
  <2>1. stream' \in Seq(GuiLists \cup {END})
    <3>1. stream' = stream \/ (m \in GuiLists /\ stream' = Append(stream, m))
      BY <1>4, ListsStep
    <3> QED
      BY <3>1, AppendForm DEF GuiTypes
  <2> QED
    BY <1>1, <1>4, <2>1 DEF Lists, GuiTypes, END, Exit
<1>5. CASE Ends
  <2>1. stream' \in Prefixes(Append(stream, END))
    BY <1>5 DEF Ends
  <2>2. stream' \in Seq(GuiLists \cup {END})
    BY <2>1, PrefixForm DEF GuiTypes
  <2> QED
    BY <1>1, <1>5, <2>2 DEF Ends, GuiTypes, END, Exit
<1>6. CASE Act \/ InitializeConnection \/ GuiExits \/ EndOfStream \/ UpdaterResponded
  BY <1>1, <1>6 DEF Act, InitializeConnection, GuiExits, EndOfStream, UpdaterResponded,
     GuiTypes, END, Exit
<1>7. CASE HandleIncomingData
  <2>1. stream # <<>> /\ stream' = Tail(stream) /\ table' = table
    BY <1>7 DEF HandleIncomingData
  <2>2. stream' \in Seq(GuiLists \cup {END}) /\ Head(stream) \in GuiLists \cup {END}
    BY <2>1, TailForm DEF GuiTypes
  <2>3. \E x \in GuiLists \cup {Exit} : mailbox' = Append(mailbox, x)
    BY <1>7, <2>2 DEF HandleIncomingData, END
  <2>4. mailbox' \in Seq(GuiLists \cup {Exit})
    BY <2>3, AppendForm DEF GuiTypes
  <2> QED
    BY <1>1, <2>1, <2>2, <2>4 DEF GuiTypes, END, Exit
<1>8. CASE UpdateTable
  <2>1. mailbox # <<>> /\ mailbox' = Tail(mailbox) /\ stream' = stream
    BY <1>8 DEF UpdateTable
  <2>2. mailbox' \in Seq(GuiLists \cup {Exit}) /\ Head(mailbox) \in GuiLists \cup {Exit}
    BY <2>1, TailForm DEF GuiTypes
  <2>3. table' \subseteq GuiLists
    BY <1>8, <2>2 DEF UpdateTable, GuiTypes, Exit
  <2> QED
    BY <1>1, <2>1, <2>2, <2>3 DEF GuiTypes, END, Exit
<1> QED
  BY <1>2, <1>3, <1>4, <1>5, <1>6, <1>7, <1>8 DEF GuiNext, GuiStep

LEMMA GuiTypeNext ==
    ASSUME GuiTypeOK, [GuiNext]_allVars
    PROVE  GuiTypeOK'
<1>1. TypeOK /\ GuiTypes
  BY DEF GuiTypeOK, GuiTypes
<1>2. TypeOK' /\ GuiTypes'
  BY <1>1, ServerStep, TypeNext, GuiTypesNext
<1>3. /\ actor' \in {"none", "connecting", "reading", "asking", "done", "dead", "exited"}
      /\ updater' \in {"none", "running", "gone"}
      /\ busyTimer' \in BOOLEAN /\ cut' \in BOOLEAN
  BY DEF GuiTypeOK, GuiNext, GuiStep, Others, Lists, Ends, Act, InitializeConnection, GuiExits,
     HandleIncomingData, EndOfStream, UpdaterResponded, UpdateTable, allVars, gui
<1> QED
  BY <1>2, <1>3 DEF GuiTypeOK, GuiTypes

(***************************************************************************)
(* Where the lists are that the peer wrote to the connection: in the       *)
(* stream, in the mailbox of the updater or in the table, unless they were *)
(* cut off.  END and 'Exit come last.                                      *)
(***************************************************************************)
EndLast ==
    /\ conn[GuiConn] # "ended" =>
          ~cut /\ Without(stream, "END") /\ actor \notin {"asking", "done", "dead"}
    /\ OnlyLast(stream, "END")
    /\ cut => Without(stream, "END")
    /\ actor \in {"asking", "done"} => stream = <<>> /\ ~cut

ExitLast ==
    /\ OnlyLast(mailbox, "Exit")
    /\ actor \notin {"asking", "done", "exited"} =>
          Without(mailbox, "Exit") /\ updater # "gone"
    /\ updater = "gone" /\ actor # "exited" => mailbox = <<>>
    /\ actor = "done" => updater = "gone"

Flow == OfLists(stream) \cup OfLists(mailbox) \cup table
Carried ==
    /\ Flow \subseteq written[GuiConn]
    /\ ~cut => written[GuiConn] \subseteq Flow

GuiInv == GuiTypeOK /\ EndLast /\ ExitLast /\ Carried

LEMMA EmptyForm ==
    /\ OfLists(<<>>) = {} /\ \A t : Without(<<>>, t) /\ OnlyLast(<<>>, t)
BY DEF OfLists, Elements, Without, OnlyLast

LEMMA ListsOfAppend ==
    ASSUME NEW S, NEW s \in Seq(S), NEW x \in S
    PROVE  OfLists(Append(s, x)) = OfLists(s) \cup (IF x.type = "list" THEN {x} ELSE {})
BY AppendForm DEF OfLists

LEMMA ListsOfTail ==
    ASSUME NEW S, NEW s \in Seq(S), s # <<>>
    PROVE  OfLists(s) = OfLists(Tail(s))
                          \cup (IF Head(s).type = "list" THEN {Head(s)} ELSE {})
BY TailForm DEF OfLists

\* The server's steps, as the GUI sees them.
LEMMA OthersStep ==
    ASSUME TypeOK, Others
    PROVE  /\ UNCHANGED gui
           /\ written'[GuiConn] = written[GuiConn]
           /\ conn'[GuiConn] = conn[GuiConn]
<1>1. UNCHANGED gui
  BY DEF Others
<1>2. written' = written
  BY DEF Others, PeersListed, Connect, EndListing, ClientCloses, AnswerListFiles, Lose
<1>3. conn'[GuiConn] = conn[GuiConn]
  BY GuiAssumption DEF Others, PeersListed, Connect, EndListing, ClientCloses, AnswerListFiles,
     Lose, TypeOK
<1> QED
  BY <1>1, <1>2, <1>3

LEMMA GuiInvInit == GuiInit => GuiInv
<1> SUFFICES ASSUME GuiInit PROVE GuiInv
  OBVIOUS
<1>1. TypeOK /\ Init
  BY TypeInit DEF GuiInit
<1>2. GuiTypeOK
  BY <1>1, EmptySeq DEF GuiInit, GuiTypeOK
<1>3. conn[GuiConn] = "none" /\ written[GuiConn] = {}
  BY <1>1, GuiAssumption DEF Init
<1> QED
  BY <1>2, <1>3, EmptyForm DEF GuiInit, GuiInv, EndLast, ExitLast, Carried, Flow

(***************************************************************************)
(* One lemma per step; each shows what Carried, EndLast and ExitLast say   *)
(* of the next state.                                                      *)
(***************************************************************************)
GuiFlow == EndLast /\ ExitLast /\ Carried

LEMMA ServerFlow ==
    ASSUME GuiInv, Others \/ UNCHANGED allVars
    PROVE  GuiFlow'
<1>1. TypeOK
  BY DEF GuiInv, GuiTypeOK
<1>2. /\ UNCHANGED <<actor, stream, updater, mailbox, table, cut>>
      /\ written'[GuiConn] = written[GuiConn]
      /\ conn'[GuiConn] = conn[GuiConn]
  BY <1>1, OthersStep DEF allVars, vars, gui
<1> QED
  BY <1>2 DEF GuiInv, GuiFlow, EndLast, ExitLast, Carried, Flow

LEMMA ListsFlow ==
    ASSUME GuiInv, NEW m \in net, Lists(m)
    PROVE  GuiFlow'
<1>1. TypeOK /\ GuiTypes
  BY DEF GuiInv, GuiTypeOK, GuiTypes
<1>2. /\ conn' = conn
      /\ UNCHANGED <<actor, updater, mailbox, table, cut>>
  BY DEF Lists, ResponseReceived
<1>3. CASE UNCHANGED <<stream, written[GuiConn]>>
  BY <1>2, <1>3 DEF GuiInv, GuiFlow, EndLast, ExitLast, Carried, Flow
<1>4. CASE /\ conn[GuiConn] = "open" /\ m \in GuiLists
           /\ stream' = Append(stream, m)
           /\ written'[GuiConn] = written[GuiConn] \cup {m}
  <2>1. m.type = "list" /\ stream \in Seq(GuiLists \cup {END})
    BY <1>1, <1>4, GuiListForm DEF GuiTypes
  <2>2. ~cut /\ Without(stream, "END") /\ actor \notin {"asking", "done", "dead"}
    BY <1>4 DEF GuiInv, EndLast
  <2>3. Without(stream', "END") /\ OnlyLast(stream', "END")
    BY <1>4, <2>1, <2>2, AppendForm
  <2>4. OfLists(stream') = OfLists(stream) \cup {m}
    BY <1>4, <2>1, ListsOfAppend
  <2>5. EndLast'
    BY <1>2, <1>4, <2>2, <2>3 DEF EndLast
  <2>6. ExitLast'
    BY <1>2 DEF GuiInv, ExitLast
  <2>7. Carried'
    <3>1. OfLists(mailbox)' = OfLists(mailbox)
      BY <1>2
    <3>2. Flow' = Flow \cup {m}
      BY <1>2, <2>4, <3>1 DEF Flow
    <3> QED
      BY <1>2, <1>4, <3>2 DEF GuiInv, Carried
  <2> QED
    BY <2>5, <2>6, <2>7 DEF GuiFlow
<1> QED
  BY <1>1, <1>3, <1>4, ListsStep

LEMMA EndsFlow ==
    ASSUME GuiInv, Ends
    PROVE  GuiFlow'
<1>1. TypeOK /\ stream \in Seq(GuiLists \cup {END}) /\ END.type = "END"
  BY DEF GuiInv, GuiTypeOK, END
<1>2. /\ conn[GuiConn] # "ended" /\ conn'[GuiConn] = "ended"
      /\ UNCHANGED <<written, actor, updater, mailbox, table>>
      /\ stream' \in Prefixes(Append(stream, END))
      /\ cut' = (stream' # Append(stream, END))
  BY <1>1, GuiAssumption DEF Ends, EndListing, TypeOK
<1>3. ~cut /\ Without(stream, "END") /\ actor \notin {"asking", "done", "dead"}
  BY <1>2 DEF GuiInv, EndLast
<1>4. ExitLast'
  BY <1>2 DEF GuiInv, ExitLast
<1>5. OfLists(mailbox)' = OfLists(mailbox)
  BY <1>2
<1>6. OfLists(stream) \cup OfLists(mailbox) \cup table = written[GuiConn]
  BY <1>3 DEF GuiInv, Carried, Flow
<1>7. CASE stream' = Append(stream, END)
  <2>1. OnlyLast(stream', "END") /\ OfLists(stream') = OfLists(stream)
    <3>1. END \in GuiLists \cup {END} /\ END.type # "list"
      BY <1>1
    <3>2. OnlyLast(stream', "END")
      BY <1>1, <1>3, <1>7, <3>1, AppendForm
    <3>3. OfLists(stream') = OfLists(stream) \cup {}
      BY <1>1, <1>7, <3>1, ListsOfAppend
    <3> QED
      BY <3>2, <3>3
  <2>2. EndLast'
    BY <1>2, <1>3, <1>7, <2>1 DEF EndLast
  <2>3. Carried'
    BY <1>2, <1>5, <1>6, <2>1 DEF Carried, Flow
  <2> QED
    BY <1>4, <2>2, <2>3 DEF GuiFlow
<1>8. CASE stream' # Append(stream, END)
  <2>1. Elements(stream') \subseteq Elements(stream) /\ Without(stream', "END")
    BY <1>1, <1>2, <1>3, <1>8, PrefixForm
  <2>2. OfLists(stream') \subseteq OfLists(stream) /\ OnlyLast(stream', "END")
    BY <2>1 DEF OfLists, Without, OnlyLast
  <2>3. EndLast'
    BY <1>2, <1>3, <2>1, <2>2 DEF EndLast
  <2>4. Carried'
    BY <1>2, <1>5, <1>6, <1>8, <2>2 DEF Carried, Flow
  <2> QED
    BY <1>4, <2>3, <2>4 DEF GuiFlow
<1> QED
  BY <1>7, <1>8

\* The steps of the GUI that move no line.
LEMMA ActorFlow ==
    ASSUME GuiInv, Act \/ InitializeConnection \/ GuiExits \/ EndOfStream \/ UpdaterResponded
    PROVE  GuiFlow'
<1>1. UNCHANGED <<written, stream, mailbox, table, cut>>
  BY DEF Act, InitializeConnection, Connect, GuiExits, ClientCloses, EndOfStream,
     UpdaterResponded, vars
<1>2. conn'[GuiConn] = "ended" <=> conn[GuiConn] = "ended"
  <2>1. conn \in [Conn -> {"none", "open", "gone", "stuck", "ended"}]
    BY DEF GuiInv, GuiTypeOK, TypeOK
  <2> QED
    BY <2>1, GuiAssumption DEF Act, InitializeConnection, Connect, GuiExits, ClientCloses,
       EndOfStream, UpdaterResponded, vars
<1>3. Carried'
  BY <1>1 DEF GuiInv, Carried, Flow
<1>4. EndLast'
  BY <1>1, <1>2 DEF GuiInv, EndLast, Act, InitializeConnection, GuiExits, EndOfStream,
     UpdaterResponded, ExitLast
<1>5. ExitLast'
  BY <1>1 DEF GuiInv, ExitLast, Act, InitializeConnection, GuiExits, EndOfStream,
     UpdaterResponded
<1> QED
  BY <1>3, <1>4, <1>5 DEF GuiFlow

LEMMA LineFlow ==
    ASSUME GuiInv, HandleIncomingData
    PROVE  GuiFlow'
<1> DEFINE line == Head(stream)
<1>1. /\ stream \in Seq(GuiLists \cup {END}) /\ mailbox \in Seq(GuiLists \cup {Exit})
      /\ END.type = "END" /\ Exit.type = "Exit"
  BY DEF GuiInv, GuiTypeOK, END, Exit
<1>2. /\ actor = "reading" /\ stream # <<>> /\ stream' = Tail(stream)
      /\ UNCHANGED <<conn, written, updater, table, cut>>
  BY DEF HandleIncomingData, vars
<1>3. EndLast /\ ExitLast /\ Carried
  BY DEF GuiInv
<1>4. Without(mailbox, "Exit") /\ updater # "gone"
  BY <1>2, <1>3 DEF ExitLast
<1>5. /\ line \in GuiLists \cup {END}
      /\ \A t : Without(stream, t) => Without(stream', t) /\ line.type # t
      /\ OnlyLast(stream', "END")
      /\ line.type = "END" => stream' = <<>>
  BY <1>1, <1>2, <1>3, TailForm DEF EndLast
<1>6. OfLists(stream) = OfLists(stream') \cup (IF line.type = "list" THEN {line} ELSE {})
  BY <1>1, <1>2, ListsOfTail
<1> HIDE DEF line
<1>7. CASE line.type = "END"
  <2>1. actor' = "asking" /\ mailbox' = Append(mailbox, Exit)
    BY <1>7 DEF HandleIncomingData, line
  <2>2. conn[GuiConn] = "ended" /\ ~cut
    BY <1>3, <1>5, <1>7 DEF EndLast
  <2>3. EndLast'
    BY <1>2, <1>5, <1>7, <2>1, <2>2 DEF EndLast
  <2>4. OnlyLast(mailbox', "Exit") /\ OfLists(mailbox') = OfLists(mailbox)
    <3>1. Exit \in GuiLists \cup {Exit} /\ Exit.type # "list"
      BY <1>1
    <3>2. OnlyLast(mailbox', "Exit")
      BY <1>1, <1>4, <2>1, <3>1, AppendForm
    <3>3. OfLists(mailbox') = OfLists(mailbox) \cup {}
      BY <1>1, <2>1, <3>1, ListsOfAppend
    <3> QED
      BY <3>2, <3>3
  <2>5. ExitLast'
    BY <1>2, <1>4, <2>1, <2>4 DEF ExitLast
  <2>6. Flow' = Flow
    BY <1>2, <1>6, <1>7, <2>4 DEF Flow
  <2>7. Carried'
    BY <1>2, <1>3, <2>6 DEF Carried
  <2> QED
    BY <2>3, <2>5, <2>7 DEF GuiFlow
<1>8. CASE line.type # "END"
  <2>1. actor' = actor /\ mailbox' = Append(mailbox, line)
    BY <1>8 DEF HandleIncomingData, line
  <2>2. line \in GuiLists /\ line.type = "list"
    BY <1>1, <1>5, <1>8, GuiListForm
  <2>3. EndLast'
    BY <1>2, <1>3, <1>5, <2>1 DEF EndLast
  <2>4. /\ OnlyLast(mailbox', "Exit") /\ Without(mailbox', "Exit")
        /\ OfLists(mailbox') = OfLists(mailbox) \cup {line}
    BY <1>1, <1>4, <2>1, <2>2, AppendForm, ListsOfAppend
  <2>5. ExitLast'
    BY <1>2, <1>4, <2>1, <2>4 DEF ExitLast
  <2>6. Flow' = Flow
    BY <1>2, <1>6, <2>2, <2>4 DEF Flow
  <2>7. Carried'
    BY <1>2, <1>3, <2>6 DEF Carried
  <2> QED
    BY <2>3, <2>5, <2>7 DEF GuiFlow
<1> QED
  BY <1>7, <1>8

LEMMA TableFlow ==
    ASSUME GuiInv, UpdateTable
    PROVE  GuiFlow'
<1> DEFINE message == Head(mailbox)
<1>1. mailbox \in Seq(GuiLists \cup {Exit}) /\ Exit.type = "Exit"
  BY DEF GuiInv, GuiTypeOK, Exit
<1>2. /\ updater = "running" /\ mailbox # <<>> /\ mailbox' = Tail(mailbox)
      /\ UNCHANGED <<conn, written, actor, stream, cut>>
  BY DEF UpdateTable, vars
<1>3. EndLast /\ ExitLast /\ Carried
  BY DEF GuiInv
<1>4. /\ message \in GuiLists \cup {Exit}
      /\ \A t : Without(mailbox, t) => Without(mailbox', t) /\ message.type # t
      /\ OnlyLast(mailbox', "Exit")
      /\ message.type = "Exit" => mailbox' = <<>>
  BY <1>1, <1>2, <1>3, TailForm DEF ExitLast
<1>5. OfLists(mailbox) = OfLists(mailbox') \cup (IF message.type = "list" THEN {message} ELSE {})
  BY <1>1, <1>2, ListsOfTail
<1>6. EndLast'
  BY <1>2, <1>3 DEF EndLast
<1> HIDE DEF message
<1>7. OfLists(stream)' = OfLists(stream)
  BY <1>2
<1>8. CASE message.type = "Exit"
  <2>1. updater' = "gone" /\ table' = table
    BY <1>8 DEF UpdateTable, message
  <2>2. actor \in {"asking", "done", "exited"}
    BY <1>3, <1>4, <1>8 DEF ExitLast
  <2>3. ExitLast'
    BY <1>2, <1>4, <1>8, <2>1, <2>2 DEF ExitLast
  <2>4. Flow' = Flow
    BY <1>5, <1>7, <1>8, <2>1 DEF Flow
  <2> QED
    BY <1>2, <1>3, <1>6, <2>3, <2>4 DEF Carried, GuiFlow
<1>9. CASE message.type # "Exit"
  <2>1. updater' = updater /\ table' = table \cup {message}
    BY <1>9 DEF UpdateTable, message
  <2>2. message.type = "list"
    BY <1>1, <1>4, <1>9, GuiListForm
  <2>3. ExitLast'
    BY <1>2, <1>3, <1>4, <2>1 DEF ExitLast
  <2>4. Flow' = Flow
    BY <1>5, <1>7, <2>1, <2>2 DEF Flow
  <2> QED
    BY <1>2, <1>3, <1>6, <2>3, <2>4 DEF Carried, GuiFlow
<1> QED
  BY <1>8, <1>9

LEMMA GuiInvNext ==
    ASSUME GuiInv, [GuiNext]_allVars
    PROVE  GuiInv'
<1>1. GuiTypeOK'
  BY GuiTypeNext DEF GuiInv
<1>2. GuiFlow'
  BY ServerFlow, ListsFlow, EndsFlow, ActorFlow, LineFlow, TableFlow DEF GuiNext, GuiStep
<1> QED
  BY <1>1, <1>2 DEF GuiInv, GuiFlow

LEMMA GuiInvariant == GuiSpec => []GuiInv
BY GuiInvInit, GuiInvNext, PTL DEF GuiSpec

\* The variables of the peer and of the GUI have their types.
THEOREM TypeCorrect == GuiSpec => []GuiTypeOK
<1>1. GuiInv => GuiTypeOK
  BY DEF GuiInv
<1> QED
  BY <1>1, GuiInvariant, PTL

\* Nothing is on its way any more when the actor is done.
LEMMA TableIsWritten ==
    ASSUME GuiInv, actor = "done"
    PROVE  table = written[GuiConn]
<1>1. stream = <<>> /\ mailbox = <<>> /\ ~cut
  BY DEF GuiInv, EndLast, ExitLast
<1>2. OfLists(stream) = {} /\ OfLists(mailbox) = {}
  BY <1>1, EmptyForm
<1> QED
  BY <1>1, <1>2 DEF GuiInv, Carried, Flow

\* When the icon stops, the table holds every list that was written to the
\* connection.
THEOREM TableFilled == GuiSpec => []TableComplete
<1>1. GuiInv => TableComplete
  BY TableIsWritten DEF TableComplete
<1> QED
  BY <1>1, GuiInvariant, PTL

(***************************************************************************)
(* From the splitting at a member to the table.                            *)
(***************************************************************************)

\* One list of a member holds an entry that fits a message, and no other.
LEMMA EntryAnswered ==
    ASSUME Sound, NEW q \in replied,
           NEW i \in Fitting(publicFiles[q[2]], DOMAIN publicFiles[q[2]])
    PROVE  \E m \in Answers(q) :
              i \in Shown(m) /\ \A n \in Answers(q) : i \in Shown(n) => n = m
<1> DEFINE s == publicFiles[q[2]]
           lists == SplitInLists(s)
<1>1. s \in Seq(Nat \ {0}) BY SharedEntries
<1>2. Once(lists, i) BY <1>1, ListsEnd
<1>3. PICK k \in DOMAIN lists : \A h \in DOMAIN lists : i \in lists[h] <=> h = k
  BY <1>2, Zenon DEF Once
<1>4. s # NotJoined BY DEF Sound, Sharing
<1>5. Answers(q) = {List(q, h) : h \in DOMAIN lists} BY <1>4 DEF Answers
<1>6. \A h : List(q, h).q = q /\ List(q, h).k = h BY DEF List
<1>7. \A h : Shown(List(q, h)) = lists[h] BY <1>6 DEF Shown
<1> HIDE DEF s, lists
<1>8. List(q, k) \in Answers(q) /\ i \in Shown(List(q, k)) BY <1>3, <1>5, <1>7
<1>9. ASSUME NEW n \in Answers(q), i \in Shown(n) PROVE n = List(q, k)
  <2>1. PICK h \in DOMAIN lists : n = List(q, h) BY <1>5
  <2>2. i \in lists[h] BY <1>7, <1>9, <2>1
  <2> QED BY <1>3, <2>1, <2>2
<1> QED BY <1>8, <1>9

\* When the icon stops, every file of a member that answered, and whose entry fits a
\* message, is in the table once, unless its list was lost, late or is under way.
THEOREM FilesReachTable == GuiSpec => []FilesShown
<1>1. ASSUME Sound, GuiInv PROVE FilesShown
  <2>1. SUFFICES ASSUME actor = "done", NEW q \in replied, q[1] = GuiConn,
                        NEW i \in Fitting(publicFiles[q[2]], DOMAIN publicFiles[q[2]])
                 PROVE  \E m \in Answers(q) \cap (table \cup net \cup missed) :
                           /\ i \in Shown(m)
                           /\ \A n \in table : n.q = q /\ i \in Shown(n) => n = m
    BY DEF FilesShown
  <2>2. table = written[GuiConn] BY <1>1, <2>1, TableIsWritten
  <2>3. PICK m \in Answers(q) :
           i \in Shown(m) /\ \A n \in Answers(q) : i \in Shown(n) => n = m
    BY <1>1, EntryAnswered
  <2>4. m \in table \cup net \cup missed
    BY <1>1, <2>1, <2>2, <2>3 DEF Sound, ListsAccounted
  <2>5. table \subseteq GuiLists BY <1>1 DEF GuiInv, GuiTypeOK
  <2>6. \A n \in table : n \in Answers(n.q) BY <2>5, AnswerableForm DEF GuiLists
  <2> QED BY <2>3, <2>4, <2>6
<1> QED
  BY <1>1, ServerSound, GuiInvariant, PTL
=============================================================================
