------------------------------- MODULE Listing -------------------------------
(***************************************************************************)
(* One call of listFiles (core/lib/filetransfer/filetransfer.js).  The     *)
(* peer asks for the members of the network, opens a server and tells the  *)
(* caller its address.  Each connection to the server makes it ask every   *)
(* member for its files; a member answers with several lists under one     *)
(* request id, because a message may hold listLimit characters only; each  *)
(* list that arrives is written to the connection, until a timer writes    *)
(* END and destroys it.                                                    *)
(*                                                                         *)
(* The list of a member is the sequence of the lengths of its entries; a   *)
(* list under way is the set of the positions it holds.  Messages are      *)
(* unordered and may be lost.                                              *)
(***************************************************************************)
EXTENDS Naturals, Sequences, FiniteSets, Splitting

CONSTANTS Peer,      \* the other members of the network
          Conn,      \* the connections made to the listing server
          Shares,    \* the lists each member may share
          NotJoined, \* in place of the list, when a member left the network
          NoPeers    \* what a failed listPeers gives

ASSUME ListingAssumption ==
    /\ \A p \in Peer : \A s \in Shares[p] : s = NotJoined \/ s \in Seq(Nat \ {0})
    /\ \A l \in SUBSET Peer : l # NoPeers

VARIABLES publicFiles, \* publicFiles[network] of each member
          server,      \* the listing server
          peerList,    \* what listPeers gave
          conn,        \* the state of each connection
          ownRequests, \* the requests registered, by connection and member
          net,         \* the messages under way
          written,     \* the lists written to each connection
          replied,     \* history: the requests that were answered with lists
          missed       \* history: the lists that were lost or came too late

vars == <<publicFiles, server, peerList, conn, ownRequests, net, written, replied, missed>>

Request == Conn \X Peer

Query(q) == [type |-> "query", q |-> q, k |-> 0]
Failure(q) == [type |-> "error", q |-> q, k |-> 0]
List(q, k) == [type |-> "list", q |-> q, k |-> k]

\* The lists that the members would send in answer to a request.
Answers(q) ==
    IF publicFiles[q[2]] = NotJoined THEN {}
    ELSE {List(q, k) : k \in DOMAIN SplitInLists(publicFiles[q[2]])}
Answerable(requests) == UNION {Answers(q) : q \in requests}

TypeOK ==
    /\ \A p \in Peer : publicFiles[p] \in Shares[p]
    /\ server \in {"none", "listening", "closed"}
    /\ peerList = NoPeers \/ peerList \subseteq Peer
    /\ conn \in [Conn -> {"none", "open", "gone", "stuck", "ended"}]
    /\ ownRequests \subseteq Request
    /\ net \subseteq {Query(q) : q \in ownRequests} \cup {Failure(q) : q \in ownRequests}
                    \cup Answerable(ownRequests)
    /\ written \in [Conn -> SUBSET Answerable(ownRequests)]
    /\ \A c \in Conn : \A m \in written[c] : m.q[1] = c
    /\ replied \subseteq ownRequests

Init ==
    /\ publicFiles \in {f \in [Peer -> UNION {Shares[p] : p \in Peer}] :
                          \A p \in Peer : f[p] \in Shares[p]}
    /\ server = "none"
    /\ peerList = NoPeers
    /\ conn = [c \in Conn |-> "none"]
    /\ ownRequests = {}
    /\ net = {}
    /\ written = [c \in Conn |-> {}]
    /\ replied = {}
    /\ missed = {}

StartFileListingServer == server' = "listening"
\* Closing a server that is closed throws, which is caught.
StopFileListingServer == server' = "closed"
RegisterOwnRequests(c) == ownRequests' = ownRequests \cup ({c} \X peerList)

\* The callback of Peers.listPeers.  An error is not looked at: the server is
\* opened and its address given to the caller all the same.
PeersListed ==
    /\ server = "none"
    /\ StartFileListingServer
    /\ peerList' \in (SUBSET Peer) \cup {NoPeers}
    /\ UNCHANGED <<publicFiles, conn, ownRequests, net, written, replied, missed>>

(***************************************************************************)
(* A connection to the listing server.  Every member is asked, and a timer *)
(* is set at the end; without a list of members the handler throws before  *)
(* it comes to that.                                                       *)
(***************************************************************************)
Connect(c) ==
    /\ server = "listening"
    /\ conn[c] = "none"
    /\ IF peerList = NoPeers
         THEN /\ conn' = [conn EXCEPT ![c] = "stuck"]
              /\ UNCHANGED <<ownRequests, net>>
         ELSE /\ conn' = [conn EXCEPT ![c] = "open"]
              /\ RegisterOwnRequests(c)
              /\ net' = net \cup {Query(q) : q \in {c} \X peerList}
    /\ UNCHANGED <<publicFiles, server, peerList, written, replied, missed>>

\* _answerListFilesRequest at a member.  A member that shares no files sends
\* nothing at all.
AnswerListFiles(m) ==
    LET files == publicFiles[m.q[2]] IN
    /\ m.type = "query"
    /\ IF files = NotJoined
         THEN net' = (net \ {m}) \cup {Failure(m.q)} /\ UNCHANGED replied
         ELSE /\ net' = (net \ {m}) \cup {List(m.q, k) : k \in DOMAIN SplitInLists(files)}
              /\ replied' = replied \cup {m.q}
    /\ UNCHANGED <<publicFiles, server, peerList, conn, ownRequests, written, missed>>

\* The handler of the request, which stays registered for the lists that follow;
\* writing to a connection that is destroyed throws.
\* Slips: the handler is removed by the first list; the connection is not
\* destroyed, so that a late list is written to it.
HandleOnce(m) ==
    LET c == m.q[1] IN
    /\ ownRequests' = ownRequests \ {m.q}
    /\ IF m.type = "list" /\ m.q \in ownRequests /\ conn[c] = "open"
         THEN written' = [written EXCEPT ![c] = @ \cup {m}] /\ UNCHANGED missed
         ELSE UNCHANGED <<written, missed>>
HandleLate(m) ==
    LET c == m.q[1] IN
    /\ IF m.type = "list" /\ m.q \in ownRequests
         THEN written' = [written EXCEPT ![c] = @ \cup {m}] /\ UNCHANGED missed
         ELSE UNCHANGED <<written, missed>>
    /\ UNCHANGED ownRequests
Handle(m) ==
    LET c == m.q[1] IN
    /\ IF m.type = "list" /\ m.q \in ownRequests
         THEN IF conn[c] = "open"
                THEN written' = [written EXCEPT ![c] = @ \cup {m}]
                     /\ UNCHANGED missed
                ELSE missed' = missed \cup {m} /\ UNCHANGED written
         ELSE UNCHANGED <<written, missed>>
    /\ UNCHANGED ownRequests

ResponseReceived(m) ==
    /\ m.type \in {"list", "error"}
    /\ net' = net \ {m}
    /\ Handle(m)
    /\ UNCHANGED <<publicFiles, server, peerList, conn, replied>>

\* listenTimeout is over for a connection: END, and the server closes.
\* Slip: the server is closed, the connection forgotten.
EndServerOnly(c) ==
    /\ conn[c] \in {"open", "gone"} /\ server = "listening"
    /\ server' = "closed"
    /\ UNCHANGED <<publicFiles, peerList, conn, ownRequests, net, written, replied, missed>>
EndListing(c) ==
    /\ conn[c] \in {"open", "gone"}
    /\ conn' = [conn EXCEPT ![c] = "ended"]
    /\ StopFileListingServer
    /\ UNCHANGED <<publicFiles, peerList, ownRequests, net, written, replied, missed>>

\* The client closes the connection.
ClientCloses(c) ==
    /\ conn[c] = "open"
    /\ conn' = [conn EXCEPT ![c] = "gone"]
    /\ UNCHANGED <<publicFiles, server, peerList, ownRequests, net, written, replied, missed>>

Lose(m) ==
    /\ net' = net \ {m}
    /\ missed' = missed \cup {m}
    /\ UNCHANGED <<publicFiles, server, peerList, conn, ownRequests, written, replied>>

Next ==
    \/ PeersListed
    \/ \E c \in Conn : Connect(c) \/ EndListing(c) \/ ClientCloses(c)
    \/ \E m \in net : AnswerListFiles(m) \/ ResponseReceived(m) \/ Lose(m)

Spec == Init /\ [][Next]_vars

\* The timer of a connection fires.
LiveSpec == Spec /\ \A c \in Conn : WF_vars(EndListing(c))

(***************************************************************************)
(*                               Properties                                *)
(***************************************************************************)

\* Of a member that answered, every file whose entry fits a message is in exactly
\* one list: none is dropped by the splitting, and none is listed twice.
EveryFileListed ==
    \A q \in replied : ListedOnce(publicFiles[q[2]], SplitInLists(publicFiles[q[2]]))

\* Every list of a member that answered is on the connection that asked, or on its
\* way, or was lost or came after the connection was over: none is dropped by the
\* handler, which serves several lists under one id, or by the other connections.
ListsAccounted ==
    \A q \in replied : Answers(q) \subseteq written[q[1]] \cup net \cup missed

\* A list is not longer than the limit, but for entries that are longer themselves.
ListsFit ==
    \A q \in replied : ListsBounded(publicFiles[q[2]], SplitInLists(publicFiles[q[2]]))

\* END is the last line of a connection, however late the members answer.
EndIsLast == [][\A c \in Conn : conn[c] = "ended" => written'[c] = written[c]]_vars

\* A connection gets its END, whoever answers, unless the members could not be
\* listed or the client closed it.
EndComes == \A c \in Conn : conn[c] = "open" ~> conn[c] \in {"ended", "gone"}

(***************************************************************************)
(* What the source says, and the code does not do.                         *)
(***************************************************************************)

\* filetransfer.js:877 says that a request stops listening 30 seconds after a
\* list arrived: when a connection is over and nothing is under way, its requests
\* are not registered any more.
StopsListening ==
    \A c \in Conn : conn[c] = "ended" /\ net = {} => \A q \in ownRequests : q[1] # c

\* filetransfer.js:835-836 says that after a timeout END is sent and the socket is
\* closed.
SocketCloses == \A c \in Conn : conn[c] # "none" ~> conn[c] \in {"ended", "gone"}
==============================================================================
