---------------------------- MODULE FileTransfer ----------------------------
(***************************************************************************)
(* Downloads (core/lib/filetransfer/filetransfer.js): a peer finds in the  *)
(* DHT who shares a file, asks for it, and reads it from a server that     *)
(* the provider opens for this one request.  What the provider shares is   *)
(* Publishing; between the put that lets the provider be found and the     *)
(* request it may leave, share another folder, or stop.                    *)
(*                                                                         *)
(* A download is one call of retrieveFile; its record in                   *)
(* ownDownloadRequests is kept under a fresh id.  Messages are unordered   *)
(* and may be lost.  Connections deliver what was written to them, in      *)
(* order, and may fail; when the provider's process ends, the system ends  *)
(* its connections with what it has been given so far.  A block of a file  *)
(* is the data of one 'data' event.                                        *)
(***************************************************************************)
EXTENDS Publishing

CONSTANTS Download,  \* the calls of retrieveFile
          Wanted,    \* the file each asks for
          MaxBlocks  \* bound: the blocks of a file

ASSUME FileTransferAssumption ==
    /\ Wanted \in [Download -> File]
    /\ MaxBlocks \in Nat

VARIABLES disk,     \* the blocks of each file of the provider, now
          sizes,    \* the blocks it had when the list was read (e.size)
          up,       \* whether the provider's process runs
          phase,    \* how far each call of retrieveFile is
          records,  \* the downloads in ownDownloadRequests
          size,     \* downloadData.size
          received, \* downloadData.received
          net,      \* the messages under way between the peers
          fileSize, \* the provider's answer to each request, while it listens
          server,   \* the file server of each request, at the provider
          con,      \* the connection of each download
          flight,   \* the blocks written to it and not yet read
          sent,     \* history: the blocks the provider wrote to it
          served,   \* history: the downloads whose file the provider read
          finished, \* history: the downloads reported as finished
          lost,     \* history: the messages that were lost
          failed    \* history: the requests the provider did not serve

provider == <<disk, sizes, up, fileSize, server, sent, served, failed>>
requester == <<phase, records, size, received, finished>>
links == <<net, con, flight, lost>>
dvars == <<provider, requester, links>>
vars == <<pvars, dvars>>

Blocks == 0..MaxBlocks
Message == [type : {"getFile", "error"}, id : Download, size : {0}]
           \cup [type : {"info"}, id : Download, size : Blocks]
Msg(t, d, n) == [type |-> t, id |-> d, size |-> n]

Phase == {"idle", "searching", "refused", "asked"}
ServerState == {"none", "starting", "listening", "reading", "closed"}
ConState == {"none", "connecting", "accepted", "ending", "ended", "broken"}

DTypeOK ==
    /\ disk \in [File -> Blocks] /\ sizes \in [File -> Blocks]
    /\ up \in BOOLEAN
    /\ phase \in [Download -> Phase]
    /\ records \subseteq Download
    /\ size \in [Download -> Blocks] /\ received \in [Download -> Nat]
    /\ net \subseteq Message /\ lost \subseteq Message
    /\ server \in [Download -> ServerState] /\ fileSize \in [Download -> Blocks]
    /\ con \in [Download -> ConState]
    /\ flight \in [Download -> Blocks] /\ sent \in [Download -> Blocks]
    /\ finished \subseteq Download
    /\ served \subseteq Download /\ failed \subseteq Download

TypeOK == PTypeOK /\ DTypeOK

Zero == [d \in Download |-> 0]

Init ==
    /\ PInit
    /\ disk \in [File -> Blocks] /\ sizes = disk
    /\ up = TRUE
    /\ phase = [d \in Download |-> "idle"]
    /\ records = {} /\ size = Zero /\ received = Zero
    /\ net = {} /\ lost = {}
    /\ server = [d \in Download |-> "none"] /\ fileSize = Zero
    /\ con = [d \in Download |-> "none"]
    /\ flight = Zero /\ sent = Zero
    /\ finished = {} /\ served = {} /\ failed = {}

(***************************************************************************)
(* What the provider shares.  Reading the folder also reads the sizes.     *)
(***************************************************************************)
ReadFolder ==
    /\ up
    /\ \E s \in Scan : NetworkJoined(s) \/ SetShareFolder(s)
    /\ sizes' = disk
    /\ UNCHANGED <<disk, up, fileSize, server, sent, served, failed, requester, links>>

Publish ==
    /\ \/ up /\ NetworkLeft
       \/ up /\ \E n \in intervals : RefreshFileList(n)
       \/ up /\ \E i \in Index : AddNext(i)
       \/ \E f \in dht : Expire(f)
    /\ UNCHANGED dvars

\* Somebody changes a file.
Write(f, n) ==
    /\ n # disk[f]
    /\ disk' = [disk EXCEPT ![f] = n]
    /\ UNCHANGED <<sizes, up, fileSize, server, sent, served, failed, requester, links, pvars>>

\* What goes out to another peer, through Peers.sendMessage.
SendMessage(m) == net' = net \cup {m}

RegisterDownload(d) == records' = records \cup {d}
DeleteDownload(d) == records' = records \ {d}

\* Whether downloadInfo has an answer for d other than an error.
Known(d) == d \in records

\* Whether the get of a file's key names the provider; a get that fails gives
\* no value, like one that finds none.
DHTget(f) == {FALSE} \cup {(f \in dht)}
FindFileInNetwork(f, found) == found \in DHTget(f)

(***************************************************************************)
(* retrieveFile.  Whether the network is joined is asked first, the DHT    *)
(* next; who is found is asked for the file, and the caller gets the id.   *)
(* The network may have been left in between.                              *)
(***************************************************************************)
RetrieveFile(d) ==
    /\ phase[d] = "idle"
    /\ \E ph \in {"searching", "refused"} : phase' = [phase EXCEPT ![d] = ph]
    /\ UNCHANGED <<records, size, received, finished, provider, links, pvars>>

FileFound(d) ==
    /\ phase[d] = "searching"
    /\ FindFileInNetwork(Wanted[d], TRUE)
    /\ phase' = [phase EXCEPT ![d] = "asked"]
    /\ RegisterDownload(d)
    /\ SendMessage(Msg("getFile", d, 0))
    /\ UNCHANGED <<size, received, finished, con, flight, lost, provider, pvars>>

FileNotFound(d) ==
    /\ phase[d] = "searching"
    /\ FindFileInNetwork(Wanted[d], FALSE)
    /\ phase' = [phase EXCEPT ![d] = "refused"]
    /\ UNCHANGED <<records, size, received, finished, provider, links, pvars>>

(***************************************************************************)
(* The provider.  _answerFileRequest reads publicFiles[network] without    *)
(* asking whether there is one: after a leave it throws, and the requester *)
(* gets no answer.                                                         *)
(***************************************************************************)
Without(m) == net' = net \ {m}
Answer(m, a) == net' = (net \ {m}) \cup {a}
InState(d, s) == server' = [server EXCEPT ![d] = s]

\* Slip: the request stays where it was read, and is answered again.
AnswerAgain(m) ==
    LET d == m.id IN
    /\ m.type = "getFile" /\ up
    /\ Shares(Wanted[d])
    /\ InState(d, "starting")
    /\ fileSize' = [fileSize EXCEPT ![d] = sizes[Wanted[d]]]
    /\ UNCHANGED <<net, failed, disk, sizes, up, sent, served, requester, con, flight, lost, pvars>>
AnswerFileRequest(m) ==
    LET d == m.id IN
    /\ m.type = "getFile" /\ up
    /\ \/ /\ Shares(Wanted[d])
          /\ InState(d, "starting")
          /\ fileSize' = [fileSize EXCEPT ![d] = sizes[Wanted[d]]]
          /\ Without(m)
          /\ UNCHANGED failed
       \/ /\ ~Shares(Wanted[d])
          /\ IF Joined THEN Answer(m, Msg("error", d, 0)) ELSE Without(m)
          /\ failed' = failed \cup {d}
          /\ UNCHANGED <<server, fileSize>>
    /\ UNCHANGED <<disk, sizes, up, sent, served, requester, con, flight, lost, pvars>>

\* _startFileServer.  A server that cannot listen emits an error nobody handles;
\* addressCallback is not called and the requester gets no answer.
Listen(d) ==
    /\ server[d] = "starting"
    /\ \/ /\ InState(d, "listening")
          /\ SendMessage(Msg("info", d, fileSize[d]))
          /\ UNCHANGED failed
       \/ /\ InState(d, "none")
          /\ failed' = failed \cup {d}
          /\ UNCHANGED net
    /\ UNCHANGED <<disk, sizes, up, fileSize, sent, served, requester, con, flight,
                   lost, pvars>>

ConIn(d, s) == con' = [con EXCEPT ![d] = s]

Accept(d) ==
    /\ server[d] = "listening"
    /\ con[d] = "connecting"
    /\ InState(d, "reading") /\ ConIn(d, "accepted")
    /\ UNCHANGED <<disk, sizes, up, fileSize, sent, served, failed, requester, net,
                   flight, lost, pvars>>

\* The callback of fs.readFile.  The file goes out as it is now, the socket
\* ends, and the server closes, even if the requester's end broke meanwhile.
ReadInto(d, state, after) ==
    LET n == disk[Wanted[d]] IN
    /\ server[d] = "reading"
    /\ InState(d, state)
    /\ served' = served \cup {d}
    /\ IF con[d] = "accepted"
         THEN /\ ConIn(d, after)
              /\ flight' = [flight EXCEPT ![d] = n]
              /\ sent' = [sent EXCEPT ![d] = n]
         ELSE UNCHANGED <<con, flight, sent>>
    /\ UNCHANGED <<disk, sizes, up, fileSize, failed, requester, net, lost, pvars>>
\* Slips: the server is not closed; the socket is not ended.
ReadAndListen(d) == ReadInto(d, "listening", "ending")
ReadNoEnd(d) == ReadInto(d, "closed", "accepted")
ReadAndClose(d) == ReadInto(d, "closed", "ending")

\* The file cannot be read: the socket and the server stay open.
\* Slip: the socket is ended here too.
ReadFailsEnds(d) ==
    /\ server[d] = "reading"
    /\ InState(d, "closed")
    /\ IF con[d] = "accepted" THEN ConIn(d, "ending") ELSE UNCHANGED con
    /\ failed' = failed \cup {d}
    /\ UNCHANGED <<disk, sizes, up, fileSize, sent, served, requester, net, flight,
                   lost, pvars>>
ReadFails(d) ==
    /\ server[d] = "reading"
    /\ InState(d, "listening")
    /\ failed' = failed \cup {d}
    /\ UNCHANGED <<disk, sizes, up, fileSize, sent, served, requester, links, pvars>>

\* The provider's process ends.  Of what was written to a connection some may
\* not have left the process; the system ends the connection after the rest.
ProviderStops ==
    /\ up /\ up' = FALSE
    /\ ProcessEnds
    /\ server' = [d \in Download |-> IF server[d] = "none" THEN "none" ELSE "closed"]
    /\ con' = [d \in Download |-> IF con[d] = "accepted" THEN "ending" ELSE con[d]]
    /\ \E left \in [Download -> Blocks] :
          /\ \A d \in Download : left[d] <= flight[d]
          /\ flight' = left
    /\ UNCHANGED <<disk, sizes, fileSize, sent, served, failed, requester, net, lost>>

(***************************************************************************)
(* The requester.  An error is logged; the record stays.                   *)
(***************************************************************************)
ErrorArrives(m) ==
    /\ m.type = "error"
    /\ Without(m)
    /\ UNCHANGED <<con, flight, lost, provider, requester, pvars>>

\* _downloadResponseHandler.
InfoArrives(m) ==
    /\ m.type = "info" /\ m.id \in records
    /\ Without(m)
    /\ size' = [size EXCEPT ![m.id] = m.size]
    /\ received' = [received EXCEPT ![m.id] = 0]
    /\ ConIn(m.id, "connecting")
    /\ UNCHANGED <<phase, records, finished, flight, lost, provider, pvars>>

Data(d) ==
    /\ con[d] = "ending" /\ flight[d] > 0
    /\ flight' = [flight EXCEPT ![d] = @ - 1]
    /\ received' = [received EXCEPT ![d] = @ + 1]
    /\ UNCHANGED <<phase, records, size, finished, net, con, lost, provider, pvars>>

End(d) ==
    /\ con[d] = "ending" /\ flight[d] = 0
    /\ ConIn(d, "ended")
    /\ finished' = finished \cup {d}
    /\ DeleteDownload(d)
    /\ UNCHANGED <<phase, size, received, net, flight, lost, provider, pvars>>

\* 'error': nobody listens, nobody can be reached, or the connection broke.
\* Slip: the record is left to the 'end' that does not come.
ErrorKeeps(d) ==
    /\ con[d] \in {"connecting", "accepted", "ending"}
    /\ ConIn(d, "broken")
    /\ UNCHANGED <<requester, net, flight, lost, provider, pvars>>
ConnectionError(d) ==
    /\ con[d] \in {"connecting", "accepted", "ending"}
    /\ ConIn(d, "broken")
    /\ DeleteDownload(d)
    /\ UNCHANGED <<phase, size, received, finished, net, flight, lost, provider, pvars>>

Lose(m) ==
    /\ Without(m)
    /\ lost' = lost \cup {m}
    /\ UNCHANGED <<con, flight, provider, requester, pvars>>

Transfer(d) == Accept(d) \/ ReadAndClose(d) \/ ReadFails(d) \/ Data(d) \/ End(d)
Deliver(m) == AnswerFileRequest(m) \/ ErrorArrives(m) \/ InfoArrives(m)

Next ==
    \/ ReadFolder \/ Publish \/ ProviderStops
    \/ \E f \in File, n \in Blocks : Write(f, n)
    \/ \E d \in Download : \/ RetrieveFile(d) \/ FileFound(d) \/ FileNotFound(d)
                           \/ Listen(d) \/ Transfer(d) \/ ConnectionError(d)
    \/ \E m \in net : Deliver(m) \/ Lose(m)

Spec == Init /\ [][Next]_vars

(***************************************************************************)
(* Fairness.  A message that is not lost arrives; a server comes to listen *)
(* or fails to; connecting succeeds or fails; a file is read or is not;    *)
(* what was sent arrives, if the connection does not break.  A connection  *)
(* over which nothing is sent need not break.  Timers and intervals fire,  *)
(* as in Publishing.                                                       *)
(***************************************************************************)
Connects(d) == con[d] = "connecting" /\ ConnectionError(d)

LiveSpec ==
    /\ Spec
    /\ WF_vars(\E m \in net : Deliver(m))
    /\ \A d \in Download : WF_vars(Listen(d)) /\ WF_vars(Transfer(d) \/ Connects(d))
    /\ PFairness

(***************************************************************************)
(*                               Properties                                *)
(***************************************************************************)

\* ownDownloadRequests holds exactly the downloads that were asked for and whose
\* connection has not ended or failed; so downloadInfo knows every download that
\* can still make progress, and none that is over.
RecordsTrack ==
    \A d \in Download :
       Known(d) <=> phase[d] = "asked" /\ con[d] \notin {"ended", "broken"}

\* A download that is reported as finished was read and sent by the provider, and
\* every block it sent was received, unless the provider's process ended.
FinishedWhole ==
    \A d \in finished : up => d \in served /\ received[d] = sent[d]

\* A server goes on listening with nobody on the way to it only if its address
\* was lost, the connection to it broke, or the file could not be read.
ServersAccounted ==
    \A d \in Download : server[d] = "listening" =>
       \/ \E m \in net \cup lost : m.type = "info" /\ m.id = d
       \/ con[d] \in {"connecting", "broken"}
       \/ d \in failed

Abandoned(d) == \/ d \in failed
                \/ \E m \in lost : m.id = d
                \/ ~up /\ con[d] = "none"

\* A download that was asked for ends in one of its ways, unless a message was
\* lost, the provider stopped before it answered, or it did not serve the request.
RecordEnds == \A d \in Download : d \in records ~> (d \notin records \/ Abandoned(d))

\* How far a download is for whoever polls downloadInfo with its id.
StageOf(d) ==
    CASE phase[d] = "refused" -> "refused"
      [] phase[d] \in {"idle", "searching"} -> "new"
      [] phase[d] = "asked" /\ ~Known(d) -> "over"
      [] phase[d] = "asked" /\ Known(d) -> IF con[d] = "none" THEN "pending" ELSE "running"

Polled == INSTANCE Tracking WITH stage <- [d \in Download |-> StageOf(d)]

\* FileTransfer keeps the promise of Tracking: an id is known until its download is
\* over and never again, its size is set once, and what was received never falls,
\* however requests, answers, connections and errors follow each other.
IdTracks == Polled!Spec

(***************************************************************************)
(* What the source says, and the code does not do.                         *)
(***************************************************************************)

\* filetransfer.js:126-127 says that received counts up to size, the bytes in
\* total: a finished download has received them.
FinishedInTotal == \A d \in finished : received[d] = size[d]
=============================================================================
