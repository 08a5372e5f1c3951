----------------------------- MODULE Publishing -----------------------------
(***************************************************************************)
(* What one peer shares in one network, and how it announces it            *)
(* (core/lib/filetransfer/filetransfer.js).  The peer lists the files of   *)
(* its share folder and puts its own id into the DHT under the hash of     *)
(* each name.  A put is followed by a timer that does the next one, so a   *)
(* walk over the list spreads over many turns of the event loop, and what  *)
(* it walks over is whatever the list is by then.  An interval starts a    *)
(* new walk every fileListTTL.                                             *)
(*                                                                         *)
(* Peers fires the events of joining and leaving.  Joining a network twice *)
(* is possible: joinNetwork does not ask whether the network is joined.    *)
(***************************************************************************)
EXTENDS Naturals, Sequences, FiniteSets

CONSTANTS File,          \* names of files
          Scan,          \* the lists a folder may give, at any time
          DefaultFolder, \* whether CLOUD7_SHARE_FOLDER is set
          NotJoined,     \* in place of the list, when the network was left
          MaxFiles,      \* bound: the files of a folder
          MaxJoins,      \* bound: how often the network is joined
          MaxWalks       \* bound: the walks under way at once

ASSUME PublishingAssumption ==
    /\ MaxFiles \in Nat
    /\ MaxJoins \in Nat
    /\ MaxWalks \in Nat
    /\ Scan \subseteq Seq(File)
    /\ \A s \in Scan : Len(s) <= MaxFiles
    /\ \A s \in Scan \cup {<<>>} : s # NotJoined
    /\ DefaultFolder \in BOOLEAN

VARIABLES publicFiles, \* publicFiles[name], the list of shared files
          hasFolder,   \* whether shareFolder[name] is set
          publishing,  \* publishingNetworks[name]: the interval set last; intervals
                       \* are numbered in the order they are set, from 1
          intervals,   \* the intervals that run
          timers,      \* how many timers are set for each argument of add
          dht,         \* the files the DHT knows this peer for
          announced    \* history: the files put since the list was last replaced

pvars == <<publicFiles, hasFolder, publishing, intervals, timers, dht, announced>>

\* The arguments of add; the source counts from 0.
Index == 1..(MaxFiles + 1)

Joined == publicFiles # NotJoined
Walks == Cardinality({x \in Index \X (1..MaxWalks) : x[2] <= timers[x[1]]})

PTypeOK ==
    /\ publicFiles \in Scan \cup {<<>>, NotJoined}
    /\ hasFolder \in BOOLEAN
    /\ publishing \in 0..MaxJoins
    /\ intervals \subseteq 1..publishing
    /\ timers \in [Index -> Nat]
    /\ dht \subseteq File
    /\ announced \subseteq File

PInit ==
    /\ publicFiles = NotJoined
    /\ hasFolder = FALSE
    /\ publishing = 0
    /\ intervals = {}
    /\ timers = [i \in Index |-> 0]
    /\ dht = {}
    /\ announced = {}

(***************************************************************************)
(* add(i): nothing past the end of the list, otherwise a put and a timer   *)
(* for the next one.  The list is l, the timers are t and the history is a *)
(* before add runs.                                                        *)
(***************************************************************************)
\* Peers.DHTput, which answers before the put is done and ignores its outcome.
DHTput(f) == dht' = dht \cup {f}

AddFile(i, l, t, a) ==
    IF i > Len(l)
      THEN timers' = t /\ announced' = a /\ UNCHANGED dht
      ELSE /\ timers' = [t EXCEPT ![i + 1] = @ + 1]
           /\ announced' = a \cup {l[i]}
           /\ DHTput(l[i])

\* The list is replaced by l, and a walk over it begins at once.
\* Slip: the walk is left to the interval.
ReplaceLater(l) == publicFiles' = l /\ announced' = {} /\ UNCHANGED <<timers, dht>>
Replace(l) == publicFiles' = l /\ AddFile(1, l, timers, {})

\* Slip: an interval is set only if the table has none, and the table keeps
\* the entry of an interval that leaving cleared.
JoinedOnce(s) ==
    /\ publishing < MaxJoins
    /\ hasFolder' = DefaultFolder
    /\ publishing' = 1
    /\ intervals' = IF publishing = 0 THEN {1} ELSE intervals
    /\ Replace(IF DefaultFolder THEN s ELSE <<>>)

\* _networkJoined.  _startPublishingFileList does not look for an interval
\* that is already there.
NetworkJoined(s) ==
    /\ publishing < MaxJoins
    /\ hasFolder' = DefaultFolder
    /\ publishing' = publishing + 1
    /\ intervals' = intervals \cup {publishing + 1}
    /\ Replace(IF DefaultFolder THEN s ELSE <<>>)

\* Slip: the entry of the table is deleted before its interval is cleared.
LeftDeletedFirst ==
    /\ Joined
    /\ publicFiles' = NotJoined
    /\ hasFolder' = FALSE
    /\ publishing' = 0
    /\ announced' = {}
    /\ UNCHANGED <<intervals, timers, dht>>

\* _networkLeft.  Walks under way are not stopped.
NetworkLeft ==
    /\ Joined
    /\ publicFiles' = NotJoined
    /\ hasFolder' = FALSE
    /\ intervals' = intervals \ {publishing}
    /\ announced' = {}
    /\ UNCHANGED <<publishing, timers, dht>>

\* The peer's process ends.
ProcessEnds ==
    /\ publicFiles' = NotJoined
    /\ hasFolder' = FALSE
    /\ intervals' = {}
    /\ timers' = [i \in Index |-> 0]
    /\ announced' = {}
    /\ UNCHANGED <<publishing, dht>>

\* setShareFolder with a folder that exists.  Without a share folder, or with
\* one that does not exist, the caller gets an error and nothing changes.
SetShareFolder(s) ==
    /\ hasFolder
    /\ Walks < MaxWalks
    /\ Replace(s)
    /\ UNCHANGED <<hasFolder, publishing, intervals>>

\* Slip: the interval puts the first file only.
RefreshFirst(n) ==
    /\ n \in intervals
    /\ Joined /\ publicFiles # <<>>
    /\ dht' = dht \cup {publicFiles[1]}
    /\ announced' = announced \cup {publicFiles[1]}
    /\ UNCHANGED <<publicFiles, hasFolder, publishing, intervals, timers>>

\* An interval fires _refreshFileList; when the network was left, reading the
\* list throws and nothing happens.
RefreshFileList(n) ==
    /\ n \in intervals
    /\ Joined
    /\ Walks < MaxWalks
    /\ AddFile(1, publicFiles, timers, announced)
    /\ UNCHANGED <<publicFiles, hasFolder, publishing, intervals>>

\* The timer of add(i); it throws when the network was left.
AddNext(i) ==
    /\ timers[i] > 0
    /\ LET t == [timers EXCEPT ![i] = @ - 1] IN
       IF Joined THEN AddFile(i, publicFiles, t, announced)
                 ELSE timers' = t /\ UNCHANGED <<dht, announced>>
    /\ UNCHANGED <<publicFiles, hasFolder, publishing, intervals>>

\* The DHT forgets an entry: its lifetime is that of one period, or its holder
\* is gone.
Expire(f) ==
    /\ f \in dht
    /\ dht' = dht \ {f}
    /\ UNCHANGED <<publicFiles, hasFolder, publishing, intervals, timers, announced>>

PNext ==
    \/ \E s \in Scan : NetworkJoined(s) \/ SetShareFolder(s)
    \/ NetworkLeft \/ ProcessEnds
    \/ \E n \in intervals : RefreshFileList(n)
    \/ \E i \in Index : AddNext(i)
    \/ \E f \in dht : Expire(f)

PSpec == PInit /\ [][PNext]_pvars

\* Timers and intervals that are set fire.
PFairness == /\ \A n \in 1..MaxJoins : WF_pvars(RefreshFileList(n))
             /\ \A i \in Index : WF_pvars(AddNext(i))

(***************************************************************************)
(*                               Properties                                *)
(***************************************************************************)

\* A list is walked over to its end: every file of the current list was put
\* since the list was replaced, or a walk that has not passed it is under way,
\* whatever older walks are doing.
WalkReaches ==
    Joined => \A j \in DOMAIN publicFiles :
                 \/ publicFiles[j] \in announced
                 \/ \E i \in 1..j : timers[i] > 0

\* While the network is joined, the interval that leaving would clear runs.
IntervalRuns == Joined => publishing \in intervals

Shares(f) == Joined /\ \E j \in DOMAIN publicFiles : publicFiles[j] = f

\* A file that stays shared is found in the DHT again and again, however often
\* its entry expires.
Republished == \A f \in File : <>[]Shares(f) => []<>(f \in dht)

(***************************************************************************)
(* What the source says, and the code does not do.                         *)
(***************************************************************************)

\* filetransfer.js:568 says that _stopPublishingFileList stops what
\* _startPublishingFileList started: no interval outlives the membership.
PublishingStops == ~Joined => intervals = {}
=============================================================================
