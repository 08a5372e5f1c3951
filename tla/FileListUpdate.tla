----------------------------- MODULE FileListUpdate -----------------------------
(***************************************************************************)
(* The GUI at one of the connections of a listing                          *)
(* (gui/Cloud7/src/cloud7/binding/FileListUpdate.scala), composed with the *)
(* peer that serves it (Listing).  The actor FileListUpdate reads the      *)
(* lines of the connection and passes the lists on to the actor            *)
(* TableUpdaterActor, which fills the table; after END it asks the updater *)
(* to exit, and stops the busy icon when the updater says that it did.     *)
(*                                                                         *)
(* Lines arrive in order.  The peer destroys the connection right after    *)
(* END, which may cut off lines that were not sent yet; what remains of a  *)
(* line that was cut cannot be parsed and is left out.  Mailboxes are in   *)
(* order, too.                                                             *)
(***************************************************************************)
EXTENDS Listing, SequencesExt

CONSTANT GuiConn  \* the connection of the GUI

ASSUME GuiAssumption == GuiConn \in Conn

VARIABLES actor,     \* the actor FileListUpdate
          stream,    \* the lines on their way to it
          updater,   \* the actor TableUpdaterActor
          mailbox,   \* the messages to the updater
          table,     \* the lists in the table
          busyTimer, \* whether the busy icon turns
          cut        \* history: whether destroying the connection cut off lines

gui == <<actor, stream, updater, mailbox, table, busyTimer, cut>>
allVars == <<vars, gui>>

END == [type |-> "END"]    \* the last line
Exit == [type |-> "Exit"]  \* the message 'Exit

GuiLists == Answerable({GuiConn} \X Peer)

GuiTypeOK ==
    /\ TypeOK
    /\ actor \in {"none", "connecting", "reading", "asking", "done", "dead", "exited"}
    /\ stream \in Seq(GuiLists \cup {END})
    /\ updater \in {"none", "running", "gone"}
    /\ mailbox \in Seq(GuiLists \cup {Exit})
    /\ table \subseteq GuiLists
    /\ busyTimer \in BOOLEAN /\ cut \in BOOLEAN

GuiInit ==
    /\ Init
    /\ actor = "none" /\ updater = "none"
    /\ stream = <<>> /\ mailbox = <<>>
    /\ table = {}
    /\ busyTimer = FALSE /\ cut = FALSE

(***************************************************************************)
(* The peer.  What it writes to the connection of the GUI goes into the    *)
(* stream.                                                                 *)
(***************************************************************************)
Lists(m) ==
    /\ ResponseReceived(m)
    /\ stream' = IF written'[GuiConn] = written[GuiConn] THEN stream
                 ELSE Append(stream, m)
    /\ UNCHANGED <<actor, updater, mailbox, table, busyTimer, cut>>

\* end and destroy.
Ends ==
    /\ EndListing(GuiConn)
    /\ stream' \in Prefixes(Append(stream, END))
    /\ cut' = (stream' # Append(stream, END))
    /\ UNCHANGED <<actor, updater, mailbox, table, busyTimer>>

(***************************************************************************)
(* The GUI.  The actor starts with the address of the server and connects, *)
(* asking the user after every attempt that fails whether to try again.    *)
(***************************************************************************)
Act ==
    /\ actor = "none" /\ server # "none"
    /\ actor' = "connecting"
    /\ busyTimer' = TRUE
    /\ UNCHANGED <<vars, stream, updater, mailbox, table, cut>>

InitializeConnection ==
    /\ actor = "connecting"
    /\ Connect(GuiConn)
    /\ actor' = "reading"
    /\ updater' = "running"
    /\ UNCHANGED <<stream, mailbox, table, busyTimer, cut>>

\* The user ends the program, asked or not.
GuiExits ==
    /\ actor \in {"connecting", "reading", "asking"}
    /\ actor' = "exited"
    /\ updater' = "gone" /\ busyTimer' = FALSE
    /\ IF conn[GuiConn] = "open" THEN ClientCloses(GuiConn) ELSE UNCHANGED vars
    /\ UNCHANGED <<stream, mailbox, table, cut>>

\* Slip: the icon stops with END; it does not wait for the updater.
HandleImpatient ==
    /\ actor = "reading" /\ stream # <<>>
    /\ stream' = Tail(stream)
    /\ IF Head(stream).type = "END"
         THEN actor' = "done" /\ busyTimer' = FALSE /\ mailbox' = Append(mailbox, Exit)
         ELSE mailbox' = Append(mailbox, Head(stream)) /\ UNCHANGED <<actor, busyTimer>>
    /\ UNCHANGED <<vars, updater, table, cut>>

\* One turn of the loop of handleIncomingData.
HandleIncomingData ==
    /\ actor = "reading" /\ stream # <<>>
    /\ stream' = Tail(stream)
    /\ IF Head(stream).type = "END"
         THEN actor' = "asking" /\ mailbox' = Append(mailbox, Exit)
         ELSE mailbox' = Append(mailbox, Head(stream)) /\ UNCHANGED actor
    /\ UNCHANGED <<vars, updater, table, busyTimer, cut>>

\* The connection is over without END: the line is null, and comparing it throws.
\* The icon goes on turning and the updater goes on waiting.
EndOfStream ==
    /\ actor = "reading" /\ stream = <<>> /\ conn[GuiConn] = "ended"
    /\ actor' = "dead"
    /\ UNCHANGED <<vars, stream, updater, mailbox, table, busyTimer, cut>>

\* Slip: the updater skips what is no list.
UpdateLists ==
    /\ updater = "running" /\ mailbox # <<>>
    /\ mailbox' = Tail(mailbox)
    /\ table' = IF Head(mailbox).type = "Exit" THEN table ELSE table \cup {Head(mailbox)}
    /\ UNCHANGED <<vars, actor, stream, updater, busyTimer, cut>>
\* Slip: every list starts the table anew.
UpdateAnew ==
    /\ updater = "running" /\ mailbox # <<>>
    /\ mailbox' = Tail(mailbox)
    /\ IF Head(mailbox).type = "Exit"
         THEN updater' = "gone" /\ UNCHANGED table
         ELSE table' = {Head(mailbox)} /\ UNCHANGED updater
    /\ UNCHANGED <<vars, actor, stream, busyTimer, cut>>
\* The updater's loop.
UpdateTable ==
    /\ updater = "running" /\ mailbox # <<>>
    /\ mailbox' = Tail(mailbox)
    /\ IF Head(mailbox).type = "Exit"
         THEN updater' = "gone" /\ UNCHANGED table
         ELSE table' = table \cup {Head(mailbox)} /\ UNCHANGED updater
    /\ UNCHANGED <<vars, actor, stream, busyTimer, cut>>

\* The response of the updater.
UpdaterResponded ==
    /\ actor = "asking" /\ updater = "gone"
    /\ actor' = "done"
    /\ busyTimer' = FALSE
    /\ UNCHANGED <<vars, stream, updater, mailbox, table, cut>>

Others ==
    /\ \/ PeersListed
       \/ \E c \in Conn \ {GuiConn} : Connect(c) \/ EndListing(c) \/ ClientCloses(c)
       \/ \E m \in net : AnswerListFiles(m) \/ Lose(m)
    /\ UNCHANGED gui

GuiStep == HandleIncomingData \/ EndOfStream \/ UpdaterResponded

GuiNext ==
    \/ Others
    \/ \E m \in net : Lists(m)
    \/ Ends
    \/ Act \/ InitializeConnection \/ GuiExits
    \/ GuiStep
    \/ UpdateTable

GuiSpec == GuiInit /\ [][GuiNext]_allVars

\* The timer of a connection fires, and the actors' scheduler runs both actors.
GuiLiveSpec ==
    /\ GuiSpec
    /\ \A c \in Conn : WF_allVars(IF c = GuiConn THEN Ends ELSE EndListing(c) /\ UNCHANGED gui)
    /\ WF_allVars(GuiStep) /\ WF_allVars(UpdateTable)

(***************************************************************************)
(*                               Properties                                *)
(***************************************************************************)

\* When the actor is done, and the icon stops, every list that the peer wrote to
\* the connection is in the table: the updater has worked off its mailbox, and
\* nothing was cut off before END.
TableComplete == actor = "done" => table = written[GuiConn]

\* When the actor is done, every file of a member that answered, and whose entry fits a
\* message, is in the table once, from the splitting at the member to the table:
\* only if the list that holds it was lost, came after the end or is still under way
\* is it missing, and no other list shows it.
Shown(m) == SplitInLists(publicFiles[m.q[2]])[m.k]
FilesShown ==
    actor = "done" =>
       \A q \in replied : q[1] = GuiConn =>
          \A i \in Fitting(publicFiles[q[2]], DOMAIN publicFiles[q[2]]) :
             \E m \in Answers(q) \cap (table \cup net \cup missed) :
                /\ i \in Shown(m)
                /\ \A n \in table : n.q = q /\ i \in Shown(n) => n = m

\* The icon stops some time after the connection was made, unless the members could
\* not be listed or END was cut off.
IconStops ==
    actor = "reading" /\ conn[GuiConn] = "open" ~> (~busyTimer \/ cut)
==============================================================================
