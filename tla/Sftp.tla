-------------------------------- MODULE Sftp --------------------------------
(***************************************************************************)
(* A session with an SFTP server (yazi-sftp).  Any number of callers send  *)
(* requests at once; a writer task puts them on the connection, a reader   *)
(* task gives each answer to the caller whose callback has its id.  The    *)
(* server answers in any order, late, or never; the connection may break.  *)
(***************************************************************************)
EXTENDS Naturals, Sequences, FiniteSets

CONSTANTS
  Requests,  \* what the callers send, each once
  IdSpace,   \* 2^32 in the code
  None

\* The channel of the writer also carries an empty buffer, which ends it.
Stop == "stop"

\* How a call ends that gets no answer: the connection was lost, the request
\* could not be sent, or the caller did not wait any longer.
NoAnswers == {"lost", "refused", "nothing"}

\* No id is given twice: a session so long that its ids have all been given once
\* is beyond this.  They do go round past 0.
ASSUME SftpAssumption ==
  /\ IsFiniteSet(Requests)
  /\ Requests \cap (NoAnswers \cup {Stop, None}) = {}
  /\ None \notin NoAnswers
  /\ IdSpace \in Nat /\ Cardinality(Requests) < IdSpace

VARIABLES
  next,      \* Session.id, the next id to be given
  id,        \* the id of a request; 0 if it has none yet
  caller,    \* of a request: "idle", "entered", "waiting", "done"
  slot,      \* what is in the oneshot channel of the caller: see TypeOK
  callback,  \* Session.callback: whose channel an id leads to
  queue,     \* the channel Session.tx
  writer,    \* "on", "closing" once rx is closed, "off" after the drain
  reader,    \* "on", "off"
  packet,    \* the answer that the reader has read and not yet given to anybody
  link,      \* the connection is up
  asked,     \* requests that the server has and has not answered
  answers,   \* answers on the connection, as pairs of id and request
  got        \* history: whose answer a caller has received

calls == <<next, id, caller, got>>
session == <<callback, slot, queue, writer, reader, packet>>
remote == <<link, asked, answers>>
vars == <<calls, session, remote>>

Ids == 1..IdSpace-1

TypeOK ==
  /\ next \in 0..IdSpace-1
  /\ id \in [Requests -> 0..IdSpace-1]
  /\ caller \in [Requests -> {"idle", "entered", "waiting", "done"}]
  /\ slot \in [Requests -> {None, "lost"} \cup Requests]
  /\ callback \in [Ids -> {None} \cup Requests]
  /\ queue \in Seq(Requests \cup {Stop})
  /\ writer \in {"on", "closing", "off"}
  /\ reader \in {"on", "off"}
  /\ packet \in {None} \cup (Ids \X Requests)
  /\ link \in BOOLEAN
  /\ asked \subseteq Requests
  /\ answers \subseteq Ids \X Requests
  /\ got \in [Requests -> {None} \cup NoAnswers \cup Requests]

\* The session may be of any age, as long as all earlier requests are over.
Init ==
  /\ next \in 0..IdSpace-1
  /\ id = [r \in Requests |-> 0]
  /\ caller = [r \in Requests |-> "idle"]
  /\ slot = [r \in Requests |-> None]
  /\ callback = [i \in Ids |-> None]
  /\ queue = <<>>
  /\ writer = "on" /\ reader = "on" /\ packet = None
  /\ link = TRUE
  /\ asked = {} /\ answers = {}
  /\ got = [r \in Requests |-> None]

-----------------------------------------------------------------------------
(* Callers: Session::send_sync and Receiver. *)

Succ(i) == IF i + 1 = IdSpace THEN 0 ELSE i + 1

\* A slip of Issue: the counter is read and not advanced.
IssueSame == LET given == IF next = 0 THEN 1 ELSE next
             IN [given |-> given, next |-> given]

\* Id::next
Issue == LET given == IF next = 0 THEN 1 ELSE next
         IN [given |-> given, next |-> Succ(given)]

\* A request gets its id, and its callback is inserted ...
Enter(r) ==
  /\ caller[r] = "idle"
  /\ id' = [id EXCEPT ![r] = Issue.given]
  /\ next' = Issue.next
  /\ callback' = [callback EXCEPT ![Issue.given] = r]
  /\ caller' = [caller EXCEPT ![r] = "entered"]
  /\ UNCHANGED <<got, slot, queue, writer, reader, packet, remote>>

\* A slip of Send: the channel takes requests although the writer has gone.
SendLate(r) ==
  /\ caller[r] = "entered"
  /\ queue' = Append(queue, r)
  /\ caller' = [caller EXCEPT ![r] = "waiting"]
  /\ UNCHANGED <<next, id, got, callback, slot, writer, reader, packet, remote>>

\* ... before it is sent, ...
Send(r) ==
  /\ caller[r] = "entered" /\ writer = "on"
  /\ queue' = Append(queue, r)
  /\ caller' = [caller EXCEPT ![r] = "waiting"]
  /\ UNCHANGED <<next, id, got, callback, slot, writer, reader, packet, remote>>

\* ... unless it cannot be serialized, or the writer does not listen any more:
\* its callback stays in the table then.
Refuse(r) ==
  /\ caller[r] = "entered"
  /\ caller' = [caller EXCEPT ![r] = "done"]
  /\ got' = [got EXCEPT ![r] = "refused"]
  /\ UNCHANGED <<next, id, session, remote>>

\* Receiver::poll
Receive(r) ==
  /\ caller[r] = "waiting" /\ slot[r] # None
  /\ caller' = [caller EXCEPT ![r] = "done"]
  /\ got' = [got EXCEPT ![r] = slot[r]]
  /\ UNCHANGED <<next, id, session, remote>>

\* The caller is out of patience or canceled, and drops its Receiver.
GiveUp(r) ==
  /\ caller[r] = "waiting"
  /\ caller' = [caller EXCEPT ![r] = "done"]
  /\ got' = [got EXCEPT ![r] = "nothing"]
  /\ callback' = [callback EXCEPT ![id[r]] = None]
  /\ UNCHANGED <<next, id, slot, queue, writer, reader, packet, remote>>

-----------------------------------------------------------------------------
(* The tasks that Session::make spawns. *)

\* The writer takes a request; if it cannot be written for another reason than a
\* broken pipe, it is lost.
Write ==
  /\ writer = "on" /\ queue # <<>> /\ Head(queue) # Stop
  /\ queue' = Tail(queue)
  /\ asked' = IF link THEN asked \cup {Head(queue)} ELSE asked
  /\ UNCHANGED <<calls, callback, slot, writer, reader, packet, link, answers>>

\* It finds the pipe broken, or is told to stop: it closes its channel ...
Close ==
  /\ writer = "on" /\ queue # <<>>
  /\ Head(queue) = Stop \/ ~link
  /\ writer' = "closing"
  /\ queue' = <<>>
  /\ UNCHANGED <<calls, callback, slot, reader, packet, remote>>

\* ... and then tells all who wait that the connection is lost.
Drain ==
  /\ writer = "closing"
  /\ writer' = "off"
  /\ slot' = [r \in Requests |-> IF \E i \in Ids : callback[i] = r THEN "lost" ELSE slot[r]]
  /\ callback' = [i \in Ids |-> None]
  /\ UNCHANGED <<calls, queue, reader, packet, remote>>

\* At its select the reader goes on only while the writer listens ...
AtSelect == reader = "on" /\ packet = None /\ writer = "on"

\* ... and reads an answer, or a packet that it cannot parse and forgets.
Read ==
  /\ AtSelect
  /\ \E a \in answers : answers' = answers \ {a} /\ packet' \in {a, None}
  /\ UNCHANGED <<calls, callback, slot, queue, writer, reader, link, asked>>

\* It hands the answer to whoever waits for it, if anybody does any more.
Deliver ==
  /\ packet # None
  /\ packet' = None
  /\ LET r == callback[packet[1]]
     IN IF r = None THEN UNCHANGED <<slot, callback>>
        ELSE /\ slot' = [slot EXCEPT ![r] = packet[2]]
             /\ callback' = [callback EXCEPT ![packet[1]] = None]
  /\ UNCHANGED <<calls, queue, writer, reader, remote>>

\* A slip of ReadFail: the writer is not told.
ReadFailQuietly ==
  /\ AtSelect
  /\ reader' = "off"
  /\ UNCHANGED <<calls, callback, slot, queue, writer, packet, remote>>

\* The connection is broken, or a packet too large: the writer is told.
ReadFail ==
  /\ AtSelect
  /\ reader' = "off"
  /\ queue' = Append(queue, Stop)
  /\ UNCHANGED <<calls, callback, slot, writer, packet, remote>>

\* The writer has closed its channel.
ReaderStop ==
  /\ reader = "on" /\ packet = None /\ writer # "on"
  /\ reader' = "off"
  /\ UNCHANGED <<calls, callback, slot, queue, writer, packet, remote>>

-----------------------------------------------------------------------------
(* The server and the connection. *)

Answer ==
  /\ link
  /\ \E r \in asked : /\ asked' = asked \ {r}
                      /\ answers' = answers \cup {<<id[r], r>>}
  /\ UNCHANGED <<calls, session, link>>

\* The connection breaks; what was on it may be lost.
Break ==
  /\ link
  /\ link' = FALSE
  /\ asked' = {}
  /\ answers' \in SUBSET answers
  /\ UNCHANGED <<calls, session>>

-----------------------------------------------------------------------------
Caller(r) == Enter(r) \/ Send(r) \/ Refuse(r) \/ Receive(r) \/ GiveUp(r)
Writer == Write \/ Close \/ Drain
Reader == Read \/ Deliver \/ ReadFail \/ ReaderStop
Server == Answer \/ Break

Next == (\E r \in Requests : Caller(r)) \/ Writer \/ Reader \/ Server

Spec == Init /\ [][Next]_vars

\* The tasks are polled, and a caller goes on once it has begun.  The server
\* answers if it likes, and nobody's patience has an end.
FairSpec ==
  /\ Spec
  /\ \A r \in Requests : WF_vars(Send(r) \/ Refuse(r)) /\ WF_vars(Receive(r))
  /\ WF_vars(Writer)
  /\ WF_vars(Read \/ Deliver \/ ReaderStop \/ (~link /\ ReadFail))

-----------------------------------------------------------------------------
\* Whoever waits for an answer has got one, or can be found by the task that
\* gives it to him: nobody is left behind when the connection is lost, although
\* requests are entered, sent and drained by different threads.
NobodyLeftBehind ==
  \A r \in Requests : caller[r] = "waiting" =>
    \/ slot[r] # None
    \/ writer # "off" /\ callback[id[r]] = r

\* A caller gets the answer to his own request, however late the answers to
\* others come, to those who have given up among them, and wherever the counter
\* of ids stands when the callers begin.
OwnAnswer ==
  \A r \in Requests : got[r] \in Requests => got[r] = r

\* Once the connection is lost everybody who waits is told: requests to read and
\* to write files have no timeout.
LossIsTold ==
  \A r \in Requests : ~link /\ caller[r] = "waiting" ~> caller[r] = "done"
=============================================================================
