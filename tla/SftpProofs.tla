------------------------------ MODULE SftpProofs ------------------------------
(* Whoever waits can be found, and nobody gets another's answer, for any    *)
(* number of requests and any id space in which no id is given twice.       *)
EXTENDS Sftp, FiniteSetTheorems, TLAPS

(* The callers that have an id. *)
Begun == {r \in Requests : caller[r] # "idle"}

(* How many ids the counter is past the one of r, and how many of these     *)
(* were given: 0 never is.                                                  *)
Age(r) == IF id[r] < next THEN next - id[r] ELSE next + IdSpace - id[r]
Zero(r) == IF id[r] < next \/ next = 0 THEN 0 ELSE 1

IdsOf == 
  /\ \A r \in Begun : id[r] # 0 /\ Age(r) <= Cardinality(Begun) + Zero(r)
  /\ \A r, s \in Begun : id[r] = id[s] => r = s

(* An answer carries the id of its request, and only a request that has     *)
(* begun leads to one.                                                      *)
Labelled(a) == a[2] \in Begun /\ id[a[2]] = a[1]

Trail ==
  /\ \A r \in Requests : r \in asked \/ (\E k \in 1..Len(queue) : queue[k] = r) => r \in Begun
  /\ \A a \in answers : Labelled(a)
  /\ packet # None => Labelled(packet)
  /\ \A i \in Ids : callback[i] \in Requests => callback[i] \in Begun /\ id[callback[i]] = i

(* Who is about to send is known to the task that answers him, too. *)
Known(r) == slot[r] # None \/ callback[id[r]] = r

Waits ==
  \A r \in Requests :
    /\ caller[r] = "waiting" => slot[r] # None \/ (writer # "off" /\ callback[id[r]] = r)
    /\ caller[r] = "entered" /\ writer # "off" => Known(r)
    /\ slot[r] \in Requests => slot[r] = r

SftpInv == TypeOK /\ IdsOf /\ Trail /\ Waits /\ OwnAnswer

LEMMA SftpInit == Init => SftpInv
BY SftpAssumption
   DEF Init, SftpInv, TypeOK, IdsOf, Trail, Waits, OwnAnswer, Begun, Labelled, Ids, NoAnswers

(* The id of a new caller is not that of another one. *)
LEMMA FreshId ==
  ASSUME SftpInv, NEW r \in Requests, Enter(r)
  PROVE  /\ Issue.given \in Ids /\ Issue.next \in 0..IdSpace-1
         /\ Issue.given \notin {id[s] : s \in Begun}
         /\ IdsOf'
<1> DEFINE given == Issue.given
           n == Cardinality(Begun)
<1> USE SftpAssumption DEF SftpInv, TypeOK
<1>1. /\ IsFiniteSet(Begun) /\ n \in Nat /\ n < Cardinality(Requests)
      /\ Cardinality(Requests) \in Nat
      /\ Cardinality(Begun \cup {r}) = n + 1
  <2>1. Begun \cup {r} \subseteq Requests /\ r \notin Begun
    BY DEF Begun, Enter
  <2>2. IsFiniteSet(Begun) /\ IsFiniteSet(Begun \cup {r}) /\ n \in Nat
    BY <2>1, FS_Subset, FS_CardinalityType
  <2>3. Cardinality(Begun \cup {r}) = n + 1
    BY <2>1, <2>2, FS_AddElement
  <2>4. Cardinality(Begun \cup {r}) <= Cardinality(Requests) /\ Cardinality(Requests) \in Nat
    BY <2>1, FS_Subset, FS_CardinalityType
  <2> QED
    BY <2>2, <2>3, <2>4
<1>2. Begun' = Begun \cup {r}
  BY DEF Begun, Enter
<1>3. given \in Ids /\ Issue.next \in 0..IdSpace-1
  BY <1>1 DEF Issue, Succ, Ids
<1>4. \A s \in Begun : /\ s \in Requests /\ id[s] \in 1..IdSpace-1
                       /\ Age(s) <= n + Zero(s)
  BY DEF IdsOf, Begun
<1>5. \A s \in Begun : given # id[s]
  BY <1>1, <1>4 DEF Issue, Age, Zero
<1>6. id'[r] = given /\ next' = Issue.next /\ \A s \in Requests : s # r => id'[s] = id[s]
  BY DEF Enter
<1>7. r \notin Begun
  BY DEF Begun, Enter
<1>8. \A s \in Begun' : id'[s] # 0 /\ Age(s)' <= n + 1 + Zero(s)'
  <2>1. ASSUME NEW s \in Begun PROVE id'[s] # 0 /\ Age(s)' <= n + 1 + Zero(s)'
    <3>1. id'[s] = id[s]
      BY <1>6, <1>7, <1>4
    <3> QED
      BY <1>1, <1>4, <1>5, <1>6, <3>1 DEF Issue, Succ, Age, Zero
  <2>2. id'[r] # 0 /\ Age(r)' <= n + 1 + Zero(r)'
    BY <1>1, <1>3, <1>6 DEF Issue, Succ, Age, Zero, Ids
  <2> QED
    BY <2>1, <2>2, <1>2
<1>9. \A s, u \in Begun' : id'[s] = id'[u] => s = u
  BY <1>2, <1>4, <1>5, <1>6, <1>7 DEF IdsOf
<1>10. IdsOf'
  BY <1>1, <1>2, <1>8, <1>9 DEF IdsOf
<1> QED
  BY <1>3, <1>5, <1>10

(* Steps of others leave the ids and what the callers have received alone. *)
LEMMA SameCalls ==
  ASSUME SftpInv, UNCHANGED <<next, id, caller, got>>
  PROVE  IdsOf' /\ OwnAnswer' /\ Begun' = Begun
<1>1. Begun' = Begun
  BY DEF Begun
<1> QED
  BY <1>1 DEF SftpInv, IdsOf, OwnAnswer, Age, Zero

-----------------------------------------------------------------------------
LEMMA BegunHaveIds ==
  ASSUME SftpInv
  PROVE  /\ \A r \in Begun : r \in Requests /\ id[r] \in Ids
         /\ \A r, s \in Begun : r # s => id[r] # id[s]
<1>1. /\ \A r \in Begun : r \in Requests /\ id[r] \in 0..IdSpace-1 /\ id[r] # 0
      /\ \A r, s \in Begun : r # s => id[r] # id[s]
  BY DEF SftpInv, TypeOK, IdsOf, Begun
<1> QED
  BY <1>1, SftpAssumption DEF Ids

LEMMA EnterKeeps == ASSUME SftpInv, NEW r \in Requests, Enter(r) PROVE SftpInv'
<1> USE SftpAssumption DEF SftpInv, TypeOK
<1>1. /\ Issue.given \in Ids /\ Issue.next \in 0..IdSpace-1 /\ IdsOf'
      /\ \A s \in Begun : Issue.given # id[s]
  BY FreshId
<1>2. Begun' = Begun \cup {r} /\ r \notin Begun
  BY DEF Begun, Enter
<1>3. /\ id' = [id EXCEPT ![r] = Issue.given]
      /\ callback' = [callback EXCEPT ![Issue.given] = r]
      /\ \A s \in Begun : id'[s] = id[s] /\ callback'[id[s]] = callback[id[s]]
  BY <1>1, <1>2 DEF Enter, Begun
<1>4. TypeOK'
  BY <1>1, <1>3 DEF Enter, Ids, remote
<1>5. Trail'
  BY <1>1, <1>2, <1>3 DEF Enter, Trail, Labelled, Ids, Begun, remote
<1>6. Waits'
  <2>1. ASSUME NEW s \in Requests, s # r
        PROVE  /\ caller'[s] = caller[s] /\ slot'[s] = slot[s] /\ writer' = writer
               /\ s \in Begun => id'[s] = id[s] /\ callback'[id'[s]] = callback[id[s]]
    BY <2>1, <1>3 DEF Enter
  <2>2. caller'[r] = "entered" /\ callback'[id'[r]] = r /\ slot'[r] = slot[r]
    BY <1>1, <1>3 DEF Enter, Ids
  <2> QED
    BY <2>1, <2>2, SMTT(60) DEF Waits, Known, Begun
<1>7. OwnAnswer'
  BY DEF Enter, OwnAnswer
<1> QED
  BY <1>1, <1>4, <1>5, <1>6, <1>7

(* A caller goes on with the id he has. *)
LEMMA SameIds ==
  ASSUME SftpInv, NEW r \in Requests, r \in Begun, NEW place \in {"waiting", "done"},
         caller' = [caller EXCEPT ![r] = place], UNCHANGED <<next, id>>
  PROVE  IdsOf' /\ Begun' = Begun
<1>1. Begun' = Begun
  BY DEF SftpInv, TypeOK, Begun
<1> QED
  BY <1>1 DEF SftpInv, IdsOf, Age, Zero

LEMMA SendKeeps == ASSUME SftpInv, NEW r \in Requests, Send(r) PROVE SftpInv'
<1> USE SftpAssumption DEF SftpInv, TypeOK
<1>1. r \in Begun /\ IdsOf' /\ Begun' = Begun
  BY SameIds DEF Begun, Send
<1>2. TypeOK'
  BY DEF Send, remote
<1>3. Trail'
  <2>1. \A k \in 1..Len(queue') : queue'[k] = r \/ (k \in 1..Len(queue) /\ queue'[k] = queue[k])
    BY DEF Send
  <2> QED
    BY <1>1, <2>1 DEF Send, Trail, Labelled, remote
<1>4. Waits'
  BY <1>1 DEF Send, Waits, Known
<1>5. OwnAnswer'
  BY DEF Send, OwnAnswer
<1> QED
  BY <1>1, <1>2, <1>3, <1>4, <1>5

LEMMA EndKeeps ==
  ASSUME SftpInv, NEW r \in Requests, Refuse(r) \/ Receive(r) \/ GiveUp(r)
  PROVE  SftpInv'
<1> USE SftpAssumption DEF SftpInv, TypeOK
<1>1. r \in Begun /\ IdsOf' /\ Begun' = Begun
  BY SameIds DEF Begun, Refuse, Receive, GiveUp
<1>2. TypeOK'
  BY ZenonT(60) DEF Refuse, Receive, GiveUp, remote, session, NoAnswers
<1>3. UNCHANGED <<id, slot, queue, writer, asked, answers, packet>>
  BY DEF Refuse, Receive, GiveUp, remote, session
<1>4. \/ callback' = callback
      \/ caller[r] = "waiting" /\ callback' = [callback EXCEPT ![id[r]] = None]
  BY DEF Refuse, Receive, GiveUp, session
<1>5. Trail'
  BY <1>1, <1>3, <1>4 DEF Trail, Labelled
<1>6. Waits'
  <2>1. ASSUME NEW s \in Begun, s # r PROVE callback'[id[s]] = callback[id[s]]
    <3>1. /\ callback \in [Ids -> {None} \cup Requests]
          /\ id[s] \in Ids /\ id[r] \in Ids /\ id[s] # id[r]
      BY <1>1, <2>1, BegunHaveIds
    <3>2. CASE callback' = [callback EXCEPT ![id[r]] = None]
      BY <3>1, <3>2
    <3> QED
      BY <3>2, <1>4
  <2>2. caller'[r] = "done" /\ \A s \in Requests : s # r => caller'[s] = caller[s]
    BY DEF Refuse, Receive, GiveUp
  <2> QED
    BY <1>3, <2>1, <2>2 DEF Waits, Known, Begun
<1>7. OwnAnswer'
  <2>1. CASE Receive(r)
    BY <2>1 DEF Receive, OwnAnswer, Waits
  <2>2. CASE Refuse(r) \/ GiveUp(r)
    BY <2>2, SMTT(60) DEF Refuse, GiveUp, OwnAnswer, NoAnswers
  <2> QED
    BY <2>1, <2>2
<1> QED
  BY <1>1, <1>2, <1>5, <1>6, <1>7

LEMMA WriteKeeps == ASSUME SftpInv, Write PROVE SftpInv'
<1> USE SftpAssumption DEF SftpInv, TypeOK
<1>1. IdsOf' /\ OwnAnswer' /\ Begun' = Begun
  BY SameCalls DEF Write, calls
<1>2. /\ queue # <<>> /\ queue' = Tail(queue)
      /\ Head(queue) \in Requests /\ Head(queue) = queue[1]
      /\ \A k \in 1..Len(queue') : k + 1 \in 1..Len(queue) /\ queue'[k] = queue[k + 1]
  BY DEF Write
<1>3. TypeOK'
  BY <1>2 DEF Write, calls
<1>4. asked' \subseteq asked \cup {queue[1]} /\ 1 \in 1..Len(queue)
  BY <1>2 DEF Write
<1>5. UNCHANGED <<id, caller, slot, callback, writer, answers, packet>>
  BY DEF Write, calls
<1>6. Trail'
  BY <1>1, <1>2, <1>4, <1>5 DEF Trail, Labelled
<1>7. Waits'
  BY <1>5 DEF Waits, Known
<1> QED
  BY <1>1, <1>3, <1>6, <1>7

LEMMA CloseKeeps == ASSUME SftpInv, Close PROVE SftpInv'
<1> USE SftpAssumption DEF SftpInv, TypeOK
<1>1. IdsOf' /\ OwnAnswer' /\ Begun' = Begun
  BY SameCalls DEF Close, calls
<1>2. TypeOK'
  BY DEF Close, calls, remote
<1>3. Trail'
  BY <1>1 DEF Close, Trail, Labelled, calls, remote
<1>4. Waits'
  BY DEF Close, Waits, Known, calls
<1> QED
  BY <1>1, <1>2, <1>3, <1>4

LEMMA DrainKeeps == ASSUME SftpInv, Drain PROVE SftpInv'
<1> USE SftpAssumption DEF SftpInv, TypeOK
<1>1. IdsOf' /\ OwnAnswer' /\ Begun' = Begun
  BY SameCalls DEF Drain, calls
<1>2. TypeOK'
  BY DEF Drain, calls, remote
<1>3. Trail'
  BY <1>1 DEF Drain, Trail, Labelled, calls, remote
<1>4. Waits'
  <2>1. ASSUME NEW r \in Requests PROVE
             /\ callback[id[r]] = r /\ r \in Begun => slot'[r] = "lost"
             /\ slot'[r] \in {"lost", slot[r]}
    BY BegunHaveIds DEF Drain
  <2>2. writer' = "off" /\ writer = "closing" /\ caller' = caller
    BY DEF Drain, calls
  <2>3. "lost" # None /\ "lost" \notin Requests
    BY DEF NoAnswers
  <2> QED
    BY <2>1, <2>2, <2>3 DEF Waits, Begun
<1> QED
  BY <1>1, <1>2, <1>3, <1>4

LEMMA ReadKeeps == ASSUME SftpInv, Read PROVE SftpInv'
<1> USE SftpAssumption DEF SftpInv, TypeOK
<1>1. IdsOf' /\ OwnAnswer' /\ Begun' = Begun
  BY SameCalls DEF Read, calls
<1>2. PICK a \in answers : answers' = answers \ {a} /\ packet' \in {a, None}
  BY DEF Read
<1>3. TypeOK'
  BY <1>2 DEF Read, calls
<1>4. Trail'
  BY <1>1, <1>2 DEF Read, Trail, Labelled, calls
<1>5. Waits'
  BY DEF Read, Waits, Known, calls
<1> QED
  BY <1>1, <1>3, <1>4, <1>5

LEMMA DeliverKeeps == ASSUME SftpInv, Deliver PROVE SftpInv'
<1> USE SftpAssumption DEF SftpInv, TypeOK
<1>1. IdsOf' /\ OwnAnswer' /\ Begun' = Begun
  BY SameCalls DEF Deliver, calls
<1>2. UNCHANGED <<next, id, caller, got, queue, writer, reader, link, asked, answers>>
  BY DEF Deliver, calls, remote
<1>3. packet # None /\ packet[1] \in Ids /\ packet[2] \in Begun /\ id[packet[2]] = packet[1]
  BY DEF Deliver, Trail, Labelled
<1>4. CASE callback[packet[1]] = None
  <2>1. packet' = None /\ UNCHANGED <<slot, callback>>
    BY <1>4 DEF Deliver
  <2> QED
    BY <1>1, <1>2, <2>1 DEF Trail, Labelled, Waits, Known
<1>5. CASE callback[packet[1]] # None
  <2> DEFINE r == callback[packet[1]]
  <2>1. r \in Begun /\ r = packet[2]
    BY <1>3, <1>5, BegunHaveIds DEF Trail
  <2>2. /\ packet' = None
        /\ slot' = [slot EXCEPT ![r] = r]
        /\ callback' = [callback EXCEPT ![packet[1]] = None]
    BY <1>5, <2>1 DEF Deliver
  <2>3. TypeOK'
    BY <1>2, <2>2, <2>1, BegunHaveIds
  <2>4. Trail'
    BY <1>1, <1>2, <2>2 DEF Trail, Labelled
  <2>5. Waits'
    <3>1. slot'[r] = r /\ r # None
      BY <2>1, <2>2, <1>5, BegunHaveIds
    <3>2. ASSUME NEW s \in Begun, s # r
          PROVE  slot'[s] = slot[s] /\ callback'[id[s]] = callback[id[s]]
      BY <1>3, <2>1, <2>2, <3>2, BegunHaveIds
    <3>3. ASSUME NEW s \in Requests, s # r PROVE slot'[s] = slot[s]
      BY <2>1, <2>2, <3>3
    <3> QED
      BY <1>2, <3>1, <3>2, <3>3, SMTT(60) DEF Waits, Known, Begun
  <2> QED
    BY <1>1, <2>3, <2>4, <2>5
<1> QED
  BY <1>4, <1>5

LEMMA ReadEndKeeps == ASSUME SftpInv, ReadFail \/ ReaderStop PROVE SftpInv'
<1> USE SftpAssumption DEF SftpInv, TypeOK
<1>1. /\ UNCHANGED <<next, id, caller, got, callback, slot, writer, packet, link, asked, answers>>
      /\ queue' \in {queue, Append(queue, Stop)} /\ reader' = "off"
  BY DEF ReadFail, ReaderStop, calls, remote
<1>2. IdsOf' /\ OwnAnswer' /\ Begun' = Begun
  BY <1>1, SameCalls
<1>3. /\ queue' \in Seq(Requests \cup {Stop})
      /\ \A k \in 1..Len(queue') :
           queue'[k] = Stop \/ (k \in 1..Len(queue) /\ queue'[k] = queue[k])
  <2>1. CASE queue' = queue
    BY <2>1
  <2>2. CASE queue' = Append(queue, Stop)
    BY <2>2
  <2> QED
    BY <1>1, <2>1, <2>2
<1>4. TypeOK'
  BY <1>1, <1>3
<1>5. Trail'
  BY <1>1, <1>2, <1>3 DEF Trail, Labelled
<1>6. Waits'
  BY <1>1 DEF Waits, Known
<1> QED
  BY <1>2, <1>4, <1>5, <1>6

LEMMA ServerKeeps == ASSUME SftpInv, Server PROVE SftpInv'
<1> USE SftpAssumption DEF SftpInv, TypeOK
<1>1. UNCHANGED <<calls, session>> /\ asked' \subseteq asked /\ link' \in BOOLEAN
  BY DEF Server, Answer, Break, calls, session
<1>2. IdsOf' /\ OwnAnswer' /\ Begun' = Begun
  BY <1>1, SameCalls DEF calls
<1>3. \A a \in answers' : a \in answers \/ (\E r \in asked : a = <<id[r], r>>)
  <2>1. CASE Answer
    BY <2>1 DEF Answer
  <2>2. CASE Break
    BY <2>2 DEF Break
  <2> QED
    BY <2>1, <2>2 DEF Server
<1>4. \A r \in asked : r \in Begun /\ id[r] \in Ids
  BY BegunHaveIds DEF Trail
<1>5. \A a \in answers' : a \in Ids \X Requests /\ Labelled(a)
  BY <1>3, <1>4 DEF Trail, Labelled
<1>6. TypeOK'
  BY <1>1, <1>5 DEF calls, session
<1>7. Trail'
  BY <1>1, <1>2, <1>5 DEF Trail, Labelled, calls, session
<1>8. Waits'
  BY <1>1 DEF Waits, Known, calls, session
<1> QED
  BY <1>2, <1>6, <1>7, <1>8

LEMMA SftpStep == SftpInv /\ [Next]_vars => SftpInv'
<1>1. CASE UNCHANGED vars
  BY <1>1 DEF vars, calls, session, remote, SftpInv, TypeOK, IdsOf, Trail, Waits, Known,
              OwnAnswer, Begun, Age, Zero, Labelled
<1> QED
  BY <1>1, EnterKeeps, SendKeeps, EndKeeps, WriteKeeps, CloseKeeps, DrainKeeps, ReadKeeps,
     DeliverKeeps, ReadEndKeeps, ServerKeeps
     DEF Next, Caller, Writer, Reader

LEMMA SftpAlways == Spec => []SftpInv
BY SftpInit, SftpStep, PTL DEF Spec

(* Every variable has its type: ids are within the id space, and no        *)
(* callback and no answer has the id 0, which means none (session.rs).     *)
THEOREM SftpTypeCorrect == Spec => []TypeOK
BY SftpAlways, PTL DEF SftpInv

(* The callback is inserted before the request is sent and the channel is   *)
(* closed before the callbacks are drained (session.rs): no thread can come *)
(* between so that a caller waits whom nobody answers.                      *)
THEOREM AllAreFound == Spec => []NobodyLeftBehind
<1>1. SftpInv => NobodyLeftBehind
  BY DEF SftpInv, Waits, NobodyLeftBehind
<1> QED
  BY <1>1, SftpAlways, PTL

(* As long as the session has sent fewer requests than there are ids, which *)
(* SftpAssumption demands, no two of them have the same, wherever the       *)
(* counter started (id.rs), so an answer never reaches another caller.      *)
THEOREM AnswersAreOwn == Spec => []OwnAnswer
BY SftpAlways, PTL DEF SftpInv

=============================================================================
