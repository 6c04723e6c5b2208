------------------------------ MODULE DdsProofs ------------------------------
(* Who is registered knows everybody else, has been told what the server   *)
(* keeps, and what is saved survives the servers, for any number of        *)
(* instances and guests, messages and kills.                               *)
EXTENDS Dds, TLAPS

(* What is held back when a process quits is there to be written. *)
HeldIsThere == \A i \in Instances : quitting[i] = "taken" <=> held[i] # None

(* A client is registered with the server its connection leads to, after   *)
(* its first hi, and only while that server runs.                          *)
Known ==
  /\ \A s \in Instances : \A c \in clients[s] : conn[c] = s /\ named[c]
  /\ \A i \in Ids : ~named[i] => told[i] = None
  /\ \A s \in Instances : ~Running(s) => clients[s] = {}

(* Who looks for a server has no connection, and none leads to a process   *)
(* that is yet to start.                                                   *)
Ends ==
  /\ \A i \in Ids : stage[i] \in {"off", "try", "make", "bind", "load"} => conn[i] = None
  /\ \A i \in Ids : conn[i] # None => stage[conn[i]] # "off"

(* An instance says bye to nobody, and serves from the time it has bound.  *)
Behaved ==
  /\ \A i \in Instances : \A k \in 1..Len(wire[i]) : wire[i][k] # "bye"
  /\ \A s \in Instances : serving[s] => stage[s] \in {"load", "try", "up"}
  /\ \A s \in Instances : stage[s] = "load" => serving[s]

Links == TypeOK /\ Known /\ Ends /\ Behaved

(* Unless a socket was taken, only the instance at the path serves, and     *)
(* only one that serves has connections, all that have said hi registered, *)
(* and a static message, in its state or taken out of it to be saved.      *)
Keeps(s) == inner[s] # None \/ held[s] # None

Alone ==
  /\ \A s \in Instances : serving[s] => path = s
  /\ \A i \in Ids : conn[i] # None /\ Running(conn[i]) =>
       serving[conn[i]] /\ (named[i] => i \in clients[conn[i]])

Loaded ==
  /\ \A s \in Instances : Keeps(s) => serving[s] /\ stage[s] # "load"
  /\ \A s \in Instances : inner[s] = None \/ held[s] = None
  /\ \A s \in Instances : stage[s] = "load" => \A c \in clients[s] : told[c] = None

OneServer == "stolen" \notin mishaps => Alone /\ Loaded

(* The newest static message is what is kept, and it is in the file unless *)
(* a process has it that will write it.                                    *)
Newest ==
  /\ "stolen" \in mishaps <=> accepted = None
  /\ accepted # None =>
       /\ \A s \in Instances : inner[s] \in {None, accepted} /\ held[s] \in {None, accepted}
       /\ file = accepted \/ \E s \in Instances : fresh[s] /\ Keeps(s)

-----------------------------------------------------------------------------
(* Types. *)

LEMMA HeyType ==
  ASSUME TypeOK, NEW known \in SUBSET Ids
  PROVE  Hey(known) \in [Ids -> SUBSET Ids]
BY DEF TypeOK, Hey

LinkTypeOK ==
  /\ conn \in [Ids -> Instances \cup {None}]
  /\ named \in [Ids -> BOOLEAN]
  /\ wire \in [Ids -> Seq({"hi", "bye"} \cup Static)]
  /\ peers \in [Ids -> SUBSET Ids]
  /\ told \in [Ids -> {None} \cup Static]

LEMMA LinkType ==
  ASSUME TypeOK, NEW i \in Ids, NEW s \in Instances \cup {None},
         NEW sent \in Seq({"hi", "bye"} \cup Static), Link(i, s, sent)
  PROVE  LinkTypeOK'
BY DEF TypeOK, Link, LinkTypeOK

LEMMA UnlinkType ==
  ASSUME TypeOK, NEW i \in Ids, Link(i, None, <<>>)
  PROVE  LinkTypeOK'
<1>1. None \in Instances \cup {None} /\ <<>> \in Seq({"hi", "bye"} \cup Static)
  OBVIOUS
<1> QED
  BY <1>1, LinkType

LEMMA InitType == Init => TypeOK
BY DdsAssumption DEF Init, TypeOK, Static, Ids

LEMMA ServeType ==
  ASSUME TypeOK, NEW i \in Instances, Start(i) \/ Serve(i)
  PROVE  TypeOK'
<1> i \in Ids
  BY DEF Ids
<1>0. queue[i] # <<>> =>
        /\ Head(queue[i]) \in {"hi"} \cup Static
        /\ Tail(queue[i]) \in Seq({"hi"} \cup Static)
        /\ Append(wire[i], Head(queue[i])) \in Seq({"hi", "bye"} \cup Static)
  <2>1. queue[i] # <<>> =>
          /\ Head(queue[i]) \in {"hi"} \cup Static
          /\ Tail(queue[i]) \in Seq({"hi"} \cup Static)
    BY DEF TypeOK
  <2> QED
    BY <2>1 DEF TypeOK
<1>1. CASE Start(i)
  BY <1>1 DEF TypeOK, Start, server, link, disk, history
<1>2. CASE Connect(i)
  <2> DEFINE sent == IF retry[i] = None THEN <<>> ELSE <<retry[i]>>
  <2>1. path \in Instances
    BY <1>2 DEF TypeOK, Connect, Reachable
  <2>2. sent \in Seq({"hi", "bye"} \cup Static)
    <3>1. CASE retry[i] = None
      BY <3>1
    <3>2. CASE retry[i] # None
      <4>1. retry[i] \in {"hi", "bye"} \cup Static
        BY <3>2 DEF TypeOK
      <4> QED
        BY <3>2, <4>1
    <3> QED
      BY <3>1, <3>2
  <2>3. LinkTypeOK'
    BY <1>2, <2>1, <2>2, LinkType DEF Connect
  <2>4. queue' \in [Instances -> Seq({"hi"} \cup Static)]
    BY <1>2 DEF TypeOK, Connect
  <2>5. retry' \in [Instances -> {None, "hi"} \cup Static]
    BY <1>2 DEF TypeOK, Connect
  <2> QED
    BY <1>2, <2>3, <2>4, <2>5 DEF TypeOK, LinkTypeOK, Connect, server, disk, history
<1>3. CASE MakeServer(i)
  BY <1>3 DEF TypeOK, MakeServer, link, disk
<1>4. CASE Unlink(i)
  BY <1>4 DEF TypeOK, Unlink, server, link
<1>5. CASE Bind(i)
  <2>1. path' \in Instances \cup {None}
    BY <1>5 DEF TypeOK, Bind
  <2>2. serving' \in [Instances -> BOOLEAN]
    BY <1>5 DEF TypeOK, Bind
  <2>3. stage' \in [Ids -> {"off", "try", "make", "bind", "load", "up", "ask", "gone"}]
    BY <1>5, SMTT(60) DEF TypeOK, Bind
  <2> QED
    BY <1>5, <2>1, <2>2, <2>3 DEF TypeOK, Bind, link, history
<1>6. CASE Load(i)
  BY <1>6 DEF TypeOK, Load, disk, history
<1>7. CASE Break(i)
  <2>1. LinkTypeOK'
    BY <1>7, UnlinkType DEF Break, Reconnect
  <2> QED
    BY <1>7, <2>1 DEF TypeOK, LinkTypeOK, Break, Reconnect, server, disk, history
<1>8. CASE WriteFail(i)
  <2>1. LinkTypeOK'
    BY <1>8, UnlinkType DEF WriteFail, Reconnect
  <2> QED
    BY <1>0, <1>8, <2>1 DEF TypeOK, LinkTypeOK, WriteFail, Reconnect, server, disk, history
<1>9. CASE Write(i)
  BY <1>0, <1>9 DEF TypeOK, Write, server, disk, history
<1> QED
  BY <1>1, <1>2, <1>3, <1>4, <1>5, <1>6, <1>7, <1>8, <1>9 DEF Serve

(* What a process has taken out of its state is there until it is saved.   *)
LEMMA QuitType ==
  ASSUME TypeOK, HeldIsThere, NEW i \in Instances,
         Push(i) \/ QuitTake(i) \/ Quit(i) \/ Kill(i)
  PROVE  TypeOK'
<1> i \in Ids
  BY DEF Ids
<1>1. CASE Push(i)
  <2>1. \A m \in {i, Nothing, "hi"} : Append(queue[i], m) \in Seq({"hi"} \cup Static)
    BY DEF TypeOK, Static
  <2>2. sends' \in 0..MaxSends
    BY <1>1, DdsAssumption DEF TypeOK, Push
  <2> QED
    BY <1>1, <2>1, <2>2 DEF TypeOK, Push, server, link, disk
<1>2. CASE QuitTake(i)
  BY <1>2 DEF TypeOK, QuitTake, link, disk, history
<1>3. CASE Drain(i)
  <2>1. held[i] \in Static
    BY <1>3 DEF TypeOK, HeldIsThere, Drain
  <2>2. held' \in [Instances -> {None} \cup Static] /\ file' \in Static
    BY <1>3, <2>1 DEF TypeOK, Drain
  <2> QED
    BY <1>3, <2>2, ZenonT(60) DEF TypeOK, Drain, link, history
<1>4. CASE End(i)
  BY <1>4 DEF TypeOK, End, disk
<1> QED
  BY <1>1, <1>2, <1>3, <1>4 DEF Quit, Exit, Kill

LEMMA GuestType ==
  ASSUME TypeOK, NEW g \in Guests,
         Shot(g) \/ ShotBreak(g) \/ Draw(g) \/ DrawBreak(g) \/ Redraw(g) \/ Leave(g)
  PROVE  TypeOK'
<1> g \in Ids
  BY DEF Ids
<1>0. sends < MaxSends => sends + 1 \in 0..MaxSends
  BY DdsAssumption DEF TypeOK
<1>1. Reachable => path \in Instances \cup {None}
  BY DEF TypeOK, Reachable
<1> <<"hi">> \in Seq({"hi", "bye"} \cup Static)
  OBVIOUS
<1>2. CASE Shot(g)
  <2>1. \A m \in {g, Nothing} : <<"hi", m, "bye">> \in Seq({"hi", "bye"} \cup Static)
    BY DEF Static
  <2>2. LinkTypeOK'
    BY <1>1, <1>2, <2>1, LinkType DEF Shot
  <2> QED
    BY <1>0, <1>2, <2>2 DEF TypeOK, LinkTypeOK, Shot, server, disk
<1>3. CASE ShotBreak(g)
  <2>1. LinkTypeOK'
    BY <1>3, UnlinkType DEF ShotBreak
  <2> QED
    BY <1>3, <2>1 DEF TypeOK, LinkTypeOK, ShotBreak, server, disk, history
<1>4. CASE Draw(g)
  <2>1. LinkTypeOK'
    BY <1>1, <1>4, LinkType DEF Draw
  <2> QED
    BY <1>0, <1>4, <2>1 DEF TypeOK, LinkTypeOK, Draw, server, disk
<1>5. CASE DrawBreak(g)
  <2>1. LinkTypeOK'
    BY <1>5, UnlinkType DEF DrawBreak
  <2> QED
    BY <1>5, <2>1 DEF TypeOK, LinkTypeOK, DrawBreak, server, disk, history
<1>6. CASE Redraw(g)
  <2>1. LinkTypeOK'
    BY <1>1, <1>6, LinkType DEF Redraw
  <2> QED
    BY <1>6, <2>1 DEF TypeOK, LinkTypeOK, Redraw, server, disk, history
<1>7. CASE Leave(g)
  BY <1>7 DEF TypeOK, Leave, server, link, disk, history
<1> QED
  BY <1>2, <1>3, <1>4, <1>5, <1>6, <1>7

(* The end of the server's task of a connection. *)
LEMMA UnregisterType ==
  ASSUME TypeOK, NEW i \in Ids, conn[i] \in Instances, Unregister(i)
  PROVE  clients' \in [Instances -> SUBSET Ids] /\ LinkTypeOK'
<1>1. clients[conn[i]] \ {i} \in SUBSET Ids
  BY DEF TypeOK
<1>2. Hey(clients[conn[i]] \ {i}) \in [Ids -> SUBSET Ids]
  BY <1>1, HeyType
<1>3. peers' \in [Ids -> SUBSET Ids]
  BY <1>2 DEF TypeOK, Unregister
<1>4. clients' \in [Instances -> SUBSET Ids]
  BY <1>1 DEF TypeOK, Unregister
<1>5. /\ conn' \in [Ids -> Instances \cup {None}] /\ named' \in [Ids -> BOOLEAN]
      /\ wire' \in [Ids -> Seq({"hi", "bye"} \cup Static)]
      /\ told' \in [Ids -> {None} \cup Static]
  BY DEF TypeOK, Unregister
<1> QED
  BY <1>3, <1>4, <1>5 DEF LinkTypeOK

LEMMA TaskType ==
  ASSUME TypeOK, NEW i \in Ids, Task(i)
  PROVE  TypeOK'
<1>1. conn[i] \in Instances
  BY DEF TypeOK, Task, HandleHi, HandleStatic, HandleBye, Reap, Reads
<1>2. wire[i] # <<>> => Tail(wire[i]) \in Seq({"hi", "bye"} \cup Static)
  BY DEF TypeOK
<1>3. CASE HandleHi(i)
  <2>1. clients[conn[i]] \cup {i} \in SUBSET Ids
    BY <1>1 DEF TypeOK
  <2>2. peers' \in [Ids -> SUBSET Ids]
    BY <1>3, <2>1, HeyType DEF HandleHi
  <2>3. told' \in [Ids -> {None} \cup Static] /\ wire' \in [Ids -> Seq({"hi", "bye"} \cup Static)]
    BY <1>1, <1>2, <1>3 DEF TypeOK, HandleHi, Reads
  <2> QED
    BY <1>1, <1>3, <2>1, <2>2, <2>3 DEF TypeOK, HandleHi, process, disk, history
<1>4. CASE HandleStatic(i)
  <2>1. wire' \in [Ids -> Seq({"hi", "bye"} \cup Static)]
    BY <1>2, <1>4 DEF TypeOK, HandleStatic, Reads
  <2>2. /\ inner' \in [Instances -> {None} \cup Static]
        /\ fresh' \in [Instances -> BOOLEAN]
        /\ told' \in [Ids -> {None} \cup Static]
        /\ accepted' \in {None} \cup Static
    <3>1. CASE UNCHANGED <<inner, fresh, told, accepted>>
      BY <3>1 DEF TypeOK
    <3>2. ASSUME NEW m \in Static, NEW able,
                 inner' = [inner EXCEPT ![conn[i]] = m],
                 fresh' = [fresh EXCEPT ![conn[i]] = TRUE],
                 told' = [c \in Ids |-> IF c \in able THEN m ELSE told[c]],
                 accepted' = IF accepted = None THEN None ELSE m
          PROVE  /\ inner' \in [Instances -> {None} \cup Static]
                 /\ fresh' \in [Instances -> BOOLEAN]
                 /\ told' \in [Ids -> {None} \cup Static]
                 /\ accepted' \in {None} \cup Static
      BY <3>2 DEF TypeOK
    <3> QED
      BY <1>4, <3>1, <3>2 DEF HandleStatic
  <2> QED
    BY <1>4, <2>1, <2>2 DEF TypeOK, HandleStatic, process, disk
<1>5. CASE HandleBye(i)
  <2>1. clients' \in [Instances -> SUBSET Ids] /\ LinkTypeOK'
    BY <1>1, <1>5, UnregisterType DEF HandleBye
  <2> QED
    BY <1>5, <2>1 DEF TypeOK, LinkTypeOK, HandleBye, disk, history
<1>6. CASE Reap(i)
  <2>1. clients' \in [Instances -> SUBSET Ids] /\ LinkTypeOK'
    BY <1>1, <1>6, UnregisterType DEF Reap
  <2> QED
    BY <1>6, <2>1 DEF TypeOK, LinkTypeOK, Reap, process, disk, history
<1> QED
  BY <1>3, <1>4, <1>5, <1>6 DEF Task

(* Only the quitting process itself touches what it holds. *)
LEMMA HeldStep ==
  ASSUME TypeOK, HeldIsThere, [Next]_vars
  PROVE  HeldIsThere'
<1>1. CASE UNCHANGED <<quitting, held>>
  BY <1>1 DEF HeldIsThere
<1>2. ASSUME NEW i \in Instances, QuitTake(i) PROVE HeldIsThere'
  BY <1>2 DEF TypeOK, HeldIsThere, QuitTake
<1>3. ASSUME NEW i \in Instances, Drain(i) PROVE HeldIsThere'
  BY <1>3 DEF TypeOK, HeldIsThere, Drain
<1>4. ASSUME NEW i \in Instances, End(i) PROVE HeldIsThere'
  BY <1>4 DEF TypeOK, HeldIsThere, End
<1>5. ASSUME NEW i \in Instances, Start(i) \/ Serve(i) \/ Push(i)
      PROVE  UNCHANGED <<quitting, held>>
  BY <1>5 DEF Start, Serve, Push, Connect, MakeServer, Unlink, Bind, Load, Break,
              WriteFail, Write, server
<1>6. ASSUME NEW g \in Guests,
             Shot(g) \/ ShotBreak(g) \/ Draw(g) \/ DrawBreak(g) \/ Redraw(g) \/ Leave(g)
      PROVE  UNCHANGED <<quitting, held>>
  BY <1>6 DEF Shot, ShotBreak, Draw, DrawBreak, Redraw, Leave, server
<1>7. ASSUME NEW i \in Ids, Task(i)
      PROVE  UNCHANGED <<quitting, held>>
  BY <1>7 DEF Task, HandleHi, HandleStatic, HandleBye, Reap, process
<1>8. CASE UNCHANGED vars
  BY <1>1, <1>8 DEF vars, process, server
<1> QED
  BY <1>1, <1>2, <1>3, <1>4, <1>5, <1>6, <1>7, <1>8 DEF Next, Quit, Exit, Kill

(* Every variable of the service has its type; a process has taken its     *)
(* static messages out exactly while it is between taking and writing them *)
(* (state.rs, drain).                                                      *)
THEOREM DdsTypeCorrect == Spec => [](TypeOK /\ HeldIsThere)
<1>1. Init => TypeOK /\ HeldIsThere
  BY InitType DEF Init, HeldIsThere
<1>2. TypeOK /\ HeldIsThere /\ [Next]_vars => (TypeOK /\ HeldIsThere)'
  <2> SUFFICES ASSUME TypeOK, HeldIsThere, [Next]_vars PROVE TypeOK' /\ HeldIsThere'
    OBVIOUS
  <2>1. CASE UNCHANGED vars
    BY <2>1, HeldStep DEF TypeOK, vars, process, server, link, disk, history
  <2>2. CASE Next
    BY <2>2, HeldStep, ServeType, QuitType, GuestType, TaskType DEF Next
  <2> QED
    BY <2>1, <2>2
<1> QED
  BY <1>1, <1>2, PTL DEF Spec

-----------------------------------------------------------------------------
(* Connections. *)

LEMMA LinksInit == Init => Links
<1> SUFFICES ASSUME Init PROVE Links
  OBVIOUS
<1>1. TypeOK
  BY InitType
<1>2. Known /\ Ends /\ Behaved
  BY DdsAssumption DEF Init, Known, Ends, Behaved, Running, Ids
<1> QED
  BY <1>1, <1>2 DEF Links

(* What a new connection, or the end of one, of somebody who is registered *)
(* nowhere leaves as it was.                                               *)
LEMMA LinkKeeps ==
  ASSUME Links, NEW i \in Ids, NEW s \in Instances \cup {None}, NEW sent, Link(i, s, sent),
         \A r \in Instances : i \notin clients[r],
         UNCHANGED clients,
         \A j \in Ids : Running(j) => Running(j)'
  PROVE  Known'
<1>1. \A r \in Instances : \A c \in clients'[r] : conn'[c] = r /\ named'[c]
  BY DEF Links, TypeOK, Known, Link
<1>2. \A j \in Ids : ~named'[j] => told'[j] = None
  BY DEF Links, TypeOK, Known, Link
<1>3. \A r \in Instances : ~Running(r)' => clients'[r] = {}
  BY DEF Links, Known, Ids
<1> QED
  BY <1>1, <1>2, <1>3 DEF Known, Running

LEMMA Unregistered ==
  ASSUME Links, NEW i \in Ids, conn[i] = None \/ Broken(i), NEW r \in Instances
  PROVE  i \notin clients[r]
BY DdsAssumption DEF Links, TypeOK, Known, Broken, Ids

LEMMA ServeLinks ==
  ASSUME Links, NEW i \in Instances, Start(i) \/ Serve(i)
  PROVE  Known' /\ Ends' /\ Behaved'
<1> i \in Ids
  BY DEF Ids
<1> USE DdsAssumption
<1>1. CASE Start(i)
  <2>1. conn[i] = None /\ ~serving[i]
    BY <1>1 DEF Links, TypeOK, Ends, Behaved, Start
  <2> QED
    BY <1>1, <2>1 DEF Links, TypeOK, Known, Ends, Behaved, Start, Running, server, link
<1>2. CASE Connect(i)
  <2>1. path \in Instances /\ serving[path] /\ conn[i] = None
    BY <1>2 DEF Links, TypeOK, Ends, Connect, Reachable
  <2>2. Known'
    BY <1>2, <2>1, LinkKeeps, Unregistered DEF Links, TypeOK, Connect, Running, server
  <2>3. Ends'
    <3>1. stage[path] # "off" /\ path # None
      BY <2>1, DdsAssumption DEF Links, Behaved
    <3> QED
      BY <1>2, <2>1, <3>1 DEF Links, TypeOK, Ends, Connect, Link, Ids
  <2>4. retry[i] # "bye"
    BY DEF Links, TypeOK, Static, Ids
  <2>5. Behaved'
    BY <1>2, <2>4 DEF Links, TypeOK, Behaved, Connect, Link, server
  <2> QED
    BY <2>2, <2>3, <2>5
<1>3. CASE MakeServer(i)
  BY <1>3 DEF Links, TypeOK, Known, Ends, Behaved, MakeServer, Running, link
<1>4. CASE Unlink(i)
  BY <1>4 DEF Links, TypeOK, Known, Ends, Behaved, Unlink, Running, link, server
<1>5. CASE Bind(i)
  <2>1. /\ UNCHANGED <<clients, conn, named, wire, told>>
        /\ stage[i] = "bind" /\ conn[i] = None
        /\ stage' \in {[stage EXCEPT ![i] = "load"], [stage EXCEPT ![i] = "try"]}
    BY <1>5 DEF Links, Ends, Bind, link
  <2>2. \A j \in Ids : (Running(j) <=> Running(j)') /\ (stage[j] # "off" => stage'[j] # "off")
    BY <2>1 DEF Links, TypeOK, Running
  <2>3. Known'
    BY <2>1, <2>2 DEF Links, Known, Running, Ids
  <2>4. Ends'
    BY <2>1, <2>2 DEF Links, TypeOK, Ends, Ids
  <2>5. CASE path = None
    <3>1. stage' = [stage EXCEPT ![i] = "load"] /\ serving' = [serving EXCEPT ![i] = TRUE]
      BY <1>5, <2>5 DEF Bind
    <3> QED
      BY <2>1, <2>3, <2>4, <3>1 DEF Links, TypeOK, Behaved
  <2>6. CASE path # None
    <3>1. stage' = [stage EXCEPT ![i] = "try"] /\ serving' = serving
      BY <1>5, <2>6 DEF Bind
    <3> QED
      BY <2>1, <2>3, <2>4, <3>1 DEF Links, TypeOK, Behaved
  <2> QED
    BY <2>5, <2>6
<1>6. CASE Load(i)
  BY <1>6 DEF Links, TypeOK, Known, Ends, Behaved, Load, Running
<1>7. ASSUME Broken(i), stage[i] = "up", Reconnect(i), UNCHANGED server
      PROVE  Known' /\ Ends' /\ Behaved'
  <2>1. Known'
    BY <1>7, LinkKeeps, Unregistered DEF Links, TypeOK, Reconnect, Running, server
  <2>2. Ends' /\ Behaved'
    BY <1>7 DEF Links, TypeOK, Ends, Behaved, Reconnect, Link, server
  <2> QED
    BY <2>1, <2>2
<1>8. CASE Break(i)
  BY <1>7, <1>8 DEF Break
<1>9. CASE WriteFail(i)
  BY <1>7, <1>9 DEF WriteFail
<1>10. CASE Write(i)
  <2>1. Head(queue[i]) # "bye" /\ Append(wire[i], Head(queue[i])) \in Seq({"hi", "bye"} \cup Static)
    <3>1. Head(queue[i]) \in {"hi"} \cup Static
      BY <1>10 DEF Links, TypeOK, Write
    <3>2. Head(queue[i]) # "bye"
      BY <3>1 DEF Static, Ids
    <3> QED
      BY <3>1, <3>2 DEF Links, TypeOK
  <2>2. Behaved'
    <3>1. \A k \in 1..Len(wire'[i]) : wire'[i][k] # "bye"
      BY <1>10, <2>1, SMTT(60) DEF Links, TypeOK, Behaved, Write
    <3> QED
      BY <1>10, <3>1 DEF Links, TypeOK, Behaved, Write, server
  <2> QED
    BY <1>10, <2>2 DEF Links, Known, Ends, Write, Running, server
<1> QED
  BY <1>1, <1>2, <1>3, <1>4, <1>5, <1>6, <1>8, <1>9, <1>10 DEF Serve

LEMMA QuitLinks ==
  ASSUME Links, NEW i \in Instances, Push(i) \/ QuitTake(i) \/ Quit(i) \/ Kill(i)
  PROVE  Known' /\ Ends' /\ Behaved'
<1>1. CASE UNCHANGED <<stage, serving, clients, conn, named, wire, told>>
  BY <1>1 DEF Links, Known, Ends, Behaved, Running
<1>2. CASE End(i)
  <2>1. i \in Ids
    BY DEF Ids
  <2>2. Known'
    BY <1>2, <2>1, DdsAssumption DEF Links, TypeOK, Known, End, Running, Ids
  <2>3. Ends'
    BY <1>2, <2>1, DdsAssumption DEF Links, TypeOK, Ends, End, Ids
  <2>4. Behaved'
    BY <1>2, <2>1, DdsAssumption DEF Links, TypeOK, Behaved, End, Ids
  <2> QED
    BY <2>2, <2>3, <2>4
<1> QED
  BY <1>1, <1>2 DEF Push, QuitTake, Quit, Drain, Exit, Kill, server, link

LEMMA GuestLinks ==
  ASSUME Links, NEW g \in Guests,
         Shot(g) \/ ShotBreak(g) \/ Draw(g) \/ DrawBreak(g) \/ Redraw(g) \/ Leave(g)
  PROVE  Known' /\ Ends' /\ Behaved'
<1> g \in Ids /\ g \notin Instances
  BY DdsAssumption DEF Ids
<1> USE DdsAssumption
<1>1. ASSUME stage[g] \in {"off", "try"}, Reachable, NEW to \in {"ask", "up"}, NEW sent,
             stage' = [stage EXCEPT ![g] = to], Link(g, path, sent), UNCHANGED server
      PROVE  Known' /\ Ends' /\ Behaved'
  <2>1. path \in Instances /\ serving[path] /\ conn[g] = None
    BY <1>1 DEF Links, TypeOK, Ends, Reachable
  <2>2. Known'
    BY <1>1, <2>1, LinkKeeps, Unregistered DEF Links, TypeOK, Running, server
  <2>3. Ends'
    <3>1. path \in Ids /\ path # g /\ stage[path] # "off"
      BY <2>1 DEF Links, Behaved, Ids
    <3>2. /\ stage'[g] = to /\ conn'[g] = path
          /\ \A i \in Ids \ {g} : stage'[i] = stage[i] /\ conn'[i] = conn[i]
      BY <1>1 DEF Links, TypeOK, Link
    <3>3. ASSUME NEW i \in Ids, conn'[i] # None PROVE stage'[conn'[i]] # "off"
      <4>1. CASE i = g
        BY <1>1, <3>1, <3>2, <4>1
      <4>2. CASE i # g
        <5>1. conn[i] \in Ids /\ conn'[i] = conn[i] /\ stage[conn[i]] # "off"
          BY <3>2, <3>3, <4>2 DEF Links, TypeOK, Ends, Ids
        <5> QED
          BY <1>1, <3>2, <5>1
      <4> QED
        BY <4>1, <4>2
    <3>4. \A i \in Ids : stage'[i] \in {"off", "try", "make", "bind", "load"} => conn'[i] = None
      BY <1>1, <3>2 DEF Links, Ends
    <3> QED
      BY <3>3, <3>4 DEF Ends
  <2>4. Behaved'
    BY <1>1 DEF Links, TypeOK, Behaved, Link, server, Ids
  <2> QED
    BY <2>2, <2>3, <2>4
<1>2. ASSUME Broken(g), NEW to \in {"gone", "try"},
             stage' = [stage EXCEPT ![g] = to], Link(g, None, <<>>), UNCHANGED server
      PROVE  Known' /\ Ends' /\ Behaved'
  <2>1. Known'
    <3>1. \A s \in Instances : \A c \in clients'[s] : conn'[c] = s /\ named'[c]
      BY <1>2, Unregistered DEF Links, TypeOK, Known, Link, server
    <3> QED
      BY <1>2, <3>1 DEF Links, TypeOK, Known, Link, Running, server, Ids
  <2>2. Ends' /\ Behaved'
    BY <1>2 DEF Links, TypeOK, Ends, Behaved, Link, server, Ids
  <2> QED
    BY <2>1, <2>2
<1>3. CASE Leave(g)
  BY <1>3 DEF Links, TypeOK, Known, Ends, Behaved, Leave, Running, server, link, Ids
<1> QED
  BY <1>1, <1>2, <1>3 DEF Shot, ShotBreak, Draw, DrawBreak, Redraw

LEMMA TaskLinks ==
  ASSUME Links, NEW i \in Ids, Task(i)
  PROVE  Known' /\ Ends' /\ Behaved'
<1> USE DdsAssumption
<1>1. conn[i] \in Instances /\ Running(conn[i])
  BY DEF Links, TypeOK, Task, HandleHi, HandleStatic, HandleBye, Reap, Reads
<1>2. wire[i] # <<>> /\ i \in Instances =>
        Head(wire[i]) # "bye" /\ \A k \in 1..Len(Tail(wire[i])) : Tail(wire[i])[k] # "bye"
  <2>1. wire[i] \in Seq({"hi", "bye"} \cup Static)
    BY DEF Links, TypeOK
  <2> QED
    BY <2>1 DEF Links, Behaved
<1>3. CASE HandleHi(i)
  <2>1. Known'
    BY <1>1, <1>3 DEF Links, TypeOK, Known, HandleHi, Running, process
  <2>2. Ends' /\ Behaved'
    BY <1>2, <1>3 DEF Links, TypeOK, Ends, Behaved, HandleHi, Reads, process
  <2> QED
    BY <2>1, <2>2
<1>4. CASE HandleStatic(i)
  <2>1. Known'
    BY <1>1, <1>4 DEF Links, TypeOK, Known, HandleStatic, Running, process
  <2>2. Ends' /\ Behaved'
    BY <1>2, <1>4 DEF Links, TypeOK, Ends, Behaved, HandleStatic, Reads, process
  <2> QED
    BY <2>1, <2>2
<1>5. ASSUME Unregister(i), \A s \in Instances : stage'[s] = stage[s] PROVE Known'
  <2>1. \A s \in Instances : i \in clients[s] => s = conn[i]
    BY DEF Links, Known
  <2>2. clients' = [clients EXCEPT ![conn[i]] = @ \ {i}]
    BY <1>5 DEF Unregister
  <2>3. \A s \in Instances : \A c \in clients'[s] : conn'[c] = s /\ named'[c]
    BY <1>5, <2>1, <2>2 DEF Links, TypeOK, Known, Unregister
  <2>4. \A j \in Ids : ~named'[j] => told'[j] = None
    BY <1>5 DEF Links, TypeOK, Known, Unregister
  <2>5. \A s \in Instances : ~Running(s) => clients'[s] = {}
    BY <2>2 DEF Links, TypeOK, Known
  <2> QED
    BY <1>5, <2>3, <2>4, <2>5 DEF Known, Running
<1>6. CASE HandleBye(i)
  <2>1. i \notin Instances
    BY <1>2, <1>6 DEF HandleBye, Reads
  <2>2. \A s \in Instances : stage'[s] = stage[s]
    BY <1>6, <2>1 DEF Links, TypeOK, HandleBye
  <2>3. Known'
    BY <1>5, <1>6, <2>2 DEF HandleBye
  <2> QED
    BY <1>6, <2>1, <2>2, <2>3 DEF Links, TypeOK, Ends, Behaved, HandleBye, Unregister
<1>7. CASE Reap(i)
  <2>1. Known'
    BY <1>5, <1>7 DEF Reap, process
  <2> QED
    BY <1>7, <2>1 DEF Links, TypeOK, Ends, Behaved, Reap, Unregister, process
<1> QED
  BY <1>3, <1>4, <1>6, <1>7 DEF Task

LEMMA LinksAlways == Spec => []Links
<1>1. Init => Links
  BY LinksInit
<1>2. Links /\ (TypeOK /\ HeldIsThere)' /\ [Next]_vars => Links'
  <2> SUFFICES ASSUME Links, TypeOK', [Next]_vars PROVE Known' /\ Ends' /\ Behaved'
    BY DEF Links
  <2>1. CASE UNCHANGED vars
    BY <2>1 DEF Links, Known, Ends, Behaved, Running, vars, process, server, link
  <2>2. CASE Next
    BY <2>2, ServeLinks, QuitLinks, GuestLinks, TaskLinks DEF Next
  <2> QED
    BY <2>1, <2>2
<1> QED
  BY <1>1, <1>2, DdsTypeCorrect, PTL DEF Spec

-----------------------------------------------------------------------------
(* Who knows whom. *)

LEMMA PeersKept ==
  ASSUME PeersAgree,
         \A s \in Instances : clients'[s] \in {clients[s], {}},
         \A s \in Instances : \A c \in clients'[s] : peers'[c] = peers[c]
  PROVE  PeersAgree'
BY DEF PeersAgree

(* Everybody who is registered with the server hears of it when somebody   *)
(* comes or goes; nobody who hears of it is registered with another one.   *)
LEMMA PeersTold ==
  ASSUME Links, PeersAgree, NEW r \in Instances, NEW known \in SUBSET Ids, NEW i \in Ids,
         \A s \in Instances \ {r} : i \notin clients[s],
         known \in {clients[r] \cup {i}, clients[r] \ {i}},
         clients' = [clients EXCEPT ![r] = known],
         \A c \in Ids : c # i \/ i \in known =>
           peers'[c] = IF c \in known THEN known \ {c} ELSE peers[c]
  PROVE  PeersAgree'
<1>1. \A c \in known : peers'[c] = known \ {c}
  OBVIOUS
<1>2. \A s \in Instances \ {r} : clients'[s] = clients[s] /\ clients[s] \cap known = {} /\ i \notin clients[s]
  BY DEF Links, TypeOK, Known
<1>3. \A s \in Instances \ {r} : \A c \in clients[s] : peers'[c] = peers[c]
  BY <1>2, ZenonT(60) DEF Links, TypeOK
<1>4. clients'[r] = known
  BY DEF Links, TypeOK
<1> QED
  BY <1>1, <1>2, <1>3, <1>4 DEF PeersAgree

LEMMA LinkPeers ==
  ASSUME Links, PeersAgree, NEW i \in Ids, conn[i] = None \/ Broken(i),
         NEW s, NEW sent, Link(i, s, sent), UNCHANGED clients
  PROVE  PeersAgree'
<1>1. \A r \in Instances : i \notin clients[r]
  BY Unregistered
<1>2. \A c \in Ids \ {i} : peers'[c] = peers[c]
  BY DEF Links, TypeOK, Link
<1> QED
  BY <1>1, <1>2, PeersKept DEF Links, TypeOK

LEMMA TaskPeers ==
  ASSUME Links, PeersAgree, NEW i \in Ids, Task(i)
  PROVE  PeersAgree'
<1>1. conn[i] \in Instances
  BY DdsAssumption DEF Links, TypeOK, Task, HandleHi, HandleStatic, HandleBye, Reap, Reads
<1>2. \A s \in Instances \ {conn[i]} : i \notin clients[s]
  BY DEF Links, Known
<1>3. clients[conn[i]] \in SUBSET Ids
  BY <1>1 DEF Links, TypeOK
<1>4. CASE HandleHi(i)
  <2> DEFINE known == clients[conn[i]] \cup {i}
  <2>1. clients' = [clients EXCEPT ![conn[i]] = known] /\ peers' = Hey(known)
    BY <1>4 DEF HandleHi
  <2>2. \A c \in Ids : peers'[c] = IF c \in known THEN known \ {c} ELSE peers[c]
    BY <2>1 DEF Hey
  <2>3. known \in SUBSET Ids
    BY <1>3
  <2> HIDE DEF known
  <2>4. known \in {clients[conn[i]] \cup {i}, clients[conn[i]] \ {i}}
    BY DEF known
  <2> QED
    BY <1>1, <1>2, <2>1, <2>2, <2>3, <2>4, PeersTold
<1>5. CASE HandleStatic(i)
  BY <1>5 DEF HandleStatic, PeersAgree
<1>6. ASSUME Unregister(i) PROVE PeersAgree'
  <2> DEFINE known == clients[conn[i]] \ {i}
  <2>1. clients' = [clients EXCEPT ![conn[i]] = known]
    BY <1>6 DEF Unregister
  <2>2. CASE i \in clients[conn[i]]
    <3>1. \A c \in Ids \ {i} : peers'[c] = IF c \in known THEN known \ {c} ELSE peers[c]
      BY <1>6, <2>2 DEF Unregister, Hey
    <3>2. known \in SUBSET Ids /\ i \notin known
      BY <1>3
    <3> HIDE DEF known
    <3>3. known \in {clients[conn[i]] \cup {i}, clients[conn[i]] \ {i}}
      BY DEF known
    <3> QED
      BY <1>1, <1>2, <2>1, <3>1, <3>2, <3>3, PeersTold
  <2>3. CASE i \notin clients[conn[i]]
    <3>1. \A s \in Instances : i \notin clients[s]
      BY <1>2, <2>3
    <3>2. \A s \in Instances : clients'[s] = clients[s]
      BY <2>1, <2>3 DEF Links, TypeOK
    <3>3. \A c \in Ids \ {i} : peers'[c] = peers[c]
      BY <1>6, <2>3 DEF Links, TypeOK, Unregister
    <3> QED
      BY <3>1, <3>2, <3>3, PeersKept DEF Links, TypeOK
  <2> QED
    BY <2>2, <2>3
<1> QED
  BY <1>4, <1>5, <1>6 DEF Task, HandleBye, Reap

(* The peers of a registered client are exactly the other clients of its   *)
(* server, whoever comes, goes and says hi again (server.rs, PEERS).       *)
THEOREM EveryoneKnown == Spec => []PeersAgree
<1>1. Init => PeersAgree
  BY DEF Init, PeersAgree
<1>2. Links /\ PeersAgree /\ [Next]_vars => PeersAgree'
  <2> SUFFICES ASSUME Links, PeersAgree, [Next]_vars PROVE PeersAgree'
    OBVIOUS
  <2>1. CASE UNCHANGED <<clients, peers>>
    BY <2>1, PeersKept
  <2>2. ASSUME NEW i \in Instances, Start(i) \/ Serve(i) PROVE PeersAgree'
    <3> i \in Ids
      BY DEF Ids
    <3>1. CASE Connect(i)
      <4>1. conn[i] = None
        BY <3>1 DEF Links, Ends, Connect
      <4> QED
        BY <3>1, <4>1, LinkPeers DEF Connect, server
    <3>2. CASE Break(i)
      BY <3>2, LinkPeers DEF Break, Reconnect, server
    <3>3. CASE WriteFail(i)
      BY <3>3, LinkPeers DEF WriteFail, Reconnect, server
    <3>4. CASE MakeServer(i)
      BY <3>4, PeersKept DEF Links, TypeOK, MakeServer, link
    <3> QED
      BY <2>1, <2>2, <3>1, <3>2, <3>3, <3>4
         DEF Start, Serve, Unlink, Bind, Load, Write, server, link
  <2>3. ASSUME NEW i \in Instances, Push(i) \/ QuitTake(i) \/ Quit(i) \/ Kill(i) PROVE PeersAgree'
    <3>1. CASE End(i)
      BY <3>1, PeersKept DEF Links, TypeOK, End
    <3> QED
      BY <2>1, <2>3, <3>1 DEF Push, QuitTake, Quit, Drain, Exit, Kill, server, link
  <2>4. ASSUME NEW g \in Guests,
               Shot(g) \/ ShotBreak(g) \/ Draw(g) \/ DrawBreak(g) \/ Redraw(g) \/ Leave(g)
        PROVE  PeersAgree'
    <3> g \in Ids
      BY DEF Ids
    <3>1. stage[g] \in {"off", "try"} => conn[g] = None
      BY DEF Links, Ends
    <3>2. CASE Leave(g)
      BY <2>1, <3>2 DEF Leave, server, link
    <3> QED
      BY <2>4, <3>1, <3>2, LinkPeers DEF Shot, ShotBreak, Draw, DrawBreak, Redraw, server
  <2>5. CASE UNCHANGED vars
    BY <2>1, <2>5 DEF vars, server, link
  <2> QED
    BY <2>2, <2>3, <2>4, <2>5, TaskPeers DEF Next
<1> QED
  BY <1>1, <1>2, LinksAlways, PTL DEF Spec

-----------------------------------------------------------------------------
(* One server, as long as no socket is taken. *)

LEMMA MishapsStay == ASSUME [Next]_vars PROVE mishaps \subseteq mishaps'
BY DEF Next, vars, history, Start, Serve, Connect, MakeServer, Unlink, Bind, Load, Break,
       WriteFail, Write, Push, QuitTake, Quit, Drain, Exit, Kill, End, Shot, ShotBreak, Draw,
       DrawBreak, Redraw, Leave, Task, HandleHi, HandleStatic, HandleBye, Reap

(* A new connection leads to the server and has not said hi.               *)
LEMMA LinkAlone ==
  ASSUME Links, Alone, NEW i \in Ids, NEW s \in Instances \cup {None}, NEW sent, Link(i, s, sent),
         s # None => serving[s],
         UNCHANGED <<serving, path, clients>>,
         \A j \in Instances : Running(j)' => Running(j)
  PROVE  Alone'
<1>1. \A j \in Ids \ {i} : conn'[j] = conn[j] /\ named'[j] = named[j]
  BY DEF Links, TypeOK, Link
<1>2. conn'[i] = s /\ ~named'[i]
  BY DEF Links, TypeOK, Link
<1>3. \A j \in Ids : conn'[j] \in Instances \cup {None}
  BY <1>1, <1>2 DEF Links, TypeOK
<1> QED
  BY <1>1, <1>2, <1>3, DdsAssumption DEF Alone, Running

LEMMA LinkLoaded ==
  ASSUME Links, Loaded, NEW i \in Ids, NEW s, NEW sent, Link(i, s, sent),
         UNCHANGED <<serving, clients, inner, held>>,
         \A j \in Instances : (stage'[j] = "load") <=> (stage[j] = "load"),
         \A r \in Instances : i \notin clients[r]
  PROVE  Loaded'
<1>1. \A j \in Ids \ {i} : told'[j] = told[j]
  BY DEF Links, TypeOK, Link
<1>2. \A r \in Instances : \A c \in clients[r] : c \in Ids \ {i}
  BY DEF Links, TypeOK
<1>3. \A r \in Instances : stage'[r] = "load" => \A c \in clients'[r] : told'[c] = None
  BY <1>1, <1>2 DEF Loaded
<1>4. \A r \in Instances : Keeps(r)' => serving'[r] /\ stage'[r] # "load"
  BY DEF Loaded, Keeps
<1> QED
  BY <1>3, <1>4 DEF Loaded, Keeps

LEMMA ServeAlone ==
  ASSUME Links, Alone, Loaded, NEW i \in Instances, Start(i) \/ Serve(i),
         "stolen" \notin mishaps'
  PROVE  Alone' /\ Loaded'
<1> i \in Ids
  BY DEF Ids
<1> USE DdsAssumption
<1>1. CASE Start(i)
  <2>1. \A j \in Ids : conn[j] # i
    BY <1>1 DEF Links, TypeOK, Ends, Start
  <2>2. \A j \in Instances : (stage'[j] = "load") <=> (stage[j] = "load")
    BY <1>1 DEF Links, TypeOK, Start, Ids
  <2>3. Alone'
    BY <1>1, <2>1 DEF Links, TypeOK, Alone, Start, Running, server, link, disk
  <2> QED
    BY <1>1, <2>2, <2>3 DEF Loaded, Keeps, Start, server, link
<1>2. CASE Connect(i)
  <2>1. path \in Instances /\ serving[path] /\ conn[i] = None
    BY <1>2 DEF Links, TypeOK, Ends, Connect, Reachable
  <2>2. /\ \A j \in Instances : Running(j)' <=> Running(j)
        /\ \A j \in Instances : (stage'[j] = "load") <=> (stage[j] = "load")
    BY <1>2 DEF Links, TypeOK, Connect, Running, Ids
  <2>3. UNCHANGED <<serving, path, clients, inner, held>> /\ \E sent : Link(i, path, sent)
    BY <1>2 DEF Connect, server, disk
  <2>4. \A r \in Instances : i \notin clients[r]
    BY <2>1, Unregistered
  <2>5. Alone'
    BY <2>1, <2>2, <2>3, LinkAlone
  <2>6. Loaded'
    BY <2>2, <2>3, <2>4, LinkLoaded
  <2> QED
    BY <2>5, <2>6
<1>3. CASE MakeServer(i)
  <2>1. ~serving[i]
    BY <1>3 DEF Alone, MakeServer, Reachable
  <2>2. \A j \in Ids : conn[j] # i
    BY <1>3, <2>1 DEF Links, TypeOK, Ends, Alone, MakeServer, Running
  <2>3. Alone'
    BY <1>3, <2>2 DEF Links, TypeOK, Alone, MakeServer, Running, link, disk
  <2>4. Loaded'
    BY <1>3, <2>1 DEF Links, TypeOK, Loaded, Keeps, MakeServer, link
  <2> QED
    BY <2>3, <2>4
<1>4. CASE Unlink(i)
  <2>1. \A s \in Instances : ~serving[s]
    BY <1>4 DEF Links, TypeOK, Alone, Unlink, Reachable
  <2>2. Alone'
    BY <1>4, <2>1 DEF Links, TypeOK, Alone, Unlink, Running, server, link
  <2>3. Loaded'
    BY <1>4, <2>1 DEF Links, TypeOK, Loaded, Keeps, Unlink, server, link
  <2> QED
    BY <2>2, <2>3
<1>5. CASE Bind(i)
  <2>1. /\ UNCHANGED <<clients, conn, named, told, inner, held>>
        /\ stage[i] = "bind"
    BY <1>5 DEF Bind, link
  <2>2. ~serving[i]
    BY <2>1 DEF Links, Behaved
  <2>3. CASE path = None
    <3>1. /\ stage' = [stage EXCEPT ![i] = "load"] /\ serving' = [serving EXCEPT ![i] = TRUE]
          /\ path' = i
      BY <1>5, <2>3 DEF Bind
    <3>2. \A s \in Instances : ~serving[s]
      BY <2>3 DEF Links, TypeOK, Alone
    <3>3. clients[i] = {}
      <4>1. \A c \in clients[i] : c \in Ids /\ conn[c] = i
        BY DEF Links, TypeOK, Known
      <4>2. Running(i)
        BY <2>1 DEF Running
      <4> QED
        BY <2>2, <4>1, <4>2 DEF Alone
    <3>4. Alone'
      BY <2>1, <3>1, <3>2 DEF Links, TypeOK, Alone, Running
    <3>5. Loaded'
      BY <2>1, <3>1, <3>2, <3>3 DEF Links, TypeOK, Loaded, Keeps, Ids
    <3> QED
      BY <3>4, <3>5
  <2>4. CASE path # None
    <3>1. /\ stage' = [stage EXCEPT ![i] = "try"] /\ UNCHANGED <<serving, path>>
      BY <1>5, <2>4 DEF Bind
    <3>2. Alone'
      BY <2>1, <3>1 DEF Links, TypeOK, Alone, Running
    <3>3. Loaded'
      BY <2>1, <3>1 DEF Links, TypeOK, Loaded, Keeps, Ids
    <3> QED
      BY <3>2, <3>3
  <2> QED
    BY <2>3, <2>4
<1>6. CASE Load(i)
  <2>1. serving[i] /\ inner[i] = None /\ held[i] = None
    BY <1>6 DEF Links, Behaved, Loaded, Keeps, Load
  <2>2. Alone'
    BY <1>6 DEF Links, TypeOK, Alone, Load, Running, disk
  <2>3. /\ stage'[i] = "try"
        /\ \A s \in Instances : s # i => stage'[s] = stage[s] /\ inner'[s] = inner[s]
    BY <1>6 DEF Links, TypeOK, Load, Ids
  <2>4. \A s \in Instances \ {i} : \A c \in clients[s] : told'[c] = told[c]
    BY <1>6 DEF Links, TypeOK, Known, Load
  <2>5. Loaded'
    <3>1. UNCHANGED <<serving, held, clients>>
      BY <1>6 DEF Load
    <3>2. \A s \in Instances : Keeps(s)' => serving'[s] /\ stage'[s] # "load"
      BY <2>1, <2>3, <3>1 DEF Loaded, Keeps
    <3>3. \A s \in Instances : inner'[s] = None \/ held'[s] = None
      BY <2>1, <2>3, <3>1 DEF Loaded
    <3>4. ASSUME NEW s \in Instances, stage'[s] = "load", NEW c \in clients'[s] PROVE told'[c] = None
      <4>1. s # i /\ stage[s] = "load" /\ c \in clients[s]
        BY <2>3, <3>1, <3>4
      <4> QED
        BY <2>4, <4>1 DEF Loaded
    <3> QED
      BY <3>2, <3>3, <3>4 DEF Loaded
  <2> QED
    BY <2>2, <2>5
<1>7. ASSUME Broken(i), stage[i] = "up", Reconnect(i), UNCHANGED <<server, disk>>
      PROVE  Alone' /\ Loaded'
  <2>1. /\ \A j \in Instances : Running(j)' <=> Running(j)
        /\ \A j \in Instances : (stage'[j] = "load") <=> (stage[j] = "load")
    BY <1>7 DEF Links, TypeOK, Reconnect, Running, Ids
  <2>2. \A r \in Instances : i \notin clients[r]
    BY <1>7, Unregistered
  <2>3. UNCHANGED <<serving, path, clients, inner, held>> /\ Link(i, None, <<>>)
    BY <1>7 DEF Reconnect, server, disk
  <2>4. Alone'
    BY <2>1, <2>3, LinkAlone
  <2>5. Loaded'
    BY <2>1, <2>2, <2>3, LinkLoaded
  <2> QED
    BY <2>4, <2>5
<1>8. CASE Break(i)
  BY <1>7, <1>8 DEF Break
<1>9. CASE WriteFail(i)
  BY <1>7, <1>9 DEF WriteFail
<1>10. CASE Write(i)
  BY <1>10 DEF Alone, Loaded, Keeps, Write, Running, server, disk
<1> QED
  BY <1>1, <1>2, <1>3, <1>4, <1>5, <1>6, <1>8, <1>9, <1>10 DEF Serve

LEMMA QuitAlone ==
  ASSUME Links, HeldIsThere, Alone, Loaded, NEW i \in Instances,
         Push(i) \/ QuitTake(i) \/ Quit(i) \/ Kill(i)
  PROVE  Alone' /\ Loaded'
<1> i \in Ids
  BY DEF Ids
<1>1. CASE Push(i)
  BY <1>1 DEF Alone, Loaded, Keeps, Push, Running, server, link, disk
<1>2. CASE QuitTake(i)
  <2>1. held[i] = None
    BY <1>2 DEF HeldIsThere, QuitTake
  <2> QED
    BY <1>2, <2>1 DEF Links, TypeOK, Alone, Loaded, Keeps, QuitTake, Running, link, disk
<1>3. CASE Drain(i)
  BY <1>3 DEF Links, TypeOK, Alone, Loaded, Keeps, Drain, Running, link
<1>4. CASE End(i)
  <2>1. ~Running(i)' /\ \A s \in Instances \ {i} : stage'[s] = stage[s]
    BY <1>4 DEF Links, TypeOK, End, Running, Ids
  <2>2. \A j \in Ids : conn'[j] \in {None, conn[j]}
    BY <1>4 DEF End
  <2>3. Alone'
    BY <1>4, <2>1, <2>2 DEF Links, TypeOK, Alone, End, Running, disk
  <2>4. Loaded'
    BY <1>4, <2>1 DEF Links, TypeOK, Loaded, Keeps, End, Running
  <2> QED
    BY <2>3, <2>4
<1> QED
  BY <1>1, <1>2, <1>3, <1>4 DEF Quit, Exit, Kill

LEMMA GuestAlone ==
  ASSUME Links, Alone, Loaded, NEW g \in Guests,
         Shot(g) \/ ShotBreak(g) \/ Draw(g) \/ DrawBreak(g) \/ Redraw(g) \/ Leave(g)
  PROVE  Alone' /\ Loaded'
<1> g \in Ids
  BY DEF Ids
<1>1. /\ \A j \in Instances : stage'[j] = stage[j]
      /\ UNCHANGED <<serving, path, clients, inner, held>>
  BY DdsAssumption DEF Links, TypeOK, Shot, ShotBreak, Draw, DrawBreak, Redraw, Leave, server, disk, Ids
<1>2. ASSUME NEW s \in Instances \cup {None}, NEW sent, Link(g, s, sent), s # None => serving[s],
             conn[g] = None \/ Broken(g)
      PROVE  Alone' /\ Loaded'
  <2>1. \A r \in Instances : g \notin clients[r]
    BY <1>2, Unregistered
  <2>2. Alone'
    BY <1>1, <1>2, LinkAlone DEF Running
  <2>3. Loaded'
    BY <1>1, <1>2, <2>1, LinkLoaded
  <2> QED
    BY <2>2, <2>3
<1>3. stage[g] \in {"off", "try"} => conn[g] = None
  BY DEF Links, Ends
<1>4. Reachable => path \in Instances \cup {None} /\ serving[path]
  BY DEF Links, TypeOK, Reachable
<1>5. CASE Leave(g)
  BY <1>1, <1>5, DdsAssumption DEF Links, TypeOK, Alone, Loaded, Keeps, Leave, Running, link
<1> QED
  BY <1>2, <1>3, <1>4, <1>5 DEF Shot, ShotBreak, Draw, DrawBreak, Redraw

LEMMA TaskAlone ==
  ASSUME Links, Alone, Loaded, NEW i \in Ids, Task(i)
  PROVE  Alone' /\ Loaded'
<1> USE DdsAssumption
<1>1. conn[i] \in Instances /\ Running(conn[i])
  BY DEF Links, TypeOK, Task, HandleHi, HandleStatic, HandleBye, Reap, Reads
<1>2. \A s \in Instances \ {conn[i]} : i \notin clients[s]
  BY DEF Links, Known
<1>3. CASE HandleHi(i)
  <2>1. Alone'
    BY <1>1, <1>3 DEF Links, TypeOK, Alone, HandleHi, Running, process, disk
  <2>2. stage[conn[i]] = "load" => told'[i] = None
    <3>1. stage[conn[i]] = "load" => inner[conn[i]] = None
      BY <1>1 DEF Loaded, Keeps
    <3>2. ~named[i] => told[i] = None
      BY DEF Links, Known
    <3>3. named[i] => i \in clients[conn[i]]
      BY <1>1 DEF Alone
    <3> QED
      BY <1>1, <1>3, <3>1, <3>2, <3>3 DEF Loaded, HandleHi
  <2>3. \A c \in Ids \ {i} : told'[c] = told[c]
    BY <1>3 DEF Links, TypeOK, HandleHi
  <2>4. Loaded'
    BY <1>1, <1>2, <1>3, <2>2, <2>3 DEF Links, TypeOK, Loaded, Keeps, HandleHi, process
  <2> QED
    BY <2>1, <2>4
<1>4. CASE HandleStatic(i)
  <2>1. Alone'
    BY <1>4 DEF Alone, HandleStatic, Running, process, disk
  <2>2. UNCHANGED <<stage, serving, clients, held>>
    BY <1>4 DEF HandleStatic, process
  <2>3. ASSUME UNCHANGED <<inner, told>> PROVE Loaded'
    BY <2>2, <2>3 DEF Loaded, Keeps
  <2>4. ASSUME NEW m \in Static, inner[conn[i]] # None,
               inner' = [inner EXCEPT ![conn[i]] = m],
               \A c \in Ids : c \notin clients[conn[i]] => told'[c] = told[c]
        PROVE  Loaded'
    <3>1. serving[conn[i]] /\ stage[conn[i]] # "load" /\ held[conn[i]] = None
      BY <1>1, <2>4 DEF Loaded, Keeps
    <3>2. \A s \in Instances : s # conn[i] =>
            inner'[s] = inner[s] /\ \A c \in clients[s] : told'[c] = told[c]
      <4>1. \A s \in Instances : \A c \in clients[s] :
              c \in Ids /\ (s # conn[i] => c \notin clients[conn[i]])
        BY <1>1 DEF Links, TypeOK, Known
      <4> QED
        BY <1>1, <2>4, <4>1 DEF Links, TypeOK
    <3>3. \A s \in Instances : Keeps(s)' => serving'[s] /\ stage'[s] # "load"
      BY <2>2, <3>1, <3>2 DEF Loaded, Keeps
    <3>4. \A s \in Instances : inner'[s] = None \/ held'[s] = None
      BY <2>2, <3>1, <3>2 DEF Loaded
    <3>5. \A s \in Instances : stage'[s] = "load" => \A c \in clients'[s] : told'[c] = None
      BY <2>2, <3>1, <3>2 DEF Loaded
    <3> QED
      BY <3>3, <3>4, <3>5 DEF Loaded
  <2>5. ASSUME UNCHANGED <<inner, fresh, told, accepted>> PROVE Loaded'
    BY <2>3, <2>5
  <2>6. Loaded'
    <3>1. PICK m \in Static :
            IF named[i] /\ {c \in clients[conn[i]] : stage[c] # "ask"} # {} /\ inner[conn[i]] \notin {None, m}
            THEN /\ inner' = [inner EXCEPT ![conn[i]] = m]
                 /\ told' = [c \in Ids |-> IF c \in {d \in clients[conn[i]] : stage[d] # "ask"} THEN m ELSE told[c]]
            ELSE UNCHANGED <<inner, fresh, told, accepted>>
      BY <1>4 DEF HandleStatic
    <3> QED
      BY <2>4, <2>5, <3>1
  <2> QED
    BY <2>1, <2>6
<1>5. ASSUME Unregister(i), UNCHANGED <<serving, path, inner, held>>,
             \A s \in Instances : (Running(s)' => Running(s)) /\ (stage'[s] = "load" => stage[s] = "load")
      PROVE  Alone' /\ Loaded'
  <2>1. \A c \in Ids \ {i} : conn'[c] = conn[c] /\ named'[c] = named[c] /\ told'[c] = told[c]
    BY <1>5 DEF Links, TypeOK, Unregister
  <2>2. conn'[i] = None /\ clients' = [clients EXCEPT ![conn[i]] = @ \ {i}]
    BY <1>5 DEF Links, TypeOK, Unregister
  <2>3. Alone'
    BY <1>5, <2>1, <2>2 DEF Links, TypeOK, Alone, Running
  <2>4. \A s \in Instances : \A c \in clients'[s] : c \in clients[s] /\ c \in Ids \ {i}
    BY <1>1, <1>2, <2>2 DEF Links, TypeOK
  <2>5. \A s \in Instances : stage'[s] = "load" => \A c \in clients'[s] : told'[c] = None
    BY <1>5, <2>1, <2>4 DEF Loaded
  <2>6. \A s \in Instances : Keeps(s)' => serving'[s] /\ stage'[s] # "load"
    BY <1>5 DEF Loaded, Keeps
  <2>7. \A s \in Instances : inner'[s] = None \/ held'[s] = None
    BY <1>5 DEF Loaded
  <2> QED
    BY <2>3, <2>5, <2>6, <2>7 DEF Loaded
<1>6. CASE HandleBye(i)
  BY <1>5, <1>6 DEF Links, TypeOK, HandleBye, Running, disk
<1>7. CASE Reap(i)
  BY <1>5, <1>7 DEF Reap, process, disk, Running
<1> QED
  BY <1>3, <1>4, <1>6, <1>7 DEF Task

LEMMA OneServerAlways == Spec => []OneServer
<1>1. Init => OneServer
  BY DEF Init, OneServer, Alone, Loaded, Keeps, Running
<1>2. Links /\ HeldIsThere /\ OneServer /\ [Next]_vars => OneServer'
  <2> SUFFICES ASSUME Links, HeldIsThere, Alone, Loaded, [Next]_vars, "stolen" \notin mishaps'
               PROVE  Alone' /\ Loaded'
    BY MishapsStay DEF OneServer
  <2>1. CASE UNCHANGED vars
    BY <2>1 DEF Alone, Loaded, Keeps, Running, vars, process, server, link, disk
  <2>2. CASE Next
    BY <2>2, ServeAlone, QuitAlone, GuestAlone, TaskAlone DEF Next
  <2> QED
    BY <2>1, <2>2
<1> QED
  BY <1>1, <1>2, LinksAlways, DdsTypeCorrect, PTL DEF Spec

-----------------------------------------------------------------------------
(* What clients have been told. *)

(* Only guests ask. *)
Askers == \A i \in Instances : stage[i] # "ask"

LEMMA AskersAlways == Spec => []Askers
<1>1. Init => Askers
  BY DEF Init, Askers, Ids
<1>2. Links /\ Askers /\ [Next]_vars => Askers'
  <2> SUFFICES ASSUME Links, Askers, [Next]_vars PROVE Askers'
    OBVIOUS
  <2>1. CASE UNCHANGED stage
    BY <2>1 DEF Askers
  <2>2. ASSUME NEW i \in Ids, NEW t \in {"off", "try", "make", "bind", "load", "up", "gone"},
               stage' = [stage EXCEPT ![i] = t]
        PROVE  Askers'
    BY <2>2 DEF Links, TypeOK, Askers, Ids
  <2>3. ASSUME NEW g \in Guests, Shot(g) PROVE Askers'
    BY <2>3, DdsAssumption DEF Links, TypeOK, Askers, Shot, Ids
  <2>4. ASSUME NEW i \in Instances, Start(i) \/ Serve(i) PROVE Askers'
    <3>1. i \in Ids
      BY DEF Ids
    <3> QED
      BY <2>1, <2>2, <2>4, <3>1 DEF Start, Serve, Connect, MakeServer, Unlink, Bind, Load,
         Break, WriteFail, Write, Reconnect
  <2>5. ASSUME NEW i \in Instances, Push(i) \/ QuitTake(i) \/ Quit(i) \/ Kill(i) PROVE Askers'
    <3>1. i \in Ids
      BY DEF Ids
    <3> QED
      BY <2>1, <2>2, <2>5, <3>1 DEF Push, QuitTake, Quit, Drain, Exit, Kill, End
  <2>6. ASSUME NEW g \in Guests, ShotBreak(g) \/ Draw(g) \/ DrawBreak(g) \/ Redraw(g) \/ Leave(g)
        PROVE  Askers'
    <3>1. g \in Ids
      BY DEF Ids
    <3> QED
      BY <2>2, <2>6, <3>1 DEF ShotBreak, Draw, DrawBreak, Redraw, Leave
  <2>7. ASSUME NEW i \in Ids, Task(i) PROVE Askers'
    BY <2>1, <2>2, <2>7 DEF Task, HandleHi, HandleStatic, HandleBye, Reap, process
  <2>8. CASE UNCHANGED vars
    BY <2>1, <2>8 DEF vars, process
  <2> QED
    BY <2>3, <2>4, <2>5, <2>6, <2>7, <2>8 DEF Next
<1> QED
  BY <1>1, <1>2, LinksAlways, PTL DEF Spec

(* The body of StateIsTold. *)
Told(s, c) ==
  stage[c] # "ask" =>
    CASE inner[s] = None -> TRUE
      [] inner[s] = Nothing -> told[c] \in {None, Nothing}
      [] OTHER -> told[c] = inner[s]

AllTold == \A s \in Instances : \A c \in clients[s] : Told(s, c)

(* A step that sends no static message and does not change what is kept,   *)
(* but for dropping it.                                                    *)
LEMMA ToldKept ==
  ASSUME NEW s \in Instances, NEW c, Told(s, c),
         inner'[s] \in {None, inner[s]}, told'[c] = told[c],
         stage'[c] # "ask" => stage[c] # "ask"
  PROVE  Told(s, c)'
<1>1. CASE inner'[s] = None
  BY <1>1, DdsAssumption DEF Told
<1>2. CASE inner'[s] = inner[s]
  BY <1>2 DEF Told
<1> QED
  BY <1>1, <1>2

LEMMA AllToldKept ==
  ASSUME AllTold,
         \A s \in Instances : inner'[s] \in {None, inner[s]},
         \A s \in Instances : \A c \in clients'[s] :
           c \in clients[s] /\ told'[c] = told[c] /\ (stage'[c] # "ask" => stage[c] # "ask")
  PROVE  AllTold'
<1> SUFFICES ASSUME NEW s \in Instances, NEW c \in clients'[s] PROVE Told(s, c)'
  BY DEF AllTold, Told
<1> QED
  BY ToldKept DEF AllTold

LEMMA LinkTold ==
  ASSUME Links, AllTold, NEW i \in Ids, NEW s, NEW sent, Link(i, s, sent),
         conn[i] = None \/ Broken(i),
         UNCHANGED <<clients, inner>>,
         \A c \in Ids \ {i} : stage'[c] = stage[c]
  PROVE  AllTold'
<1>1. \A r \in Instances : \A c \in clients[r] : c \in Ids \ {i}
  BY Unregistered DEF Links, TypeOK
<1>2. \A c \in Ids \ {i} : told'[c] = told[c]
  BY DEF Links, TypeOK, Link
<1> QED
  BY <1>1, <1>2, AllToldKept

LEMMA ServeTold ==
  ASSUME Links, Alone, Loaded, Askers, AllTold, NEW i \in Instances, Start(i) \/ Serve(i)
  PROVE  AllTold'
<1> i \in Ids
  BY DEF Ids
<1>1. \A c \in Ids \ {i} : stage'[c] = stage[c]
  BY DEF Links, TypeOK, Start, Serve, Connect, MakeServer, Unlink, Bind, Load, Break,
         WriteFail, Write, Reconnect
<1>2. \A r \in Instances : \A c \in clients[r] : c \in Ids
  BY DEF Links, TypeOK
<1>3. \A c \in Ids : stage'[c] # "ask" => stage[c] # "ask"
  BY <1>1 DEF Askers
<1>4. ASSUME UNCHANGED <<inner, told>>, \A r \in Instances : clients'[r] \subseteq clients[r]
      PROVE  AllTold'
  BY <1>2, <1>3, <1>4, AllToldKept
<1>5. CASE Start(i)
  BY <1>4, <1>5 DEF Start, server, link
<1>6. CASE Connect(i)
  <2>1. conn[i] = None
    BY <1>6 DEF Links, Ends, Connect
  <2> QED
    BY <1>1, <1>6, <2>1, LinkTold DEF Connect, server
<1>7. CASE MakeServer(i)
  BY <1>4, <1>7 DEF Links, TypeOK, MakeServer, link
<1>8. CASE Unlink(i)
  BY <1>4, <1>8 DEF Unlink, server, link
<1>9. CASE Bind(i)
  BY <1>4, <1>9 DEF Bind, link
<1>10. CASE Load(i)
  <2>1. \A c \in clients[i] : c \in Ids /\ told[c] = None
    BY <1>2, <1>10 DEF Loaded, Load
  <2>2. \A c \in clients[i] : Told(i, c)'
    <3>1. inner'[i] = file
      BY <1>10 DEF Links, TypeOK, Load
    <3>2. \A c \in clients[i] : told'[c] = IF file # Nothing THEN file ELSE None
      BY <1>10, <2>1 DEF Load
    <3> QED
      BY <3>1, <3>2 DEF Told
  <2>3. \A s \in Instances \ {i} : \A c \in clients[s] : Told(s, c)'
    <3> SUFFICES ASSUME NEW s \in Instances \ {i}, NEW c \in clients[s] PROVE Told(s, c)'
      OBVIOUS
    <3>1. c \in Ids /\ c \notin clients[i]
      BY <1>2 DEF Links, Known
    <3>2. told'[c] = told[c] /\ inner'[s] = inner[s]
      BY <1>10, <3>1 DEF Links, TypeOK, Load
    <3>3. Told(s, c)
      BY DEF AllTold
    <3> QED
      BY <1>3, <3>1, <3>2, <3>3, ToldKept
  <2>4. clients' = clients
    BY <1>10 DEF Load
  <2> QED
    BY <2>2, <2>3, <2>4 DEF AllTold, Told
<1>11. CASE Break(i)
  BY <1>1, <1>11, LinkTold DEF Break, Reconnect, server
<1>12. CASE WriteFail(i)
  BY <1>1, <1>12, LinkTold DEF WriteFail, Reconnect, server
<1>13. CASE Write(i)
  BY <1>4, <1>13 DEF Write, server
<1> QED
  BY <1>5, <1>6, <1>7, <1>8, <1>9, <1>10, <1>11, <1>12, <1>13 DEF Serve

LEMMA QuitTold ==
  ASSUME Links, Askers, AllTold, NEW i \in Instances,
         Push(i) \/ QuitTake(i) \/ Quit(i) \/ Kill(i)
  PROVE  AllTold'
<1>1. told' = told
  BY DEF Push, QuitTake, Quit, Drain, Exit, Kill, End, link
<1>2. \A s \in Instances : inner'[s] \in {None, inner[s]} /\ clients'[s] \subseteq clients[s]
  <2>1. CASE Push(i)
    BY <2>1 DEF Push, server
  <2>2. CASE QuitTake(i)
    BY <2>2 DEF Links, TypeOK, QuitTake
  <2>3. CASE Drain(i)
    BY <2>3 DEF Drain
  <2>4. CASE End(i)
    BY <2>4, SMTT(60) DEF Links, TypeOK, End
  <2> QED
    BY <2>1, <2>2, <2>3, <2>4 DEF Quit, Exit, Kill
<1>3. \A c \in Ids : stage'[c] # "ask" => stage[c] # "ask"
  BY DEF Links, TypeOK, Askers, Push, QuitTake, Quit, Drain, Exit, Kill, End
<1>4. \A s \in Instances : \A c \in clients[s] : c \in Ids
  BY DEF Links, TypeOK
<1> QED
  BY <1>1, <1>2, <1>3, <1>4, AllToldKept

LEMMA GuestTold ==
  ASSUME Links, AllTold, NEW g \in Guests,
         Shot(g) \/ ShotBreak(g) \/ Draw(g) \/ DrawBreak(g) \/ Redraw(g) \/ Leave(g)
  PROVE  AllTold'
<1> g \in Ids
  BY DEF Ids
<1>1. /\ \A c \in Ids \ {g} : stage'[c] = stage[c]
      /\ UNCHANGED <<clients, inner>>
  BY DEF Links, TypeOK, Shot, ShotBreak, Draw, DrawBreak, Redraw, Leave, server
<1>2. stage[g] \in {"off", "try"} => conn[g] = None
  BY DEF Links, Ends
<1>3. CASE Leave(g)
  <2>1. told' = told /\ \A c \in Ids : stage'[c] # "ask" => stage[c] # "ask"
    BY <1>1, <1>3 DEF Leave, link
  <2>2. \A s \in Instances : \A c \in clients[s] : c \in Ids
    BY DEF Links, TypeOK
  <2> QED
    BY <1>1, <2>1, <2>2, AllToldKept
<1>4. ASSUME NEW s, NEW sent, Link(g, s, sent), conn[g] = None \/ Broken(g) PROVE AllTold'
  BY <1>1, <1>4, LinkTold
<1> QED
  BY <1>2, <1>3, <1>4 DEF Shot, ShotBreak, Draw, DrawBreak, Redraw

LEMMA TaskTold ==
  ASSUME Links, Alone, AllTold, NEW i \in Ids, Task(i)
  PROVE  AllTold'
<1>1. conn[i] \in Instances /\ Running(conn[i])
  BY DEF Links, TypeOK, Task, HandleHi, HandleStatic, HandleBye, Reap, Reads
<1>2. \A s \in Instances : \A c \in clients[s] : c \in Ids /\ conn[c] = s
  BY DEF Links, TypeOK, Known
<1>3. ASSUME HandleHi(i) PROVE AllTold'
  <2>1. /\ UNCHANGED <<stage, inner>>
        /\ clients' = [clients EXCEPT ![conn[i]] = @ \cup {i}]
    BY <1>3 DEF HandleHi, process
  <2>2. \A c \in Ids \ {i} : told'[c] = told[c]
    BY <1>3 DEF Links, TypeOK, HandleHi
  <2>3. \A s \in Instances : \A c \in clients[s] \ {i} : Told(s, c)'
    BY <1>2, <2>1, <2>2, ToldKept DEF AllTold
  <2>4. Told(conn[i], i)'
    <3>1. CASE named[i]
      <4>1. Told(conn[i], i)
        BY <1>1, <3>1, DdsAssumption DEF Alone, AllTold
      <4>2. told'[i] = told[i]
        BY <1>3, <3>1 DEF HandleHi
      <4> HIDE DEF Told
      <4>3. ASSUME NEW s \in Instances, s = conn[i], Told(s, i) PROVE Told(s, i)'
        BY <2>1, <4>2, <4>3, ToldKept
      <4>4. conn'[i] = conn[i]
        BY <1>3 DEF HandleHi
      <4> QED
        BY <1>1, <2>1, <4>1, <4>2, <4>4 DEF Told
    <3>2. CASE ~named[i]
      <4>1. told[i] = None /\ conn' = conn
        BY <1>3, <3>2 DEF Links, Known, HandleHi
      <4>2. told'[i] = IF inner[conn[i]] \notin {None, Nothing} THEN inner[conn[i]] ELSE None
        BY <1>3, <3>2, <4>1 DEF Links, TypeOK, HandleHi
      <4> QED
        BY <2>1, <4>1, <4>2 DEF Told
    <3> QED
      BY <3>1, <3>2
  <2>5. conn' = conn
    BY <1>3 DEF HandleHi
  <2>6. \A s \in Instances : \A c \in clients'[s] : (c \in clients[s] \ {i}) \/ (s = conn[i] /\ c = i)
    BY <1>1, <1>2, <2>1 DEF Links, TypeOK
  <2> QED
    BY <2>3, <2>4, <2>5, <2>6 DEF AllTold, Told
<1>4. ASSUME HandleStatic(i) PROVE AllTold'
  <2>1. UNCHANGED <<stage, clients>>
    BY <1>4 DEF HandleStatic, process
  <2>2. ASSUME UNCHANGED <<inner, fresh, told, accepted>> PROVE AllTold'
    BY <2>1, <2>2, AllToldKept
  <2>3. ASSUME NEW m \in Static, inner' = [inner EXCEPT ![conn[i]] = m],
               \A c \in Ids : told'[c] = IF c \in clients[conn[i]] /\ stage[c] # "ask" THEN m ELSE told[c]
        PROVE  AllTold'
    <3>1. m # None
      BY DdsAssumption DEF Static, Ids
    <3>2. \A s \in Instances \ {conn[i]} : \A c \in clients[s] :
            Told(s, c) /\ told'[c] = told[c] /\ inner'[s] = inner[s]
      BY <1>1, <1>2, <2>3 DEF Links, TypeOK, AllTold
    <3>3. \A s \in Instances \ {conn[i]} : \A c \in clients[s] : Told(s, c)'
      BY <2>1, <3>2, ToldKept
    <3>4. \A s \in Instances : s = conn[i] => \A c \in clients[s] : Told(s, c)'
      <4> SUFFICES ASSUME NEW s \in Instances, s = conn[i], NEW c \in clients[s],
                          stage[c] # "ask"
                   PROVE  Told(s, c)'
        BY <2>1 DEF Told
      <4>1. told'[c] = m /\ inner'[s] = m
        BY <1>1, <1>2, <2>3 DEF Links, TypeOK
      <4> QED
        BY <3>1, <4>1 DEF Told
    <3> QED
      BY <1>1, <2>1, <3>3, <3>4 DEF AllTold, Told
  <2>4. PICK m \in Static :
          IF named[i] /\ {c \in clients[conn[i]] : stage[c] # "ask"} # {} /\ inner[conn[i]] \notin {None, m}
          THEN /\ inner' = [inner EXCEPT ![conn[i]] = m]
               /\ told' = [c \in Ids |-> IF c \in {d \in clients[conn[i]] : stage[d] # "ask"} THEN m ELSE told[c]]
          ELSE UNCHANGED <<inner, fresh, told, accepted>>
    BY <1>4 DEF HandleStatic
  <2> QED
    BY <2>2, <2>3, <2>4
<1>5. ASSUME Unregister(i), inner' = inner, \A c \in Ids \ {i} : stage'[c] = stage[c] PROVE AllTold'
  <2>1. \A s \in Instances : \A c \in clients'[s] : c \in clients[s] /\ c \in Ids \ {i}
    BY <1>1, <1>2, <1>5 DEF Links, TypeOK, Unregister
  <2>2. \A c \in Ids \ {i} : told'[c] = told[c]
    BY <1>5 DEF Links, TypeOK, Unregister
  <2> QED
    BY <1>5, <2>1, <2>2, AllToldKept
<1>6. CASE HandleBye(i)
  BY <1>5, <1>6 DEF Links, TypeOK, HandleBye
<1>7. CASE Reap(i)
  BY <1>5, <1>7 DEF Reap, process
<1> QED
  BY <1>3, <1>4, <1>6, <1>7 DEF Task

(* A client that listens has been sent the static message that the server  *)
(* keeps and, if there is none, was not sent one that is gone, as long as  *)
(* no socket was taken.                                                    *)
THEOREM KeptIsTold == Spec => []StateIsTold
<1> DEFINE ToldOnce == "stolen" \notin mishaps => AllTold
<1>1. Init => ToldOnce
  BY DEF Init, AllTold
<1>2. Links /\ OneServer /\ Askers /\ ToldOnce /\ [Next]_vars => ToldOnce'
  <2> SUFFICES ASSUME Links, Alone, Loaded, Askers, AllTold, [Next]_vars
               PROVE  AllTold'
    BY MishapsStay DEF OneServer
  <2>1. CASE UNCHANGED vars
    BY <2>1 DEF AllTold, Told, vars, process, server, link
  <2>2. CASE Next
    BY <2>2, ServeTold, QuitTold, GuestTold, TaskTold DEF Next
  <2> QED
    BY <2>1, <2>2
<1>3. ToldOnce => StateIsTold
  BY DEF AllTold, Told, StateIsTold
<1> QED
  BY <1>1, <1>2, <1>3, LinksAlways, OneServerAlways, AskersAlways, PTL DEF Spec

-----------------------------------------------------------------------------
(* The newest static message. *)

(* The second part of Newest, where `accepted` is m. *)
NewestIs(m) ==
  /\ \A s \in Instances : inner[s] \in {None, m} /\ held[s] \in {None, m}
  /\ file = m \/ \E s \in Instances : fresh[s] /\ Keeps(s)

(* At most one process has a static message that may be newer than the file. *)
LEMMA OneKeeper ==
  ASSUME Alone, Loaded, NEW s \in Instances, NEW r \in Instances, Keeps(s),
         Keeps(r) \/ stage[r] = "load", Links
  PROVE  s = r
BY DEF Alone, Loaded, Links, Behaved

LEMMA NewestStep ==
  ASSUME Links, HeldIsThere, Alone, Loaded, NewestIs(accepted), accepted # None,
         [Next]_vars, accepted' # None
  PROVE  NewestIs(accepted)'
<1> USE DdsAssumption
<1>1. ASSUME UNCHANGED <<inner, held, fresh, file, accepted>> PROVE NewestIs(accepted)'
  BY <1>1 DEF NewestIs, Keeps
<1>2. ASSUME NEW i \in Instances, Load(i) PROVE NewestIs(accepted)'
  <2>1. stage[i] = "load" /\ \A s \in Instances : ~Keeps(s)
    BY <1>2, OneKeeper DEF Loaded, Load
  <2>2. file = accepted
    BY <2>1 DEF NewestIs
  <2>3. \A s \in Instances : inner'[s] \in {None, accepted}
    BY <1>2, <2>2 DEF Links, TypeOK, NewestIs, Load
  <2>4. UNCHANGED <<held, file, accepted>>
    BY <1>2 DEF Load, disk, history
  <2> QED
    BY <2>2, <2>3, <2>4 DEF NewestIs
<1>3. ASSUME NEW i \in Instances, QuitTake(i) PROVE NewestIs(accepted)'
  <2>1. held[i] = None
    BY <1>3 DEF HeldIsThere, QuitTake
  <2>2. \A s \in Instances : Keeps(s) => Keeps(s)'
    BY <1>3, <2>1 DEF Links, TypeOK, Keeps, QuitTake
  <2>3. \A s \in Instances : inner'[s] \in {None, accepted} /\ held'[s] \in {None, accepted}
    BY <1>3 DEF Links, TypeOK, NewestIs, QuitTake
  <2>4. UNCHANGED <<fresh, file, accepted>>
    BY <1>3 DEF QuitTake, disk, history
  <2> QED
    BY <2>2, <2>3, <2>4 DEF NewestIs
<1>4. ASSUME NEW i \in Instances, Drain(i) PROVE NewestIs(accepted)'
  <2>1. held[i] = accepted
    BY <1>4 DEF HeldIsThere, NewestIs, Drain
  <2>2. file' = accepted
    <3>1. CASE fresh[i]
      BY <1>4, <2>1, <3>1 DEF Drain
    <3>2. CASE ~fresh[i]
      <4>1. Keeps(i)
        BY <2>1 DEF Keeps
      <4>2. file = accepted
        BY <3>2, <4>1, OneKeeper DEF NewestIs
      <4> QED
        BY <1>4, <3>2, <4>2 DEF Drain
    <3> QED
      BY <3>1, <3>2
  <2>3. \A s \in Instances : inner'[s] \in {None, accepted} /\ held'[s] \in {None, accepted}
    BY <1>4 DEF Links, TypeOK, NewestIs, Drain
  <2>4. accepted' = accepted
    BY <1>4 DEF Drain, history
  <2> QED
    BY <2>2, <2>3, <2>4 DEF NewestIs
<1>5. ASSUME NEW i \in Instances, End(i) PROVE NewestIs(accepted)'
  <2>1. file' = file
    BY <1>5 DEF End, disk
  <2>2. CASE ~Keeps(i)
    <3>1. accepted' = accepted
      BY <1>5, <2>2 DEF Keeps, End
    <3>2. \A s \in Instances : fresh[s] /\ Keeps(s) => fresh'[s] /\ Keeps(s)'
      BY <1>5, <2>2 DEF Links, TypeOK, Keeps, End
    <3>3. \A s \in Instances : inner'[s] \in {None, accepted} /\ held'[s] \in {None, accepted}
      BY <1>5 DEF Links, TypeOK, NewestIs, End
    <3> QED
      BY <2>1, <3>1, <3>2, <3>3 DEF NewestIs
  <2>3. CASE Keeps(i)
    <3>1. accepted' = file
      BY <1>5, <2>3 DEF Keeps, End
    <3>2. \A s \in Instances \ {i} : inner[s] = None /\ held[s] = None
      BY <2>3, OneKeeper DEF Keeps
    <3>3. \A s \in Instances : inner'[s] = None /\ held'[s] = None
      BY <1>5, <3>2 DEF Links, TypeOK, End
    <3> QED
      BY <2>1, <3>1, <3>3 DEF NewestIs
  <2> QED
    BY <2>2, <2>3
<1>6. ASSUME NEW i \in Ids, HandleStatic(i) PROVE NewestIs(accepted)'
  <2>1. conn[i] \in Instances
    BY <1>6 DEF Links, TypeOK, HandleStatic, Reads
  <2>2. UNCHANGED <<held, file>>
    BY <1>6 DEF HandleStatic, disk
  <2>3. ASSUME NEW m \in Static, inner[conn[i]] # None, inner' = [inner EXCEPT ![conn[i]] = m],
               fresh' = [fresh EXCEPT ![conn[i]] = TRUE],
               accepted' = IF accepted = None THEN None ELSE m
        PROVE  NewestIs(accepted)'
    <3>1. m # None /\ accepted' = m
      BY <2>3 DEF Static, Ids
    <3>2. Keeps(conn[i]) /\ held[conn[i]] = None
      BY <2>1, <2>3 DEF Keeps, Loaded
    <3>3. \A s \in Instances \ {conn[i]} : inner[s] = None /\ held[s] = None
      BY <2>1, <3>2, OneKeeper DEF Keeps
    <3>4. \A s \in Instances : inner'[s] \in {None, m} /\ held'[s] \in {None, m}
      BY <2>1, <2>2, <2>3, <3>2, <3>3 DEF Links, TypeOK
    <3>5. inner'[conn[i]] = m /\ fresh'[conn[i]]
      BY <2>1, <2>3 DEF Links, TypeOK
    <3>6. \E s \in Instances : fresh'[s] /\ Keeps(s)'
      BY <2>1, <3>1, <3>5 DEF Keeps
    <3> QED
      BY <3>1, <3>4, <3>6 DEF NewestIs
  <2>4. PICK m \in Static :
          IF named[i] /\ {c \in clients[conn[i]] : stage[c] # "ask"} # {} /\ inner[conn[i]] \notin {None, m}
          THEN /\ inner' = [inner EXCEPT ![conn[i]] = m]
               /\ fresh' = [fresh EXCEPT ![conn[i]] = TRUE]
               /\ accepted' = IF accepted = None THEN None ELSE m
          ELSE UNCHANGED <<inner, fresh, told, accepted>>
    BY <1>6 DEF HandleStatic
  <2> QED
    BY <1>1, <2>2, <2>3, <2>4
<1>7. ASSUME NEW i \in Instances, Unlink(i) PROVE NewestIs(accepted)'
  BY <1>1, <1>7 DEF Unlink, server
<1>8. ASSUME NEW i \in Instances, Start(i) \/ Connect(i) \/ MakeServer(i) \/ Bind(i) \/ Break(i)
                                  \/ WriteFail(i) \/ Write(i) \/ Push(i)
      PROVE  UNCHANGED <<inner, held, fresh, file, accepted>>
  BY <1>8 DEF Start, Connect, MakeServer, Bind, Break, WriteFail, Write, Push, server, disk, history
<1>9. ASSUME NEW g \in Guests,
             Shot(g) \/ ShotBreak(g) \/ Draw(g) \/ DrawBreak(g) \/ Redraw(g) \/ Leave(g)
      PROVE  UNCHANGED <<inner, held, fresh, file, accepted>>
  BY <1>9 DEF Shot, ShotBreak, Draw, DrawBreak, Redraw, Leave, server, disk, history
<1>10. ASSUME NEW i \in Ids, HandleHi(i) \/ HandleBye(i) \/ Reap(i)
       PROVE  UNCHANGED <<inner, held, fresh, file, accepted>>
  BY <1>10 DEF HandleHi, HandleBye, Reap, disk, history
<1>11. CASE UNCHANGED vars
  BY <1>1, <1>11 DEF vars, server, disk, history
<1>12. CASE Next
  BY <1>1, <1>2, <1>3, <1>4, <1>5, <1>6, <1>7, <1>8, <1>9, <1>10, <1>12
     DEF Next, Serve, Task, Quit, Exit, Kill
<1> QED
  BY <1>11, <1>12

(* It is unclear which message is the newest from the time that a socket   *)
(* is taken, and only then.                                                *)
Clear == "stolen" \in mishaps <=> accepted = None

LEMMA AcceptedStep ==
  ASSUME Links, Clear, [Next]_vars
  PROVE  Clear' /\ (accepted' # None => accepted # None)
<1> USE DdsAssumption DEF Clear
<1>1. file # None /\ \A m \in Static : m # None
  BY DEF Links, TypeOK, Static, Ids
<1>2. CASE UNCHANGED <<accepted, mishaps>>
  BY <1>2
<1>3. ASSUME NEW i \in Instances, Unlink(i)
      PROVE  Clear' /\ (accepted' # None => accepted # None)
  BY <1>3 DEF Unlink
<1>4. ASSUME NEW i \in Instances, MakeServer(i)
      PROVE  Clear' /\ accepted' = accepted
  BY <1>4 DEF MakeServer
<1>5. ASSUME NEW i \in Instances,
             Start(i) \/ Connect(i) \/ Bind(i) \/ Load(i) \/ Break(i) \/ WriteFail(i) \/ Write(i)
      PROVE  UNCHANGED <<accepted, mishaps>>
  BY <1>5 DEF Start, Connect, Bind, Load, Break, WriteFail, Write, history
<1>6. ASSUME NEW i \in Instances, Push(i) \/ QuitTake(i) \/ Drain(i)
      PROVE  UNCHANGED <<accepted, mishaps>>
  BY <1>6 DEF Push, QuitTake, Drain, history
<1>7. ASSUME NEW i \in Instances, End(i)
      PROVE  Clear' /\ (accepted' # None => accepted # None)
  BY <1>1, <1>7 DEF End
<1>8. ASSUME NEW g \in Guests,
             Shot(g) \/ ShotBreak(g) \/ Draw(g) \/ DrawBreak(g) \/ Redraw(g) \/ Leave(g)
      PROVE  UNCHANGED <<accepted, mishaps>>
  BY <1>8 DEF Shot, ShotBreak, Draw, DrawBreak, Redraw, Leave, history
<1>9. ASSUME NEW i \in Ids, HandleStatic(i)
      PROVE  mishaps' = mishaps /\ (accepted' = None <=> accepted = None)
  BY <1>1, <1>9 DEF HandleStatic
<1>10. ASSUME NEW i \in Ids, HandleHi(i) \/ HandleBye(i) \/ Reap(i)
       PROVE  UNCHANGED <<accepted, mishaps>>
  BY <1>10 DEF HandleHi, HandleBye, Reap, history
<1>11. CASE UNCHANGED vars
  BY <1>2, <1>11 DEF vars, history
<1> QED
  BY <1>2, <1>3, <1>4, <1>5, <1>6, <1>7, <1>8, <1>9, <1>10, <1>11
     DEF Next, Serve, Task, Quit, Exit, Kill

LEMMA NewestAlways == Spec => []Newest
<1>1. Init => Newest
  <2> SUFFICES ASSUME Init PROVE Newest
    OBVIOUS
  <2>1. accepted = file /\ file # None /\ mishaps = {}
    BY DdsAssumption DEF Init
  <2> QED
    BY <2>1 DEF Init, Newest
<1>2. Links /\ HeldIsThere /\ OneServer /\ Newest /\ [Next]_vars => Newest'
  <2> SUFFICES ASSUME Links, HeldIsThere, OneServer, Newest, [Next]_vars PROVE Newest'
    OBVIOUS
  <2>1. Clear' /\ (accepted' # None => accepted # None)
    BY AcceptedStep DEF Newest, Clear
  <2>2. accepted' # None => NewestIs(accepted)'
    <3> SUFFICES ASSUME accepted' # None PROVE NewestIs(accepted)'
      OBVIOUS
    <3>1. accepted # None
      BY <2>1
    <3>2. Alone /\ Loaded /\ NewestIs(accepted)
      BY <3>1 DEF OneServer, Newest, NewestIs
    <3> QED
      BY <3>1, <3>2, NewestStep
  <2> QED
    BY <2>1, <2>2 DEF Newest, NewestIs, Clear
<1> QED
  BY <1>1, <1>2, LinksAlways, DdsTypeCorrect, OneServerAlways, PTL DEF Spec

(* As long as no socket is taken, no server keeps another static message   *)
(* than the newest, and that is in the file or with a running process that *)
(* will write it: what has been saved is not lost, whoever is killed.      *)
THEOREM StateIsSaved == Spec => []StateSurvives
<1>1. Links /\ OneServer /\ Newest => StateSurvives
  <2> SUFFICES ASSUME Links, OneServer, Newest, "stolen" \notin mishaps
               PROVE  /\ \A s \in Instances : inner[s] # None => inner[s] = accepted
                      /\ \/ file = accepted
                         \/ \E s \in Instances :
                              Running(s) /\ fresh[s] /\ accepted \in {inner[s], held[s]}
    BY DEF StateSurvives
  <2>1. accepted # None /\ \A s \in Instances : inner[s] # None => inner[s] = accepted
    BY DEF Newest
  <2>2. ASSUME file # accepted
        PROVE  \E s \in Instances : Running(s) /\ fresh[s] /\ accepted \in {inner[s], held[s]}
    <3>1. PICK s \in Instances : fresh[s] /\ Keeps(s)
      BY <2>1, <2>2 DEF Newest
    <3>2. accepted \in {inner[s], held[s]}
      BY <2>1, <3>1 DEF Newest, Keeps
    <3>3. Running(s)
      BY <3>1 DEF OneServer, Loaded, Links, Behaved, Running
    <3> QED
      BY <3>1, <3>2, <3>3
  <2> QED
    BY <2>1, <2>2
<1> QED
  BY <1>1, LinksAlways, OneServerAlways, NewestAlways, PTL
=============================================================================
