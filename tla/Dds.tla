-------------------------------- MODULE Dds --------------------------------
(***************************************************************************)
(* The data distribution service (yazi-dds).  Every instance of yazi is a  *)
(* client; one of them is the server as well, by binding a socket at a     *)
(* path they all know, and when it exits another one takes its place.  The *)
(* server knows who is registered (CLIENTS), tells all of them (`hey`, from *)
(* which each makes its PEERS), and keeps the last static message of a     *)
(* kind (STATE), which it saves when its process quits.                    *)
(*                                                                         *)
(* There is one kind of static messages, which every instance listens to.  *)
(* Guests are runs of the command line tool: `ya pub` says hi, sends one   *)
(* message and says bye; `ya sub` listens, and never becomes a server.  A  *)
(* static message is named after its sender; Nothing is the body "null",   *)
(* which removes it.                                                       *)
(***************************************************************************)
EXTENDS Sequences, FiniteSets, Naturals

CONSTANTS
  Instances,  \* processes of yazi; each is started at most once
  Guests,     \* runs of `ya pub` or `ya sub`
  Earlier,    \* an instance of an earlier day
  None,       \* Rust's None
  Nothing,    \* no static message is kept
  Saved,      \* what an earlier day may have left in the state file
  MaxSends,   \* bound: messages that instances send, and guests that come
  MaxKills    \* bound: processes that have ended when one is killed

\* The names of senders are not those of other messages.
ASSUME DdsAssumption ==
  /\ Instances \cap Guests = {}
  /\ {None, Nothing, Earlier, "hi", "bye"} \cap (Instances \cup Guests) = {}
  /\ {"hi", "bye"} \cap {None, Nothing, Earlier} = {}
  /\ None # Nothing /\ None # Earlier /\ Nothing # Earlier
  /\ Saved \subseteq {Nothing, Earlier}
  /\ MaxSends \in Nat /\ MaxKills \in Nat

Ids == Instances \cup Guests
Static == Ids \cup {Earlier, Nothing}

VARIABLES
  \* of a process
  stage,      \* where Client::serve is: see TypeOK
  quitting,   \* how far Quit has come: "no", "taken", "drained"
  queue,      \* QUEUE: messages that are not written yet
  retry,      \* the message whose write failed
  \* of a process as a server
  serving,    \* its listener is accepting
  clients,    \* CLIENTS
  inner,      \* STATE.inner
  fresh,      \* STATE.last is later than the time of the file
  held,       \* what STATE.drain has taken out of inner
  \* of a connection, by its client
  conn,       \* the process it leads to
  named,      \* the server's task has got an id for it
  wire,       \* messages in the socket towards the server
  peers,      \* PEERS of the client once it has read what the server sent
  told,       \* history: the newest static message sent on it
  \* of the file system
  path,       \* whose listener is, or was, bound at the socket's path
  file,       \* the state file; Nothing also if there is none
  \* history
  accepted,   \* the newest static message a server has kept; None once it is unclear
  sends,      \* messages sent and guests come so far
  mishaps     \* what has gone wrong: see TypeOK

process == <<stage, quitting, queue, retry>>
server == <<serving, clients, inner, fresh, held>>
link == <<conn, named, wire, peers, told>>
disk == <<path, file>>
history == <<accepted, sends, mishaps>>
vars == <<process, server, link, disk, history>>

TypeOK ==
  /\ stage \in [Ids -> {"off", "try", "make", "bind", "load", "up", "ask", "gone"}]
  /\ quitting \in [Instances -> {"no", "taken", "drained"}]
  /\ queue \in [Instances -> Seq({"hi"} \cup Static)]
  /\ retry \in [Instances -> {None, "hi"} \cup Static]
  /\ peers \in [Ids -> SUBSET Ids]
  /\ serving \in [Instances -> BOOLEAN]
  /\ clients \in [Instances -> SUBSET Ids]
  /\ inner \in [Instances -> {None} \cup Static]
  /\ fresh \in [Instances -> BOOLEAN]
  /\ held \in [Instances -> {None} \cup Static]
  /\ conn \in [Ids -> Instances \cup {None}]
  /\ named \in [Ids -> BOOLEAN]
  /\ wire \in [Ids -> Seq({"hi", "bye"} \cup Static)]
  /\ told \in [Ids -> {None} \cup Static]
  /\ path \in Instances \cup {None}
  /\ file \in Static
  /\ accepted \in {None} \cup Static
  /\ sends \in 0..MaxSends
  /\ mishaps \subseteq {"stolen", "forgot"}

Init ==
  /\ stage = [i \in Ids |-> "off"]
  /\ quitting = [i \in Instances |-> "no"]
  /\ queue = [i \in Instances |-> <<>>]
  /\ retry = [i \in Instances |-> None]
  /\ peers = [i \in Ids |-> {}]
  /\ serving = [i \in Instances |-> FALSE]
  /\ clients = [i \in Instances |-> {}]
  /\ inner = [i \in Instances |-> None]
  /\ fresh = [i \in Instances |-> FALSE]
  /\ held = [i \in Instances |-> None]
  /\ conn = [i \in Ids |-> None]
  /\ named = [i \in Ids |-> FALSE]
  /\ wire = [i \in Ids |-> <<>>]
  /\ told = [i \in Ids |-> None]
  /\ path = None
  /\ file \in Saved
  /\ accepted = file
  /\ sends = 0
  /\ mishaps = {}

Running(i) == stage[i] \notin {"off", "gone"}
Reachable == path # None /\ serving[path]
Broken(i) == conn[i] # None /\ ~Running(conn[i])

-----------------------------------------------------------------------------
(* The connection. *)

\* A new connection of i to s, with `sent` in its socket.
Link(i, s, sent) ==
  /\ conn' = [conn EXCEPT ![i] = s]
  /\ wire' = [wire EXCEPT ![i] = sent]
  /\ named' = [named EXCEPT ![i] = FALSE]
  /\ peers' = [peers EXCEPT ![i] = {}]
  /\ told' = [told EXCEPT ![i] = None]

\* Server::handle_hey: everybody in `known` is told who is in it; and
\* Client::handle_hey.
Hey(known) == [i \in Ids |-> IF i \in known THEN known \ {i} ELSE peers[i]]

\* Client::serve
Start(i) ==
  /\ stage[i] = "off"
  /\ stage' = [stage EXCEPT ![i] = "try"]
  /\ UNCHANGED <<quitting, queue, retry, server, link, disk, history>>

\* Client::connect finds a server.  The `hi` goes to the end of the queue; a
\* message to be retried is written at once.
Connect(i) ==
  /\ stage[i] = "try" /\ Reachable
  /\ stage' = [stage EXCEPT ![i] = "up"]
  /\ queue' = [queue EXCEPT ![i] = Append(@, "hi")]
  /\ retry' = [retry EXCEPT ![i] = None]
  /\ Link(i, path, IF retry[i] = None THEN <<>> ELSE <<retry[i]>>)
  /\ UNCHANGED <<quitting, server, disk, history>>

\* It finds none: its own listener, if any, is aborted, and Server::make begins.
\* The tasks of the connections that were accepted are not aborted.
MakeServer(i) ==
  /\ stage[i] = "try" /\ ~Reachable
  /\ stage' = [stage EXCEPT ![i] = "make"]
  /\ serving' = [serving EXCEPT ![i] = FALSE]
  /\ clients' = [clients EXCEPT ![i] = {}]
  /\ mishaps' = IF clients[i] # {} THEN mishaps \cup {"forgot"} ELSE mishaps
  /\ UNCHANGED <<quitting, queue, retry, inner, fresh, held, link, disk,
                 accepted, sends>>

\* A slip of Unlink: a socket that is left over stays.
UnlinkNever(i) ==
  /\ stage[i] = "make"
  /\ stage' = [stage EXCEPT ![i] = "bind"]
  /\ UNCHANGED <<quitting, queue, retry, server, link, disk, history>>

\* Stream::bind removes what is at the path, ...
Unlink(i) ==
  /\ stage[i] = "make"
  /\ stage' = [stage EXCEPT ![i] = "bind"]
  /\ IF Reachable THEN mishaps' = mishaps \cup {"stolen"} /\ accepted' = None
                  ELSE UNCHANGED <<mishaps, accepted>>
  /\ path' = None
  /\ UNCHANGED <<quitting, queue, retry, server, link, file, sends>>

\* ... and binds, which fails if another instance was faster.
Bind(i) ==
  /\ stage[i] = "bind"
  /\ \/ /\ path = None
        /\ path' = i
        /\ serving' = [serving EXCEPT ![i] = TRUE]
        /\ stage' = [stage EXCEPT ![i] = "load"]
     \/ /\ path # None
        /\ stage' = [stage EXCEPT ![i] = "try"]
        /\ UNCHANGED <<path, serving>>
  /\ UNCHANGED <<quitting, queue, retry, clients, inner, fresh, held, link, file,
                 history>>

\* A slip of Load: clients that registered before it are not sent what is loaded.
LoadSilently(i) ==
  /\ stage[i] = "load"
  /\ stage' = [stage EXCEPT ![i] = "try"]
  /\ inner' = [inner EXCEPT ![i] = file]
  /\ fresh' = [fresh EXCEPT ![i] = TRUE]
  /\ UNCHANGED <<quitting, queue, retry, serving, clients, held, link, disk, history>>

\* State::load_or_create: what is in the file goes to the clients that have
\* registered meanwhile.
Load(i) ==
  /\ stage[i] = "load"
  /\ stage' = [stage EXCEPT ![i] = "try"]
  /\ inner' = [inner EXCEPT ![i] = file]
  /\ fresh' = [fresh EXCEPT ![i] = TRUE]
  /\ told' = [c \in Ids |-> IF c \in clients[i] /\ file # Nothing THEN file ELSE told[c]]
  /\ UNCHANGED <<quitting, queue, retry, serving, clients, held, conn, named, wire,
                 peers, disk, history>>

\* Client::reconnect
Reconnect(i) ==
  /\ stage' = [stage EXCEPT ![i] = "try"]
  /\ Link(i, None, <<>>)

\* The loop of Client::serve reads the end of the stream, ...
Break(i) ==
  /\ stage[i] = "up" /\ Broken(i)
  /\ Reconnect(i)
  /\ UNCHANGED <<quitting, queue, retry, server, disk, history>>

\* ... fails to write, ...
WriteFail(i) ==
  /\ stage[i] = "up" /\ Broken(i) /\ queue[i] # <<>>
  /\ queue' = [queue EXCEPT ![i] = Tail(@)]
  /\ retry' = [retry EXCEPT ![i] = Head(queue[i])]
  /\ Reconnect(i)
  /\ UNCHANGED <<quitting, server, disk, history>>

\* ... or writes.
Write(i) ==
  /\ stage[i] = "up" /\ ~Broken(i) /\ queue[i] # <<>>
  /\ queue' = [queue EXCEPT ![i] = Tail(@)]
  /\ wire' = [wire EXCEPT ![i] = Append(@, Head(queue[i]))]
  /\ UNCHANGED <<stage, quitting, retry, server, conn, named, peers, told, disk, history>>

-----------------------------------------------------------------------------
(* What the instances send, and the guests. *)

\* Client::push: a static message or its removal; or, from Pubsub::pub_inner_hi
\* when a subscription comes or goes, another `hi`.
Push(i) ==
  /\ Running(i) /\ sends < MaxSends
  /\ sends' = sends + 1
  /\ \E m \in {i, Nothing, "hi"} : queue' = [queue EXCEPT ![i] = Append(@, m)]
  /\ UNCHANGED <<stage, quitting, retry, server, link, disk, accepted, mishaps>>

\* Dds::shot of yazi-cli
Shot(g) ==
  /\ stage[g] = "off" /\ Reachable /\ sends < MaxSends
  /\ sends' = sends + 1
  /\ stage' = [stage EXCEPT ![g] = "ask"]
  /\ \E m \in {g, Nothing} : Link(g, path, <<"hi", m, "bye">>)
  /\ UNCHANGED <<quitting, queue, retry, server, disk, accepted, mishaps>>

ShotBreak(g) ==
  /\ stage[g] = "ask" /\ Broken(g)
  /\ stage' = [stage EXCEPT ![g] = "gone"]
  /\ Link(g, None, <<>>)
  /\ UNCHANGED <<quitting, queue, retry, server, disk, history>>

\* Dds::draw of yazi-cli: it gives up if the first attempt fails, ...
Draw(g) ==
  /\ stage[g] = "off" /\ Reachable /\ sends < MaxSends
  /\ sends' = sends + 1
  /\ stage' = [stage EXCEPT ![g] = "up"]
  /\ Link(g, path, <<"hi">>)
  /\ UNCHANGED <<quitting, queue, retry, server, disk, accepted, mishaps>>

\* ... but never later, until the user ends it.
Redraw(g) ==
  /\ stage[g] = "try" /\ Reachable
  /\ stage' = [stage EXCEPT ![g] = "up"]
  /\ Link(g, path, <<"hi">>)
  /\ UNCHANGED <<quitting, queue, retry, server, disk, history>>

DrawBreak(g) ==
  /\ stage[g] = "up" /\ Broken(g)
  /\ stage' = [stage EXCEPT ![g] = "try"]
  /\ Link(g, None, <<>>)
  /\ UNCHANGED <<quitting, queue, retry, server, disk, history>>

Leave(g) ==
  /\ stage[g] \in {"up", "try"} /\ ~Broken(g)
  /\ stage' = [stage EXCEPT ![g] = "gone"]
  /\ UNCHANGED <<quitting, queue, retry, server, link, disk, history>>

-----------------------------------------------------------------------------
(* The server's task of the connection of client i. *)

\* It reads message m.
Reads(i, m) ==
  /\ conn[i] # None /\ Running(conn[i])
  /\ wire[i] # <<>> /\ Head(wire[i]) = m

\* A slip of HandleHi: the old id is removed after the new one was put in.
HandleHiReplacing(i) ==
  LET s == conn[i]
      known == IF named[i] THEN clients[s] \ {i} ELSE clients[s] \cup {i}
  IN /\ Reads(i, "hi")
     /\ wire' = [wire EXCEPT ![i] = Tail(@)]
     /\ told' = IF ~named[i] /\ inner[s] \notin {None, Nothing} THEN [told EXCEPT ![i] = inner[s]] ELSE told
     /\ named' = [named EXCEPT ![i] = TRUE]
     /\ clients' = [clients EXCEPT ![s] = known]
     /\ peers' = Hey(known)
     /\ UNCHANGED <<process, serving, inner, fresh, held, conn, disk, history>>

\* Server::handle_hi: the static messages are sent the first time only.
HandleHi(i) ==
  LET s == conn[i]
      known == clients[s] \cup {i}
  IN /\ Reads(i, "hi")
     /\ wire' = [wire EXCEPT ![i] = Tail(@)]
     /\ told' = IF ~named[i] /\ inner[s] \notin {None, Nothing} THEN [told EXCEPT ![i] = inner[s]] ELSE told
     /\ named' = [named EXCEPT ![i] = TRUE]
     /\ clients' = [clients EXCEPT ![s] = known]
     /\ peers' = Hey(known)
     /\ UNCHANGED <<process, serving, inner, fresh, held, conn, disk, history>>

\* A static message is kept and passed on, unless the client has not said hi,
\* nobody is registered, or State::set finds nothing new in it.
HandleStatic(i) ==
  LET s == conn[i]
      able == {c \in clients[s] : stage[c] # "ask"}  \* `ya pub` listens to nothing
  IN \E m \in Static :
     /\ Reads(i, m)
     /\ wire' = [wire EXCEPT ![i] = Tail(@)]
     /\ IF named[i] /\ able # {} /\ inner[s] \notin {None, m}
        THEN /\ inner' = [inner EXCEPT ![s] = m]
             /\ fresh' = [fresh EXCEPT ![s] = TRUE]
             /\ told' = [c \in Ids |-> IF c \in able THEN m ELSE told[c]]
             /\ accepted' = IF accepted = None THEN None ELSE m
        ELSE UNCHANGED <<inner, fresh, told, accepted>>
     /\ UNCHANGED <<process, serving, clients, held, conn, named, peers, disk, sends, mishaps>>

\* A slip of Unregister: nobody is told.
UnregisterQuietly(i) ==
  LET s == conn[i]
      known == clients[s] \ {i}
  IN /\ clients' = [clients EXCEPT ![s] = known]
     /\ conn' = [conn EXCEPT ![i] = None]
     /\ wire' = [wire EXCEPT ![i] = <<>>]
     /\ named' = [named EXCEPT ![i] = FALSE]
     /\ peers' = [peers EXCEPT ![i] = {}]
     /\ told' = [told EXCEPT ![i] = None]

\* The end of the task: if the client is registered it is removed, and the
\* others are told.
Unregister(i) ==
  LET s == conn[i]
      known == clients[s] \ {i}
  IN /\ clients' = [clients EXCEPT ![s] = known]
     /\ conn' = [conn EXCEPT ![i] = None]
     /\ wire' = [wire EXCEPT ![i] = <<>>]
     /\ named' = [named EXCEPT ![i] = FALSE]
     /\ peers' = [IF i \in clients[s] THEN Hey(known) ELSE peers EXCEPT ![i] = {}]
     /\ told' = [told EXCEPT ![i] = None]

\* Server::handle_bye
HandleBye(i) ==
  /\ Reads(i, "bye")
  /\ Unregister(i)
  /\ stage' = [stage EXCEPT ![i] = "gone"]
  /\ UNCHANGED <<quitting, queue, retry, serving, inner, fresh, held, disk, history>>

\* A write to a client that is gone fails, at the next heartbeat at the latest.
Reap(i) ==
  /\ stage[i] = "gone" /\ conn[i] # None /\ Running(conn[i])
  /\ Unregister(i)
  /\ UNCHANGED <<process, serving, inner, fresh, held, disk, history>>

-----------------------------------------------------------------------------
(* The end of a process. *)

\* Quit: STATE.drain takes the static messages out of the state, ...
QuitTake(i) ==
  /\ Running(i) /\ quitting[i] = "no"
  /\ quitting' = [quitting EXCEPT ![i] = IF inner[i] = None THEN "drained" ELSE "taken"]
  /\ held' = [held EXCEPT ![i] = inner[i]]
  /\ inner' = [inner EXCEPT ![i] = None]
  /\ UNCHANGED <<stage, queue, retry, serving, clients, fresh, link, disk, history>>

\* A slip of Drain: the comparison of the times is reversed.
DrainOlder(i) ==
  /\ quitting[i] = "taken"
  /\ quitting' = [quitting EXCEPT ![i] = "drained"]
  /\ IF ~fresh[i]
     THEN /\ file' = held[i]
          /\ fresh' = [j \in Instances |-> FALSE]
     ELSE UNCHANGED <<file, fresh>>
  /\ held' = [held EXCEPT ![i] = None]
  /\ UNCHANGED <<stage, queue, retry, serving, clients, inner, link, path, history>>

\* A slip of Drain: it writes what is left in the state.
DrainRest(i) ==
  /\ quitting[i] = "taken"
  /\ quitting' = [quitting EXCEPT ![i] = "drained"]
  /\ IF fresh[i]
     THEN /\ file' = inner[i]
          /\ fresh' = [j \in Instances |-> FALSE]
     ELSE UNCHANGED <<file, fresh>>
  /\ held' = [held EXCEPT ![i] = None]
  /\ UNCHANGED <<stage, queue, retry, serving, clients, inner, link, path, history>>

\* ... and writes them, unless the file is newer.
Drain(i) ==
  /\ quitting[i] = "taken"
  /\ quitting' = [quitting EXCEPT ![i] = "drained"]
  /\ IF fresh[i]
     THEN /\ file' = held[i]
          /\ fresh' = [j \in Instances |-> FALSE]
     ELSE UNCHANGED <<file, fresh>>
  /\ held' = [held EXCEPT ![i] = None]
  /\ UNCHANGED <<stage, queue, retry, serving, clients, inner, link, path, history>>

\* What is left when process i has ended: its connection, until the server
\* notices, and the name of its socket.  Static messages that it has not saved
\* are lost, for it was killed, or began to serve after it had begun to quit: the
\* newest that is left is the one in the file.
End(i) ==
  /\ stage' = [stage EXCEPT ![i] = "gone"]
  /\ quitting' = [quitting EXCEPT ![i] = "no"]
  /\ queue' = [queue EXCEPT ![i] = <<>>]
  /\ retry' = [retry EXCEPT ![i] = None]
  /\ serving' = [serving EXCEPT ![i] = FALSE]
  /\ clients' = [clients EXCEPT ![i] = {}]
  /\ inner' = [inner EXCEPT ![i] = None]
  /\ fresh' = [fresh EXCEPT ![i] = FALSE]
  /\ held' = [held EXCEPT ![i] = None]
  /\ conn' = [c \in Ids |-> IF conn[c] = i /\ stage'[c] = "gone" THEN None ELSE conn[c]]
  /\ wire' = [c \in Ids |-> IF conn[c] = i THEN <<>> ELSE wire[c]]
  /\ accepted' = IF accepted = None \/ (inner[i] = None /\ held[i] = None)
                 THEN accepted ELSE file
  /\ UNCHANGED <<named, peers, told, disk, sends, mishaps>>

Exit(i) ==
  /\ quitting[i] = "drained"
  /\ End(i)

Kill(i) ==
  /\ Running(i) /\ Cardinality({j \in Instances : stage[j] = "gone"}) < MaxKills
  /\ End(i)

-----------------------------------------------------------------------------
Serve(i) ==
  \/ Connect(i) \/ MakeServer(i) \/ Unlink(i) \/ Bind(i) \/ Load(i)
  \/ Break(i) \/ WriteFail(i) \/ Write(i)

Task(i) == HandleHi(i) \/ HandleStatic(i) \/ HandleBye(i) \/ Reap(i)

Quit(i) == Drain(i) \/ Exit(i)

Next ==
  \/ \E i \in Instances :
       Start(i) \/ Serve(i) \/ Push(i) \/ QuitTake(i) \/ Quit(i) \/ Kill(i)
  \/ \E g \in Guests : Shot(g) \/ ShotBreak(g) \/ Draw(g) \/ DrawBreak(g) \/ Redraw(g) \/ Leave(g)
  \/ \E i \in Ids : Task(i)

Spec == Init /\ [][Next]_vars

\* Clients, the tasks of the server and a process that quits are polled, and so
\* are the guests once they are connected.
FairSpec ==
  /\ Spec
  /\ \A i \in Instances : WF_vars(Serve(i)) /\ WF_vars(Quit(i))
  /\ \A i \in Ids : WF_vars(Task(i))
  /\ \A g \in Guests : WF_vars(ShotBreak(g) \/ DrawBreak(g) \/ Redraw(g))

-----------------------------------------------------------------------------
Registered(c, s) == conn[c] = s /\ c \in clients[s]

\* An instance and everybody else at its server know each other: whatever
\* comes, goes and says hi again, PEERS is who is registered.
PeersAgree ==
  \A s \in Instances : \A c \in clients[s] : peers[c] = clients[s] \ {c}

\* A client that listens has been sent the static message that the server
\* keeps and, if there is none, was not sent one that is gone: whether it was
\* kept, loaded or removed before, while or after the client said hi.  A server
\* whose socket was taken and that makes it anew may lose what it has kept.
StateIsTold ==
  "stolen" \notin mishaps => \A s \in Instances : \A c \in clients[s] :
    stage[c] # "ask" =>
      CASE inner[s] = None -> TRUE
        [] inner[s] = Nothing -> told[c] \in {None, Nothing}
        [] OTHER -> told[c] = inner[s]

\* As long as no socket is taken, whatever servers come and go and are killed:
\* a server keeps no other static message than the newest, and that is in the
\* file, or a process that runs has it and knows it to be newer than the file, so
\* that it will write it (state.rs, drain and skip).  What a process has not
\* saved when it ends is no longer the newest then, but what the file has.
StateSurvives ==
  "stolen" \notin mishaps =>
    /\ \A s \in Instances : inner[s] # None => inner[s] = accepted
    /\ \/ file = accepted
       \/ \E s \in Instances : Running(s) /\ fresh[s] /\ accepted \in {inner[s], held[s]}

\* Instances remove each other's sockets for ever, each just before the other
\* would have connected.  After their first attempt they sleep for a second
\* between two attempts, so it would take a lasting coincidence.
Tussle == []<><<\E i \in Instances : Unlink(i) /\ Reachable>>_vars

\* Whatever happens to the servers, all instances that stay are registered in
\* the end, and so are the listeners wherever there is a server to be found:
\* unless a server that had lost its socket has made it anew and forgotten them.
EveryoneRegisters ==
  \/ Tussle \/ <>("forgot" \in mishaps)
  \/ <>[](\A c \in Ids : Running(c) => \/ \E s \in Instances : Registered(c, s)
                                       \/ c \in Guests /\ ~Reachable)

\* They are registered with one server, if no server's socket was ever taken.
EveryoneMeets ==
  <>("stolen" \in mishaps) \/
  <>[](\E s \in Instances : \A i \in Instances : Running(i) => Registered(i, s))
=============================================================================
