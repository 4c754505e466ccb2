--------------------------- MODULE ServerLifecycle ---------------------------
(***************************************************************************)
(* Starting, stopping and destroying a ChatServer while its TcpServer      *)
(* serves: the thread that calls Start, Stop and the destructor (the       *)
(* caller) and the thread of TcpServer::worker_loop (the worker).  What    *)
(* the components do with a packet is the subject of ChatServer; here a    *)
(* packet is handled or its connection dropped.                            *)
(*                                                                         *)
(* Undefined behaviour makes `process' "undefined" or leaves it running:   *)
(* the build may notice or not.                                            *)
(***************************************************************************)
EXTENDS FiniteSets, Sequences, SequencesExt

CONSTANT Client  \* the connections that may be made

VARIABLES
  caller,          \* where the calling thread is
  worker,          \* where the worker thread is, "none" when there is none
  tcp_listening,   \* TcpServer::is_listening_
  chat_listening,  \* ChatServer::is_listening_
  joinable,        \* worker_thread_ refers to a thread that was not joined
  listening,       \* listen_socket_ is open
  knocking,        \* the backlog: connections that wait to be accepted
  active,          \* accepted ones with bytes to read or an end to see
  readable,        \* what select found: connections, or the listener itself
  accepted,        \* accepted_clients_
  clients,         \* the keys of clients_ of the ChatServer
  users,           \* the connections whose users the components know
  process,         \* "running", "terminated" or "undefined"
  met              \* history: the connections that Stop or ~ChatServer met

lifecycleVars ==
  <<caller, worker, tcp_listening, chat_listening, joinable, listening,
    knocking, active, readable, accepted, clients, users, process, met>>

Listener == "listener"
ASSUME ListenerAssumption == Listener \notin Client

peerVars == <<knocking, active>>
tableVars == <<accepted, clients, users>>
flagVars == <<tcp_listening, chat_listening>>
threadVars == <<joinable, listening>>

LifecycleInit ==
  /\ caller = "idle" /\ worker = "none"
  /\ tcp_listening = FALSE /\ chat_listening = FALSE
  /\ joinable = FALSE /\ listening = FALSE
  /\ knocking = <<>> /\ active = {} /\ readable = {}
  /\ accepted = {} /\ clients = {} /\ users = {}
  /\ process = "running" /\ met = {}

Goes(from, to) == process = "running" /\ caller = from /\ caller' = to

Runs(from, to) == process = "running" /\ worker = from /\ worker' = to
-----------------------------------------------------------------------------
\* TcpServer::Start up to is_listening_ = true.  One that fails closes its
\* socket again and changes nothing.
Start ==
  /\ Goes("idle", "starting")
  /\ ~chat_listening /\ ~tcp_listening
  /\ tcp_listening' = TRUE
  /\ listening' = TRUE
  /\ UNCHANGED <<worker, chat_listening, joinable, peerVars, readable, tableVars,
                 process, met>>

StartWorker ==
  /\ Goes("starting", "started")
  /\ IF joinable
     THEN process' = "terminated" /\ UNCHANGED <<worker, joinable>>
     ELSE worker' = "looping" /\ joinable' = TRUE /\ UNCHANGED process
  /\ UNCHANGED <<flagVars, listening, peerVars, readable, tableVars, met>>

\* No component does anything in OnStart.
StartReturns ==
  /\ Goes("started", "idle")
  /\ chat_listening' = TRUE
  /\ UNCHANGED <<worker, tcp_listening, threadVars, peerVars, readable, tableVars,
                 process, met>>
-----------------------------------------------------------------------------
\* Mutant of Stop: the worker is not told.
StopUntold ==
  /\ Goes("idle", "joining")
  /\ chat_listening /\ tcp_listening
  /\ met' = {}
  /\ UNCHANGED <<worker, flagVars, threadVars, peerVars, readable, tableVars,
                 process>>

\* Both Stops return false unless both flags are set; nobody else writes
\* either, so the tests and the assignment are one step.
Stop ==
  /\ Goes("idle", "joining")
  /\ chat_listening /\ tcp_listening
  /\ tcp_listening' = FALSE
  /\ met' = {}
  /\ UNCHANGED <<worker, chat_listening, threadVars, peerVars, readable, tableVars,
                 process>>

\* Mutant of Joined: detached instead of joined.
NotJoined ==
  /\ caller = "joining"
  /\ UNCHANGED <<worker, joinable>>

Joined ==
  /\ worker = "done"
  /\ worker' = "none"
  /\ joinable' = FALSE

\* Connections that nobody has accepted end with the listener.
CloseListener ==
  /\ Goes("joining", "deleting")
  /\ Joined
  /\ listening' = FALSE
  /\ knocking' = <<>>
  /\ UNCHANGED <<flagVars, active, readable, tableVars, process, met>>

\* Mutant of DeleteClients: the sockets are not closed.
DeleteClientsOpen ==
  /\ Goes("deleting", "removing")
  /\ accepted' = {}
  /\ UNCHANGED <<active, worker, flagVars, threadVars, knocking, readable, clients,
                 users, process, met>>

\* Every TcpClient is deleted, which closes its socket.
DeleteClients ==
  /\ Goes("deleting", "removing")
  /\ accepted' = {}
  /\ active' = {}
  /\ UNCHANGED <<worker, flagVars, threadVars, knocking, readable, clients, users,
                 process, met>>

\* Disconnect is called on what is left of each deleted TcpClient.
RemoveClients ==
  /\ Goes("removing", "stopping")
  /\ process' \in IF clients = {} THEN {"running"} ELSE {"running", "undefined"}
  /\ met' = clients
  /\ clients' = {}
  /\ UNCHANGED <<worker, flagVars, threadVars, peerVars, readable, accepted, users>>

\* OnStop of every component.
StopReturns ==
  /\ Goes("stopping", "idle")
  /\ users' = {}
  /\ chat_listening' = FALSE
  /\ UNCHANGED <<worker, tcp_listening, threadVars, peerVars, readable, accepted,
                 clients, process, met>>
-----------------------------------------------------------------------------
(***************************************************************************)
(* The destructor of ChatServer deletes what clients_ holds and then its   *)
(* members, of which tcp_server_ is the last: until ~TcpServer has joined  *)
(* the worker, the worker finds clients_ and components_ destroyed.        *)
(***************************************************************************)
Destroy ==
  /\ Goes("idle", "destroying")
  /\ met' = clients
  /\ clients' = {}
  /\ UNCHANGED <<worker, flagVars, threadVars, peerVars, readable, accepted, users,
                 process>>

\* ~TcpServer of a server that does not listen.
DestroyStopped ==
  /\ Goes("destroying", "destroyed")
  /\ ~tcp_listening
  /\ process' = IF joinable THEN "terminated" ELSE process
  /\ accepted' = {} /\ active' = {}
  /\ UNCHANGED <<worker, flagVars, threadVars, knocking, readable, clients, users, met>>

DestroyListening ==
  /\ Goes("destroying", "awaiting")
  /\ tcp_listening
  /\ tcp_listening' = FALSE
  /\ UNCHANGED <<worker, chat_listening, threadVars, peerVars, readable, tableVars,
                 process, met>>

DestroyJoined ==
  /\ Goes("awaiting", "destroyed")
  /\ Joined
  /\ listening' = FALSE
  /\ accepted' = {} /\ active' = {} /\ knocking' = <<>>
  /\ UNCHANGED <<flagVars, readable, clients, users, process, met>>
-----------------------------------------------------------------------------
WorkerLoops ==
  /\ worker = "looping"
  /\ Runs("looping", IF tcp_listening THEN "selecting" ELSE "done")
  /\ UNCHANGED <<caller, flagVars, threadVars, peerVars, readable, tableVars,
                 process, met>>

\* Mutant of WorkerSelects: the listener is not in the set.
WorkerSelectsClients ==
  /\ Runs("selecting", "accepting")
  /\ readable' = active
  /\ readable' # {}
  /\ UNCHANGED <<caller, flagVars, threadVars, peerVars, tableVars, process, met>>

\* select has no time limit either.
WorkerSelects ==
  /\ Runs("selecting", "accepting")
  /\ readable' = active \cup (IF knocking = <<>> THEN {} ELSE {Listener})
  /\ readable' # {}
  /\ UNCHANGED <<caller, flagVars, threadVars, peerVars, tableVars, process, met>>

\* A callback of the ChatServer: the tables change, or the members that it
\* uses are destroyed.
Callback(newClients, newUsers) ==
  IF caller \in {"destroying", "awaiting"}
  THEN process' \in {"running", "undefined"} /\ UNCHANGED <<clients, users>>
  ELSE clients' = newClients /\ users' = newUsers /\ UNCHANGED process

WorkerAccepts ==
  /\ Runs("accepting", "serving")
  /\ IF Listener \in readable /\ knocking # <<>>
     THEN LET c == Head(knocking) IN
          /\ knocking' = Tail(knocking)
          /\ accepted' = accepted \cup {c}
          /\ Callback(clients \cup {c}, users \cup {c})
     ELSE UNCHANGED <<knocking, accepted, clients, users, process>>
  /\ UNCHANGED <<caller, flagVars, threadVars, active, readable, met>>

\* The next connection of which something can be read: its packets are
\* handled, or it ends.
WorkerHandles ==
  /\ Runs("serving", "serving")
  /\ \E c \in accepted \cap readable :
       /\ readable' = readable \ {c}
       /\ active' \in {active, active \ {c}}
  /\ Callback(clients, users)
  /\ UNCHANGED <<caller, flagVars, threadVars, knocking, accepted, met>>

\* Mutant of WorkerDrops: the TcpClient stays in accepted_clients_.
WorkerKeeps ==
  /\ Runs("serving", "serving")
  /\ \E c \in accepted \cap readable :
       /\ readable' = readable \ {c}
       /\ active' = active \ {c}
       /\ Callback(clients \ {c}, users \ {c})
  /\ UNCHANGED <<accepted, caller, flagVars, threadVars, knocking, met>>

WorkerDrops ==
  /\ Runs("serving", "serving")
  /\ \E c \in accepted \cap readable :
       /\ readable' = readable \ {c}
       /\ active' = active \ {c}
       /\ accepted' = accepted \ {c}
       /\ Callback(clients \ {c}, users \ {c})
  /\ UNCHANGED <<caller, flagVars, threadVars, knocking, met>>

WorkerServed ==
  /\ Runs("serving", "looping")
  /\ accepted \cap readable = {}
  /\ readable' = {}
  /\ UNCHANGED <<caller, flagVars, threadVars, peerVars, tableVars, process, met>>

\* A client connects, or an accepted one sends or goes away.
PeerConnects ==
  /\ process = "running" /\ listening
  /\ \E c \in Client \ (accepted \cup ToSet(knocking)) :
       knocking' = Append(knocking, c)
  /\ UNCHANGED <<caller, worker, flagVars, threadVars, active, readable, tableVars,
                 process, met>>

PeerActs ==
  /\ process = "running"
  /\ \E c \in accepted \ active : active' = active \cup {c}
  /\ UNCHANGED <<caller, worker, flagVars, threadVars, knocking, readable, tableVars,
                 process, met>>
-----------------------------------------------------------------------------
CallerBegins == Start \/ Stop \/ Destroy

CallerGoesOn ==
  \/ StartWorker \/ StartReturns
  \/ CloseListener \/ DeleteClients \/ RemoveClients \/ StopReturns
  \/ DestroyStopped \/ DestroyListening \/ DestroyJoined

WorkerGoesOn ==
  \/ WorkerLoops \/ WorkerSelects \/ WorkerAccepts \/ WorkerHandles \/ WorkerDrops
  \/ WorkerServed

LifecycleNext ==
  \/ CallerBegins \/ CallerGoesOn \/ WorkerGoesOn \/ PeerConnects \/ PeerActs

\* The operating system runs both threads; nobody has to call anything.
LifecycleSpec ==
  /\ LifecycleInit /\ [][LifecycleNext]_lifecycleVars
  /\ WF_lifecycleVars(CallerGoesOn) /\ WF_lifecycleVars(WorkerGoesOn)
-----------------------------------------------------------------------------
Connection == Client \cup {Listener}

LifecycleTypeOK ==
  /\ caller \in {"idle", "starting", "started", "joining", "deleting", "removing",
                 "stopping", "destroying", "awaiting", "destroyed"}
  /\ worker \in {"none", "looping", "selecting", "accepting", "serving", "done"}
  /\ tcp_listening \in BOOLEAN /\ chat_listening \in BOOLEAN
  /\ joinable \in BOOLEAN /\ listening \in BOOLEAN
  /\ knocking \in Seq(Client) /\ active \subseteq accepted
  /\ readable \subseteq Connection
  /\ accepted \subseteq Client /\ clients \subseteq Client /\ users \subseteq Client
  /\ process \in {"running", "terminated", "undefined"}
  /\ met \subseteq Client

\* The three tables name the same connections whenever no call is under way;
\* a server that was stopped has forgotten every one and has no worker.
TablesAgree ==
  caller = "idle" =>
    /\ accepted = clients /\ clients = users
    /\ ~chat_listening =>
         users = {} /\ worker = "none" /\ ~joinable /\ ~tcp_listening /\ ~listening

\* A server can be stopped, started again and destroyed after a Stop without
\* undefined behaviour as long as no client is connected when Stop comes;
\* only a destructor that meets a running worker adds to that.
UndefinedOnlyWithClients ==
  process # "running" =>
    /\ process = "undefined"
    /\ \/ caller = "stopping" /\ met # {}
       \/ caller \in {"destroying", "awaiting"} /\ worker # "none"

\* Stop and the destructor return, unless no client does anything any more:
\* only a connection or its bytes wake the worker that they wait for.
StopReturnsOrSilence ==
  \/ []<>(caller \notin {"joining", "awaiting"} \/ process # "running")
  \/ <>[](knocking = <<>> /\ active = {})

\* A connection that is waiting is accepted or the server stops.
ConnectionsAccepted ==
  \A c \in Client :
    c \in ToSet(knocking) /\ worker # "none" ~>
      c \in accepted \/ worker \in {"none", "done"} \/ process # "running"
=============================================================================
