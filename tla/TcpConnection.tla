---------------------------- MODULE TcpConnection ----------------------------
(***************************************************************************)
(* The connection of a ChatClient: the thread that calls Connect,          *)
(* Disconnect and the destructor (the caller), and the thread that Connect *)
(* starts (the worker), which TcpClient::worker_loop keeps in select.  The *)
(* two share is_connected_, the socket and the std::thread handle without  *)
(* any lock; a read or a write of one of them is a step.                   *)
(*                                                                         *)
(* is_connected_ is a plain bool: the model takes its accesses as          *)
(* sequentially consistent, which is what a build does in which no         *)
(* compiler keeps it in a register over the calls of the loop.             *)
(* Undefined behaviour makes `process' "undefined" or leaves it running.   *)
(***************************************************************************)
EXTENDS Naturals

VARIABLES
  caller,          \* where the calling thread is
  worker,          \* where the worker thread is, "none" when there is none
  tcp_connected,   \* TcpClient::is_connected_
  chat_connected,  \* ChatClient::is_connected_
  joinable,        \* worker_thread_ refers to a thread that was not joined
  closes,          \* how often the socket was closed; 1 also before there is any
  pending,         \* bytes wait in the socket
  ended,           \* the peer has closed or broken the connection
  enabled,         \* user_->Enabled of the UserComponent
  process,         \* "running", "exited", "terminated" (std::terminate) or
                   \* "undefined"
  exits,           \* a callback of OnDisconnected ends the program
  dropped,         \* history: the worker gave this connection up ...
  overtaken        \* history: ... and reported it before OnConnected was

connectionVars ==
  <<caller, worker, tcp_connected, chat_connected, joinable, closes, pending,
    ended, enabled, process, exits, dropped, overtaken>>

Caller ==
  {"idle", "starting", "connected", "returning", "clearing", "joining",
   "closing", "reporting", "forgetting", "destroying", "awaiting", "destroyed"}

Worker ==
  {"none", "looping", "selecting", "dropping", "closing", "reporting", "done"}

\* Of the callers of this code only jchat_client adds a callback that exits.
ConnectionInit ==
  /\ caller = "idle" /\ worker = "none"
  /\ tcp_connected = FALSE /\ chat_connected = FALSE /\ joinable = FALSE
  /\ closes = 1 /\ pending = FALSE /\ ended = FALSE
  /\ enabled = FALSE /\ process = "running" /\ exits \in BOOLEAN
  /\ dropped = FALSE /\ overtaken = FALSE

\* The caller goes on from one place in the code to another.
Goes(from, to) == process = "running" /\ caller = from /\ caller' = to

Runs(from, to) == process = "running" /\ worker = from /\ worker' = to

socketVars == <<closes, pending, ended>>
historyVars == <<dropped, overtaken>>
-----------------------------------------------------------------------------
\* Mutant of MayConnect: ChatClient::Connect does not look at its own flag.
MayConnectTcp == ~tcp_connected

\* Both Connects return false unless neither flag is set.
MayConnect == ~chat_connected /\ ~tcp_connected

\* Connect up to is_connected_ = true.  One that fails on the way closes the
\* socket again and changes nothing.
Connect ==
  /\ Goes("idle", "starting")
  /\ MayConnect
  /\ tcp_connected' = TRUE
  /\ closes' = 0 /\ pending' = FALSE /\ ended' = FALSE
  /\ dropped' = FALSE /\ overtaken' = FALSE
  /\ UNCHANGED <<worker, chat_connected, joinable, enabled, process, exits>>

\* A std::thread that still refers to a thread must not be assigned to.
StartWorker ==
  /\ Goes("starting", "connected")
  /\ IF joinable
     THEN process' = "terminated" /\ UNCHANGED <<worker, joinable>>
     ELSE worker' = "looping" /\ joinable' = TRUE /\ UNCHANGED process
  /\ UNCHANGED <<tcp_connected, chat_connected, socketVars, enabled, exits,
                 historyVars>>

\* ChatClient::onConnected: the SystemComponent says Hello, the UserComponent
\* enables its user.
RaiseOnConnected ==
  /\ Goes("connected", "returning")
  /\ enabled' = TRUE
  /\ UNCHANGED <<worker, tcp_connected, chat_connected, joinable, socketVars,
                 process, exits, historyVars>>

ConnectReturns ==
  /\ Goes("returning", "idle")
  /\ chat_connected' = TRUE
  /\ UNCHANGED <<worker, tcp_connected, joinable, socketVars, enabled, process,
                 exits, historyVars>>
-----------------------------------------------------------------------------
\* Both Disconnects return false unless both flags are set.
Disconnect ==
  /\ Goes("idle", "clearing")
  /\ chat_connected /\ tcp_connected
  /\ UNCHANGED <<worker, tcp_connected, chat_connected, joinable, socketVars,
                 enabled, process, exits, historyVars>>

\* Mutant of ClearConnected: the worker is joined, but not told to stop.
ClearNothing ==
  /\ Goes("clearing", "joining")
  /\ UNCHANGED <<tcp_connected, worker, chat_connected, joinable, socketVars,
                 enabled, process, exits, historyVars>>

ClearConnected ==
  /\ Goes("clearing", "joining")
  /\ tcp_connected' = FALSE
  /\ UNCHANGED <<worker, chat_connected, joinable, socketVars, enabled, process,
                 exits, historyVars>>

\* Mutant of Join: the worker is detached.
JoinDetached ==
  /\ Goes("joining", "closing")
  /\ joinable' = FALSE
  /\ UNCHANGED <<worker, tcp_connected, chat_connected, socketVars, enabled,
                 process, exits, historyVars>>

\* Mutant of Join: the worker is not waited for.
JoinNobody ==
  /\ Goes("joining", "closing")
  /\ UNCHANGED <<worker, joinable, tcp_connected, chat_connected, socketVars,
                 enabled, process, exits, historyVars>>

Join ==
  /\ Goes("joining", "closing")
  /\ worker = "done"
  /\ worker' = "none" /\ joinable' = FALSE
  /\ UNCHANGED <<tcp_connected, chat_connected, socketVars, enabled, process,
                 exits, historyVars>>

CloseSocket ==
  /\ Goes("closing", "reporting")
  /\ closes' = closes + 1
  /\ UNCHANGED <<worker, tcp_connected, chat_connected, joinable, pending, ended,
                 enabled, process, exits, historyVars>>

\* Mutant of RaiseOnDisconnected: the components are not told.
RaiseOnDisconnectedAlone ==
  /\ Goes("reporting", "forgetting")
  /\ process' = IF exits THEN "exited" ELSE process
  /\ UNCHANGED <<enabled, worker, tcp_connected, chat_connected, joinable,
                 socketVars, exits, historyVars>>

\* ChatClient::onDisconnected; its callbacks come after the components.
RaiseOnDisconnected ==
  /\ Goes("reporting", "forgetting")
  /\ enabled' = FALSE
  /\ process' = IF exits THEN "exited" ELSE process
  /\ UNCHANGED <<worker, tcp_connected, chat_connected, joinable, socketVars,
                 exits, historyVars>>

DisconnectReturns ==
  /\ Goes("forgetting", "idle")
  /\ chat_connected' = FALSE
  /\ UNCHANGED <<worker, tcp_connected, joinable, socketVars, enabled, process,
                 exits, historyVars>>
-----------------------------------------------------------------------------
(***************************************************************************)
(* ~ChatClient is empty.  Its members go in the reverse order of their     *)
(* declaration, the events and components_ before tcp_client_: until       *)
(* ~TcpClient has joined the worker, its callbacks find them destroyed.    *)
(***************************************************************************)
Destroy ==
  /\ Goes("idle", "destroying")
  /\ UNCHANGED <<worker, tcp_connected, chat_connected, joinable, socketVars,
                 enabled, process, exits, historyVars>>

Destroyed == caller \in {"destroying", "awaiting"}

\* ~TcpClient leaves everything to its members when it is not connected.  The
\* destructor of a joinable std::thread ends the program; the events go before
\* it, and a worker that has still to report finds them destroyed.
DestroyUnconnected ==
  /\ Goes("destroying", "destroyed")
  /\ ~tcp_connected
  /\ process' \in (IF joinable THEN {"terminated"} ELSE {process})
                    \cup (IF worker \in {"closing", "reporting"}
                          THEN {"undefined"} ELSE {})
  /\ UNCHANGED <<worker, tcp_connected, chat_connected, joinable, socketVars,
                 enabled, exits, historyVars>>

\* The test and the assignment of ~TcpClient.  The worker may give the
\* connection up between them, with the same result as before them both.
DestroyConnected ==
  /\ Goes("destroying", "awaiting")
  /\ tcp_connected
  /\ tcp_connected' = FALSE
  /\ UNCHANGED <<worker, chat_connected, joinable, socketVars, enabled, process,
                 exits, historyVars>>

\* The rest of it: nobody is told.
DestroyJoined ==
  /\ Goes("awaiting", "destroyed")
  /\ worker = "done"
  /\ worker' = "none" /\ joinable' = FALSE
  /\ closes' = closes + 1
  /\ UNCHANGED <<tcp_connected, chat_connected, pending, ended, enabled, process,
                 exits, historyVars>>
-----------------------------------------------------------------------------
\* The head of the loop.
WorkerLoops ==
  /\ worker = "looping"
  /\ Runs("looping", IF tcp_connected THEN "selecting" ELSE "done")
  /\ UNCHANGED <<caller, tcp_connected, chat_connected, joinable, socketVars,
                 enabled, process, exits, historyVars>>

\* select has no time limit: it returns when there are bytes or an end.  A
\* chunk of bytes is handled or not; one of 8192 bytes never is.
WorkerReceives ==
  /\ pending
  /\ pending' = FALSE
  /\ Runs("selecting", "looping") \/ Runs("selecting", "dropping")
  /\ process' \in IF Destroyed THEN {"running", "undefined"} ELSE {"running"}
  /\ UNCHANGED <<caller, tcp_connected, chat_connected, joinable, closes, ended,
                 enabled, exits, historyVars>>

WorkerSeesEnd ==
  /\ ended /\ ~pending
  /\ Runs("selecting", "dropping")
  /\ UNCHANGED <<caller, tcp_connected, chat_connected, joinable, socketVars,
                 enabled, process, exits, historyVars>>

\* Mutant of WorkerDrops: is_connected_ stays set.
WorkerDropsOnly ==
  /\ Runs("dropping", "closing")
  /\ dropped' = TRUE
  /\ UNCHANGED <<tcp_connected, caller, chat_connected, joinable, socketVars,
                 enabled, process, exits, overtaken>>

WorkerDrops ==
  /\ Runs("dropping", "closing")
  /\ tcp_connected' = FALSE
  /\ dropped' = TRUE
  /\ UNCHANGED <<caller, chat_connected, joinable, socketVars, enabled, process,
                 exits, overtaken>>

WorkerCloses ==
  /\ Runs("closing", "reporting")
  /\ closes' = closes + 1
  /\ UNCHANGED <<caller, tcp_connected, chat_connected, joinable, pending, ended,
                 enabled, process, exits, historyVars>>

\* Mutant of WorkerReports: the end of the connection is not reported.
WorkerReportsNothing ==
  /\ Runs("reporting", "looping")
  /\ overtaken' = (overtaken \/ caller \in {"starting", "connected"})
  /\ UNCHANGED <<caller, tcp_connected, chat_connected, joinable, socketVars,
                 enabled, process, exits, dropped>>

WorkerReports ==
  /\ Runs("reporting", "looping")
  /\ IF Destroyed
     THEN process' \in {"running", "undefined"} /\ UNCHANGED enabled
     ELSE /\ enabled' = FALSE
          /\ process' = IF exits THEN "exited" ELSE process
  /\ overtaken' = (overtaken \/ caller \in {"starting", "connected"})
  /\ UNCHANGED <<caller, tcp_connected, chat_connected, joinable, socketVars,
                 exits, dropped>>

\* The server sends, and closes or loses the connection, while there is one.
PeerSends ==
  /\ process = "running" /\ closes = 0 /\ ~ended
  /\ ~pending /\ pending' = TRUE
  /\ UNCHANGED <<caller, worker, tcp_connected, chat_connected, joinable, closes,
                 ended, enabled, process, exits, historyVars>>

PeerEnds ==
  /\ process = "running" /\ closes = 0
  /\ ~ended /\ ended' = TRUE
  /\ UNCHANGED <<caller, worker, tcp_connected, chat_connected, joinable, closes,
                 pending, enabled, process, exits, historyVars>>
-----------------------------------------------------------------------------
\* The caller is free to begin a call and bound to go on with it.
CallerBegins == Connect \/ Disconnect \/ Destroy

CallerGoesOn ==
  \/ StartWorker \/ RaiseOnConnected \/ ConnectReturns
  \/ ClearConnected \/ Join \/ CloseSocket \/ RaiseOnDisconnected
  \/ DisconnectReturns
  \/ DestroyUnconnected \/ DestroyConnected \/ DestroyJoined

WorkerGoesOn ==
  \/ WorkerLoops \/ WorkerReceives \/ WorkerSeesEnd \/ WorkerDrops
  \/ WorkerCloses \/ WorkerReports

ConnectionNext ==
  \/ CallerBegins \/ CallerGoesOn \/ WorkerGoesOn \/ PeerSends \/ PeerEnds

\* The operating system runs both threads; it makes nobody call anything, and
\* nothing makes the server send or close.
ConnectionSpec ==
  /\ ConnectionInit /\ [][ConnectionNext]_connectionVars
  /\ WF_connectionVars(CallerGoesOn) /\ WF_connectionVars(WorkerGoesOn)
-----------------------------------------------------------------------------
ConnectionTypeOK ==
  /\ caller \in Caller /\ worker \in Worker
  /\ process \in {"running", "exited", "terminated", "undefined"}
  /\ {tcp_connected, chat_connected, joinable, pending, ended, enabled, exits,
      dropped, overtaken} \subseteq BOOLEAN
  /\ closes \in 0..2

\* Neither thread is in the middle of something.
Quiet == caller = "idle" /\ worker \in {"none", "looping", "selecting", "done"}

\* Between calls, the socket is open exactly while is_connected_ is set; it
\* is closed a second time only when a Disconnect or a destructor met a
\* worker that gave the connection up.
SocketAccounted ==
  /\ Quiet => (closes = 0 <=> tcp_connected)
  /\ closes = 2 => dropped

\* Between calls, the user is enabled exactly while there is a connection,
\* unless the worker reported the end of it before OnConnected came.
EnabledWhileConnected == Quiet => (enabled <=> tcp_connected) \/ overtaken

\* The thread handle never ends the program but in the destructor of a client
\* whose connection the worker had given up before.
TerminatesOnlyLost == process = "terminated" => dropped /\ caller = "destroyed"

\* A ChatClient that never connected, or whose Disconnect returned, is destroyed
\* safely: only a destructor that meets a worker nobody joined lets it use what
\* is destroyed.
UndefinedOnlyUnjoined ==
  process = "undefined" => joinable /\ (Destroyed \/ caller = "destroyed")

\* The connection is gone and ChatClient::is_connected_ does not know.
Lost == caller = "idle" /\ chat_connected /\ ~tcp_connected

\* ChatClient never recovers from that: no Connect and no Disconnect begins.
LostForGood ==
  [][Lost => chat_connected' /\ caller' \in {"idle", "destroying"}]_connectionVars

\* The end of a connection is reported to the components, and to a program
\* that then exits, whichever thread finds it, but not by a destructor.
EndReported ==
  ended /\ tcp_connected ~>
    \/ IF exits THEN process # "running" ELSE ~enabled
    \/ Destroyed \/ caller = "destroyed"

\* Disconnect and the destructor return, unless the server is silent for ever:
\* only its bytes or its end wake the worker that they wait for.
JoinReturns ==
  \/ []<>(caller \notin {"joining", "awaiting"} \/ process # "running")
  \/ <>[](~pending /\ ~ended)
=============================================================================
