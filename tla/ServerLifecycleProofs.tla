------------------------ MODULE ServerLifecycleProofs ------------------------
(***************************************************************************)
(* The invariants of ServerLifecycle, for every set of connections.        *)
(***************************************************************************)
EXTENDS ServerLifecycle, TLAPS

\* The worker is between the start of its thread and the end of worker_loop.
WorkerLives == worker \in {"looping", "selecting", "accepting", "serving"}

\* A thread handle refers to the worker exactly while there is one, and the
\* worker ends only after it was told to.
ThreadInv ==
  /\ joinable <=> worker # "none"
  /\ tcp_listening => listening /\ (WorkerLives \/ caller = "starting")

\* What each place of the calling thread may rely on.
FlagsAgree ==
  /\ caller \in {"idle", "destroying"} =>
       /\ tcp_listening = chat_listening
       /\ ~tcp_listening => worker = "none" /\ ~listening
  /\ caller = "starting" => tcp_listening /\ worker = "none"
  /\ caller = "started" => tcp_listening
  /\ caller \in {"joining", "awaiting"} => ~tcp_listening /\ worker # "none"
  /\ caller \in {"deleting", "removing", "stopping"} =>
       ~tcp_listening /\ ~listening /\ worker = "none"

TablesInv ==
  /\ caller \in {"idle", "starting", "started", "joining", "deleting"} =>
       accepted = clients /\ clients = users
  /\ caller \in {"idle", "starting"} /\ ~chat_listening => users = {}
  /\ caller = "removing" => accepted = {}
  /\ caller = "stopping" => accepted = {} /\ clients = {}

LifecycleInv ==
  /\ LifecycleTypeOK
  /\ process = "running" => ThreadInv /\ FlagsAgree /\ TablesInv
  /\ UndefinedOnlyWithClients

LEMMA InitHolds == LifecycleInit => LifecycleInv
<1>1. <<>> \in Seq(Client)
  OBVIOUS
<1> QED
  BY <1>1 DEF LifecycleInit, LifecycleInv, LifecycleTypeOK, ThreadInv, FlagsAgree,
         TablesInv, UndefinedOnlyWithClients, WorkerLives, Connection

\* The actions of the calling thread.
LEMMA CallerPreserves ==
  LifecycleInv /\ (CallerBegins \/ CallerGoesOn) => LifecycleInv'
<1> SUFFICES ASSUME LifecycleInv, CallerBegins \/ CallerGoesOn
             PROVE  LifecycleInv'
  OBVIOUS
<1> USE DEF LifecycleInv, LifecycleTypeOK, ThreadInv, FlagsAgree, TablesInv,
            UndefinedOnlyWithClients, WorkerLives, Connection, Goes, peerVars,
            tableVars, flagVars, threadVars
<1>1. CASE Start
  BY <1>1 DEF Start
<1>2. CASE StartWorker
  BY <1>2 DEF StartWorker
<1>3. CASE StartReturns
  BY <1>3 DEF StartReturns
<1>4. CASE Stop
  BY <1>4 DEF Stop
<1>5. CASE CloseListener
  <2>1. <<>> \in Seq(Client)
    OBVIOUS
  <2> QED
    BY <2>1, <1>5 DEF CloseListener, Joined
<1>6. CASE DeleteClients
  BY <1>6 DEF DeleteClients
<1>7. CASE RemoveClients
  BY <1>7 DEF RemoveClients
<1>8. CASE StopReturns
  BY <1>8 DEF StopReturns
<1>9. CASE Destroy
  BY <1>9 DEF Destroy
<1>10. CASE DestroyStopped
  BY <1>10 DEF DestroyStopped
<1>11. CASE DestroyListening
  BY <1>11 DEF DestroyListening
<1>12. CASE DestroyJoined
  <2>1. <<>> \in Seq(Client)
    OBVIOUS
  <2> QED
    BY <2>1, <1>12 DEF DestroyJoined, Joined
<1> QED
  BY <1>1, <1>2, <1>3, <1>4, <1>5, <1>6, <1>7, <1>8, <1>9, <1>10, <1>11, <1>12
  DEF CallerBegins, CallerGoesOn

\* The actions of the worker thread.
LEMMA WorkerPreserves == LifecycleInv /\ WorkerGoesOn => LifecycleInv'
<1> SUFFICES ASSUME LifecycleInv, WorkerGoesOn PROVE LifecycleInv'
  OBVIOUS
<1> USE DEF LifecycleInv, LifecycleTypeOK, ThreadInv, FlagsAgree, TablesInv,
            UndefinedOnlyWithClients, WorkerLives, Connection, Runs, peerVars,
            tableVars, flagVars, threadVars
<1>1. CASE WorkerLoops
  BY <1>1 DEF WorkerLoops
<1>2. CASE WorkerSelects
  BY <1>2 DEF WorkerSelects
<1>3. CASE WorkerAccepts
  <2>1. CASE Listener \in readable /\ knocking # <<>>
    <3>1. Head(knocking) \in Client /\ Tail(knocking) \in Seq(Client)
      BY <2>1
    <3> QED
      BY <1>3, <2>1, <3>1 DEF WorkerAccepts, Callback
  <2>2. CASE ~(Listener \in readable /\ knocking # <<>>)
    BY <1>3, <2>2 DEF WorkerAccepts
  <2> QED
    BY <2>1, <2>2
<1>4. CASE WorkerHandles
  BY <1>4 DEF WorkerHandles, Callback
<1>5. CASE WorkerDrops
  BY <1>5 DEF WorkerDrops, Callback
<1>6. CASE WorkerServed
  BY <1>6 DEF WorkerServed
<1> QED
  BY <1>1, <1>2, <1>3, <1>4, <1>5, <1>6 DEF WorkerGoesOn

\* The actions of the clients.
LEMMA PeersPreserve ==
  LifecycleInv /\ (PeerConnects \/ PeerActs) => LifecycleInv'
  BY DEF PeerConnects, PeerActs, LifecycleInv, LifecycleTypeOK, ThreadInv,
         FlagsAgree, TablesInv, UndefinedOnlyWithClients, WorkerLives, Connection,
         peerVars, tableVars, flagVars, threadVars

LEMMA StepPreserves ==
  LifecycleInv /\ [LifecycleNext]_lifecycleVars => LifecycleInv'
<1>1. LifecycleInv /\ UNCHANGED lifecycleVars => LifecycleInv'
  BY DEF lifecycleVars, LifecycleInv, LifecycleTypeOK, ThreadInv, FlagsAgree,
         TablesInv, UndefinedOnlyWithClients, WorkerLives, Connection
<1> QED
  BY <1>1, CallerPreserves, WorkerPreserves, PeersPreserve DEF LifecycleNext

LEMMA Invariance == LifecycleSpec => []LifecycleInv
  BY InitHolds, StepPreserves, PTL DEF LifecycleSpec

\* Every variable keeps its type, and only accepted connections are read from:
\* nothing waits on the socket of a TcpClient that was deleted.
THEOREM LifecycleTypeCorrect == LifecycleSpec => []LifecycleTypeOK
<1>1. LifecycleInv => LifecycleTypeOK
  BY DEF LifecycleInv
<1> QED
  BY <1>1, Invariance, PTL

\* TcpServer, ChatServer and the components know the same connections between
\* calls, and Stop leaves nothing behind: neither a connection nor a thread.
THEOREM TablesAlwaysAgree == LifecycleSpec => []TablesAgree
<1>1. LifecycleInv => TablesAgree
  BY DEF LifecycleInv, TablesAgree, TablesInv, ThreadInv, FlagsAgree,
         UndefinedOnlyWithClients
<1> QED
  BY <1>1, Invariance, PTL

\* Undefined behaviour takes a Stop with clients connected or a destructor
\* that meets a running worker; the thread handle never ends the program.
THEOREM UndefinedNeedsClients == LifecycleSpec => []UndefinedOnlyWithClients
<1>1. LifecycleInv => UndefinedOnlyWithClients
  BY DEF LifecycleInv
<1> QED
  BY <1>1, Invariance, PTL
=============================================================================
