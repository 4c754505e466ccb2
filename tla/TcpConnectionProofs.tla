------------------------- MODULE TcpConnectionProofs -------------------------
(***************************************************************************)
(* The invariants of TcpConnection and the action property of ChatClient,  *)
(* in every order in which the two threads may take their steps.           *)
(***************************************************************************)
EXTENDS TcpConnection, TLAPS

\* ConnectionTypeOK, one variable at a time.
Typed ==
  /\ caller \in Caller /\ worker \in Worker
  /\ process \in {"running", "exited", "terminated", "undefined"}
  /\ tcp_connected \in BOOLEAN /\ chat_connected \in BOOLEAN
  /\ joinable \in BOOLEAN /\ pending \in BOOLEAN /\ ended \in BOOLEAN
  /\ enabled \in BOOLEAN /\ exits \in BOOLEAN
  /\ dropped \in BOOLEAN /\ overtaken \in BOOLEAN
  /\ closes \in {0, 1, 2}

\* The caller is between calls, or about to destroy the TcpClient.
AtRest == caller \in {"idle", "destroying"}

\* The caller is where the worker of a connection exists.
Open ==
  \/ caller \in {"connected", "returning", "clearing"}
  \/ AtRest /\ chat_connected

\* The caller has told the worker to end and waits for it.
Waiting == caller \in {"joining", "awaiting"}

\* The worker has told the components that it gave the connection up.
Reported == dropped /\ worker \in {"looping", "done"}

\* How far the worker is with giving the connection up decides whether the
\* socket is open.
WorkerInv ==
  /\ joinable <=> worker # "none"
  /\ Open \/ Waiting =>
       /\ worker # "none"
       /\ dropped => worker \notin {"selecting", "dropping"}
       /\ ~dropped => worker \notin {"closing", "reporting"}
       /\ closes = IF dropped /\ worker # "closing" THEN 1 ELSE 0

\* is_connected_ of the TcpClient, at each place of the caller.
FlagsInv ==
  /\ Open => (tcp_connected <=> ~dropped) /\ (worker = "done" => dropped)
  /\ caller = "starting" =>
       tcp_connected /\ worker = "none" /\ closes = 0 /\ ~dropped
  /\ Waiting => ~tcp_connected
  /\ caller \in {"closing", "reporting", "forgetting"} =>
       ~tcp_connected /\ worker = "none"
  /\ caller = "closing" => closes = IF dropped THEN 1 ELSE 0
  /\ caller \in {"reporting", "forgetting", "destroyed"} =>
       (closes = 2 => dropped)
  /\ caller \in {"reporting", "forgetting"} => closes > 0
  /\ AtRest /\ ~chat_connected =>
       ~tcp_connected /\ worker = "none" /\ closes > 0 /\ (closes = 2 => dropped)
  /\ caller = "destroyed" /\ process = "running" => worker = "none"
  /\ caller \in {"starting", "connected", "returning"} => ~chat_connected
  /\ caller \in {"clearing", "joining"} => chat_connected

\* When the user is enabled.
EnabledInv ==
  /\ caller \in {"starting", "connected", "forgetting"} => ~enabled
  /\ caller = "idle" /\ ~chat_connected => ~enabled
  /\ Open /\ caller \notin {"connected", "destroying"} /\ ~Reported => enabled
  /\ caller = "connected" /\ Reported => overtaken
  /\ Open /\ caller \notin {"connected", "destroying"} /\ Reported => ~enabled \/ overtaken

ConnectionInv ==
  /\ Typed /\ WorkerInv /\ FlagsInv /\ EnabledInv
  /\ TerminatesOnlyLost /\ UndefinedOnlyUnjoined

LEMMA InitHolds == ConnectionInit => ConnectionInv
<1> SUFFICES ASSUME ConnectionInit PROVE ConnectionInv
  OBVIOUS
<1> USE DEF ConnectionInit, AtRest, Open, Waiting, Reported
<1>1. Typed
  BY DEF Typed, Caller, Worker
<1>2. WorkerInv
  BY DEF WorkerInv
<1>3. FlagsInv
  BY DEF FlagsInv
<1>4. EnabledInv
  BY DEF EnabledInv
<1>5. TerminatesOnlyLost /\ UndefinedOnlyUnjoined
  BY DEF TerminatesOnlyLost, UndefinedOnlyUnjoined
<1> QED
  BY <1>1, <1>2, <1>3, <1>4, <1>5 DEF ConnectionInv

\* The actions of the calling thread.
LEMMA CallerPreserves ==
  ConnectionInv /\ (CallerBegins \/ CallerGoesOn) => ConnectionInv'
<1> SUFFICES ASSUME ConnectionInv, CallerBegins \/ CallerGoesOn
             PROVE  ConnectionInv'
  OBVIOUS
<1> USE DEF ConnectionInv, Typed, WorkerInv, FlagsInv, EnabledInv,
            TerminatesOnlyLost, UndefinedOnlyUnjoined, Destroyed, AtRest,
            Open, Waiting, Reported, Caller, Worker, Goes,
            socketVars, historyVars
<1>1. CASE Connect
  BY <1>1 DEF Connect, MayConnect
<1>2. CASE Disconnect
  BY <1>2 DEF Disconnect
<1>3. CASE DestroyUnconnected
  BY <1>3 DEF DestroyUnconnected
<1>4. CASE Destroy
  BY <1>4 DEF Destroy
<1>14. CASE DestroyConnected
  BY <1>14 DEF DestroyConnected
<1>5. CASE StartWorker
  BY <1>5 DEF StartWorker
<1>6. CASE RaiseOnConnected
  BY <1>6 DEF RaiseOnConnected
<1>7. CASE ConnectReturns
  BY <1>7 DEF ConnectReturns
<1>8. CASE ClearConnected
  <2> USE <1>8 DEF ClearConnected
  <2>1. Typed'
    OBVIOUS
  <2>2. WorkerInv'
    OBVIOUS
  <2>3. FlagsInv'
    BY DEF FlagsInv
  <2>4. EnabledInv'
    BY DEF EnabledInv
  <2>5. TerminatesOnlyLost' /\ UndefinedOnlyUnjoined'
    OBVIOUS
  <2> QED
    BY <2>1, <2>2, <2>3, <2>4, <2>5
<1>9. CASE Join
  BY <1>9 DEF Join
<1>10. CASE CloseSocket
  BY <1>10 DEF CloseSocket
<1>11. CASE RaiseOnDisconnected
  BY <1>11 DEF RaiseOnDisconnected
<1>12. CASE DisconnectReturns
  BY <1>12 DEF DisconnectReturns
<1>13. CASE DestroyJoined
  <2>0. closes' \in {0, 1, 2}
    BY <1>13 DEF DestroyJoined
  <2>1. Typed'
    BY <1>13, <2>0 DEF DestroyJoined
  <2>2. WorkerInv'
    BY <1>13 DEF DestroyJoined
  <2>3. FlagsInv'
    BY <1>13 DEF DestroyJoined
  <2>4. EnabledInv'
    BY <1>13 DEF DestroyJoined
  <2>5. TerminatesOnlyLost' /\ UndefinedOnlyUnjoined'
    BY <1>13 DEF DestroyJoined
  <2> QED
    BY <2>1, <2>2, <2>3, <2>4, <2>5
<1> QED
  BY <1>1, <1>2, <1>3, <1>4, <1>5, <1>6, <1>7, <1>8, <1>9, <1>10, <1>11, <1>12,
     <1>13, <1>14 DEF CallerBegins, CallerGoesOn

\* The actions of the worker thread.
LEMMA WorkerPreserves == ConnectionInv /\ WorkerGoesOn => ConnectionInv'
<1> SUFFICES ASSUME ConnectionInv, WorkerGoesOn PROVE ConnectionInv'
  OBVIOUS
<1> USE DEF ConnectionInv, Typed, WorkerInv, FlagsInv, EnabledInv,
            TerminatesOnlyLost, UndefinedOnlyUnjoined, Destroyed, AtRest,
            Open, Waiting, Reported, Caller, Worker, Runs,
            socketVars, historyVars
<1>1. CASE WorkerLoops
  BY <1>1 DEF WorkerLoops
<1>2. CASE WorkerReceives
  BY <1>2 DEF WorkerReceives
<1>3. CASE WorkerSeesEnd
  BY <1>3 DEF WorkerSeesEnd
<1>4. CASE WorkerDrops
  BY <1>4 DEF WorkerDrops
<1>5. CASE WorkerCloses
  BY <1>5 DEF WorkerCloses
<1>6. CASE WorkerReports
  BY <1>6 DEF WorkerReports
<1> QED
  BY <1>1, <1>2, <1>3, <1>4, <1>5, <1>6 DEF WorkerGoesOn

LEMMA StepPreserves ==
  ConnectionInv /\ [ConnectionNext]_connectionVars => ConnectionInv'
<1>1. ASSUME ConnectionInv, PeerSends \/ PeerEnds
      PROVE  ConnectionInv'
  <2> USE <1>1 DEF ConnectionInv, Typed, WorkerInv, FlagsInv, EnabledInv,
                   TerminatesOnlyLost, UndefinedOnlyUnjoined, Destroyed,
                   AtRest, Open, Waiting, Reported
  <2>1. Typed'
    BY DEF PeerSends, PeerEnds, historyVars
  <2>2. WorkerInv'
    BY DEF PeerSends, PeerEnds, historyVars
  <2>3. FlagsInv'
    BY DEF PeerSends, PeerEnds, historyVars
  <2>4. EnabledInv'
    BY DEF PeerSends, PeerEnds, historyVars
  <2>5. TerminatesOnlyLost' /\ UndefinedOnlyUnjoined'
    BY DEF PeerSends, PeerEnds, historyVars
  <2> QED
    BY <2>1, <2>2, <2>3, <2>4, <2>5
<1>2. ConnectionInv /\ UNCHANGED connectionVars => ConnectionInv'
  BY DEF connectionVars, ConnectionInv, Typed, WorkerInv, FlagsInv,
         EnabledInv, TerminatesOnlyLost, UndefinedOnlyUnjoined, Destroyed,
         AtRest, Open, Waiting, Reported
<1> QED
  BY <1>1, <1>2, CallerPreserves, WorkerPreserves DEF ConnectionNext

LEMMA Invariance == ConnectionSpec => []ConnectionInv
  BY InitHolds, StepPreserves, PTL DEF ConnectionSpec

\* Every variable keeps its type; no socket is closed more than twice.
THEOREM ConnectionTypeCorrect == ConnectionSpec => []ConnectionTypeOK
<1>1. ConnectionInv => ConnectionTypeOK
  BY DEF ConnectionInv, Typed, ConnectionTypeOK
<1> QED
  BY <1>1, Invariance, PTL

\* Between calls the socket is open exactly while is_connected_ is set, and
\* it is closed twice only after the worker gave the connection up.
THEOREM SocketAlwaysAccounted == ConnectionSpec => []SocketAccounted
<1>1. ConnectionInv => SocketAccounted
  BY DEF ConnectionInv, Typed, WorkerInv, FlagsInv, SocketAccounted,
         Quiet, AtRest, Open, Waiting, Caller
<1> QED
  BY <1>1, Invariance, PTL

\* Between calls the user is enabled exactly while there is a connection, but
\* when OnDisconnected overtook OnConnected.
THEOREM EnabledAgrees == ConnectionSpec => []EnabledWhileConnected
<1>1. ConnectionInv => EnabledWhileConnected
  BY DEF ConnectionInv, Typed, WorkerInv, FlagsInv, EnabledInv,
         EnabledWhileConnected, Quiet, AtRest, Open, Waiting, Reported
<1> QED
  BY <1>1, Invariance, PTL

\* Connect never assigns to the handle of a thread that was not joined, and the
\* destructor ends the program only after the worker gave the connection up.
THEOREM TerminationNeedsLoss == ConnectionSpec => []TerminatesOnlyLost
<1>1. ConnectionInv => TerminatesOnlyLost
  BY DEF ConnectionInv
<1> QED
  BY <1>1, Invariance, PTL

\* A ChatClient that never connected, or that disconnected, is destroyed safely:
\* only a worker that nobody joined can find its members destroyed.
THEOREM UndefinedNeedsWorker == ConnectionSpec => []UndefinedOnlyUnjoined
<1>1. ConnectionInv => UndefinedOnlyUnjoined
  BY DEF ConnectionInv
<1> QED
  BY <1>1, Invariance, PTL

\* A ChatClient whose connection the worker gave up never connects nor
\* disconnects again: its own flag stays set.
THEOREM LostStaysLost == ConnectionSpec => LostForGood
<1>1. [ConnectionNext]_connectionVars =>
        [Lost => chat_connected' /\ caller' \in {"idle", "destroying"}]_connectionVars
  BY DEF ConnectionNext, CallerBegins, CallerGoesOn, WorkerGoesOn, Lost, Goes, Runs,
         Connect, MayConnect, Disconnect, DestroyUnconnected, Destroy, StartWorker,
         RaiseOnConnected, ConnectReturns, ClearConnected, Join, CloseSocket,
         RaiseOnDisconnected, DisconnectReturns, DestroyConnected, DestroyJoined, WorkerLoops,
         WorkerReceives, WorkerSeesEnd, WorkerDrops, WorkerCloses, WorkerReports,
         PeerSends, PeerEnds, connectionVars
<1> QED
  BY <1>1, PTL DEF ConnectionSpec, LostForGood
=============================================================================
