SPECIFICATION ConnectionSpec
INVARIANTS ConnectionTypeOK SocketAccounted EnabledWhileConnected TerminatesOnlyLost UndefinedOnlyUnjoined
PROPERTIES LostForGood EndReported JoinReturns
CHECK_DEADLOCK FALSE
