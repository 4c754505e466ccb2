SPECIFICATION LifecycleSpec
CONSTANT Client = {c1, c2, c3}
INVARIANTS LifecycleTypeOK TablesAgree UndefinedOnlyWithClients
PROPERTIES StopReturnsOrSilence ConnectionsAccepted
CHECK_DEADLOCK FALSE
