SPECIFICATION FairSpec
CONSTANTS
  User = {"u1"}
  MaxRequests = 3
  MaxFaults = 3
INVARIANTS
  TypeOK
  OwnResponseOnly
  PendingIsAwaited
  NobodyWaitsDisconnected
  StoppedIsQuiet
PROPERTIES
  StopTerminates
  SilentServerIsNoticed
  LoggedInAgain
CHECK_DEADLOCK FALSE
