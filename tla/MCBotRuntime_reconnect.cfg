SPECIFICATION FairSpec
CONSTANTS
  Bot = "bot"
  SenderOf <- MCSenderOf
  Message = {"p1"}
  GroupMessage = {}
  User = {"ann", "bot"}
  Allowlisted = {"ann"}
  AutoAcceptFriendRequests = TRUE
  RejectNonAllowlistedRequests = TRUE
  Mode = "agent"
  OfflineLimit = 1
  MaxRuns = 2
  MaxPush = 2
  MaxQueue = 2
  Receipt = {}
PROPERTIES
  LostConnectionIsRestored
CHECK_DEADLOCK FALSE
