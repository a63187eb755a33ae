SPECIFICATION Spec
CONSTANTS
  Bot = "bot"
  SenderOf <- MCSenderOf
  Message = {"p1"}
  GroupMessage = {}
  User = {"ann", "bot"}
  Allowlisted = {"ann"}
  AutoAcceptFriendRequests = TRUE
  RejectNonAllowlistedRequests = TRUE
  Mode = "agent"
  OfflineLimit = 1
  MaxRuns = 2
  MaxPush = 1
  MaxQueue = 2
  Receipt = {}
INVARIANTS
  RepliesAreIdempotent
CHECK_DEADLOCK FALSE
