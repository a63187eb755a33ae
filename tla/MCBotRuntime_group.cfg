SPECIFICATION Spec
CONSTANTS
  Bot = "bot"
  SenderOf <- MCSenderOf
  Message = {"g1"}
  GroupMessage = {"g1"}
  User = {"ann", "bot"}
  Allowlisted = {"ann"}
  AutoAcceptFriendRequests = TRUE
  RejectNonAllowlistedRequests = TRUE
  Mode = "agent"
  OfflineLimit = 1
  MaxRuns = 2
  MaxPush = 1
  MaxQueue = 2
  Receipt = {}
INVARIANTS
  GroupMessagesAreOnlyRecorded
CHECK_DEADLOCK FALSE
