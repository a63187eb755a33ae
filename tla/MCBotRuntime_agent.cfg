SPECIFICATION Spec
CONSTANTS
  Bot = "bot"
  SenderOf <- MCSenderOf
  Message = {"p1"}
  GroupMessage = {}
  User = {"ann", "bot"}
  Allowlisted = {}
  AutoAcceptFriendRequests = TRUE
  RejectNonAllowlistedRequests = TRUE
  Mode = "agent"
  OfflineLimit = 1
  MaxRuns = 3
  MaxPush = 2
  MaxQueue = 2
  Receipt = {"p1"}
INVARIANTS
  TypeOK
  SentMeansAccepted
  OneSendPerRun
  RepliesOfThisRunAreOnRecord
PROPERTIES
  NoSendOnceProcessed
  LedgerSpec
CHECK_DEADLOCK FALSE
