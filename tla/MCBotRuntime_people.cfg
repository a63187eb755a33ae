SPECIFICATION FairSpec
CONSTANTS
  Bot = "bot"
  SenderOf <- MCSenderOf
  Message = {"p1", "sg"}
  GroupMessage = {"sg"}
  User = {"ann", "bot"}
  Allowlisted = {"ann"}
  AutoAcceptFriendRequests = TRUE
  RejectNonAllowlistedRequests = TRUE
  Mode = "echo"
  OfflineLimit = 2
  MaxRuns = 2
  MaxPush = 1
  MaxQueue = 2
  Receipt = {}
INVARIANTS
  OnlyFriendsAreAnswered
  FriendCacheCoherent
  AckedOfflineWasProcessed
PROPERTIES
  OwnMessagesAreIgnored
  InHandIsWorkedOff
CHECK_DEADLOCK FALSE
