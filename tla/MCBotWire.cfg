SPECIFICATION Spec
CONSTANTS
  MaxBodyLength = 60
  MaxValueLength = 4
  BadUtf8 = 255
  Packet <- MCPacket
  ForeignHeader <- MCForeign
  ReadSize = 14
  MaxPackets = 2
  MaxConnections = 2
  Answer <- MCAnswer
  Account <- MCAccount
  ReplyText <- MCReplyText
  ClientId <- MCClientId
  PageLimit = 2
INVARIANTS
  ReadIsWhatWasSent
  RequestsSayWhatIsMeant
PROPERTIES
  ChannelSpec
  EverythingArrives
CHECK_DEADLOCK FALSE
