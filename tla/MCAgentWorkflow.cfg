SPECIFICATION FairSpec
CONSTANTS
  Chat = {"c1", "c2"}
  talk = talk
  claim = claim
  blank = blank
  group = group
  note = note
  forget = forget
  save = save
  drop = drop
  Message = {talk, claim, blank, group, note, forget, save, drop}
  WordsOf <- MCWordsOf
  Earlier <- Noted
  IdempotencyKey = {"k"}
  PolicyMode = "rule"
  AskOf <- MCAskOf
CONSTRAINT
  InOrder
INVARIANTS
  TypeOK
  StoresAgree
  CachedToolWasDone
  KeptTurnsPassedSafety
  TurnIsKeptWhole
PROPERTIES
  OnlyASaveBringsBack
  ChatEnds
CHECK_DEADLOCK FALSE
