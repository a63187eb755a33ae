SPECIFICATION Spec
CONSTANTS
  ChatRequest = {c1, c2}
  ReviewRequest = {r1, r2, r3}
  Text = {t1}
CONSTRAINT
  TwoChatsScope
INVARIANTS
  TypeOK
  CreatedOnce
  SendsAreAudited
  LaterResumeSendsNothing
PROPERTIES
  CompletedIsFinal
  LifecycleSpec
SYMMETRY RequestSymmetry
CHECK_DEADLOCK FALSE
