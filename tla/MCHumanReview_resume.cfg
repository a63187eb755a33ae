SPECIFICATION Spec
CONSTANTS
  ChatRequest = {c1}
  ReviewRequest = {r1, r2, r3}
  Text = {t1}
INVARIANTS
  RepeatedResumeDoesNotSendAgain
SYMMETRY RequestSymmetry
CHECK_DEADLOCK FALSE
