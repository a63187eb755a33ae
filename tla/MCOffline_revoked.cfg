SPECIFICATION Spec
CHECK_DEADLOCK FALSE
CONSTANTS
  Text <- MCText
  Noise = {"12:30"}
  Private = {"call 138", "tel 138"}
  Spoilt = {"tel 138"}
  Persona = {"p"}
  Consent = {"c"}
  Export <- MCExport
  Reply = {1}
  Answer = {"haha"}
  Process = {"service", "eval"}
  MinSamples = 2
  TopK = 2
  PairTopK = 1
  MaxImports = 1
  Torn = {1}
  Case <- MCCase
  Expecting = {"style"}
  Workers = {2}
  MaxEvals = 1
INVARIANT
  RevokedIsNotRetrieved
