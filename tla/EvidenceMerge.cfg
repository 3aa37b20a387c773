SPECIFICATION EvidenceSpec
CONSTANTS
  Inputs <- MCInputs
  ContextLimit = 1
INVARIANTS
  EvidenceTypeOK
  ChainRestsOnIncident
  StatementsAgree
  LessEvidenceClaimsLess
  OthersChangeNothing
PROPERTY EvidenceOnlyGrows
CHECK_DEADLOCK FALSE
