SPECIFICATION EvidenceSpec
CONSTANTS
  Inputs <- MCOtherHosts
  ContextLimit = 1
INVARIANTS
  UnrelatedAuditdChangesNothing
CHECK_DEADLOCK FALSE
