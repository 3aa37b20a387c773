SPECIFICATION Spec
CONSTANTS
  DerivedRules <- MCDerivedRules
  AssessmentRules <- MCAssessmentRules
  Default <- MCDefault
  Reported <- MCReported
  Behaviours <- MCBehaviours
  Shipped <- MCShipped
  Incidents = 3
  MaxSaves = 1
INVARIANTS
  TriageTypeOK
  MoreBehaviourNeverLessRisk
  MaliciousNeedsEverySignal
CHECK_DEADLOCK FALSE
