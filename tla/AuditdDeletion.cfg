SPECIFICATION Spec
CONSTANTS
  h = h
  g = g
  Worlds <- MCDeletions
  SshNames <- MCSshNames
  MaxRepeats = 0
INVARIANT DeletionIsNoWrite
CHECK_DEADLOCK FALSE
