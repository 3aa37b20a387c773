SPECIFICATION Spec
CONSTANTS
  h = h
  g = g
  Worlds <- MCWorlds
  SshNames <- MCSshNames
  MaxRepeats = 1
INVARIANTS
  AssemblyTypeOK
  WholeCallsTold
  NothingInvented
CHECK_DEADLOCK FALSE
