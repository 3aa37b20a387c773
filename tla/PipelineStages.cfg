\* Lists of at most six raw detections from three pools.
SPECIFICATION PipelineSpec
CONSTANTS
  h = h
  g = g
  u = u
  v = v
  a = a
  b = b
  NoProc = NoProc
  MaxList = 6
  Id <- MCId
  Key <- MCKey
  Time <- MCTime
  NoTime = NoTime
  MaxGap <- MCGap
  Worlds <- MCWorlds
  AuthWindow = 2
  PersistenceWindow = 2
  ExecutionWindow = 2
  ParentWindow = 2
  EventAt <- MCEventAt
  NotInput = NotInput
  Handed <- MCHanded
  NoEvents = NoEvents
INVARIANTS
  PipelineTypeOK
  RefusedForEventsOnly
  ReportedOnce
  ChainsAreReal
  ChainsFound
  WindowSpansMembers
CHECK_DEADLOCK FALSE
