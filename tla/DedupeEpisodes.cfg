\* Three detections, every assignment of keys and timestamps.
SPECIFICATION DedupeSpec
CONSTANTS
  Id = {1, 2, 3}
  Wide = Wide
  Narrow = Narrow
  LastInstant = 2
  Key <- MCKey
  Time <- MCTime
  NoTime = NoTime
  MaxGap <- MCGap
INVARIANTS
  EachReferenceOnce
  OnePerEpisode
  PlacedAtAMember
  RevalidationAccepts
CHECK_DEADLOCK FALSE
