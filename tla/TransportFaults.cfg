\* One caller that may resume, replay and abandon cursors for ever; an Indexer
\* that may skip, repeat and disorder hits and misreport totals.
SPECIFICATION FairSpec
CONSTANTS
  NumRecords = 3
  PitId = {p1}
  KeepAlive = 1
  Caller = {c1}
  q1 = q1
  q2 = q2
  Request = {q1}
  Matches <- MCMatchesAll
  LimitOf <- MCLimitTwo
  MaxLimit = 3
  FaultyPages = TRUE
  ExactTotals = FALSE
  MaxCursors = 3
  NoPit = NoPit
  NoCursor = NoCursor
INVARIANTS CursorAccounting FinalPageExact SuccessReleasesPit
PROPERTIES EndsThroughDeletion AbandonedPitExpires
