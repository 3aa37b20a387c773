\* The Indexer may misreport totals and disorder pages.
SPECIFICATION FairCollectorSpec
CONSTANTS
  NumRecords = 3
  PitId = {p1}
  KeepAlive = 2
  Caller = {c1}
  Runner = c1
  Request = {q1}
  Query = q1
  Matches <- MCMatches
  LimitOf <- MCLimitOf
  MaxLimit = 3
  MaxPages = 3
  RequireMultiplePages = TRUE
  FaultyPages = TRUE
  ExactTotals = FALSE
  MaxCursors = 9
  NoPit = NoPit
  NoCursor = NoCursor
INVARIANTS CollectorTypeOK WholeIsComplete PagesJoin
  WholeLeavesNoPit PageBoundNeverReached
PROPERTIES RunTerminates
