\* True totals: the run implements the bounded read of one snapshot.  Pages of
\* two reach the cap on the second page, a short page reaches the page bound.
SPECIFICATION CollectorSpec
CONSTANTS
  NumRecords = 4
  PitId = {p1}
  KeepAlive = 1
  Caller = {c1}
  Runner = c1
  Request = {q1}
  Query = q1
  Matches <- MCMatches
  LimitOf <- MCLimitOf
  MaxLimit = 3
  MaxPages = 2
  RequireMultiplePages = FALSE
  FaultyPages = TRUE
  ExactTotals = TRUE
  MaxCursors = 2
  NoPit = NoPit
  NoCursor = NoCursor
PROPERTIES ReadsOneSnapshot
