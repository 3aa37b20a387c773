\* Two callers with two requests hand cursors to each other; the Indexer's
\* totals and pages are right.
SPECIFICATION Spec
CONSTANTS
  NumRecords = 3
  PitId = {p1}
  KeepAlive = 2
  Caller = {c1, c2}
  q1 = q1
  q2 = q2
  Request = {q1, q2}
  Matches <- MCMatches
  LimitOf <- MCLimitOf
  MaxLimit = 3
  FaultyPages = FALSE
  ExactTotals = TRUE
  MaxCursors = 2
  NoPit = NoPit
  NoCursor = NoCursor
SYMMETRY MCSymmetry
INVARIANTS TypeOK CursorWithinPit FinalPageExact
