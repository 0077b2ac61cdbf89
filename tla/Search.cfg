SPECIFICATION OneSpec
CONSTANTS
  f1 = f1
  f2 = f2
  f3 = f3
  c1 = c1
  Files <- ThreeFiles
  Row <- ThreeRows
  Logs <- OneLog
  Log <- LogRow
  Typos <- TwoEdits
  Queries <- Asked
  Contents <- Found
  Tiers <- OneOrTwo
  CacheSize = 2
  MaxMoves = 3
  MaxFails = 1
  MaxWorkers = 2
  Empty = Empty
  Nothing = Nothing
  a = a
  b = b
  A = A
  B = B
  Indexed = {a, b}
  Subdirs = {A, B}
  Dir <- DirOf
  Rank <- PathOrder
  PageSize = 1
  MaxPages = 2
  Jobs = {1, 2}
  MaxChange = 2
  NoState = NoState
CHECK_DEADLOCK FALSE
INVARIANTS   ResultsFollowQuery PreviewFollowsCursor
