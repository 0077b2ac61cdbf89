SPECIFICATION Spec
CONSTANTS
  r = r
  a = a
  b = b
  f = f
  g = g
  Paths <- Few
  Dirs <- Folders
  Root = r
  Up <- FolderOf
  Walk <- WayTo
  MaxMoves = 3
  MaxEdits = 1
  MaxLoads = 2
  Nothing = Nothing
CHECK_DEADLOCK FALSE
PROPERTY ClearedInLockStep
