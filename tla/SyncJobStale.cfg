SPECIFICATION Spec
SYMMETRY Symmetry
CONSTANTS
  f1 = f1
  f2 = f2
  all = all
  sub = sub
  Files = {f1, f2}
  Targets = {all, sub}
  Under <- Nested
  Jobs = {j1, j2}
  BatchSize = 1
  MaxSubmits = 1
  MaxCrashes = 1
  NoFile = NoFile
CHECK_DEADLOCK FALSE
PROPERTIES DoneIsUpToDate
