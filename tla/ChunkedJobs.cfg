SPECIFICATION OneSpec
SYMMETRY Symmetry
CONSTANTS
  f1 = f1
  f2 = f2
  all = all
  sub = sub
  Files = {f1, f2}
  Targets = {all, sub}
  Under <- Nested
  Jobs = {j1, j2}
  BatchSize = 1
  MaxSubmits = 1
  MaxCrashes = 1
  NoFile = NoFile
  BulkFiles <- FourFiles
  Dirs <- TwoDirs
  Top = "target"
  Dir <- DirOf
  Size <- SizeTable
  Strategies <- AllStrategies
  DefaultBatch = 2
  MaxEdits = 2
INVARIANTS CompletedWasSynced PickedIsWiped DoneIsHandled
 
