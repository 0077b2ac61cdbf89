SPECIFICATION PanesSpec
CONSTANTS
  Changes <- TwoChanges
  Remote <- FirstRemote
  Views <- AllOrLocal
  MaxEvents = 1
  Loaders = {l1, l2}
  InOrder = TRUE
  MaxEdits = 1
  MaxMoves = 2
  MaxDetails = 2
  Nothing = Nothing
  DisabledPages <- OnePage
  SkipEmpty = TRUE
  NoPage = NoPage
CHECK_DEADLOCK FALSE
 
PROPERTIES SelectionStays TableCatchesUp
