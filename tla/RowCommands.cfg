SPECIFICATION Spec
CONSTANTS
  Numbered = {a, b}
  Default = Default
  NoChange = NoChange
  MaxAsked = 2
  MaxScreens = 2
  MaxElsewhere = 1
SYMMETRY Renumbered
INVARIANTS RemoteIsSpared  
CHECK_DEADLOCK FALSE
