SPECIFICATION OneSpec
SYMMETRY Symmetry
CONSTANTS
  Files = {f, g}
  Changes <- TwoChanges
  Slots = {s1, s2}
  MaxTasks = 3
  NotOpen = NotOpen
  Default = Default
  Shared = {f, g}
  Tracks = {s1, s2, s3}
  Finalizers = {quit, unmount}
  Numbers = {c1, c2}
  None = None
INVARIANTS OneChangelist
PROPERTIES UncheckedStayOut RevertSparesMoved RecordedIsSubmitted
