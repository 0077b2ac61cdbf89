SPECIFICATION OneSpec
CONSTANTS
  sync = sync
  submit = submit
  key = key
  quit = quit
  ui = ui
  None = None
  Jobs <- TwoJobs
  Commands = {key}
  Chunks <- TwoJobChunks
  Flaky = {sync}
  Cancellable = {sync}
  SubmitJobs = {submit}
  Stoppers = {quit, ui}
  UIThread = ui
  MaxAttempts = 4
  MaxOutages = 5
  Files = {f, g}
  Mergers = {m1, m2}
  Cases <- TwoCases
  MaxAsked = 3
  Nothing = Nothing
INVARIANTS StopReachesQueued LogIsTruthful LostAckIsSuccess MarkersAreTemporary MergeIsWhatWasChosen
PROPERTIES BoundedOvertaking QueuedJobsEnd WorkerExits ImplementsChunkedExecution ChunkEnds
