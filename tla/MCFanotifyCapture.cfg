SPECIFICATION Spec
CONSTANTS
  f = f
  g = g
  NoFile = NoFile
  WatchedFile <- MCWatchedFile
  Pid <- OnePid
  Filtered = TRUE
  MaxImage = 1
  MaxEvents = 2
  Duration = 1
  BufferEvents = 2
  QueueLimit = 2
  MaxNotified = 4
INVARIANTS
  CapturedIsBounded
  NoDescriptorLeak
  EachReportedOnce
  OnlyExcusedAreMissing
PROPERTIES
  ImplementsAccessReport
