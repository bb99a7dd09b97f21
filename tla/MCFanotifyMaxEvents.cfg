SPECIFICATION Spec
CONSTANTS
  f = f
  g = g
  NoFile = NoFile
  WatchedFile <- OneFile
  Pid <- MCPid
  Filtered = FALSE
  MaxImage = 1
  MaxEvents = 1
  Duration = 1
  BufferEvents = 2
  QueueLimit = 2
  MaxNotified = 2
INVARIANTS
  MaxEventsIsMaximum
