SPECIFICATION FairSpec
CONSTANTS
  f = f
  g = g
  NoFile = NoFile
  WatchedFile <- OneFile
  Pid <- MCPid
  Filtered = FALSE
  MaxImage = 3
  MaxEvents = 2
  Duration = 1
  BufferEvents = 2
  QueueLimit = 2
  MaxNotified = 2
INVARIANTS
  IdentityIsNotStale
  StableProcessIsIdentified
PROPERTIES
  WatchEnds
