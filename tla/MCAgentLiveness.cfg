SPECIFICATION FairSpec
CONSTANTS
  a = a
  b = b
  NoValue = NoValue
  IntMax = 8191
  PriorFile = PriorFile
  NoFile = NoFile
  Fanotify = {}
  Resetting = {b}
  Uploading = {a, b}
  MaxClock = 0
  Run <- MCRun
  Pid <- MCPid
  Report <- MCReport
  Program <- MCProgram
  ResetDb <- MCResetDb
  UploadEnabled <- MCUploadEnabled
  Events <- MCEvents
  EvaluationOf <- MCEvaluationOf
  LocalTime <- MCLocalTime
  PriorSchemas <- MCPriorSchemas
PROPERTIES
  EveryRunEnds
  ImplementsLedger
