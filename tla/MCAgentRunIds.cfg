SPECIFICATION Spec
CONSTANTS
  a = a
  b = b
  NoValue = NoValue
  IntMax = 8191
  PriorFile = PriorFile
  NoFile = NoFile
  Fanotify = {}
  Resetting = {}
  Uploading = {}
  MaxClock = 1
  Run <- MCRun
  Pid <- MCPid
  Report <- MCReport
  Program <- MCProgram
  ResetDb <- MCResetDb
  UploadEnabled <- MCUploadEnabled
  Events <- MCEvents
  EvaluationOf <- MCEvaluationOf
  LocalTime <- MCLocalTime
  PriorSchemas <- MCPriorSchemas
INVARIANTS
  RunIdGroupsRows
