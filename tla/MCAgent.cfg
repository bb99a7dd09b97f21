SPECIFICATION Spec
CONSTANTS
  a = a
  b = b
  NoValue = NoValue
  IntMax = 8191
  PriorFile = PriorFile
  NoFile = NoFile
  Fanotify = {b}
  Resetting = {b}
  Uploading = {a}
  MaxClock = 1
  Run <- MCRun
  Pid <- MCPid
  Report <- MCReport
  Program <- MCProgram
  ResetDb <- MCResetDb
  UploadEnabled <- MCUploadEnabled
  Events <- MCEvents
  EvaluationOf <- MCEvaluationOf
  LocalTime <- MCLocalTime
  PriorSchemas <- MCPriorSchemas
INVARIANTS
  TypeOK
  EvidenceBeforeReport
  NoOrphanRows
  OnlyLastIncidentPartial
  DoneMeansComplete
  NoDoubleReport
  UploadedWasReceived
  JoinExplainsIncident
PROPERTIES
  OnlyResetDropsRows
  EveryStepCounts
  ImplementsSessions
