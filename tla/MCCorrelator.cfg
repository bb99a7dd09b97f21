SPECIFICATION Spec
CONSTANTS
  NoValue = NoValue
  IntMax = 8191
  Policies <- MCPolicies
  EventFiles <- MCEventFiles
INVARIANTS
  GroupingIsExact
  ScoreIsExplained
  AggregateMatchesIncidents
  NumberingIsExact
  VerdictNotBelowItsEvents
  StoredRowsExplainMatches
  DemoScenario
