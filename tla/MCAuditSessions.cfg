SPECIFICATION Spec
CONSTANTS
  r1 = r1
  r2 = r2
  r3 = r3
  PriorFile = PriorFile
  NoFile = NoFile
  Run <- MCRun
  PriorSchemas <- MCPriorSchemas
  Resets <- MCResets
  MaxRows <- MCMaxRows
SYMMETRY MCSymmetry
INVARIANTS
  InitializedIsCurrent
  RaceHasAWinner
  RowsStayTogether
