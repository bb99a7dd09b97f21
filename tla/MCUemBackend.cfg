SPECIFICATION Spec
CONSTANTS
  t1 = t1
  t2 = t2
  t3 = t3
  low = low
  high = high
  critical = critical
  Thread <- MCThread
  Incident <- MCIncident
  Verdict <- MCVerdict
SYMMETRY MCSymmetry
INVARIANTS
  SummaryCountsWhatStayed
  UndisturbedSummaryAddsUp
  UndisturbedListHasItsCount
