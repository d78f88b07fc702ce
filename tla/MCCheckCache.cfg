SPECIFICATION MCSpec
CONSTANTS
  Check = {"lint", "tests"}
  Path <- MCPath
  Content = {"ok", "bad"}
  Outcomes <- MCOutcomes
  MaxRuns = 2
  MaxChanges = 2
INVARIANTS
  FreshUnlessHidden
  RaisesOnlyOverBrokenWrites
CHECK_DEADLOCK FALSE
