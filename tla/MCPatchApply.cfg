SPECIFICATION Spec
CONSTANTS
  Patch = {p1, p2}
  Files = 2
  MaxStarts = 3
INVARIANTS ZeroMeansApplied ReportIsHonest
