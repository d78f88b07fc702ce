SPECIFICATION FairSpec
CONSTANTS
  CheckId <- MCCheckId
  SmallChange = 8
  Plans <- MCPlans
  WorkerLimits = {0, 2, 3}
INVARIANTS
  StartedAfterDependencies
  BoundedAndExclusive
  ReportIsComplete
  VerdictSeesEveryResult
PROPERTY
  RunEnds
