SPECIFICATION FairSpec
CONSTANTS
  Task <- MCTask
  Rank <- MCRank
  Dependencies <- MCDependencies
  Jobs = {0, 2, 3}
  MaxRuns = 2
INVARIANTS
  StartedAfterDependencies
  SequentialRunsReportEverything
  SkippedOnlyBehindFailure
PROPERTIES
  NothingStartsAfterFailFast
  RunEnds
