SPECIFICATION Spec
CONSTANTS
  j1 = j1
  j2 = j2
  j3 = j3
  Job = {j1, j2, j3}
  SortKey <- MCSortKey
  Proc = {p1}
  NoJob = NoJob
  MaxJobs = 2
  MaxCommands = 6
INVARIANTS
  JobRunOnce
  SummaryIsTrue
PROPERTY
  QueueSpec
