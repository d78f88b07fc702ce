SPECIFICATION FairSpec
CONSTANTS
  j1 = j1
  j2 = j2
  j3 = j3
  Job = {j1, j2}
  SortKey <- MCSortKey
  Proc = {p1, p2}
  NoJob = NoJob
  MaxJobs = 2
  MaxCommands = 3
INVARIANTS
  TypeOK
  SummaryAddsUp
PROPERTY
  CommandEnds
