SPECIFICATION Spec
CONSTANTS
  j1 = j1
  j2 = j2
  j3 = j3
  Job = {j1, j2}
  SortKey <- MCSortKey
  Proc = {p1, p2}
  NoJob = NoJob
  MaxJobs = 1
  MaxCommands = 3
INVARIANT
  TerminalIsFinal
