SPECIFICATION FairSpec
CONSTANTS
  Requests = {r1}
  Objects = {o1, o2}
  Pids = {p1}
  None = None
  MaxOps = 2
PROPERTIES
  ExitedProcessesAreReclaimed
