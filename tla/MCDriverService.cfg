SPECIFICATION FairSpec
CONSTANTS
  Clients = {c1}
  Starters = {s1, s2}
  MaxPolls = 2
INVARIANTS TypeOK NoDanglingLink StoppedLeavesNothing RecordTellsOutcome
PROPERTIES HintIsHonest StartCallsReturn StopCompletes
