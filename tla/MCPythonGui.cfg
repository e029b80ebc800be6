SPECIFICATION FairSpec
CONSTANTS
  Pids = {p1, p2}
  Kinds = 2
  None = None
INVARIANTS TypeOK RowsOfChosenProcess ValuesOfOneReading
PROPERTIES ButtonsComeBack ExitedGameIsLeft
