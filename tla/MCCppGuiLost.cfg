SPECIFICATION FairSpec
CONSTANTS
  Pids = {p1}
  None = None
  PostMayFail = TRUE
PROPERTIES AnsweredWindowIsFree
