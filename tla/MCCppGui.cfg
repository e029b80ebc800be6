SPECIFICATION FairSpec
CONSTANTS
  Pids = {p1, p2}
  None = None
  PostMayFail = FALSE
INVARIANTS TypeOK ShownMatchesSettings ShownIsOneAnswer NeverTerminates
PROPERTIES AnsweredWindowIsFree
