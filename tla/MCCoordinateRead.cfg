CONSTANTS
  PointerMax = 1000000
  UserMax = 1500000
  HostMax = 2000000
  Bases <- MCBases
  Words <- MCWords
  Values <- MCValues
  Images <- MCImages
  Half = 65536
SPECIFICATION Spec
INVARIANTS TypeOK AnswersAreAccepted SuccessFollowedPath AllOrNothing
