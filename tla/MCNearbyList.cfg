SPECIFICATION FairSpec
CONSTANTS
  Nodes = {n1, n2, n3}
  Actors = {a1, a2}
  Own = a1
  n1 = n1
  n2 = n2
  n3 = n3
  a1 = a1
  a2 = a2
  Ids = {0, 1, 2}
  Null = Null
  Header = Header
  Heaps <- MCHeaps
  Changing <- ChangingHeaps
  MaxNodes = 2
  MaxListed = 1
  MaxGame = 2
INVARIANTS TypeOK ListedOnceAndSeen OwnNameNotShared
PROPERTIES QuietListIsExact ListingEnds
