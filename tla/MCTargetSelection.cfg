SPECIFICATION FairSpec
CONSTANTS
  Requests = {r1}
  Controllers = {c1}
  Nodes = {n1, n2, n3}
  Actors = {a1, a2, a3}
  n1 = n1
  n2 = n2
  n3 = n3
  a1 = a1
  a2 = a2
  a3 = a3
  c1 = c1
  Ids = {1, 2, 3, 4}
  Null = Null
  Header = Header
  Heaps <- MCHeaps
  Changing <- ChangingHeaps
  MaxDepth = 2
  MaxGame = 1
INVARIANTS TypeOK
PROPERTIES QuietVerdict SelectionReturns
