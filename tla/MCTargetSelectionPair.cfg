SPECIFICATION Spec
CONSTANTS
  Requests = {r1, r2}
  Controllers = {c1, c2}
  Nodes = {n1, n2}
  Actors = {a1, a2}
  n1 = n1
  n2 = n2
  n3 = n3
  a1 = a1
  a2 = a2
  a3 = a3
  c1 = c1
  Ids = {1, 2}
  Null = Null
  Header = Header
  Heaps <- SoundHeaps
  Changing <- SoundHeaps
  MaxDepth = 2
  MaxGame = 1
PROPERTIES ImplementsTargetMark
