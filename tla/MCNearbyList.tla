---------------------------- MODULE MCNearbyList ----------------------------
EXTENDS NearbyList, TLC

CONSTANTS n1, n2, n3, a1, a2

\* A memory whose root is n1, with these links, without characters.
Bare(left, right, parent) ==
  [manager |-> "manager", header |-> Header, root |-> n1,
   left |-> left, right |-> right, parent |-> parent,
   key |-> [n \in Nodes |-> IF n = n1 THEN 1 ELSE 2],
   actor |-> [n \in Nodes |-> IF n = n1 THEN a1 ELSE a2],
   id |-> [a \in Actors |-> IF a = a1 THEN 1 ELSE 2], near |-> [a \in Actors |-> TRUE],
   name |-> [a \in Actors |-> IF a = Own THEN "empty" ELSE "text"],
   ownText |-> TRUE, mapped |-> Addresses]

\* Every way to link two nodes: trees, cycles, shared and detached nodes.
Two == Nodes \ {n3}
Alone(f) == f @@ [n \in Nodes |-> Header]
AllShapes ==
  {Bare(Alone(l), Alone(r), Alone(p)) :
     l \in [Two -> Links \ {n3}], r \in [Two -> Links \ {n3}], p \in [Two -> Two \cup {Header}]}

\* One node above the others.
Fork == Bare([n \in Nodes |-> IF n = n1 THEN n2 ELSE Header],
             [n \in Nodes |-> IF n = n1 /\ n3 \in Nodes THEN n3 ELSE Header],
             [n \in Nodes |-> IF n = n1 THEN Header ELSE n1])

\* The same, with a third node that only the game links.
Detached == [Fork EXCEPT !.right = [n \in Nodes |-> Header]]

\* Every content of its nodes and objects.
AllContents ==
  {[Detached EXCEPT !.key = k @@ @, !.actor = o @@ @, !.id = i, !.near = near, !.name = name,
                !.ownText = own] :
     k \in [Two -> Ids], o \in [Two -> Actors \cup {Null}], i \in [Actors -> Ids],
     near \in [Actors -> BOOLEAN], name \in {f \in [Actors -> NameKinds] : \A a \in Actors : f[a] \in NameOf(a)},
     own \in BOOLEAN}

\* A ring: the second node links back to the first, which names it as its parent.
Ring == Bare([n \in Nodes |-> IF n = n1 THEN n2 ELSE n1], [n \in Nodes |-> Header],
             [n \in Nodes |-> IF n = n1 THEN n2 ELSE n1])
ChangingHeaps == {Fork, Detached, Ring}
\* A chain whose middle node is not there, so that the last one is out of the tree.
Chain == Bare([n \in Nodes |-> IF n = n1 THEN n2 ELSE IF n = n2 THEN n3 ELSE Header],
              [n \in Nodes |-> Header],
              [n \in Nodes |-> IF n = n1 THEN Header ELSE IF n = n2 THEN n1 ELSE n2])
Gap   == [Chain EXCEPT !.mapped = @ \ {n2}]
\* A tree without a node, and one that is not there yet.
EmptyHeaps    == {[Fork EXCEPT !.root = Header], [Fork EXCEPT !.root = Null]}
MCHeaps       == AllShapes \cup AllContents \cup EmptyHeaps \cup ChangingHeaps \cup {Gap}
ForkOnly      == {Fork}
=============================================================================
