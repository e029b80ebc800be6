-------------------------- MODULE MCTargetSelection --------------------------
EXTENDS TargetSelection, TLC

CONSTANTS n1, n2, n3, a1, a2, a3, c1

KeyOf   == n1 :> 1 @@ n2 :> 2 @@ n3 :> 3
ActorOf == n1 :> a1 @@ n2 :> a2 @@ n3 :> a3

\* The memory whose nodes have the parents `up`, each child on the side its key
\* belongs to, and whose character objects hold these ids and coordinates.
OneOf(S) == IF S = {} THEN Header ELSE CHOOSE n \in S : TRUE
Heap(up, ids, near) ==
  [controller |-> c1, manager |-> "manager", header |-> Header,
   root |-> OneOf({n \in Nodes : up[n] = Header}),
   vtable |-> [c \in Controllers |-> TRUE], slot |-> [c \in Controllers |-> NoId],
   key |-> [n \in Nodes |-> KeyOf[n]], actor |-> [n \in Nodes |-> ActorOf[n]],
   left |-> [n \in Nodes |-> OneOf({c \in Nodes : up[c] = n /\ KeyOf[c] < KeyOf[n]})],
   right |-> [n \in Nodes |-> OneOf({c \in Nodes : up[c] = n /\ KeyOf[c] > KeyOf[n]})],
   parent |-> up, id |-> ids, near |-> near, mapped |-> Addresses]

SoundIds  == [a \in Actors |-> CHOOSE i \in 1..3 : \E n \in Nodes : ActorOf[n] = a /\ KeyOf[n] = i]
SoundNear == [a \in Actors |-> TRUE]

\* The parent functions of the search trees over all the nodes.
SearchTrees ==
  {up \in [Nodes -> Nodes \cup {Header}] :
     LET m == Heap(up, SoundIds, SoundNear)
     IN  Below(m, m.root) = Nodes /\ WellFormed(m)}

\* Intact trees with every character where its key says, and the empty tree.
SearchHeaps == {Heap(up, SoundIds, SoundNear) : up \in SearchTrees}
SoundHeaps ==
  SearchHeaps \cup
  {[Heap([n \in Nodes |-> Header], SoundIds, SoundNear) EXCEPT !.root = Header]}

\* And a damaged tree, two nodes of which are each other's parent and child.
DamagedHeaps ==
  SoundHeaps \cup
  {[Heap([n \in Nodes |-> IF n = n1 THEN n2 ELSE n1], SoundIds, SoundNear)
      EXCEPT !.root = n1, !.right = [n \in Nodes |-> IF n = n1 THEN n2 ELSE n1]]}

\* Intact trees whose character objects say anything.
AnyActors ==
  {Heap(up, ids, near) :
     up \in SearchTrees, ids \in [Actors -> Ids], near \in [Actors -> BOOLEAN]}
QuietHeaps == AnyActors \cup DamagedHeaps

\* The tree n1 - n2 with n3 linked to nothing, the damaged tree and the empty one.
Stump         == [n \in Nodes |-> IF n = n1 THEN n2 ELSE IF n = n2 THEN Header ELSE n]
ChangingHeaps == {Heap(Stump, SoundIds, SoundNear)} \cup (DamagedHeaps \ SearchHeaps)
MCHeaps       == QuietHeaps \cup ChangingHeaps
=============================================================================
