--------------------------- MODULE NearbyListProofs ---------------------------
(***************************************************************************)
(* For any tree, any characters and any number of changes made by the game *)
(* under the walk: the types and bounds of NearbyList, that no character   *)
(* is listed twice or unseen, that the own name is not shared, that the    *)
(* list of a game that stands still is exact, and that the walk takes a    *)
(* bounded number of steps.                                                *)
(***************************************************************************)
EXTENDS NearbyList, SequenceTheorems, FiniteSetTheorems, TLAPS

Character == [actor : Actors, id : Ids, name : Names]
Locals    == [node : Nodes \cup {Null}, left : Links, right : Links,
              key : Ids \cup {NoId}, actor : Actors \cup {Null}, id : Ids \cup {NoId}]
Kinds     == {"PENDING", "LISTED", "FAILED", "EMPTY", "TOO_MANY", "TOO_LARGE"}
Outcome   == [kind : Kinds, list : Seq(Character)]
Evidence  == [ids : SUBSET (Actors \X Ids), near : SUBSET Actors]

OnNode == {"left", "right", "key", "actor", "rightChild", "leftChild"}
InLoop == OnNode \cup {"pop", "id", "xy", "name"}
Points == {"idle", "manager", "header", "root", "own", "done"} \cup InLoop

Types ==
  /\ mem \in Memory /\ changes \in 0..MaxGame /\ pc \in Points
  /\ ownName \in BOOLEAN /\ header \in {Null, Header} /\ pending \in Seq(Links)
  /\ seenNodes \in SUBSET Nodes /\ seenActors \in SUBSET Actors
  /\ characters \in Seq(Character) /\ at \in Locals /\ outcome \in Outcome
  /\ quiet \in BOOLEAN /\ ever \in Evidence

\* What holds where the call is.
Control ==
  /\ pc = "idle" => characters = <<>> /\ pending = <<>> /\ seenNodes = {}
  /\ pc \in InLoop \cup {"root", "own"} => header = Header
  /\ pc \in OnNode => at.node \in Nodes
  /\ pc # "done" => outcome = Pending

\* A node is taken off the stack, and at most two are put on it, when a new one is
\* seen; so the stack is no higher than the nodes seen so far allow.
Spare(p) ==
  IF p \in OnNode \ {"leftChild"} THEN 0 ELSE IF p = "leftChild" THEN 1 ELSE 2
WalkBounded ==
  /\ Cardinality(seenNodes) <= MaxNodes + 1 /\ Len(pending) <= MaxNodes + 1
  /\ pc # "done" => Cardinality(seenNodes) <= MaxNodes
                    /\ Len(pending) + 1 <= Cardinality(seenNodes) + Spare(pc)

\* The characters listed so far.
Recorded ==
  /\ \A k \in DOMAIN characters :
       /\ characters[k].actor \in seenActors
       /\ characters[k].actor = Own => characters[k].name = ""
       /\ characters[k].name # "player"
  /\ ListedOnceAndSeen

\* The object at hand is not listed yet, and has shown what it will be listed with.
AtHand ==
  /\ pc \in {"xy", "name"} =>
       /\ at.actor \in Actors /\ at.id \in Ids /\ <<at.actor, at.id>> \in ever.ids
  /\ pc = "xy" => at.actor \notin seenActors
  /\ pc = "name" => /\ at.actor \in seenActors /\ at.actor \in ever.near
                    /\ \A k \in DOMAIN characters : characters[k].actor # at.actor

\* The history covers what memory shows now.
Shown == Active => /\ Shows(mem).ids \subseteq ever.ids
                   /\ Shows(mem).near \subseteq ever.near

Invariant ==
  Types /\ Control /\ WalkBounded /\ Recorded /\ AtHand /\ Shown /\ OwnNameNotShared

-----------------------------------------------------------------------------
LEMMA Fields ==
  ASSUME mem \in Memory
  PROVE  /\ mem.header \in {Header, Null} /\ mem.root \in Links
         /\ mem.left \in [Nodes -> Links] /\ mem.right \in [Nodes -> Links]
         /\ mem.key \in [Nodes -> Ids] /\ mem.actor \in [Nodes -> Actors \cup {Null}]
         /\ mem.id \in [Actors -> Ids] /\ mem.near \in [Actors -> BOOLEAN]
         /\ \A a \in Actors : mem.name[a] \in NameOf(a)
<1>1. mem.name \in Namings
  BY DEF Memory
<1>2. \A a \in Actors : mem.name[a] \in NameOf(a)
  BY <1>1 DEF Namings
<1> QED
  BY <1>2 DEF Memory

LEMMA SeenFinite ==
  ASSUME NEW S \in SUBSET Nodes
  PROVE  /\ IsFiniteSet(S) /\ Cardinality(S) \in Nat
         /\ \A n : Cardinality(S \cup {n}) = IF n \in S THEN Cardinality(S) ELSE Cardinality(S) + 1
  BY NearbyListAssumption, FS_Subset, FS_CardinalityType, FS_AddElement DEF NearbyListAssumption

\* A stack without its top, and with at most one link more.
LEMMA Popped ==
  ASSUME NEW S, NEW s \in Seq(S), s # <<>>
  PROVE  /\ SubSeq(s, 1, Len(s) - 1) \in Seq(S)
         /\ Len(SubSeq(s, 1, Len(s) - 1)) = Len(s) - 1
         /\ \A i \in 1..Len(s) - 1 : SubSeq(s, 1, Len(s) - 1)[i] = s[i]
<1> DEFINE n == Len(s) - 1
           t == SubSeq(s, 1, n)
<1>1. n \in Nat /\ \A i \in 1..n : s[i] \in S
  BY EmptySeq, ElementOfSeq
<1> HIDE DEF n
<1>2. /\ t \in Seq(S)
      /\ Len(t) = IF 1 <= n THEN n - 1 + 1 ELSE 0
      /\ \A i \in 1..n - 1 + 1 : t[i] = s[1 + i - 1]
  BY <1>1, SubSeqProperties
<1> HIDE DEF t
<1>3. Len(t) = n /\ \A i \in 1..n : t[i] = s[i]
  BY <1>1, <1>2
<1> QED
  BY <1>2, <1>3 DEF n, t

LEMMA Appended ==
  ASSUME NEW S, NEW s \in Seq(S), NEW e \in S, NEW t, t = s \/ t = Append(s, e)
  PROVE  t \in Seq(S) /\ Len(t) \in Nat /\ Len(t) <= Len(s) + 1
<1>1. CASE t = s
  <2>1. Len(s) \in Nat
    BY LenProperties
  <2>2. Len(t) = Len(s)
    BY <1>1
  <2> QED
    BY <1>1, <2>1, <2>2
<1>2. CASE t = Append(s, e)
  <2>1. Len(s) \in Nat /\ Len(t) = Len(s) + 1 /\ t \in Seq(S)
    BY <1>2, LenProperties, AppendProperties
  <2> QED
    BY <2>1
<1> QED
  BY <1>1, <1>2

LEMMA FreshAndPending == Fresh \in Locals /\ Pending \in Outcome
<1>1. <<>> \in Seq(Character)
  OBVIOUS
<1> QED
  BY <1>1 DEF Fresh, Pending, Locals, Outcome, Kinds, Links

LEMMA InitHolds == Init => Invariant
<1> SUFFICES ASSUME Init PROVE Invariant
  OBVIOUS
<1> USE NearbyListAssumption DEF NearbyListAssumption
<1>1. Types
  <2>1. mem \in Memory /\ changes \in 0..MaxGame
    BY HeapsAssumption DEF Init
  <2>2. pending \in Seq(Links) /\ characters \in Seq(Character)
    BY DEF Init
  <2>3. pc \in Points /\ at \in Locals /\ outcome \in Outcome /\ ever \in Evidence
    BY FreshAndPending DEF Init, Points, Evidence
  <2> QED
    BY <2>1, <2>2, <2>3 DEF Init, Types
<1>2. WalkBounded
  BY FS_EmptySet DEF Init, WalkBounded, Spare, OnNode
<1>3. Control /\ Recorded /\ AtHand /\ Shown /\ OwnNameNotShared
  BY DEF Init, Control, Recorded, ListedOnceAndSeen, AtHand, Shown, Active, OwnNameNotShared,
         Pending, InLoop, OnNode
<1> QED
  BY <1>1, <1>2, <1>3 DEF Invariant

\* Whatever the game does, its memory is a memory.
LEMMA GameMemory == ASSUME mem \in Memory, Game PROVE mem' \in Memory
<1> USE NearbyListAssumption DEF NearbyListAssumption, Memory
<1>1. ASSUME NEW n \in Nodes, NEW l \in Links,
             mem' \in {[mem EXCEPT !.left[n] = l], [mem EXCEPT !.right[n] = l],
                       [mem EXCEPT !.parent[n] = l], [mem EXCEPT !.root = l]}
      PROVE  mem' \in Memory
  <2>1. CASE mem' = [mem EXCEPT !.left[n] = l]
    BY <2>1
  <2>2. CASE mem' = [mem EXCEPT !.right[n] = l]
    BY <2>2
  <2>3. CASE mem' = [mem EXCEPT !.parent[n] = l]
    BY <2>3
  <2>4. CASE mem' = [mem EXCEPT !.root = l]
    BY <2>4
  <2> QED
    BY <1>1, <2>1, <2>2, <2>3, <2>4
<1>2. ASSUME NEW n \in Nodes, NEW i \in Ids, mem' = [mem EXCEPT !.key[n] = i]
      PROVE  mem' \in Memory
  BY <1>2
<1>3. ASSUME NEW n \in Nodes, NEW a \in Actors \cup {Null}, mem' = [mem EXCEPT !.actor[n] = a]
      PROVE  mem' \in Memory
  BY <1>3
<1>4. ASSUME NEW a \in Actors, NEW i \in Ids, mem' = [mem EXCEPT !.id[a] = i]
      PROVE  mem' \in Memory
  BY <1>4
<1>5. ASSUME NEW a \in Actors, mem' = [mem EXCEPT !.near[a] = ~ @]
      PROVE  mem' \in Memory
  BY <1>5
<1>6. ASSUME NEW a \in Actors, NEW k \in NameOf(a), mem' = [mem EXCEPT !.name[a] = k]
      PROVE  mem' \in Memory
  <2>1. k \in NameKinds
    BY DEF NameOf, NameKinds
  <2>2. mem.name \in Namings
    OBVIOUS
  <2>3. [mem.name EXCEPT ![a] = k] \in Namings
    BY <2>1, <2>2 DEF Namings
  <2> QED
    BY <1>6, <2>3
<1>7. ASSUME mem' \in {[mem EXCEPT !.manager = Null], [mem EXCEPT !.header = Null],
                       [mem EXCEPT !.ownText = ~ @], [mem EXCEPT !.mapped = {}]}
      PROVE  mem' \in Memory
  <2>1. CASE mem' = [mem EXCEPT !.manager = Null]
    BY <2>1
  <2>2. CASE mem' = [mem EXCEPT !.header = Null]
    BY <2>2
  <2>3. CASE mem' = [mem EXCEPT !.ownText = ~ @]
    <3>1. (~ mem.ownText) \in BOOLEAN
      OBVIOUS
    <3> QED
      BY <2>3, <3>1
  <2>4. CASE mem' = [mem EXCEPT !.mapped = {}]
    BY <2>4
  <2> QED
    BY <1>7, <2>1, <2>2, <2>3, <2>4
<1>8. ASSUME NEW a \in Addresses, mem' = [mem EXCEPT !.mapped = @ \ {a}]
      PROVE  mem' \in Memory
  BY <1>8
<1>9. ASSUME mem' \in Changing \ {mem}
      PROVE  mem' \in Memory
  BY <1>9, HeapsAssumption
<1> QED
  BY <1>1, <1>2, <1>3, <1>4, <1>5, <1>6, <1>7, <1>8, <1>9 DEF Game

LEMMA GameStep == Invariant /\ Game => Invariant'
<1> SUFFICES ASSUME Invariant, Game PROVE Invariant'
  OBVIOUS
<1>1. mem' \in Memory
  BY GameMemory DEF Invariant, Types
<1>2. UNCHANGED <<pc, walkVars, outcome>> /\ changes' \in 0..MaxGame
  BY NearbyListAssumption DEF NearbyListAssumption, Game, Invariant, Types
<1>3. Shows(mem') \in Evidence
  BY <1>1 DEF Memory, Shows, Evidence
<1>4. /\ ever' \in Evidence /\ ever.ids \subseteq ever'.ids /\ ever.near \subseteq ever'.near
      /\ Active => Shows(mem').ids \subseteq ever'.ids /\ Shows(mem').near \subseteq ever'.near
  BY <1>3 DEF Game, Merge, Evidence, Invariant, Types
<1>5. quiet' \in BOOLEAN
  BY DEF Game, Invariant, Types
<1>6. Types'
  BY <1>1, <1>2, <1>4, <1>5 DEF Invariant, Types, walkVars
<1>7. Control' /\ WalkBounded' /\ OwnNameNotShared'
  BY <1>2 DEF Invariant, Control, WalkBounded, Spare, OwnNameNotShared, walkVars
<1>8. Recorded'
  BY <1>2, <1>4 DEF Invariant, Recorded, ListedOnceAndSeen, walkVars
<1>9. AtHand'
  BY <1>2, <1>4 DEF Invariant, AtHand, walkVars
<1>10. Shown'
  BY <1>2, <1>4 DEF Shown, Active
<1> QED
  BY <1>6, <1>7, <1>8, <1>9, <1>10 DEF Invariant

-----------------------------------------------------------------------------
\* A step that lists nothing, with what is left to show of it.
LEMMA WalkStep ==
  ASSUME Invariant, Active, Unchanged, UNCHANGED <<seenActors, characters>>,
         Types', Control', WalkBounded', AtHand', OwnNameNotShared'
  PROVE  Invariant'
<1>1. Recorded'
  BY DEF Invariant, Recorded, ListedOnceAndSeen, Unchanged
<1>2. Shown'
  BY DEF Invariant, Shown, Unchanged
<1> QED
  BY <1>1, <1>2 DEF Invariant

\* A call that fails keeps what it has.
LEMMA FailHolds ==
  ASSUME Invariant, Active, Unchanged, UNCHANGED <<ownName, header, seenActors, characters>>,
         at' \in Locals, pending' \in Seq(Links), Len(pending') <= MaxNodes + 1,
         seenNodes' \in SUBSET Nodes, Cardinality(seenNodes') <= MaxNodes + 1,
         NEW kind \in Kinds, Fail(kind)
  PROVE  Invariant'
<1>1. pc' = "done" /\ outcome' = [kind |-> kind, list |-> <<>>]
  BY DEF Fail
<1>2. outcome' \in Outcome
  BY <1>1 DEF Outcome
<1>3. Types'
  BY <1>1, <1>2 DEF Invariant, Types, Unchanged, Points
<1>4. Control' /\ WalkBounded' /\ AtHand' /\ OwnNameNotShared'
  BY <1>1 DEF Control, WalkBounded, AtHand, OwnNameNotShared, InLoop, OnNode
<1> QED
  BY <1>3, <1>4, WalkStep

\* The frame of a step that goes on walking.
LEMMA GoOn ==
  ASSUME Invariant, Active, Unchanged, UNCHANGED <<seenActors, characters, outcome>>,
         pc' \in Points \ {"idle", "done"}, ownName' \in BOOLEAN, header' \in {Null, Header},
         pc' \in InLoop \cup {"root", "own"} => header' = Header,
         at' \in Locals, pc' \in OnNode => at'.node \in Nodes, AtHand',
         pending' \in Seq(Links), seenNodes' \in SUBSET Nodes,
         Cardinality(seenNodes') <= MaxNodes,
         Len(pending') + 1 <= Cardinality(seenNodes') + Spare(pc')
  PROVE  Invariant'
<1>1. Types'
  BY DEF Invariant, Types, Unchanged
<1>2. outcome' = Pending
  BY DEF Invariant, Control, Active
<1>3. Control' /\ OwnNameNotShared'
  BY <1>2 DEF Control, OwnNameNotShared, Pending
<1>4. WalkBounded'
  <2>1. Spare(pc') \in {0, 1, 2}
    BY Zenon DEF Spare
  <2>2. Cardinality(seenNodes') \in Nat /\ Len(pending') \in Nat
    BY SeenFinite
  <2> QED
    BY <2>1, <2>2, NearbyListAssumption DEF WalkBounded, NearbyListAssumption
<1> QED
  BY <1>1, <1>3, <1>4, WalkStep

\* What is known of the walk.
LEMMA Walking ==
  ASSUME Invariant, Active
  PROVE  /\ Cardinality(seenNodes) \in Nat /\ Len(pending) \in Nat
         /\ Cardinality(seenNodes) <= MaxNodes /\ Len(pending) <= MaxNodes + 1
         /\ Len(pending) + 1 <= Cardinality(seenNodes) + Spare(pc)
         /\ Cardinality(seenNodes) <= MaxNodes + 1 /\ MaxNodes \in Nat
  BY SeenFinite, NearbyListAssumption
  DEF NearbyListAssumption, Invariant, Types, WalkBounded, Active

-----------------------------------------------------------------------------
LEMMA ReadManagerHolds == ASSUME Invariant, ReadManager PROVE Invariant'
<1>1. Active /\ pc = "manager" /\ Unchanged /\ UNCHANGED walkVars
  BY DEF ReadManager, Active
<1>2. CASE Fail("FAILED")
  BY <1>1, <1>2, Walking, FailHolds DEF walkVars, Kinds, Invariant, Types
<1>3. CASE pc' = "header" /\ UNCHANGED outcome
  BY <1>1, <1>3, Walking, GoOn
  DEF walkVars, Invariant, Types, Points, InLoop, OnNode, Spare, AtHand
<1> QED
  BY <1>2, <1>3 DEF ReadManager

LEMMA ReadHeaderHolds == ASSUME Invariant, ReadHeader PROVE Invariant'
<1>1. /\ Active /\ pc = "header" /\ Unchanged
      /\ UNCHANGED <<ownName, pending, seenNodes, seenActors, characters, at>>
  BY DEF ReadHeader, Active
<1>2. CASE Fail("FAILED") /\ UNCHANGED header
  BY <1>1, <1>2, Walking, FailHolds DEF Kinds, Invariant, Types
<1>3. CASE pc' = "root" /\ header' = mem.header /\ mem.header # Null /\ UNCHANGED outcome
  <2>1. header' = Header
    BY <1>3, Fields DEF Invariant, Types
  <2> QED
    BY <1>1, <1>3, <2>1, Walking, GoOn
    DEF Invariant, Types, Points, InLoop, OnNode, Spare, AtHand
<1> QED
  BY <1>2, <1>3 DEF ReadHeader

LEMMA ReadRootHolds == ASSUME Invariant, ReadRoot PROVE Invariant'
<1>1. /\ Active /\ pc = "root" /\ Unchanged
      /\ UNCHANGED <<ownName, header, seenNodes, seenActors, characters, at>>
  BY DEF ReadRoot, Active
<1>2. CASE Fail("FAILED") /\ UNCHANGED pending
  BY <1>1, <1>2, Walking, FailHolds DEF Kinds, Invariant, Types
<1>3. CASE pc' = "own" /\ pending' = <<mem.root>> /\ UNCHANGED outcome
  <2>1. pending' \in Seq(Links) /\ Len(pending') = 1
    BY <1>3, Fields DEF Invariant, Types
  <2>2. header = Header
    BY <1>1 DEF Invariant, Control
  <2> QED
    BY <1>1, <1>3, <2>1, <2>2, Walking, GoOn
    DEF Invariant, Types, Points, InLoop, OnNode, Spare, AtHand
<1> QED
  BY <1>2, <1>3 DEF ReadRoot

LEMMA ReadOwnNameHolds == ASSUME Invariant, ReadOwnName PROVE Invariant'
<1>1. /\ Active /\ pc = "own" /\ pc' = "pop" /\ Unchanged
      /\ UNCHANGED <<header, pending, seenNodes, seenActors, characters, at, outcome>>
  BY DEF ReadOwnName, Goto, Active
<1>2. ownName' \in BOOLEAN
  <2>1. mem.ownText \in BOOLEAN
    BY DEF Invariant, Types, Memory
  <2> QED
    BY <2>1 DEF ReadOwnName, Readable
<1>3. header = Header
  BY <1>1 DEF Invariant, Control
<1> QED
  BY <1>1, <1>2, <1>3, Walking, GoOn
  DEF Invariant, Types, Points, InLoop, OnNode, Spare, AtHand

LEMMA PopNodeHolds == ASSUME Invariant, PopNode PROVE Invariant'
<1> DEFINE n == pending[Len(pending)]
<1>1. /\ Active /\ pc = "pop" /\ pending # <<>> /\ Unchanged
      /\ UNCHANGED <<ownName, header, seenActors, characters>>
  BY DEF PopNode, Active
<1>2. pending \in Seq(Links) /\ Len(pending) \in Nat \ {0} /\ n \in Links
  BY <1>1, EmptySeq, ElementOfSeq DEF Invariant, Types
<1>3. pending' \in Seq(Links) /\ Len(pending') = Len(pending) - 1
  <2>1. pending' = SubSeq(pending, 1, Len(pending) - 1)
    BY DEF PopNode
  <2> QED
    BY <1>1, <1>2, <2>1, Popped
<1>4. header = Header /\ Len(pending) <= Cardinality(seenNodes) + 1
  BY <1>1, <1>2, Walking DEF Invariant, Control, InLoop, Spare, OnNode
<1>5. CASE UNCHANGED <<pc, seenNodes, at, outcome>>
  BY <1>1, <1>3, <1>4, <1>5, Walking, GoOn
  DEF Invariant, Types, Points, InLoop, OnNode, Spare, AtHand
<1>6. ASSUME Unseen(n), seenNodes' = seenNodes \cup {n}
      PROVE  /\ n \in Nodes /\ seenNodes' \in SUBSET Nodes
             /\ Cardinality(seenNodes') = Cardinality(seenNodes) + 1
  <2>1. n \in Nodes /\ n \notin seenNodes
    BY <1>2, <1>4, <1>6 DEF Unseen, Links
  <2> QED
    BY <1>6, <2>1, SeenFinite DEF Invariant, Types
<1>7. CASE /\ Unseen(n) /\ seenNodes' = seenNodes \cup {n}
           /\ Fail("TOO_MANY") /\ UNCHANGED at
  <2>1. /\ Cardinality(seenNodes') <= MaxNodes + 1 /\ Len(pending') <= MaxNodes + 1
        /\ at' \in Locals
    BY <1>1, <1>2, <1>3, <1>6, <1>7, Walking DEF Invariant, Types
  <2> QED
    BY <1>1, <1>3, <1>6, <1>7, <2>1, FailHolds DEF Kinds
<1>8. CASE /\ Unseen(n) /\ seenNodes' = seenNodes \cup {n}
           /\ ~ (Cardinality(seenNodes') > MaxNodes)
           /\ pc' = "left" /\ at' = [Fresh EXCEPT !.node = n] /\ UNCHANGED outcome
  <2>1. at' \in Locals /\ at'.node \in Nodes
    BY <1>6, <1>8, FreshAndPending DEF Locals, Fresh
  <2>2. /\ Cardinality(seenNodes') <= MaxNodes
        /\ Len(pending') + 1 <= Cardinality(seenNodes') + Spare(pc')
    BY <1>1, <1>2, <1>3, <1>4, <1>6, <1>8, Walking DEF Spare, OnNode
  <2>3. AtHand' /\ pc' \in Points \ {"idle", "done"}
    BY <1>8 DEF AtHand, Points, InLoop, OnNode
  <2> QED
    BY <1>1, <1>3, <1>4, <1>6, <1>8, <2>1, <2>2, <2>3, GoOn DEF Invariant, Types
<1> QED
  BY <1>5, <1>7, <1>8 DEF PopNode

\* A word read from a node; the four reads differ only in the field.
LEMMA ReadNodeHolds ==
  ASSUME Invariant,
         NEW from \in {"left", "right", "key", "actor"},
         NEW to \in {"right", "key", "actor", "rightChild"},
         NEW field, ReadNode(from, to, field),
         [at EXCEPT ![field] = mem[field][at.node]] \in Locals,
         [at EXCEPT ![field] = mem[field][at.node]].node = at.node
  PROVE  Invariant'
<1>1. /\ Active /\ pc = from /\ Unchanged
      /\ UNCHANGED <<ownName, header, pending, seenNodes, seenActors, characters>>
  BY DEF ReadNode, Active
<1>2. CASE Fail("FAILED") /\ UNCHANGED at
  BY <1>1, <1>2, Walking, FailHolds DEF Kinds, Invariant, Types
<1>3. CASE pc' = to /\ at' = [at EXCEPT ![field] = mem[field][at.node]] /\ UNCHANGED outcome
  <2>1. header = Header /\ at.node \in Nodes
    BY <1>1 DEF Invariant, Control, InLoop, OnNode
  <2>2. pc' \in Points \ {"idle", "done"} /\ Spare(pc') = Spare(pc) /\ AtHand'
    BY <1>1, <1>3 DEF Points, InLoop, OnNode, Spare, AtHand
  <2> QED
    BY <1>1, <1>3, <2>1, <2>2, Walking, GoOn DEF Invariant, Types
<1> QED
  BY <1>2, <1>3 DEF ReadNode, Local

LEMMA ReadFieldsHold ==
  ASSUME Invariant, ReadLeft \/ ReadRight \/ ReadKey \/ ReadActor PROVE Invariant'
<1>1. at \in Locals
  BY DEF Invariant, Types
<1>2. at.node \in Nodes
  BY DEF Invariant, Control, OnNode, ReadLeft, ReadRight, ReadKey, ReadActor, ReadNode
<1>3. /\ mem.left[at.node] \in Links /\ mem.right[at.node] \in Links
      /\ mem.key[at.node] \in Ids /\ mem.actor[at.node] \in Actors \cup {Null}
  BY <1>2, Fields DEF Invariant, Types
<1>4. CASE ReadLeft
  <2>1. [at EXCEPT !.left = mem.left[at.node]] \in Locals
    BY <1>1, <1>3 DEF Locals
  <2>2. [at EXCEPT !.left = mem.left[at.node]].node = at.node
    BY <1>1 DEF Locals
  <2> QED
    BY <1>4, <2>1, <2>2, ReadNodeHolds DEF ReadLeft
<1>5. CASE ReadRight
  <2>1. [at EXCEPT !.right = mem.right[at.node]] \in Locals
    BY <1>1, <1>3 DEF Locals
  <2>2. [at EXCEPT !.right = mem.right[at.node]].node = at.node
    BY <1>1 DEF Locals
  <2> QED
    BY <1>5, <2>1, <2>2, ReadNodeHolds DEF ReadRight
<1>6. CASE ReadKey
  <2>1. [at EXCEPT !.key = mem.key[at.node]] \in Locals
    BY <1>1, <1>3 DEF Locals
  <2>2. [at EXCEPT !.key = mem.key[at.node]].node = at.node
    BY <1>1 DEF Locals
  <2> QED
    BY <1>6, <2>1, <2>2, ReadNodeHolds DEF ReadKey
<1>7. CASE ReadActor
  <2>1. [at EXCEPT !.actor = mem.actor[at.node]] \in Locals
    BY <1>1, <1>3 DEF Locals
  <2>2. [at EXCEPT !.actor = mem.actor[at.node]].node = at.node
    BY <1>1 DEF Locals
  <2> QED
    BY <1>7, <2>1, <2>2, ReadNodeHolds DEF ReadActor
<1> QED
  BY <1>4, <1>5, <1>6, <1>7

LEMMA OneMore ==
  ASSUME NEW m \in Nat, NEW n \in Nat, NEW k \in Nat, NEW s, NEW t,
         n <= m + 1, m + 1 <= k + s, (s = 0 /\ t = 1) \/ (s = 1 /\ t = 2)
  PROVE  n + 1 <= k + t
  OBVIOUS

\* Each child pushed uses one of the two places its node has made room for.
LEMMA ReadChildHolds ==
  ASSUME Invariant,
         NEW from, NEW to, NEW child \in Links, ReadChild(from, to, child),
         (from = "rightChild" /\ to = "leftChild") \/ (from = "leftChild" /\ to = "id")
  PROVE  Invariant'
<1>1. /\ Active /\ pc = from /\ pc' = to /\ Unchanged
      /\ UNCHANGED <<ownName, header, seenNodes, seenActors, characters, at, outcome>>
  BY DEF ReadChild, Goto, Active
<1>2. pending' \in Seq(Links) /\ Len(pending') <= Len(pending) + 1 /\ Len(pending') \in Nat
  <2>1. pending \in Seq(Links)
    BY DEF Invariant, Types
  <2>2. pending' = pending \/ pending' = Append(pending, child)
    BY DEF ReadChild
  <2> QED
    BY <2>1, <2>2, Appended
<1>3. header = Header /\ at.node \in Nodes
  BY <1>1 DEF Invariant, Control, InLoop, OnNode
<1>4. pc' \in Points \ {"idle", "done"} /\ AtHand'
  BY <1>1 DEF Points, InLoop, OnNode, AtHand
<1>5. Len(pending') + 1 <= Cardinality(seenNodes) + Spare(pc')
  <2>1. /\ Len(pending) \in Nat /\ Cardinality(seenNodes) \in Nat
        /\ Len(pending) + 1 <= Cardinality(seenNodes) + Spare(pc)
    BY <1>1, Walking
  <2>2. (Spare(pc) = 0 /\ Spare(pc') = 1) \/ (Spare(pc) = 1 /\ Spare(pc') = 2)
    BY <1>1 DEF OnNode, Spare
  <2> QED
    BY <1>2, <2>1, <2>2, OneMore
<1> QED
  BY <1>1, <1>2, <1>3, <1>4, <1>5, Walking, GoOn DEF Invariant, Types

LEMMA ReadChildrenHold ==
  ASSUME Invariant, ReadRightChild \/ ReadLeftChild PROVE Invariant'
<1>1. at.right \in Links /\ at.left \in Links
  BY DEF Invariant, Types, Locals
<1>2. CASE ReadRightChild
  BY <1>1, <1>2, ReadChildHolds DEF ReadRightChild
<1>3. CASE ReadLeftChild
  BY <1>1, <1>3, ReadChildHolds DEF ReadLeftChild
<1> QED
  BY <1>2, <1>3

\* The id noted is one the object has shown.
LEMMA ReadIdHolds == ASSUME Invariant, ReadId PROVE Invariant'
<1>1. /\ Active /\ pc = "id" /\ Unchanged
      /\ UNCHANGED <<ownName, header, pending, seenNodes, seenActors, characters, outcome>>
  BY DEF ReadId, Active
<1>2. header = Header
  BY <1>1 DEF Invariant, Control, InLoop
<1>3. pc' \in {"xy", "pop"} /\ Spare(pc') = Spare(pc) /\ pc' \in Points \ {"idle", "done"} /\ pc' \notin OnNode
  BY <1>1 DEF ReadId, Spare, Points, InLoop, OnNode
<1>4. CASE pc' = "pop" /\ UNCHANGED at
  <2>1. AtHand'
    BY <1>4 DEF AtHand
  <2> QED
    BY <1>1, <1>2, <1>3, <1>4, <2>1, Walking, GoOn DEF Invariant, Types
<1>5. CASE /\ pc' = "xy" /\ at' = [at EXCEPT !.id = mem.id[at.actor]]
           /\ at.actor # Null /\ ~ Known(at.actor)
  <2>1. at \in Locals /\ at.actor \in Actors /\ mem.id[at.actor] \in Ids
    BY <1>5, Fields DEF Invariant, Types, Locals
  <2>2. at' \in Locals /\ at'.actor = at.actor /\ at'.id = mem.id[at.actor]
    BY <1>5, <2>1 DEF Locals
  <2>3. <<at.actor, mem.id[at.actor]>> \in ever.ids
    BY <1>1, <2>1 DEF Invariant, Shown, Shows
  <2>4. AtHand'
    BY <1>1, <1>5, <2>1, <2>2, <2>3 DEF AtHand, Known, Unchanged
  <2> QED
    BY <1>1, <1>2, <1>3, <2>2, <2>4, Walking, GoOn DEF Invariant, Types
<1> QED
  BY <1>4, <1>5 DEF ReadId, Local

\* The object is remembered, and has shown coordinates.
LEMMA ReadPositionHolds == ASSUME Invariant, ReadPosition PROVE Invariant'
<1>1. /\ Active /\ pc = "xy" /\ Unchanged
      /\ UNCHANGED <<ownName, header, pending, seenNodes, characters, at, outcome>>
  BY DEF ReadPosition, Active
<1>2. header = Header /\ at.actor \in Actors /\ at.actor \notin seenActors
  BY <1>1 DEF Invariant, Control, InLoop, AtHand
<1>3. CASE pc' = "pop" /\ UNCHANGED seenActors
  <2>1. AtHand' /\ Spare(pc') = Spare(pc) /\ pc' \in Points \ {"idle", "done"} /\ pc' \notin OnNode
    BY <1>1, <1>3 DEF AtHand, Spare, Points, InLoop, OnNode
  <2> QED
    BY <1>1, <1>2, <1>3, <2>1, Walking, GoOn DEF Invariant, Types
<1>4. CASE IsCharacter /\ pc' = "name" /\ seenActors' = seenActors \cup {at.actor}
  <2>1. Types'
    BY <1>1, <1>2, <1>4 DEF Invariant, Types, Unchanged, Points, InLoop
  <2>2. Control' /\ OwnNameNotShared'
    BY <1>1, <1>2, <1>4 DEF Invariant, Control, OwnNameNotShared, InLoop, OnNode
  <2>3. WalkBounded'
    BY <1>1, <1>4 DEF Invariant, WalkBounded, Spare, OnNode
  <2>4. Recorded'
    BY <1>1, <1>4 DEF Invariant, Recorded, ListedOnceAndSeen, Unchanged
  <2>5. AtHand'
    <3>1. at.actor \in ever.near
      BY <1>1, <1>2, <1>4 DEF IsCharacter, Invariant, Shown, Shows
    <3>2. \A k \in DOMAIN characters : characters[k].actor # at.actor
      BY <1>2 DEF Invariant, Recorded
    <3> QED
      BY <1>1, <1>4, <3>1, <3>2 DEF Invariant, AtHand, Unchanged
  <2>6. Shown'
    BY <1>1 DEF Invariant, Shown, Unchanged
  <2> QED
    BY <2>1, <2>2, <2>3, <2>4, <2>5, <2>6 DEF Invariant
<1> QED
  BY <1>3, <1>4 DEF ReadPosition

LEMMA Extended ==
  ASSUME NEW S, NEW s \in Seq(S), NEW e \in S
  PROVE  /\ Append(s, e) \in Seq(S)
         /\ \A k \in DOMAIN Append(s, e) : \/ k \in DOMAIN s /\ Append(s, e)[k] = s[k]
                                           \/ k = Len(s) + 1 /\ Append(s, e)[k] = e
<1> DEFINE t == Append(s, e)
<1>1. /\ Len(s) \in Nat /\ DOMAIN s = 1..Len(s)
      /\ t \in Seq(S) /\ Len(t) = Len(s) + 1
      /\ \A i \in 1..Len(s) : t[i] = s[i]
      /\ t[Len(s) + 1] = e
  BY LenProperties, AppendProperties
<1>2. DOMAIN t = 1..Len(s) + 1
  BY <1>1, LenProperties
<1> HIDE DEF t
<1>3. \A k \in DOMAIN t : \/ k \in DOMAIN s /\ t[k] = s[k]
                          \/ k = Len(s) + 1 /\ t[k] = e
  BY <1>1, <1>2
<1> QED
  BY <1>1, <1>3 DEF t

\* The object at hand joins the list; the own character, whose name pointer is null,
\* joins it without a name.
LEMMA ReadNameHolds == ASSUME Invariant, ReadName PROVE Invariant'
<1>1. /\ Active /\ pc = "name" /\ pc' = "pop" /\ Unchanged
      /\ UNCHANGED <<ownName, header, pending, seenNodes, seenActors, at, outcome>>
  BY DEF ReadName, Goto, Active
<1>2. /\ header = Header /\ at.actor \in Actors /\ at.id \in Ids
      /\ <<at.actor, at.id>> \in ever.ids /\ at.actor \in ever.near /\ at.actor \in seenActors
      /\ \A k \in DOMAIN characters : characters[k].actor # at.actor
  BY <1>1 DEF Invariant, Control, AtHand, InLoop
<1>3. PICK name \in {"", "read"} :
        /\ characters' = Append(characters, [actor |-> at.actor, id |-> at.id, name |-> name])
        /\ at.actor = Own => name = ""
  <2>1. at.actor = Own => mem.name[at.actor] # "text"
    BY <1>2, Fields DEF Invariant, Types, NameOf
  <2> QED
    BY <2>1 DEF ReadName
<1> DEFINE new == [actor |-> at.actor, id |-> at.id, name |-> name]
<1>4. new \in Character /\ new.actor = at.actor /\ new.id = at.id /\ new.name = name
  BY <1>2 DEF Character, Names
<1> HIDE DEF new
<1>5. /\ characters' \in Seq(Character)
      /\ \A k \in DOMAIN characters' :
           (k \in DOMAIN characters /\ characters'[k] = characters[k])
           \/ (k = Len(characters) + 1 /\ characters'[k] = new)
  <2>1. characters' = Append(characters, new) /\ characters \in Seq(Character)
    BY <1>3 DEF new, Invariant, Types
  <2>2. /\ Append(characters, new) \in Seq(Character)
        /\ \A k \in DOMAIN Append(characters, new) :
             \/ k \in DOMAIN characters /\ Append(characters, new)[k] = characters[k]
             \/ k = Len(characters) + 1 /\ Append(characters, new)[k] = new
    BY <1>4, <2>1, Extended
  <2> QED
    BY <2>1, <2>2
<1>6. Types'
  BY <1>1, <1>5 DEF Invariant, Types, Unchanged, Points, InLoop
<1>7. Control' /\ OwnNameNotShared' /\ WalkBounded' /\ AtHand'
  BY <1>1, <1>2
  DEF Invariant, Control, OwnNameNotShared, WalkBounded, AtHand, Spare, InLoop, OnNode
<1>8. Recorded'
  <2>1. \A k \in DOMAIN characters' :
          /\ characters'[k].actor \in seenActors
          /\ characters'[k].actor = Own => characters'[k].name = ""
          /\ characters'[k].name # "player"
          /\ <<characters'[k].actor, characters'[k].id>> \in ever.ids
          /\ characters'[k].actor \in ever.near
    BY <1>2, <1>3, <1>4, <1>5 DEF Invariant, Recorded, ListedOnceAndSeen
  <2>2. ASSUME NEW j \in DOMAIN characters', NEW k \in DOMAIN characters',
               characters'[j].actor = characters'[k].actor
        PROVE  j = k
    <3>1. CASE /\ j \in DOMAIN characters /\ characters'[j] = characters[j]
               /\ k \in DOMAIN characters /\ characters'[k] = characters[k]
      BY <2>2, <3>1 DEF Invariant, Recorded, ListedOnceAndSeen
    <3>2. CASE j \in DOMAIN characters /\ characters'[j] = characters[j] /\ characters'[k] = new
      BY <1>2, <1>4, <2>2, <3>2
    <3>3. CASE k \in DOMAIN characters /\ characters'[k] = characters[k] /\ characters'[j] = new
      BY <1>2, <1>4, <2>2, <3>3
    <3>4. CASE j = Len(characters) + 1 /\ k = Len(characters) + 1
      BY <3>4
    <3> QED
      BY <1>5, <3>1, <3>2, <3>3, <3>4
  <2> QED
    BY <1>1, <2>1, <2>2 DEF Recorded, ListedOnceAndSeen, Unchanged
<1>9. Shown'
  BY <1>1 DEF Invariant, Shown, Unchanged
<1> QED
  BY <1>6, <1>7, <1>8, <1>9 DEF Invariant

\* At the end of the walk the list is returned, with the names it lacks.  Only a
\* character that is the only one without a name is given the own name, and the own
\* character never has one; so when it is listed it is that one.
LEMMA FinishHolds == ASSUME Invariant, Finish PROVE Invariant'
<1>1. Active /\ pc = "pop" /\ Unchanged /\ UNCHANGED walkVars
  BY DEF Finish, Active
<1>2. CASE Fail("EMPTY") \/ Fail("TOO_LARGE")
  BY <1>1, <1>2, Walking, FailHolds DEF walkVars, Kinds, Invariant, Types
<1> DEFINE named(k) == IF k \notin Nameless THEN characters[k]
                       ELSE [characters[k] EXCEPT !.name = IF Substitute THEN "player" ELSE "ID"]
<1>3. CASE pc' = "done" /\ outcome' = [kind |-> "LISTED", list |-> [k \in DOMAIN characters |-> named(k)]]
  <2>1. \A k \in DOMAIN characters : characters[k] \in Character
    BY ElementOfSeq DEF Invariant, Types
  <2>2. \A k \in DOMAIN characters :
          /\ named(k) \in Character /\ named(k).actor = characters[k].actor
          /\ named(k).name = "player" => k \in Nameless /\ Substitute
    BY <2>1 DEF Character, Names, Invariant, Recorded
  <2> HIDE DEF named
  <2>3. outcome'.list = [k \in DOMAIN characters |-> named(k)] /\ outcome'.kind = "LISTED"
    BY <1>3
  <2>4. outcome' \in Outcome
    <3>1. Len(characters) \in Nat /\ DOMAIN characters = 1..Len(characters)
      BY LenProperties DEF Invariant, Types
    <3>2. outcome'.list \in [1..Len(characters) -> Character]
      BY <2>2, <2>3, <3>1
    <3>3. outcome'.list \in Seq(Character)
      BY <3>1, <3>2, SeqDef
    <3> QED
      BY <1>3, <2>3, <3>3 DEF Outcome, Kinds
  <2>5. Types'
    BY <1>1, <1>3, <2>4 DEF Invariant, Types, Unchanged, walkVars, Points
  <2>6. Control' /\ WalkBounded' /\ AtHand'
    BY <1>1, <1>3, Walking DEF Control, WalkBounded, AtHand, walkVars, InLoop, OnNode
  <2>7. OwnNameNotShared'
    <3> SUFFICES ASSUME NEW j \in DOMAIN characters, NEW k \in DOMAIN characters,
                        named(j).actor = Own, named(k).name = "player"
                 PROVE  k = j
      BY <2>3 DEF OwnNameNotShared
    <3>1. k \in Nameless /\ Substitute
      BY <2>2
    <3>2. j \in Nameless
      BY <2>2 DEF Nameless, Invariant, Recorded
    <3>3. IsFiniteSet(Nameless)
      <4>1. Len(characters) \in Nat /\ DOMAIN characters = 1..Len(characters)
        BY LenProperties DEF Invariant, Types
      <4>2. IsFiniteSet(DOMAIN characters)
        BY <4>1, FS_Interval
      <4> QED
        BY <4>2, FS_Subset DEF Nameless
    <3>4. PICK x : Nameless = {x}
      BY <3>1, <3>3, FS_Singleton DEF Substitute
    <3> QED
      BY <3>1, <3>2, <3>4
  <2> QED
    BY <1>1, <2>5, <2>6, <2>7, WalkStep DEF walkVars
<1> QED
  BY <1>2, <1>3 DEF Finish

-----------------------------------------------------------------------------
LEMMA CallHolds == ASSUME Invariant, Call PROVE Invariant'
<1>1. /\ pc = "idle" /\ pc' = "manager" /\ ever' = Shows(mem) /\ UNCHANGED <<mem, changes, quiet>>
      /\ UNCHANGED <<walkVars, outcome>>
  BY DEF Call, Goto
<1>2. Shows(mem) \in Evidence
  BY DEF Memory, Shows, Evidence, Invariant, Types
<1>3. Types'
  BY <1>1, <1>2 DEF Invariant, Types, Points, walkVars
<1>4. Control' /\ WalkBounded' /\ AtHand' /\ OwnNameNotShared'
  BY <1>1
  DEF Invariant, Control, WalkBounded, AtHand, OwnNameNotShared, Spare, InLoop, OnNode, walkVars
<1>5. Recorded'
  <2>1. characters' = <<>>
    BY <1>1 DEF Invariant, Control, walkVars
  <2> QED
    BY <2>1 DEF Recorded, ListedOnceAndSeen
<1>6. Shown'
  BY <1>1 DEF Shown
<1> QED
  BY <1>3, <1>4, <1>5, <1>6 DEF Invariant

LEMMA ReturnHolds == ASSUME Invariant, Return PROVE Invariant'
<1>1. /\ pc' = "idle" /\ ownName' = FALSE /\ header' = Null /\ pending' = <<>>
      /\ seenNodes' = {} /\ seenActors' = {} /\ characters' = <<>> /\ at' = Fresh
      /\ outcome' = Pending /\ quiet' = TRUE /\ ever' = [ids |-> {}, near |-> {}]
      /\ UNCHANGED <<mem, changes>>
  BY DEF Return, Goto
<1>2. Types'
  <2>1. pending' \in Seq(Links) /\ characters' \in Seq(Character)
    BY <1>1
  <2>2. pc' \in Points /\ at' \in Locals /\ outcome' \in Outcome /\ ever' \in Evidence
    BY <1>1, FreshAndPending DEF Points, Evidence
  <2> QED
    BY <1>1, <2>1, <2>2 DEF Invariant, Types
<1>3. WalkBounded'
  BY <1>1, NearbyListAssumption, FS_EmptySet DEF NearbyListAssumption, WalkBounded, Spare, OnNode
<1>4. Control' /\ Recorded' /\ AtHand' /\ Shown' /\ OwnNameNotShared'
  BY <1>1 DEF Control, Recorded, ListedOnceAndSeen, AtHand, Shown, Active, OwnNameNotShared,
              Pending, InLoop, OnNode
<1> QED
  BY <1>2, <1>3, <1>4 DEF Invariant

\* The invariant holds in every state of a call, whatever the game does between two
\* of its reads.
THEOREM Invariance == Spec => []Invariant
<1>1. Invariant /\ [Next]_vars => Invariant'
  <2> SUFFICES ASSUME Invariant, [Next]_vars PROVE Invariant'
    OBVIOUS
  <2>1. CASE Game
    BY <2>1, GameStep
  <2>2. CASE Call
    BY <2>2, CallHolds
  <2>3. CASE Return
    BY <2>3, ReturnHolds
  <2>4. CASE ReadManager \/ ReadHeader \/ ReadRoot \/ ReadOwnName
    BY <2>4, ReadManagerHolds, ReadHeaderHolds, ReadRootHolds, ReadOwnNameHolds
  <2>5. CASE PopNode
    BY <2>5, PopNodeHolds
  <2>6. CASE ReadLeft \/ ReadRight \/ ReadKey \/ ReadActor
    BY <2>6, ReadFieldsHold
  <2>7. CASE ReadRightChild \/ ReadLeftChild
    BY <2>7, ReadChildrenHold
  <2>8. CASE ReadId \/ ReadPosition \/ ReadName \/ Finish
    BY <2>8, ReadIdHolds, ReadPositionHolds, ReadNameHolds, FinishHolds
  <2>9. CASE UNCHANGED vars
    BY <2>9 DEF Invariant, Types, Control, WalkBounded, Recorded, ListedOnceAndSeen, AtHand,
                Shown, Active, OwnNameNotShared, vars
  <2> QED
    BY <2>1, <2>2, <2>3, <2>4, <2>5, <2>6, <2>7, <2>8, <2>9 DEF Next, Step
<1> QED
  BY <1>1, InitHolds, PTL DEF Spec

\* Every variable keeps its type; and however the links of the tree run, the walk sees
\* at most one node more than MaxNodes, and its stack stays within that bound too.
THEOREM TypeCorrect == Spec => []TypeOK
<1>1. Invariant => TypeOK
  BY DEF Invariant, Types, WalkBounded, TypeOK, Character, Locals, Outcome, Kinds, Evidence,
         Points, InLoop, OnNode
<1> QED
  BY <1>1, Invariance, PTL

\* However the game changes under the walk, no character is listed twice, and each was
\* seen with the id it is listed with and with coordinates during the call.
THEOREM EachListedOnce == Spec => []ListedOnceAndSeen
<1>1. Invariant => ListedOnceAndSeen
  BY DEF Invariant, Recorded
<1> QED
  BY <1>1, Invariance, PTL

\* When the own character is listed nobody else is given the own name, however many
\* names could not be read.
THEOREM OwnNameKept == Spec => []OwnNameNotShared
<1>1. Invariant => OwnNameNotShared
  BY DEF Invariant
<1> QED
  BY <1>1, Invariance, PTL

\* The character a node leads to.
Holds(m, n) == /\ m.actor[n] \in Actors \cap m.mapped
               /\ m.id[m.actor[n]] = m.key[n] /\ m.key[n] # NoId /\ m.near[m.actor[n]]
Stacked  == {pending[i] : i \in DOMAIN pending}
OnObject == {"id", "xy", "name"}
AtNode   == OnNode \cup OnObject

\* The children of the node at hand that are not yet looked at.
Awaited == IF pc \in OnNode \ {"leftChild"} THEN Children(mem, at.node)
           ELSE IF pc = "leftChild" THEN Children(mem, at.node) \cap {at.left} ELSE {}

\* What has been reached is in the tree; what has not is below a link on the stack.
Frontier ==
  /\ pc \in {"manager", "header", "root"} => seenNodes = {}
  /\ pc \in InLoop \cup {"own"} =>
       /\ Stacked \cap Nodes \subseteq Reachable(mem) /\ seenNodes \subseteq Reachable(mem)
       /\ mem.root \in Nodes => mem.root \in seenNodes \cup Stacked
       /\ \A n \in seenNodes : \A c \in Children(mem, n) :
            c \in seenNodes \cup Stacked \/ (n = at.node /\ c \in Awaited)

\* The words read so far are those of the memory.
Copied ==
  /\ pc \in AtNode => at.node \in seenNodes
  /\ pc \in AtNode \ {"left"} => at.node \in mem.mapped /\ at.left = mem.left[at.node]
  /\ pc \in AtNode \ {"left", "right"} => at.right = mem.right[at.node]
  /\ pc \in AtNode \ {"left", "right", "key"} => at.key = mem.key[at.node]
  /\ pc \in AtNode \ {"left", "right", "key", "actor"} => at.actor = mem.actor[at.node]
  /\ pc \in {"xy", "name"} => at.id = mem.id[at.actor]
  /\ pc = "name" => Holds(mem, at.node)

\* The list has the characters of the nodes seen, but for the node at hand.
Collected ==
  /\ Listed(characters) \subseteq Standing(mem)
  /\ \A n \in seenNodes : Holds(mem, n) =>
       <<mem.actor[n], mem.key[n]>> \in Listed(characters) \/ (pc \in AtNode /\ n = at.node)
  /\ \A a \in seenActors : \/ pc = "name" /\ a = at.actor
                           \/ \E k \in DOMAIN characters : characters[k].actor = a

\* While the game changes nothing.
QuietWalk ==
  /\ pc = "idle" => seenActors = {}
  /\ Active /\ quiet => Frontier /\ Copied /\ Collected
-----------------------------------------------------------------------------
(***************************************************************************)
(* The walk over a memory the game leaves alone finds the whole tree.      *)
(***************************************************************************)

LEMMA ReachableRoot == ASSUME NEW m, m.root \in Nodes PROVE m.root \in Reachable(m)
  BY DEF Reachable

LEMMA ReachableChild ==
  ASSUME NEW m, NEW n \in Reachable(m), NEW c \in Children(m, n)
  PROVE  c \in Reachable(m)
<1>1. c \in Nodes
  BY DEF Children
<1>2. ASSUME NEW S \in SUBSET Nodes, m.root \in Nodes => m.root \in S,
             \A k \in S : Children(m, k) \subseteq S
      PROVE  c \in S
  <2>1. n \in S
    BY <1>2 DEF Reachable
  <2> QED
    BY <1>2, <2>1
<1> HIDE DEF Children
<1> QED
  BY <1>1, <1>2 DEF Reachable

LEMMA ReachableLeast ==
  ASSUME NEW m, NEW S \in SUBSET Nodes, m.root \in Nodes => m.root \in S,
         \A k \in S : Children(m, k) \subseteq S
  PROVE  Reachable(m) \subseteq S
  BY DEF Reachable

LEMMA InStanding ==
  ASSUME NEW m, NEW n \in Reachable(m), n \in m.mapped, Holds(m, n)
  PROVE  <<m.actor[n], m.key[n]>> \in Standing(m)
  BY DEF Standing, Holds

LEMMA OfStanding ==
  ASSUME NEW m, NEW p \in Standing(m)
  PROVE  \E n \in Reachable(m) : n \in m.mapped /\ Holds(m, n) /\ p = <<m.actor[n], m.key[n]>>
  BY DEF Standing, Holds

\* A step that leaves what has been reached alone, and what is yet to be looked at.
LEMMA FrontierKept ==
  ASSUME Frontier, pc \in InLoop \cup {"own"}, pc' \in InLoop,
         UNCHANGED <<mem, pending, seenNodes>>, pc' \in OnNode => at'.node = at.node,
         pc \in OnNode \ {"leftChild"} => pc' \in OnNode \ {"leftChild"},
         pc # "leftChild"
  PROVE  Frontier'
<1>1. Stacked' = Stacked
  BY DEF Stacked
<1>2. ASSUME NEW n \in seenNodes, NEW c \in Children(mem, n), n = at.node /\ c \in Awaited
      PROVE  n = at'.node /\ c \in Awaited'
  <2>1. pc \in OnNode \ {"leftChild"}
    BY <1>2 DEF Awaited
  <2> QED
    BY <1>2, <2>1 DEF Awaited
<1>3. pc' \notin {"manager", "header", "root"}
  BY DEF InLoop, OnNode
<1>4. \A n \in seenNodes : \A c \in Children(mem, n) :
        c \in seenNodes \cup Stacked \/ (n = at'.node /\ c \in Awaited')
  BY <1>2 DEF Frontier
<1> QED
  BY <1>1, <1>3, <1>4 DEF Frontier

\* A step that lists nothing and goes on with the node at hand.
LEMMA CollectedKept ==
  ASSUME Collected, pc # "name", UNCHANGED <<mem, characters, seenNodes, seenActors>>,
         pc \in AtNode => pc' \in AtNode /\ at'.node = at.node
  PROVE  Collected'
<1>1. Listed(characters') = Listed(characters)
  OBVIOUS
<1> QED
  BY <1>1 DEF Collected

\* What the step lemmas below show of a step from `pc` on.
Quiet == Active /\ quiet /\ QuietWalk

LEMMA QuietMemory == Unchanged => mem' = mem
  BY DEF Unchanged

LEMMA ListedNone == ASSUME characters = <<>> PROVE Listed(characters) = {}
  BY DEF Listed

LEMMA QuietCall == ASSUME Invariant, QuietWalk, Call PROVE Frontier' /\ Copied' /\ Collected'
<1>1. /\ pc = "idle" /\ pc' = "manager" /\ mem' = mem
      /\ UNCHANGED <<characters, seenNodes, seenActors>>
  BY DEF Call, Goto, walkVars
<1>2. characters' = <<>> /\ seenNodes' = {} /\ seenActors' = {}
  BY <1>1 DEF Invariant, Control, QuietWalk
<1>3. Frontier'
  BY <1>1, <1>2 DEF Frontier, InLoop, OnNode
<1>4. Copied'
  BY <1>1 DEF Copied, AtNode, OnObject, OnNode
<1>5. Collected'
  BY <1>2 DEF Collected, Listed
<1> QED
  BY <1>3, <1>4, <1>5

LEMMA QuietPointers ==
  ASSUME Invariant, Quiet, ReadManager \/ ReadHeader, pc' # "done"
  PROVE  Frontier' /\ Copied' /\ Collected'
<1>1. /\ pc \in {"manager", "header"} /\ pc' \in {"header", "root"} /\ mem' = mem
      /\ UNCHANGED <<characters, seenNodes, seenActors>>
  BY DEF ReadManager, ReadHeader, Fail, Unchanged, walkVars
<1>2. Frontier'
  BY <1>1 DEF Quiet, QuietWalk, Frontier, InLoop, OnNode
<1>3. Copied'
  BY <1>1 DEF Copied, AtNode, OnObject, OnNode
<1>4. Collected'
  BY <1>1, CollectedKept DEF Quiet, QuietWalk, AtNode, OnObject, OnNode
<1> QED
  BY <1>2, <1>3, <1>4

\* The root alone is on the stack.
LEMMA QuietRoot ==
  ASSUME Invariant, Quiet, ReadRoot, pc' # "done"
  PROVE  Frontier' /\ Copied' /\ Collected'
<1>1. /\ pc = "root" /\ pc' = "own" /\ mem' = mem /\ pending' = <<mem.root>>
      /\ UNCHANGED <<characters, seenNodes, seenActors>>
  BY DEF ReadRoot, Fail, Unchanged
<1>2. Frontier'
  <2>1. Stacked' = {mem.root}
    BY <1>1 DEF Stacked
  <2>2. seenNodes' = {}
    BY <1>1 DEF Quiet, QuietWalk, Frontier
  <2> QED
    BY <1>1, <2>1, <2>2, ReachableRoot DEF Frontier
<1>3. Copied'
  BY <1>1 DEF Copied, AtNode, OnObject, OnNode
<1>4. Collected'
  BY <1>1, CollectedKept DEF Quiet, QuietWalk, AtNode, OnObject, OnNode
<1> QED
  BY <1>2, <1>3, <1>4

LEMMA QuietOwnName ==
  ASSUME Invariant, Quiet, ReadOwnName
  PROVE  Frontier' /\ Copied' /\ Collected'
<1>1. /\ pc = "own" /\ pc' = "pop" /\ mem' = mem
      /\ UNCHANGED <<pending, characters, seenNodes, seenActors>>
  BY DEF ReadOwnName, Goto, Unchanged
<1>2. Frontier'
  BY <1>1, FrontierKept DEF Quiet, QuietWalk, InLoop, OnNode
<1>3. Copied'
  BY <1>1 DEF Copied, AtNode, OnObject, OnNode
<1>4. Collected'
  BY <1>1, CollectedKept DEF Quiet, QuietWalk, AtNode, OnObject, OnNode
<1> QED
  BY <1>2, <1>3, <1>4

\* The link taken off the stack is no node, has been seen, or is seen now.
LEMMA QuietPop ==
  ASSUME Invariant, Quiet, PopNode, pc' # "done"
  PROVE  Frontier' /\ Copied' /\ Collected'
<1> DEFINE n == pending[Len(pending)]
<1>1. pc = "pop" /\ pending # <<>> /\ mem' = mem /\ UNCHANGED <<characters, seenActors, header>>
  BY DEF PopNode, Unchanged
<1>2. header = Header /\ Frontier /\ Collected
  BY <1>1 DEF Invariant, Control, InLoop, Quiet, QuietWalk
<1>3. /\ n \in Stacked /\ Stacked' \subseteq Stacked /\ Stacked \subseteq Stacked' \cup {n}
      /\ n \in Links
  <2>1. /\ pending \in Seq(Links) /\ Len(pending) \in Nat \ {0}
        /\ DOMAIN pending = 1..Len(pending) /\ n \in Links
    BY <1>1, EmptySeq, ElementOfSeq, LenProperties DEF Invariant, Types
  <2>2. /\ pending' \in Seq(Links) /\ Len(pending') = Len(pending) - 1
        /\ \A i \in 1..Len(pending) - 1 : pending'[i] = pending[i]
    <3>1. pending' = SubSeq(pending, 1, Len(pending) - 1)
      BY DEF PopNode
    <3> QED
      BY <1>1, <2>1, <3>1, Popped
  <2>3. DOMAIN pending' = 1..Len(pending) - 1
    BY <2>2, LenProperties
  <2> QED
    BY <2>1, <2>2, <2>3 DEF Stacked
<1>4. pc \notin AtNode /\ Awaited = {}
  BY <1>1 DEF AtNode, OnObject, OnNode, Awaited
<1>5. pc \in InLoop
  BY <1>1 DEF InLoop
<1> HIDE DEF n
<1>6. CASE ~ Unseen(n) /\ UNCHANGED <<pc, seenNodes>>
  <2>1. n \in Nodes => n \in seenNodes
    BY <1>2, <1>6, NearbyListAssumption DEF NearbyListAssumption, Unseen
  <2>2. Awaited' = {}
    BY <1>1, <1>6 DEF Awaited, OnNode
  <2>3. \A k \in seenNodes : \A c \in Children(mem, k) : c \in Nodes
    BY DEF Children
  <2>4. Frontier'
    BY <1>1, <1>2, <1>3, <1>4, <1>5, <1>6, <2>1, <2>2, <2>3 DEF Frontier
  <2>5. Copied'
    BY <1>1, <1>6 DEF Copied, AtNode, OnObject, OnNode
  <2>6. Collected'
    BY <1>1, <1>2, <1>4, <1>6, CollectedKept
  <2> QED
    BY <2>4, <2>5, <2>6
<1>7. CASE Unseen(n) /\ seenNodes' = seenNodes \cup {n} /\ pc' = "left" /\ at'.node = n
  <2>1. n \in Nodes
    BY <1>2, <1>3, <1>7 DEF Unseen, Links
  <2>2. Awaited' = Children(mem, n)
    BY <1>1, <1>7 DEF Awaited, OnNode
  <2>3. Frontier'
    <3>1. seenNodes' \subseteq Reachable(mem) /\ Stacked' \cap Nodes \subseteq Reachable(mem)
      BY <1>2, <1>3, <1>5, <1>7, <2>1 DEF Frontier
    <3>2. mem.root \in Nodes => mem.root \in seenNodes' \cup Stacked'
      BY <1>2, <1>3, <1>5, <1>7 DEF Frontier
    <3>3. ASSUME NEW k \in seenNodes', NEW c \in Children(mem, k)
          PROVE  c \in seenNodes' \cup Stacked' \/ (k = n /\ c \in Awaited')
      <4>1. CASE k = n
        BY <2>2, <3>3, <4>1
      <4>2. CASE k \in seenNodes
        BY <1>2, <1>3, <1>4, <1>5, <1>7, <3>3, <4>2 DEF Frontier
      <4> QED
        BY <1>7, <3>3, <4>1, <4>2
    <3> QED
      BY <1>1, <1>7, <3>1, <3>2, <3>3 DEF Frontier
  <2>4. Copied'
    BY <1>1, <1>7 DEF Copied, AtNode, OnObject, OnNode
  <2>5. Collected'
    <3>1. Listed(characters') = Listed(characters) /\ pc' \in AtNode /\ pc # "name"
      BY <1>1, <1>7 DEF AtNode, OnNode
    <3> QED
      BY <1>1, <1>2, <1>4, <1>7, <3>1 DEF Collected
  <2> QED
    BY <2>3, <2>4, <2>5
<1> QED
  <2>1. CASE ~ Unseen(n)
    BY <1>6, <2>1 DEF PopNode, n
  <2>2. CASE Unseen(n)
    <3>1. seenNodes' = seenNodes \cup {n} /\ pc' = "left" /\ at' = [Fresh EXCEPT !.node = n]
      BY <2>2 DEF PopNode, Fail, n
    <3>2. at'.node = n
      BY <3>1 DEF Fresh
    <3> QED
      BY <1>7, <2>2, <3>1, <3>2
  <2> QED
    BY <2>1, <2>2

\* The four reads of a node differ only in the field.
LEMMA QuietNode ==
  ASSUME Invariant, Quiet,
         NEW from \in {"left", "right", "key", "actor"},
         NEW to \in {"right", "key", "actor", "rightChild"},
         NEW field, ReadNode(from, to, field), pc' # "done",
         [at EXCEPT ![field] = mem[field][at.node]].node = at.node
  PROVE  /\ pc = from /\ pc' = to /\ mem' = mem /\ at.node \in mem.mapped
         /\ at' = [at EXCEPT ![field] = mem[field][at.node]]
         /\ UNCHANGED <<seenNodes>> /\ at.node \in seenNodes
         /\ Frontier' /\ Collected'
<1>1. /\ pc = from /\ pc' = to /\ mem' = mem /\ at.node \in mem.mapped
      /\ at' = [at EXCEPT ![field] = mem[field][at.node]]
      /\ UNCHANGED <<pending, seenNodes, seenActors, characters>>
  BY DEF ReadNode, Fail, Readable, Local, Unchanged
<1>2. Frontier'
  BY <1>1, FrontierKept DEF Quiet, QuietWalk, InLoop, OnNode
<1>3. Collected'
  BY <1>1, CollectedKept DEF Quiet, QuietWalk, AtNode, OnNode
<1>4. at.node \in seenNodes
  BY <1>1 DEF Quiet, QuietWalk, Copied, AtNode, OnNode
<1> QED
  BY <1>1, <1>2, <1>3, <1>4

LEMMA QuietFields ==
  ASSUME Invariant, Quiet, ReadLeft \/ ReadRight \/ ReadKey \/ ReadActor, pc' # "done"
  PROVE  Frontier' /\ Copied' /\ Collected'
<1>1. at \in Locals /\ Copied
  BY DEF Invariant, Types, Quiet, QuietWalk
<1>2. CASE ReadLeft
  <2>1. [at EXCEPT !.left = mem.left[at.node]].node = at.node
    BY <1>1 DEF Locals
  <2>2. /\ pc' = "right" /\ mem' = mem /\ at.node \in mem.mapped /\ at.node \in seenNodes
        /\ at' = [at EXCEPT !.left = mem.left[at.node]] /\ seenNodes' = seenNodes
        /\ Frontier' /\ Collected'
    BY <1>2, <2>1, QuietNode DEF ReadLeft
  <2>3. at'.node = at.node /\ at'.left = mem.left[at.node]
    BY <1>1, <2>2 DEF Locals
  <2> QED
    BY <2>2, <2>3 DEF Copied, AtNode, OnObject, OnNode
<1>3. CASE ReadRight
  <2>1. [at EXCEPT !.right = mem.right[at.node]].node = at.node
    BY <1>1 DEF Locals
  <2>2. /\ pc = "right" /\ pc' = "key" /\ mem' = mem /\ at.node \in mem.mapped
        /\ at.node \in seenNodes /\ seenNodes' = seenNodes
        /\ at' = [at EXCEPT !.right = mem.right[at.node]]
        /\ Frontier' /\ Collected'
    BY <1>3, <2>1, QuietNode DEF ReadRight
  <2>3. /\ at'.node = at.node /\ at'.left = at.left /\ at'.right = mem.right[at.node]
        /\ at.left = mem.left[at.node]
    BY <1>1, <2>2 DEF Locals, Copied, AtNode, OnNode
  <2> QED
    BY <2>2, <2>3 DEF Copied, AtNode, OnObject, OnNode
<1>4. CASE ReadKey
  <2>1. [at EXCEPT !.key = mem.key[at.node]].node = at.node
    BY <1>1 DEF Locals
  <2>2. /\ pc = "key" /\ pc' = "actor" /\ mem' = mem /\ at.node \in mem.mapped
        /\ at.node \in seenNodes /\ seenNodes' = seenNodes
        /\ at' = [at EXCEPT !.key = mem.key[at.node]]
        /\ Frontier' /\ Collected'
    BY <1>4, <2>1, QuietNode DEF ReadKey
  <2>3. /\ at'.node = at.node /\ at'.left = at.left /\ at'.right = at.right
        /\ at'.key = mem.key[at.node]
        /\ at.left = mem.left[at.node] /\ at.right = mem.right[at.node]
    BY <1>1, <2>2 DEF Locals, Copied, AtNode, OnNode
  <2> QED
    BY <2>2, <2>3 DEF Copied, AtNode, OnObject, OnNode
<1>5. CASE ReadActor
  <2>1. [at EXCEPT !.actor = mem.actor[at.node]].node = at.node
    BY <1>1 DEF Locals
  <2>2. /\ pc = "actor" /\ pc' = "rightChild" /\ mem' = mem /\ at.node \in mem.mapped
        /\ at.node \in seenNodes /\ seenNodes' = seenNodes
        /\ at' = [at EXCEPT !.actor = mem.actor[at.node]]
        /\ Frontier' /\ Collected'
    BY <1>5, <2>1, QuietNode DEF ReadActor
  <2>3. /\ at'.node = at.node /\ at'.left = at.left /\ at'.right = at.right
        /\ at'.key = at.key /\ at'.actor = mem.actor[at.node]
        /\ at.left = mem.left[at.node] /\ at.right = mem.right[at.node]
        /\ at.key = mem.key[at.node]
    BY <1>1, <2>2 DEF Locals, Copied, AtNode, OnNode
  <2> QED
    BY <2>2, <2>3 DEF Copied, AtNode, OnObject, OnNode
<1> QED
  BY <1>2, <1>3, <1>4, <1>5

LEMMA StackedAppended ==
  ASSUME pending \in Seq(Links), NEW child \in Links, pending' = Append(pending, child)
  PROVE  Stacked' = Stacked \cup {child}
<1>1. /\ Len(pending) \in Nat /\ DOMAIN pending = 1..Len(pending)
      /\ DOMAIN pending' = 1..Len(pending) + 1
      /\ \A i \in 1..Len(pending) : pending'[i] = pending[i]
      /\ pending'[Len(pending) + 1] = child
  <2>1. pending' \in Seq(Links) /\ Len(pending') = Len(pending) + 1
    BY AppendProperties
  <2> QED
    BY <2>1, LenProperties, AppendProperties
<1>2. Stacked' \subseteq Stacked \cup {child}
  <2> SUFFICES ASSUME NEW i \in DOMAIN pending' PROVE pending'[i] \in Stacked \cup {child}
    BY DEF Stacked
  <2>1. i \in 1..Len(pending) \/ i = Len(pending) + 1
    BY <1>1
  <2> QED
    BY <1>1, <2>1 DEF Stacked
<1>3. Stacked \subseteq Stacked'
  BY <1>1 DEF Stacked
<1>4. child \in Stacked'
  BY <1>1 DEF Stacked
<1> QED
  BY <1>2, <1>3, <1>4

\* A child the parent and the child agree on is on the stack or seen already.
LEMMA QuietChild ==
  ASSUME Invariant, Quiet, NEW from, NEW to, NEW child \in Links,
         ReadChild(from, to, child),
         \/ from = "rightChild" /\ to = "leftChild" /\ child = at.right
         \/ from = "leftChild" /\ to = "id" /\ child = at.left
  PROVE  Frontier' /\ Copied' /\ Collected'
<1>1. /\ pc = from /\ pc' = to /\ mem' = mem
      /\ UNCHANGED <<header, seenNodes, seenActors, characters, at>>
  BY DEF ReadChild, Goto, Unchanged
<1>2. /\ header = Header /\ Frontier /\ Copied /\ Collected /\ pc \in InLoop
      /\ pending \in Seq(Links) /\ at.node \in seenNodes
      /\ child \in {mem.left[at.node], mem.right[at.node]}
  BY <1>1 DEF Invariant, Control, Types, Quiet, QuietWalk, Copied, InLoop, AtNode, OnNode
<1>3. Unseen(child) /\ ParentAgrees(child) => child \in Children(mem, at.node)
  BY <1>2 DEF Unseen, ParentAgrees, Readable, Children, Links
<1>4. child \in Children(mem, at.node) => ParentAgrees(child) /\ (Unseen(child) \/ child \in seenNodes)
  BY <1>2, NearbyListAssumption DEF NearbyListAssumption, Unseen, ParentAgrees, Readable, Children
<1>5. /\ Stacked \subseteq Stacked' /\ Stacked' \cap Nodes \subseteq Reachable(mem)
      /\ child \in Children(mem, at.node) => child \in seenNodes \cup Stacked'
  <2>1. Stacked \cap Nodes \subseteq Reachable(mem) /\ at.node \in Reachable(mem)
    BY <1>2 DEF Frontier
  <2>2. CASE Unseen(child) /\ ParentAgrees(child)
    <3>1. pending' = Append(pending, child)
      BY <2>2 DEF ReadChild
    <3>2. Stacked' = Stacked \cup {child}
      BY <1>2, <3>1, StackedAppended
    <3>3. child \in Reachable(mem)
      BY <1>3, <2>1, <2>2, ReachableChild
    <3> QED
      BY <2>1, <3>2, <3>3
  <2>3. CASE ~ (Unseen(child) /\ ParentAgrees(child))
    <3>1. pending' = pending
      BY <2>3 DEF ReadChild
    <3>2. Stacked' = Stacked
      BY <3>1 DEF Stacked
    <3> QED
      BY <1>4, <2>1, <2>3, <3>2
  <2> QED
    BY <2>2, <2>3
<1>6. ASSUME NEW n \in seenNodes, NEW c \in Children(mem, n)
      PROVE  c \in seenNodes \cup Stacked' \/ (n = at.node /\ c \in Awaited')
  <2>1. c \in seenNodes \cup Stacked \/ (n = at.node /\ c \in Awaited)
    BY <1>2, <1>6 DEF Frontier
  <2>2. ASSUME n = at.node, c # child, c \in Awaited PROVE c \in Awaited'
    <3>1. c \in {mem.left[at.node], mem.right[at.node]}
      BY <1>6, <2>2 DEF Children
    <3>2. CASE from = "rightChild"
      <4>1. child = mem.right[at.node] /\ at.left = mem.left[at.node]
        BY <1>1, <1>2, <3>2 DEF Copied, AtNode, OnNode
      <4>2. to = "leftChild"
        BY <3>2
      <4>3. Awaited' = Children(mem, at.node) \cap {at.left}
        BY <1>1, <4>2 DEF Awaited, OnNode
      <4> QED
        BY <1>6, <2>2, <3>1, <4>1, <4>3
    <3>3. CASE from = "leftChild"
      <4>1. child = at.left
        BY <3>3
      <4> QED
        BY <1>1, <2>2, <3>3, <4>1 DEF Awaited, OnNode
    <3> QED
      BY <3>2, <3>3
  <2> QED
    BY <1>5, <1>6, <2>1, <2>2
<1>7. Frontier'
  <2>1. pc' \notin {"manager", "header", "root"}
    BY <1>1
  <2>2. seenNodes \subseteq Reachable(mem) /\ (mem.root \in Nodes => mem.root \in seenNodes \cup Stacked)
    BY <1>2 DEF Frontier
  <2> QED
    BY <1>1, <1>5, <1>6, <2>1, <2>2 DEF Frontier
<1>8. Copied'
  <2>1. /\ at.node \in mem.mapped /\ at.left = mem.left[at.node] /\ at.right = mem.right[at.node]
        /\ at.key = mem.key[at.node] /\ at.actor = mem.actor[at.node]
    BY <1>1, <1>2 DEF Copied, AtNode, OnNode
  <2>2. pc' \notin {"xy", "name"}
    BY <1>1
  <2> QED
    BY <1>1, <1>2, <2>1, <2>2 DEF Copied
<1>9. Collected'
  <2>1. pc' \in AtNode /\ pc # "name"
    BY <1>1 DEF AtNode, OnNode, OnObject
  <2> QED
    BY <1>1, <1>2, <2>1, CollectedKept
<1> QED
  BY <1>7, <1>8, <1>9

LEMMA QuietChildren ==
  ASSUME Invariant, Quiet, ReadRightChild \/ ReadLeftChild
  PROVE  Frontier' /\ Copied' /\ Collected'
<1>1. at.right \in Links /\ at.left \in Links
  BY DEF Invariant, Types, Locals
<1>2. CASE ReadRightChild
  BY <1>1, <1>2, QuietChild DEF ReadRightChild
<1>3. CASE ReadLeftChild
  BY <1>1, <1>3, QuietChild DEF ReadLeftChild
<1> QED
  BY <1>2, <1>3

\* The node at hand has been dealt with.
LEMMA CollectedDone ==
  ASSUME Collected, pc \in OnObject \ {"name"}, pc' = "pop",
         UNCHANGED <<mem, characters, seenNodes, seenActors>>,
         Holds(mem, at.node) => <<mem.actor[at.node], mem.key[at.node]>> \in Listed(characters)
  PROVE  Collected'
<1>1. Listed(characters') = Listed(characters)
  OBVIOUS
<1>2. pc' \notin AtNode /\ pc' # "name"
  BY DEF AtNode, OnObject, OnNode
<1> QED
  BY <1>1, <1>2 DEF Collected

LEMMA QuietFrame ==
  ASSUME Invariant, Quiet, pc \in OnObject, pc' \in {"xy", "name", "pop"},
         UNCHANGED <<mem, pending, seenNodes>>
  PROVE  Frontier'
<1>1. /\ pc \in InLoop \cup {"own"} /\ pc' \in InLoop /\ pc' \notin OnNode
      /\ pc \notin OnNode /\ pc # "leftChild"
  BY DEF InLoop, OnNode, OnObject
<1> QED
  BY <1>1, FrontierKept DEF Quiet, QuietWalk

\* What the node at hand is known to hold.
LEMMA AtObject ==
  ASSUME Invariant, Quiet, pc \in OnObject
  PROVE  /\ at.node \in seenNodes /\ at.node \in mem.mapped /\ at.node \in Reachable(mem)
         /\ at.key = mem.key[at.node] /\ at.actor = mem.actor[at.node]
<1>1. pc \in AtNode \ {"left", "right", "key", "actor"} /\ pc \in InLoop
  BY DEF OnObject, AtNode, InLoop
<1> QED
  BY <1>1 DEF Quiet, QuietWalk, Copied, Frontier

\* An object listed already was listed with the id of this node, if it has that id.
LEMMA QuietId ==
  ASSUME Invariant, Quiet, ReadId
  PROVE  Frontier' /\ Copied' /\ Collected'
<1>1. /\ pc = "id" /\ pc' \in {"xy", "pop"} /\ mem' = mem /\ Collected
      /\ UNCHANGED <<pending, seenNodes, seenActors, characters>>
  BY DEF ReadId, Unchanged, Quiet, QuietWalk
<1>2. Frontier'
  BY <1>1, QuietFrame DEF OnObject
<1>3. /\ at.node \in seenNodes /\ at.node \in mem.mapped /\ at \in Locals /\ Copied
      /\ at.key = mem.key[at.node] /\ at.actor = mem.actor[at.node]
  BY <1>1, AtObject DEF OnObject, Invariant, Types, Quiet, QuietWalk
<1>4. CASE pc' = "pop"
  <2>1. ASSUME Holds(mem, at.node)
        PROVE  <<mem.actor[at.node], mem.key[at.node]>> \in Listed(characters)
    <3>1. at.actor # Null /\ Readable(at.actor)
      BY <1>3, <2>1, NearbyListAssumption DEF NearbyListAssumption, Holds, Readable
    <3>2. at.actor \in seenActors
      BY <1>1, <1>4, <3>1 DEF ReadId, Known
    <3>3. PICK k \in DOMAIN characters : characters[k].actor = at.actor
      BY <1>1, <3>2 DEF Collected
    <3> DEFINE p == <<characters[k].actor, characters[k].id>>
    <3>4. p \in Listed(characters) /\ p \in Standing(mem)
      BY <1>1 DEF Collected, Listed
    <3>5. PICK n \in Reachable(mem) : Holds(mem, n) /\ p = <<mem.actor[n], mem.key[n]>>
      BY <3>4, OfStanding
    <3>6. characters[k].actor = mem.actor[n] /\ characters[k].id = mem.key[n]
      BY <3>5
    <3>7. p = <<mem.actor[at.node], mem.key[at.node]>>
      BY <1>3, <2>1, <3>3, <3>5, <3>6 DEF Holds
    <3> QED
      BY <3>4, <3>7
  <2>2. Collected'
    BY <1>1, <1>4, <2>1, CollectedDone DEF OnObject
  <2> QED
    BY <1>2, <1>4, <2>2 DEF Copied, AtNode, OnObject, OnNode
<1>5. CASE pc' = "xy"
  <2>1. at' = [at EXCEPT !.id = mem.id[at.actor]]
    BY <1>1, <1>5 DEF ReadId, Local
  <2>2. /\ at'.node = at.node /\ at'.left = at.left /\ at'.right = at.right /\ at'.key = at.key
        /\ at'.actor = at.actor /\ at'.id = mem.id[at.actor]
    BY <1>3, <2>1 DEF Locals
  <2>3. at.left = mem.left[at.node] /\ at.right = mem.right[at.node]
    BY <1>1, <1>3 DEF Copied, AtNode, OnObject, OnNode
  <2>4. Copied'
    BY <1>1, <1>3, <1>5, <2>2, <2>3 DEF Copied
  <2>5. Collected'
    BY <1>1, <1>5, <2>2, CollectedKept DEF AtNode, OnObject
  <2> QED
    BY <1>2, <2>4, <2>5
<1> QED
  BY <1>1, <1>4, <1>5

\* The object is a character just when the node leads to one.
LEMMA QuietPosition ==
  ASSUME Invariant, Quiet, ReadPosition
  PROVE  Frontier' /\ Copied' /\ Collected'
<1>1. /\ pc = "xy" /\ pc' \in {"name", "pop"} /\ mem' = mem /\ Collected
      /\ UNCHANGED <<pending, seenNodes, characters, at>>
  BY DEF ReadPosition, Unchanged, Quiet, QuietWalk
<1>2. Frontier'
  BY <1>1, QuietFrame DEF OnObject
<1>3. /\ at.node \in seenNodes /\ at.node \in mem.mapped /\ Copied
      /\ at.key = mem.key[at.node] /\ at.actor = mem.actor[at.node] /\ at.id = mem.id[at.actor]
      /\ at.actor \in Actors
  BY <1>1, AtObject DEF OnObject, Copied, Quiet, QuietWalk, Invariant, AtHand
<1>4. Holds(mem, at.node) <=> IsCharacter
  BY <1>3 DEF Holds, IsCharacter, Readable
<1>5. CASE pc' = "pop"
  <2>1. ~ IsCharacter /\ seenActors' = seenActors
    BY <1>1, <1>5 DEF ReadPosition
  <2>2. Collected'
    BY <1>1, <1>4, <1>5, <2>1, CollectedDone DEF OnObject
  <2> QED
    BY <1>2, <1>5, <2>2 DEF Copied, AtNode, OnObject, OnNode
<1>6. CASE pc' = "name"
  <2>1. IsCharacter /\ seenActors' = seenActors \cup {at.actor}
    BY <1>1, <1>6 DEF ReadPosition
  <2>2. at.left = mem.left[at.node] /\ at.right = mem.right[at.node]
    BY <1>1, <1>3 DEF Copied, AtNode, OnObject, OnNode
  <2>3. Copied'
    BY <1>1, <1>3, <1>4, <1>6, <2>1, <2>2 DEF Copied
  <2>4. Collected'
    <3>1. Listed(characters') = Listed(characters)
      BY <1>1
    <3>2. pc \in AtNode /\ pc' \in AtNode
      BY <1>1, <1>6 DEF AtNode, OnObject
    <3> QED
      BY <1>1, <1>6, <2>1, <3>1, <3>2 DEF Collected
  <2> QED
    BY <1>2, <2>3, <2>4
<1> QED
  BY <1>1, <1>5, <1>6

LEMMA ListedAppended ==
  ASSUME NEW s \in Seq(Character), NEW e \in Character
  PROVE  /\ Listed(Append(s, e)) = Listed(s) \cup {<<e.actor, e.id>>}
         /\ \A k \in DOMAIN s : k \in DOMAIN Append(s, e) /\ Append(s, e)[k] = s[k]
         /\ \E k \in DOMAIN Append(s, e) : Append(s, e)[k] = e
<1> DEFINE t == Append(s, e)
<1>1. /\ Len(s) \in Nat /\ DOMAIN s = 1..Len(s)
      /\ t \in Seq(Character) /\ Len(t) = Len(s) + 1
      /\ \A i \in 1..Len(s) : t[i] = s[i]
      /\ t[Len(s) + 1] = e
  BY LenProperties, AppendProperties
<1>2. DOMAIN t = 1..Len(s) + 1
  BY <1>1, LenProperties
<1> HIDE DEF t
<1>3. /\ \A k \in DOMAIN s : k \in DOMAIN t /\ t[k] = s[k]
      /\ \E k \in DOMAIN t : t[k] = e
      /\ \A k \in DOMAIN t : (k \in DOMAIN s /\ t[k] = s[k]) \/ t[k] = e
  BY <1>1, <1>2
<1>4. Listed(t) = Listed(s) \cup {<<e.actor, e.id>>}
  <2>1. Listed(t) \subseteq Listed(s) \cup {<<e.actor, e.id>>}
    BY <1>3 DEF Listed
  <2>2. Listed(s) \subseteq Listed(t)
    BY <1>3 DEF Listed
  <2>3. <<e.actor, e.id>> \in Listed(t)
    BY <1>3 DEF Listed
  <2> QED
    BY <2>1, <2>2, <2>3
<1> QED
  BY <1>3, <1>4 DEF t

LEMMA QuietName ==
  ASSUME Invariant, Quiet, ReadName
  PROVE  Frontier' /\ Copied' /\ Collected'
<1>1. /\ pc = "name" /\ pc' = "pop" /\ mem' = mem /\ Collected
      /\ UNCHANGED <<pending, seenNodes, seenActors, at>>
  BY DEF ReadName, Goto, Unchanged, Quiet, QuietWalk
<1>2. Frontier'
  BY <1>1, QuietFrame DEF OnObject
<1>3. /\ at.node \in seenNodes /\ at.node \in mem.mapped /\ at.node \in Reachable(mem)
      /\ at.key = mem.key[at.node] /\ at.actor = mem.actor[at.node] /\ at.id = mem.id[at.actor]
      /\ at.actor \in Actors /\ at.id \in Ids /\ Holds(mem, at.node)
  BY <1>1, AtObject DEF OnObject, Copied, Quiet, QuietWalk, Invariant, AtHand
<1>4. PICK name \in Names :
        characters' = Append(characters, [actor |-> at.actor, id |-> at.id, name |-> name])
  BY DEF ReadName, Names
<1> DEFINE new == [actor |-> at.actor, id |-> at.id, name |-> name]
<1>5. new \in Character /\ new.actor = at.actor /\ new.id = at.id
  BY <1>3 DEF Character
<1> HIDE DEF new
<1>6. /\ Listed(characters') = Listed(characters) \cup {<<at.actor, at.id>>}
      /\ \A k \in DOMAIN characters : k \in DOMAIN characters' /\ characters'[k] = characters[k]
      /\ \E k \in DOMAIN characters' : characters'[k].actor = at.actor
  <2>1. characters' = Append(characters, new) /\ characters \in Seq(Character)
    BY <1>4 DEF new, Invariant, Types
  <2> QED
    BY <1>5, <2>1, ListedAppended
<1>7. <<at.actor, at.id>> = <<mem.actor[at.node], mem.key[at.node]>>
  BY <1>3 DEF Holds
<1>8. <<at.actor, at.id>> \in Standing(mem)
  BY <1>3, <1>7, InStanding
<1>9. Listed(characters') \subseteq Standing(mem)
  BY <1>1, <1>6, <1>8 DEF Collected
<1>10. ASSUME NEW n \in seenNodes, Holds(mem, n)
       PROVE  <<mem.actor[n], mem.key[n]>> \in Listed(characters')
  BY <1>1, <1>6, <1>7, <1>10 DEF Collected
<1>11. ASSUME NEW a \in seenActors PROVE \E k \in DOMAIN characters' : characters'[k].actor = a
  BY <1>1, <1>6, <1>11 DEF Collected
<1>12. Collected'
  BY <1>1, <1>9, <1>10, <1>11 DEF Collected
<1> QED
  BY <1>1, <1>2, <1>12 DEF Copied, AtNode, OnObject, OnNode

LEMMA QuietStep == ASSUME Invariant, QuietWalk, Next PROVE QuietWalk'
<1>1. CASE Return
  BY <1>1 DEF Return, Goto, QuietWalk, Active
<1>2. CASE Call
  BY <1>2, QuietCall DEF Call, Goto, QuietWalk
<1>3. CASE Game
  <2>1. pc' = pc /\ UNCHANGED <<walkVars, outcome>> /\ quiet' = (quiet /\ (~ Active \/ mem' = mem))
    BY <1>3 DEF Game
  <2>2. CASE Active' /\ quiet'
    <3>1. Active /\ quiet /\ mem' = mem
      BY <2>1, <2>2 DEF Active
    <3> QED
      BY <2>1, <2>2, <3>1
      DEF QuietWalk, walkVars, Frontier, Copied, Collected, Stacked, Awaited, Active
  <2>3. CASE ~ (Active' /\ quiet')
    BY <2>1, <2>3 DEF QuietWalk, walkVars
  <2> QED
    BY <2>2, <2>3
<1>4. CASE Step
  <2>1. Active /\ pc' # "idle" /\ quiet' = quiet
    <3>1. CASE ReadManager \/ ReadHeader \/ ReadRoot \/ ReadOwnName
      BY <3>1
      DEF ReadManager, ReadHeader, ReadRoot, ReadOwnName, Goto, Fail, Unchanged, Active
    <3>2. CASE PopNode
      BY <3>2 DEF PopNode, Fail, Unchanged, Active
    <3>3. CASE ReadLeft \/ ReadRight \/ ReadKey \/ ReadActor
      BY <3>3 DEF ReadLeft, ReadRight, ReadKey, ReadActor, ReadNode, Fail, Unchanged, Active
    <3>4. CASE ReadRightChild \/ ReadLeftChild
      BY <3>4 DEF ReadRightChild, ReadLeftChild, ReadChild, Goto, Unchanged, Active
    <3>5. CASE ReadId \/ ReadPosition
      BY <3>5 DEF ReadId, ReadPosition, Unchanged, Active
    <3>6. CASE ReadName
      BY <3>6 DEF ReadName, Goto, Unchanged, Active
    <3>7. CASE Finish
      BY <3>7 DEF Finish, Fail, Unchanged, Active
    <3> QED
      BY <1>4, <3>1, <3>2, <3>3, <3>4, <3>5, <3>6, <3>7 DEF Step
  <2>2. CASE quiet /\ pc' # "done"
    <3>1. Quiet
      BY <2>1, <2>2 DEF Quiet
    <3>2. ~ Finish
      BY <2>2 DEF Finish, Fail
    <3>3. Frontier' /\ Copied' /\ Collected'
      BY <1>4, <2>2, <3>1, <3>2, QuietPointers, QuietRoot, QuietOwnName, QuietPop, QuietFields,
         QuietChildren, QuietId, QuietPosition, QuietName DEF Step
    <3> QED
      BY <2>1, <3>3 DEF QuietWalk
  <2>3. CASE ~ (quiet /\ pc' # "done")
    BY <2>1, <2>3 DEF QuietWalk, Active
  <2> QED
    BY <2>2, <2>3
<1> QED
  BY <1>1, <1>2, <1>3, <1>4 DEF Next

\* When the stack is empty the nodes seen are closed, and so they are the tree.
LEMMA QuietEnd ==
  ASSUME Invariant, Quiet, pc = "pop", pending = <<>>
  PROVE  Listed(characters) = Standing(mem)
<1>1. Frontier /\ Collected /\ pc \in InLoop /\ pc \notin AtNode /\ pc \notin OnNode
  BY DEF Quiet, QuietWalk, InLoop, AtNode, OnNode, OnObject
<1>2. Stacked = {} /\ Awaited = {}
  BY <1>1 DEF Stacked, Awaited
<1>3. Reachable(mem) \subseteq seenNodes
  <2>1. mem.root \in Nodes => mem.root \in seenNodes
    BY <1>1, <1>2 DEF Frontier
  <2>2. \A n \in seenNodes : Children(mem, n) \subseteq seenNodes
    BY <1>1, <1>2 DEF Frontier
  <2>3. seenNodes \in SUBSET Nodes
    BY DEF Invariant, Types
  <2> QED
    BY <2>1, <2>2, <2>3, ReachableLeast
<1>4. Standing(mem) \subseteq Listed(characters)
  BY <1>1, <1>3, OfStanding DEF Collected
<1> QED
  BY <1>1, <1>4 DEF Collected

\* A call that fails has met a null pointer or memory that is not there.
LEMMA FailsForCause ==
  ASSUME Invariant, Step, pc' = "done", outcome'.kind = "FAILED",
         mem.mapped = Addresses
  PROVE  Null \in {mem.manager, mem.header, mem.root}
<1>1. {"image", "manager", Header} \cup Nodes \subseteq mem.mapped
  BY DEF Addresses
<1>2. CASE ReadManager
  BY <1>1, <1>2 DEF ReadManager, Readable
<1>3. CASE ReadHeader
  BY <1>1, <1>3 DEF ReadHeader, Readable
<1>4. CASE ReadRoot
  <2>1. header = Header
    BY <1>4 DEF ReadRoot, Invariant, Control
  <2> QED
    BY <1>1, <1>4, <2>1 DEF ReadRoot, Readable
<1>5. CASE ReadOwnName \/ ReadRightChild \/ ReadLeftChild \/ ReadId \/ ReadPosition \/ ReadName
  BY <1>5 DEF ReadOwnName, ReadRightChild, ReadLeftChild, ReadChild, ReadId, ReadPosition, ReadName, Goto
<1>6. CASE PopNode
  <2>1. pc # "done"
    BY <1>6 DEF PopNode
  <2>2. outcome' = [kind |-> "TOO_MANY", list |-> <<>>]
    BY <1>6, <2>1 DEF PopNode, Fail
  <2> QED
    BY <2>2
<1>7. CASE ReadLeft \/ ReadRight \/ ReadKey \/ ReadActor
  <2>1. at.node \in Nodes
    BY <1>7 DEF Invariant, Control, OnNode, ReadLeft, ReadRight, ReadKey, ReadActor, ReadNode
  <2>2. Readable(at.node)
    BY <1>1, <2>1 DEF Readable
  <2> QED
    BY <1>7, <2>2 DEF ReadLeft, ReadRight, ReadKey, ReadActor, ReadNode
<1>8. CASE Finish
  <2>1. \/ outcome' = [kind |-> "EMPTY", list |-> <<>>]
        \/ outcome' = [kind |-> "TOO_LARGE", list |-> <<>>]
        \/ outcome'.kind = "LISTED"
    BY <1>8 DEF Finish, Fail
  <2> QED
    BY <2>1
<1> QED
  BY <1>2, <1>3, <1>4, <1>5, <1>6, <1>7, <1>8 DEF Step

\* The list that is returned names the characters of the walk and no others.
LEMMA OutcomeListed ==
  ASSUME Invariant, Finish, outcome'.kind = "LISTED"
  PROVE  Listed(outcome'.list) = Listed(characters)
<1> DEFINE named(k) == IF k \notin Nameless THEN characters[k]
                       ELSE [characters[k] EXCEPT !.name = IF Substitute THEN "player" ELSE "ID"]
<1>1. outcome' = [kind |-> "LISTED", list |-> [k \in DOMAIN characters |-> named(k)]]
  <2>1. ~ Fail("EMPTY") /\ ~ Fail("TOO_LARGE")
    BY DEF Fail
  <2> QED
    BY <2>1 DEF Finish
<1>2. \A k \in DOMAIN characters : characters[k] \in Character
  BY ElementOfSeq DEF Invariant, Types
<1>3. \A k \in DOMAIN characters :
        named(k).actor = characters[k].actor /\ named(k).id = characters[k].id
  BY <1>2 DEF Character
<1> HIDE DEF named
<1>4. outcome'.list = [k \in DOMAIN characters |-> named(k)]
  BY <1>1
<1> QED
  BY <1>3, <1>4 DEF Listed

\* A list read while the game changed nothing holds exactly the characters that stand in
\* the tree, whatever its shape, with cycles, shared nodes and nodes that are not there;
\* and only missing memory makes the call fail.
THEOREM QuietListExact == Spec => QuietListIsExact
<1> DEFINE Exact ==
      Active /\ pc' = "done" /\ quiet =>
        /\ outcome'.kind = "LISTED" => Listed(outcome'.list) = Standing(mem)
        /\ outcome'.kind = "EMPTY" => Standing(mem) = {}
        /\ mem.mapped = Addresses /\ Null \notin {mem.manager, mem.header, mem.root} =>
             outcome'.kind # "FAILED"
<1>1. Init => QuietWalk
  BY DEF Init, QuietWalk, Active
<1>2. Invariant /\ QuietWalk /\ [Next]_vars => QuietWalk'
  <2>1. ASSUME QuietWalk, UNCHANGED vars PROVE QuietWalk'
    BY <2>1
    DEF QuietWalk, vars, walkVars, Frontier, Copied, Collected, Stacked, Awaited, Active
  <2> QED
    BY <2>1, QuietStep
<1>3. Invariant /\ QuietWalk /\ Next => Exact
  <2> SUFFICES ASSUME Invariant, QuietWalk, Next, Active, pc' = "done", quiet PROVE Exact
    OBVIOUS
  <2>1. Step
    BY DEF Next, Game, Call, Return, Goto, Active
  <2>2. ASSUME outcome'.kind \in {"LISTED", "EMPTY"}
        PROVE  Finish /\ pc = "pop" /\ pending = <<>>
    <3>1. ~ Fail("FAILED") /\ ~ Fail("TOO_MANY")
      BY <2>2 DEF Fail
    <3>2. ~ (ReadManager \/ ReadHeader \/ ReadRoot \/ ReadOwnName)
      BY <3>1 DEF ReadManager, ReadHeader, ReadRoot, ReadOwnName, Goto
    <3>3. ~ PopNode
      BY <3>1 DEF PopNode
    <3>4. ~ (ReadLeft \/ ReadRight \/ ReadKey \/ ReadActor)
      BY <3>1 DEF ReadLeft, ReadRight, ReadKey, ReadActor, ReadNode
    <3>5. ~ (ReadRightChild \/ ReadLeftChild \/ ReadId \/ ReadPosition \/ ReadName)
      BY DEF ReadRightChild, ReadLeftChild, ReadChild, ReadId, ReadPosition, ReadName, Goto
    <3> QED
      BY <2>1, <3>2, <3>3, <3>4, <3>5 DEF Step, Finish
  <2>3. outcome'.kind = "LISTED" => Listed(outcome'.list) = Standing(mem)
    BY <2>2, QuietEnd, OutcomeListed DEF Quiet
  <2>4. outcome'.kind = "EMPTY" => Standing(mem) = {}
    <3>1. ASSUME outcome'.kind = "EMPTY" PROVE characters = <<>>
      BY <2>2, <3>1 DEF Finish, Fail
    <3> QED
      BY <2>2, <3>1, QuietEnd, ListedNone DEF Quiet
  <2> QED
    BY <2>1, <2>3, <2>4, FailsForCause
<1>4. Invariant /\ QuietWalk /\ [Next]_vars => [Exact]_vars
  BY <1>3
<1> QED
  BY <1>1, <1>2, <1>4, Invariance, PTL DEF Spec, QuietListIsExact
-----------------------------------------------------------------------------
(***************************************************************************)
(* Whatever the game does, the walk takes a bounded number of steps.       *)
(***************************************************************************)

\* The steps still to take for the node or object at hand; a child that may go on the
\* stack counts one more.
OnTurn(p) ==
  CASE p = "pop"        -> 1
    [] p = "name"       -> 2
    [] p = "xy"         -> 3
    [] p = "id"         -> 4
    [] p = "leftChild"  -> 6
    [] p = "rightChild" -> 8
    [] p = "actor"      -> 9
    [] p = "key"        -> 10
    [] p = "right"      -> 11
    [] p = "left"       -> 12
    [] OTHER            -> 0

\* The steps a walk at point p can still take: at most twelve for each node not seen yet,
\* one for each link on the stack, and those for the node or object at hand.
Remaining(p, seen, stacked) ==
  CASE p \in InLoop  -> 12 * (MaxNodes + 1 - seen) + (stacked + OnTurn(p))
    [] p = "own"     -> 12 * (MaxNodes + 1) + 3
    [] p = "root"    -> 12 * (MaxNodes + 1) + 4
    [] p = "header"  -> 12 * (MaxNodes + 1) + 5
    [] p = "manager" -> 12 * (MaxNodes + 1) + 6
    [] OTHER         -> 0
StepsLeft == Remaining(pc, Cardinality(seenNodes), Len(pending))

\* Each step of the walk is one step less to take, and a change of the game gives it no
\* more.
StepsAreBounded ==
  [][/\ StepsLeft \in 0..12 * (MaxNodes + 1) + 6
     /\ Step => StepsLeft' < StepsLeft
     /\ Game => StepsLeft' = StepsLeft]_vars


LEMMA Counted ==
  ASSUME Invariant
  PROVE  /\ Cardinality(seenNodes) \in Nat /\ Len(pending) \in Nat /\ MaxNodes \in Nat
         /\ pc \in Points
         /\ pc # "done" => Cardinality(seenNodes) <= MaxNodes
                           /\ Len(pending) + 1 <= Cardinality(seenNodes) + Spare(pc)
<1>1. seenNodes \in SUBSET Nodes /\ pending \in Seq(Links) /\ pc \in Points
  BY DEF Invariant, Types
<1> QED
  BY <1>1, SeenFinite, NearbyListAssumption DEF NearbyListAssumption, Invariant, WalkBounded

LEMMA OnTurnInRange == ASSUME NEW p \in InLoop PROVE OnTurn(p) \in 1..12
<1>1. p \in {"left", "right", "key", "actor", "rightChild"} => OnTurn(p) \in 1..12
  BY DEF OnTurn
<1>2. p \in {"leftChild", "id", "xy", "name", "pop"} => OnTurn(p) \in 1..12
  BY DEF OnTurn
<1> QED
  BY <1>1, <1>2 DEF InLoop, OnNode

LEMMA StepsInRange ==
  ASSUME Invariant
  PROVE  StepsLeft \in Nat /\ StepsLeft <= 12 * (MaxNodes + 1) + 6 /\ (Active => StepsLeft > 0)
<1> DEFINE seen    == Cardinality(seenNodes)
           stacked == Len(pending)
<1>1. /\ seen \in Nat /\ stacked \in Nat /\ MaxNodes \in Nat /\ pc \in Points
      /\ pc # "done" => seen <= MaxNodes /\ stacked + 1 <= seen + Spare(pc)
  BY Counted
<1>2. StepsLeft = Remaining(pc, seen, stacked)
  BY DEF StepsLeft
<1> HIDE DEF seen, stacked
<1>3. CASE pc \in InLoop
  <2>1. /\ OnTurn(pc) \in 1..12
        /\ stacked + 1 <= seen + Spare(pc) => stacked + OnTurn(pc) <= 12 * seen + 6
    <3>1. CASE pc \in OnNode
      BY <1>1, <3>1 DEF OnTurn, Spare, OnNode
    <3>2. CASE pc \in {"pop", "id", "xy", "name"}
      BY <1>1, <3>2 DEF OnTurn, Spare, OnNode
    <3> QED
      BY <1>3, <3>1, <3>2 DEF InLoop
  <2>2. StepsLeft = 12 * (MaxNodes + 1 - seen) + (stacked + OnTurn(pc))
    BY <1>2, <1>3 DEF Remaining, InLoop, OnNode
  <2>3. pc # "done"
    BY <1>3 DEF InLoop, OnNode
  <2> QED
    BY <1>1, <2>1, <2>2, <2>3
<1>4. CASE pc \in {"manager", "header", "root", "own"}
  <2>1. StepsLeft \in {12 * (MaxNodes + 1) + k : k \in 3..6}
    BY <1>2, <1>4 DEF Remaining, InLoop, OnNode
  <2> QED
    BY <1>1, <2>1
<1>5. CASE pc \in {"idle", "done"}
  <2>1. StepsLeft = 0
    BY <1>2, <1>5 DEF Remaining, InLoop, OnNode
  <2> QED
    BY <1>1, <1>5, <2>1 DEF Active
<1> QED
  BY <1>1, <1>3, <1>4, <1>5 DEF Points

\* A step within the loop that looks at no new node.
LEMMA TurnSpends ==
  ASSUME Invariant, pc \in InLoop, pc' \in InLoop, seenNodes' = seenNodes,
         Len(pending') \in Nat, Len(pending') + OnTurn(pc') < Len(pending) + OnTurn(pc)
  PROVE  StepsLeft' < StepsLeft
<1> DEFINE unseen == 12 * (MaxNodes + 1 - Cardinality(seenNodes))
           before == Len(pending) + OnTurn(pc)
           after  == Len(pending') + OnTurn(pc')
<1>1. OnTurn(pc) \in Nat /\ OnTurn(pc') \in Nat
  BY OnTurnInRange
<1>2. Len(pending) \in Nat /\ MaxNodes \in Nat /\ Cardinality(seenNodes) \in Nat
  BY Counted
<1>3. before \in Nat /\ after \in Nat /\ after < before
  BY <1>1, <1>2
<1>4. unseen \in Int
  BY <1>2
<1>5. StepsLeft = unseen + before
  BY DEF StepsLeft, Remaining, InLoop, OnNode
<1>6. StepsLeft' = unseen + after
  BY DEF StepsLeft, Remaining, InLoop, OnNode
<1> HIDE DEF unseen, before, after
<1> QED
  BY <1>3, <1>4, <1>5, <1>6

LEMMA EndSpends == ASSUME Invariant, Active, pc' = "done" PROVE StepsLeft' < StepsLeft
<1>1. StepsLeft' = 0
  BY DEF StepsLeft, Remaining, InLoop, OnNode
<1> QED
  BY <1>1, StepsInRange

LEMMA PopSpends == ASSUME Invariant, PopNode PROVE StepsLeft' < StepsLeft
<1> DEFINE n == pending[Len(pending)]
<1>1. /\ pc = "pop" /\ pending # <<>> /\ pending \in Seq(Links) /\ seenNodes \in SUBSET Nodes
      /\ pending' = SubSeq(pending, 1, Len(pending) - 1)
  BY DEF PopNode, Invariant, Types
<1>2. Len(pending') = Len(pending) - 1 /\ Len(pending') \in Nat
  BY <1>1, Popped
<1>3. CASE ~ Unseen(n)
  <2>1. pc' = "pop" /\ seenNodes' = seenNodes
    BY <1>1, <1>3 DEF PopNode
  <2> QED
    BY <1>1, <1>2, <2>1, TurnSpends, Counted DEF OnTurn, InLoop
<1>4. CASE Unseen(n)
  <2>1. seenNodes' = seenNodes \cup {n} /\ (pc' = "done" \/ pc' = "left")
    BY <1>1, <1>4 DEF PopNode, Fail
  <2>2. n \in Nodes
    <3>1. n \in Links
      BY <1>1, Popped
    <3>2. header = Header
      BY <1>1 DEF Invariant, Control, InLoop
    <3> QED
      BY <1>4, <3>1, <3>2 DEF Unseen, Links
  <2>3. Cardinality(seenNodes') = Cardinality(seenNodes) + 1
    BY <1>1, <1>4, <2>1, SeenFinite DEF Unseen
  <2>4. CASE pc' = "left"
    <3>1. /\ StepsLeft = 12 * (MaxNodes + 1 - Cardinality(seenNodes)) + (Len(pending) + 1)
          /\ StepsLeft' = 12 * (MaxNodes + 1 - Cardinality(seenNodes')) + (Len(pending') + 12)
      BY <1>1, <2>4 DEF StepsLeft, Remaining, OnTurn, InLoop, OnNode
    <3> QED
      BY <1>2, <2>3, <3>1, Counted
  <2>5. CASE pc' = "done"
    BY <1>1, <2>5, EndSpends DEF Active
  <2> QED
    BY <2>1, <2>4, <2>5
<1> QED
  BY <1>3, <1>4

LEMMA ChildSpends ==
  ASSUME Invariant, ReadRightChild \/ ReadLeftChild
  PROVE  StepsLeft' < StepsLeft
<1>1. PICK child \in {at.right, at.left} :
        /\ \/ pc = "rightChild" /\ pc' = "leftChild"
           \/ pc = "leftChild" /\ pc' = "id"
        /\ pending' = pending \/ pending' = Append(pending, child)
        /\ seenNodes' = seenNodes
  BY DEF ReadRightChild, ReadLeftChild, ReadChild, Goto
<1>2. pending \in Seq(Links) /\ at \in Locals
  BY DEF Invariant, Types
<1>3. Len(pending') \in {Len(pending), Len(pending) + 1}
  BY <1>1, <1>2
<1>4. pc \in InLoop /\ pc' \in InLoop /\ OnTurn(pc') + 2 <= OnTurn(pc) /\ OnTurn(pc) \in Nat
      /\ OnTurn(pc') \in Nat
  BY <1>1 DEF OnTurn, InLoop, OnNode
<1> QED
  BY <1>1, <1>3, <1>4, TurnSpends, Counted

LEMMA StepSpends == ASSUME Invariant, Step PROVE StepsLeft' < StepsLeft
<1>1. CASE ReadManager \/ ReadHeader \/ ReadRoot
  <2>1. \/ pc' = "done"
        \/ pc = "manager" /\ pc' = "header"
        \/ pc = "header" /\ pc' = "root"
        \/ pc = "root" /\ pc' = "own"
    BY <1>1 DEF ReadManager, ReadHeader, ReadRoot, Fail
  <2>2. CASE pc' = "done"
    BY <1>1, <2>2, EndSpends DEF ReadManager, ReadHeader, ReadRoot, Active
  <2>3. CASE pc' # "done"
    BY <2>1, <2>3, Counted DEF StepsLeft, Remaining, InLoop, OnNode
  <2> QED
    BY <2>2, <2>3
<1>2. CASE ReadOwnName
  <2>1. pc = "own" /\ pc' = "pop" /\ pending' = pending /\ seenNodes' = seenNodes
    BY <1>2 DEF ReadOwnName, Goto
  <2>2. /\ StepsLeft = 12 * (MaxNodes + 1) + 3
        /\ StepsLeft' = 12 * (MaxNodes + 1 - Cardinality(seenNodes)) + (Len(pending) + 1)
    BY <2>1 DEF StepsLeft, Remaining, OnTurn, InLoop, OnNode
  <2>3. Len(pending) <= Cardinality(seenNodes) + 1
    BY <2>1, Counted DEF Spare, OnNode
  <2> QED
    BY <2>2, <2>3, Counted
<1>3. CASE ReadLeft \/ ReadRight \/ ReadKey \/ ReadActor
  <2>1. /\ pending' = pending /\ seenNodes' = seenNodes
        /\ \/ pc = "left" /\ pc' \in {"right", "done"}
           \/ pc = "right" /\ pc' \in {"key", "done"}
           \/ pc = "key" /\ pc' \in {"actor", "done"}
           \/ pc = "actor" /\ pc' \in {"rightChild", "done"}
    BY <1>3 DEF ReadLeft, ReadRight, ReadKey, ReadActor, ReadNode, Fail
  <2>2. CASE pc' = "done"
    BY <2>1, <2>2, EndSpends DEF Active
  <2>3. CASE pc' # "done"
    <3>1. /\ pc \in InLoop /\ pc' \in InLoop /\ OnTurn(pc') < OnTurn(pc)
          /\ OnTurn(pc) \in Nat /\ OnTurn(pc') \in Nat
      BY <2>1, <2>3 DEF OnTurn, InLoop, OnNode
    <3> QED
      BY <2>1, <3>1, TurnSpends, Counted
  <2> QED
    BY <2>2, <2>3
<1>4. CASE ReadId \/ ReadPosition \/ ReadName
  <2>1. /\ pending' = pending /\ seenNodes' = seenNodes
        /\ \/ pc = "id" /\ pc' \in {"xy", "pop"}
           \/ pc = "xy" /\ pc' \in {"name", "pop"}
           \/ pc = "name" /\ pc' = "pop"
    BY <1>4 DEF ReadId, ReadPosition, ReadName, Goto
  <2>2. /\ pc \in InLoop /\ pc' \in InLoop /\ OnTurn(pc') < OnTurn(pc)
        /\ OnTurn(pc) \in Nat /\ OnTurn(pc') \in Nat
    BY <2>1 DEF OnTurn, InLoop, OnNode
  <2> QED
    BY <2>1, <2>2, TurnSpends, Counted
<1>5. CASE Finish
  BY <1>5, EndSpends DEF Finish, Fail, Active
<1> QED
  BY <1>1, <1>2, <1>3, <1>4, <1>5, PopSpends, ChildSpends DEF Step

\* A walk takes at most 12 * (MaxNodes + 1) + 6 steps, whatever the links do meanwhile:
\* neither a ring nor a tree that grows under the walk can hold it.
THEOREM BoundedWalk == Spec => StepsAreBounded
<1>1. Invariant /\ [Next]_vars =>
        [/\ StepsLeft \in 0..12 * (MaxNodes + 1) + 6
         /\ Step => StepsLeft' < StepsLeft
         /\ Game => StepsLeft' = StepsLeft]_vars
  <2> SUFFICES ASSUME Invariant
               PROVE  /\ StepsLeft \in 0..12 * (MaxNodes + 1) + 6
                      /\ Step => StepsLeft' < StepsLeft
                      /\ Game => StepsLeft' = StepsLeft
    OBVIOUS
  <2>1. StepsLeft \in 0..12 * (MaxNodes + 1) + 6
    BY StepsInRange, Counted
  <2>2. ASSUME Game PROVE StepsLeft' = StepsLeft
    <3>1. pc' = pc /\ seenNodes' = seenNodes /\ pending' = pending
      BY <2>2 DEF Game, walkVars
    <3> QED
      BY <3>1 DEF StepsLeft, Remaining, OnTurn
  <2> QED
    BY <2>1, <2>2, StepSpends
<1> QED
  BY <1>1, Invariance, PTL DEF Spec, StepsAreBounded
=============================================================================
