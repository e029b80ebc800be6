----------------------------- MODULE NearbyList -----------------------------
(***************************************************************************)
(* ReadNearbyCharacters of the engine: list the characters around the      *)
(* player by walking the game's tree from user mode.                       *)
(*                                                                         *)
(* Every word is a request of its own to the driver (ReadDword), so the    *)
(* game runs between any two reads: it may change a word, free an object   *)
(* or exit.  One action is one ReadDword or ReadText.  The race and the    *)
(* life of a character are read too; they decide nothing and are left out. *)
(***************************************************************************)
EXTENDS Integers, Sequences, FiniteSets

CONSTANTS
  Nodes,         \* addresses of tree nodes
  Actors,        \* addresses of character objects
  Own,           \* the player's own character
  Ids,           \* words a node may hold as its key, or an object as its id
  Null, Header,  \* the null pointer; the sentinel of the tree
  Heaps,         \* memories the game may be in at the call
  MaxNodes,      \* nodes the walk may see (2048 in the code)
  MaxListed,     \* characters that fit the output whatever their names
  Changing,      \* the memories that the game goes on changing, or that follow it
  MaxGame        \* bound on the changes it makes in those

ASSUME NearbyListAssumption ==
  /\ IsFiniteSet(Nodes) /\ Own \in Actors
  /\ Null \notin Nodes \cup Actors \cup {Header} /\ Header \notin Nodes
  /\ MaxNodes \in Nat /\ MaxListed \in Nat /\ MaxGame \in Nat

VARIABLES
  mem,         \* the memory of the game
  changes,     \* changes the game has made
  pc,          \* where the call is
  ownName,     \* whether the own name was read
  header, pending, seenNodes, seenActors, characters,  \* locals of the function
  at,          \* locals of one turn of the loop
  outcome,     \* what the call returns
  quiet,       \* the game has changed nothing since the call (history)
  ever         \* ids and coordinates the objects have shown since the call (history)

walkVars == <<ownName, header, pending, seenNodes, seenActors, characters, at>>
vars == <<mem, changes, pc, ownName, header, pending, seenNodes, seenActors,
          characters, at, outcome, quiet, ever>>

Links     == Nodes \cup {Header, Null}
Addresses == {"image", "manager", Header} \cup Nodes \cup Actors
NoId      == 0  \* no character has it
\* The name pointer of the own character is null; the others lead to a text, or to
\* memory that does not hold one.
NameKinds == {"empty", "text", "unreadable"}
NameOf(a) == IF a = Own THEN {"empty"} ELSE NameKinds \ {"empty"}
\* Where a listed name came from; "" is none yet.
Names     == {"", "read", "player", "ID"}

Namings == {f \in [Actors -> NameKinds] : \A a \in Actors : f[a] \in NameOf(a)}

Memory ==
  [manager : {"manager", Null}, header : {Header, Null}, root : Links,
   left : [Nodes -> Links], right : [Nodes -> Links], parent : [Nodes -> Links],
   key : [Nodes -> Ids], actor : [Nodes -> Actors \cup {Null}],
   id : [Actors -> Ids], near : [Actors -> BOOLEAN],
   name : Namings, ownText : BOOLEAN, mapped : SUBSET Addresses]

ASSUME HeapsAssumption == Heaps \cup Changing \subseteq Memory

Fresh == [node |-> Null, left |-> Null, right |-> Null, key |-> NoId,
          actor |-> Null, id |-> NoId]
Pending == [kind |-> "PENDING", list |-> <<>>]

\* What a memory shows of its character objects.
Shows(m)   == [ids  |-> {<<a, m.id[a]>> : a \in Actors},
               near |-> {a \in Actors : m.near[a]}]
Merge(e, f) == [ids |-> e.ids \cup f.ids, near |-> e.near \cup f.near]

Init ==
  /\ mem \in Heaps /\ changes = IF mem \in Changing THEN 0 ELSE MaxGame
  /\ pc = "idle" /\ ownName = FALSE /\ header = Null /\ pending = <<>>
  /\ seenNodes = {} /\ seenActors = {} /\ characters = <<>> /\ at = Fresh
  /\ outcome = Pending /\ quiet = TRUE /\ ever = [ids |-> {}, near |-> {}]

-----------------------------------------------------------------------------
Active == pc \notin {"idle", "done"}

\* The game changes one word, frees one object or exits, or another game has taken its
\* process id, its image and its objects at the same addresses.
Game ==
  /\ changes < MaxGame
  /\ changes' = changes + 1
  /\ \/ \E n \in Nodes, l \in Links :
          mem' \in {[mem EXCEPT !.left[n] = l], [mem EXCEPT !.right[n] = l],
                    [mem EXCEPT !.parent[n] = l], [mem EXCEPT !.root = l]}
     \/ \E n \in Nodes, i \in Ids : mem' = [mem EXCEPT !.key[n] = i]
     \/ \E n \in Nodes, a \in Actors \cup {Null} : mem' = [mem EXCEPT !.actor[n] = a]
     \/ \E a \in Actors, i \in Ids : mem' = [mem EXCEPT !.id[a] = i]
     \/ \E a \in Actors : mem' = [mem EXCEPT !.near[a] = ~ @]
     \/ \E a \in Actors : \E k \in NameOf(a) : mem' = [mem EXCEPT !.name[a] = k]
     \/ mem' \in {[mem EXCEPT !.manager = Null], [mem EXCEPT !.header = Null],
                  [mem EXCEPT !.ownText = ~ @], [mem EXCEPT !.mapped = {}]}
     \/ \E a \in Addresses : mem' = [mem EXCEPT !.mapped = @ \ {a}]
     \/ mem' \in Changing \ {mem}
  /\ quiet' = (quiet /\ (~ Active \/ mem' = mem))
  /\ ever' = IF Active THEN Merge(ever, Shows(mem')) ELSE ever
  /\ UNCHANGED <<pc, walkVars, outcome>>

-----------------------------------------------------------------------------
Unchanged == UNCHANGED <<mem, changes, quiet, ever>>

Goto(from, to) == pc = from /\ pc' = to
\* ReadDword succeeds; it refuses what does not lie above the image base.
Readable(a) == a \in mem.mapped
Fail(kind) == pc' = "done" /\ outcome' = [kind |-> kind, list |-> <<>>]
Local(field, value) == at' = [at EXCEPT ![field] = value]

Call ==
  /\ Goto("idle", "manager")
  /\ ever' = Shows(mem)
  /\ UNCHANGED <<mem, changes, walkVars, outcome, quiet>>

Return ==
  /\ Goto("done", "idle")
  /\ ownName' = FALSE /\ header' = Null /\ pending' = <<>>
  /\ seenNodes' = {} /\ seenActors' = {} /\ characters' = <<>> /\ at' = Fresh
  /\ outcome' = Pending /\ quiet' = TRUE /\ ever' = [ids |-> {}, near |-> {}]
  /\ UNCHANGED <<mem, changes>>

\* FindImageBase and the first pointer.
ReadManager ==
  /\ pc = "manager"
  /\ IF Readable("image") /\ mem.manager # Null
       THEN pc' = "header" /\ UNCHANGED outcome
       ELSE Fail("FAILED")
  /\ UNCHANGED walkVars /\ Unchanged

ReadHeader ==
  /\ pc = "header"
  /\ IF Readable("manager") /\ mem.header # Null
       THEN pc' = "root" /\ header' = mem.header /\ UNCHANGED outcome
       ELSE Fail("FAILED") /\ UNCHANGED header
  /\ UNCHANGED <<ownName, pending, seenNodes, seenActors, characters, at>> /\ Unchanged

ReadRoot ==
  /\ pc = "root"
  /\ IF Readable(header) /\ mem.root # Null
       THEN pc' = "own" /\ pending' = <<mem.root>> /\ UNCHANGED outcome
       ELSE Fail("FAILED") /\ UNCHANGED pending
  /\ UNCHANGED <<ownName, header, seenNodes, seenActors, characters, at>> /\ Unchanged

\* The own name may be missing.
ReadOwnName ==
  /\ Goto("own", "pop")
  /\ ownName' = (Readable("image") /\ mem.ownText)
  /\ UNCHANGED <<header, pending, seenNodes, seenActors, characters, at, outcome>>
  /\ Unchanged

\* A variant that examines every node it meets.
AnyNode(n) == n \in Nodes
\* A node is examined once, and the sentinel never.
Unseen(n) == n \notin {Null, header} \cup seenNodes

PopNode ==
  LET n == pending[Len(pending)] IN
  /\ pc = "pop" /\ pending # <<>>
  /\ pending' = SubSeq(pending, 1, Len(pending) - 1)
  /\ IF ~ Unseen(n)
       THEN UNCHANGED <<pc, seenNodes, at, outcome>>
       ELSE /\ seenNodes' = seenNodes \cup {n}
            /\ IF Cardinality(seenNodes') > MaxNodes
                 THEN Fail("TOO_MANY") /\ UNCHANGED at
                 ELSE pc' = "left" /\ at' = [Fresh EXCEPT !.node = n] /\ UNCHANGED outcome
  /\ UNCHANGED <<ownName, header, seenActors, characters>> /\ Unchanged

\* A word of the node; a node that cannot be read ends the call.
ReadNode(from, to, field) ==
  /\ pc = from
  /\ IF Readable(at.node)
       THEN pc' = to /\ Local(field, mem[field][at.node]) /\ UNCHANGED outcome
       ELSE Fail("FAILED") /\ UNCHANGED at
  /\ UNCHANGED <<ownName, header, pending, seenNodes, seenActors, characters>> /\ Unchanged

ReadLeft  == ReadNode("left", "right", "left")
ReadRight == ReadNode("right", "key", "right")
ReadKey   == ReadNode("key", "actor", "key")
ReadActor == ReadNode("actor", "rightChild", "actor")

\* A variant that follows every child.
AnyParent(child) == TRUE
\* A child is followed only if it names the node as its parent.
ParentAgrees(child) == Readable(child) /\ mem.parent[child] = at.node

\* The right child is pushed first and so popped last.
ReadChild(from, to, child) ==
  /\ Goto(from, to)
  /\ pending' = IF Unseen(child) /\ ParentAgrees(child) THEN Append(pending, child) ELSE pending
  /\ UNCHANGED <<ownName, header, seenNodes, seenActors, characters, at, outcome>>
  /\ Unchanged

ReadRightChild == ReadChild("rightChild", "leftChild", at.right)
ReadLeftChild  == ReadChild("leftChild", "id", at.left)

\* An object listed already; the variant does not remember.
ListedAgain(a) == FALSE
Known(a) == a \in seenActors

\* A null object, one listed already or one that cannot be read is passed over.
ReadId ==
  /\ pc = "id"
  /\ IF at.actor # Null /\ ~ Known(at.actor) /\ Readable(at.actor)
       THEN pc' = "xy" /\ Local("id", mem.id[at.actor])
       ELSE pc' = "pop" /\ UNCHANGED at
  /\ UNCHANGED <<ownName, header, pending, seenNodes, seenActors, characters, outcome>>
  /\ Unchanged

\* The object has an id, which is the key of the node, and coordinates on a map.
IsCharacter == /\ at.id # NoId /\ at.id = at.key
               /\ Readable(at.actor) /\ mem.near[at.actor]

ReadPosition ==
  /\ pc = "xy"
  /\ IF IsCharacter
       THEN pc' = "name" /\ seenActors' = seenActors \cup {at.actor}
       ELSE pc' = "pop" /\ UNCHANGED seenActors
  /\ UNCHANGED <<ownName, header, pending, seenNodes, characters, at, outcome>> /\ Unchanged

\* A name that is not read as one complete text stays empty.
ReadName ==
  /\ Goto("name", "pop")
  /\ LET name == IF Readable(at.actor) /\ mem.name[at.actor] = "text" THEN "read" ELSE ""
     IN characters' = Append(characters, [actor |-> at.actor, id |-> at.id, name |-> name])
  /\ UNCHANGED <<ownName, header, pending, seenNodes, seenActors, at, outcome>> /\ Unchanged

Nameless == {k \in DOMAIN characters : characters[k].name = ""}

\* A variant for any number of nameless characters.
SubstituteAny == ownName
\* The own name goes to the nameless character if there is just one.
Substitute == Cardinality(Nameless) = 1 /\ ownName

\* Whether a list longer than MaxListed fits depends on the lengths of its names.
Finish ==
  /\ pc = "pop" /\ pending = <<>>
  /\ \/ characters = <<>> /\ Fail("EMPTY")
     \/ Len(characters) > MaxListed /\ Fail("TOO_LARGE")
     \/ /\ characters # <<>>
        /\ pc' = "done"
        /\ outcome' = [kind |-> "LISTED", list |->
             [k \in DOMAIN characters |->
                IF k \notin Nameless THEN characters[k]
                ELSE [characters[k] EXCEPT !.name = IF Substitute THEN "player" ELSE "ID"]]]
  /\ UNCHANGED walkVars /\ Unchanged

-----------------------------------------------------------------------------
Step ==
  \/ ReadManager \/ ReadHeader \/ ReadRoot \/ ReadOwnName
  \/ PopNode
  \/ ReadLeft \/ ReadRight \/ ReadKey \/ ReadActor
  \/ ReadRightChild \/ ReadLeftChild
  \/ ReadId \/ ReadPosition \/ ReadName
  \/ Finish

Next == Game \/ Call \/ Step \/ Return

Spec == Init /\ [][Next]_vars

\* The thread that lists keeps running; the game owes nothing.
FairSpec == Spec /\ WF_vars(Step)

-----------------------------------------------------------------------------
(***************************************************************************)
(* Properties.                                                             *)
(***************************************************************************)

\* Every variable has its type, and the walk keeps its bound on nodes, which bounds
\* the stack of links too, however the links run.
TypeOK ==
  LET Character == [actor : Actors, id : Ids, name : Names] IN
  /\ mem \in Memory /\ changes \in 0..MaxGame
  /\ pc \in {"idle", "manager", "header", "root", "own", "pop", "left", "right", "key",
             "actor", "rightChild", "leftChild", "id", "xy", "name", "done"}
  /\ ownName \in BOOLEAN /\ header \in {Null, Header}
  /\ pending \in Seq(Links) /\ Len(pending) <= MaxNodes + 1
  /\ seenNodes \subseteq Nodes /\ Cardinality(seenNodes) <= MaxNodes + 1
  /\ seenActors \subseteq Actors /\ characters \in Seq(Character)
  /\ at.node \in Nodes \cup {Null} /\ {at.left, at.right} \subseteq Links
  /\ at.actor \in Actors \cup {Null} /\ {at.key, at.id} \subseteq Ids \cup {NoId}
  /\ outcome.kind \in {"PENDING", "LISTED", "FAILED", "EMPTY", "TOO_MANY", "TOO_LARGE"}
  /\ outcome.list \in Seq(Character)
  /\ quiet \in BOOLEAN
  /\ ever.ids \subseteq Actors \X Ids /\ ever.near \subseteq Actors

\* The nodes below n that are there and name n as their parent.
Children(m, n) == {c \in {m.left[n], m.right[n]} \cap Nodes \cap m.mapped : m.parent[c] = n}

\* The nodes of the tree: the least set with the root and the children of its members.
Reachable(m) ==
  {n \in Nodes : \A S \in SUBSET Nodes :
     (m.root \in Nodes => m.root \in S) /\ (\A k \in S : Children(m, k) \subseteq S) => n \in S}

\* The characters a memory holds in its tree.
Standing(m) ==
  {<<m.actor[n], m.key[n]>> : n \in {k \in Reachable(m) \cap m.mapped :
     /\ m.actor[k] \in Actors \cap m.mapped
     /\ m.id[m.actor[k]] = m.key[k] /\ m.key[k] # NoId /\ m.near[m.actor[k]]}}

Listed(list) == {<<list[k].actor, list[k].id>> : k \in DOMAIN list}

\* A list read while the game changed nothing holds exactly the characters that
\* stand in the tree, whatever the shape of the tree, with cycles and shared
\* nodes; and only missing memory makes it fail.
QuietListIsExact ==
  [][Active /\ pc' = "done" /\ quiet =>
       /\ outcome'.kind = "LISTED" => Listed(outcome'.list) = Standing(mem)
       /\ outcome'.kind = "EMPTY" => Standing(mem) = {}
       /\ mem.mapped = Addresses /\ Null \notin {mem.manager, mem.header, mem.root} =>
            outcome'.kind # "FAILED"]_vars

\* However the game changes, and though another may take its process id between two
\* requests, no character is listed twice, and each was seen with the id it is listed
\* with and with coordinates during the call.
ListedOnceAndSeen ==
  /\ \A j, k \in DOMAIN characters :
       characters[j].actor = characters[k].actor => j = k
  /\ \A k \in DOMAIN characters :
       /\ <<characters[k].actor, characters[k].id>> \in ever.ids
       /\ characters[k].actor \in ever.near

\* When the own character is listed nobody else gets the own name, however many
\* names could not be read.
OwnNameNotShared ==
  \A j, k \in DOMAIN outcome.list :
    outcome.list[j].actor = Own /\ outcome.list[k].name = "player" => k = j

\* A call ends, even on a tree whose links form a cycle.
ListingEnds == Active ~> ~ Active

\* README.md: the own character, whose name pointer is empty, is named from the
\* path of the own name.  As a claim about which character gets that name it
\* does not hold.
OwnNameIsOwn ==
  [][\A k \in DOMAIN outcome'.list :
       pc # "done" /\ outcome'.list[k].name = "player" => outcome'.list[k].actor = Own]_vars
=============================================================================
