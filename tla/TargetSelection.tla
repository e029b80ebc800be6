--------------------------- MODULE TargetSelection ---------------------------
(***************************************************************************)
(* ExecuteSelectTargetRequest: find a character in the game's tree by its  *)
(* id and write the id into the selection slot of the target controller.   *)
(*                                                                         *)
(* The driver does not stop the game.  It reads the tree one word at a     *)
(* time, so between any two reads the game may have changed any word, freed *)
(* an object or exited, and other requests may be writing the same slot.   *)
(* One action is one read or write of the driver, or one word changed by   *)
(* the game.  The client (SelectNearbyTarget) refuses ids that cannot be,  *)
(* sends the request and checks the answer.                                *)
(***************************************************************************)
EXTENDS Integers, FiniteSets

CONSTANTS
  Requests,     \* select requests in progress
  Controllers,  \* addresses where the target controller may be
  Nodes,        \* addresses of tree nodes
  Actors,       \* addresses of character objects
  Ids,          \* character ids, a set of numbers
  Null, Header, \* the null pointer; the sentinel node of the tree
  Heaps,        \* memories the game may be in when the driver starts looking
  Changing,     \* those of them that the game goes on changing
  MaxDepth,     \* the loop bound of the walk (64 in the code)
  MaxGame       \* bound on the words the game changes in those

ASSUME TargetSelectionAssumption ==
  /\ Ids \subseteq Nat \ {0}
  /\ Null \notin Requests \cup Controllers \cup Nodes \cup Actors \cup {Header}
  /\ Header \notin Nodes
  /\ MaxDepth \in Nat \ {0} /\ MaxGame \in Nat

VARIABLES
  mem,       \* the memory of the game
  changes,   \* words the game has changed
  pc, loc,   \* each request: where it is, and its local variables
  target,    \* request.targetId
  status,    \* response.status
  reported,  \* what the client tells its caller
  wrote,     \* controllers a request has written to (history)
  quiet,     \* nobody else has changed memory since the call (history)
  ever       \* what memory has held since the call (history)

vars == <<mem, changes, pc, loc, target, status, reported, wrote, quiet, ever>>

Links     == Nodes \cup {Header, Null}
Addresses == {"image", "manager", Header} \cup Controllers \cup Nodes \cup Actors
NoId      == 0
Points    == {"idle", "controller", "manager", "vtable", "header", "root", "key", "actor",
              "id", "xy", "child", "parent", "write", "readback", "done"}
Statuses  == {"PENDING", "SUCCESS", "FAULT", "NOT_FOUND", "REVISION_MISMATCH",
              "UNSUCCESSFUL"}

Memory ==
  [controller : Controllers \cup {Null}, manager : {"manager", Null},
   header : {Header, Null}, root : Links,
   vtable : [Controllers -> BOOLEAN], slot : [Controllers -> Ids \cup {NoId}],
   key : [Nodes -> Ids], actor : [Nodes -> Actors \cup {Null}],
   left : [Nodes -> Links], right : [Nodes -> Links], parent : [Nodes -> Links],
   id : [Actors -> Ids], near : [Actors -> BOOLEAN], mapped : SUBSET Addresses]

ASSUME HeapsAssumption == Heaps \subseteq Memory

Fresh == [controller |-> Null, header |-> Null, node |-> Null, depth |-> 0,
          child |-> Null, actor |-> Null, id |-> NoId, selectedId |-> NoId]

\* What a memory shows that matters to a request for t.
Shows(m, t) ==
  [controllers |-> {c \in Controllers : m.vtable[c]},
   named       |-> {a \in Actors : m.id[a] = t},
   near        |-> {a \in Actors : m.near[a]}]
Nothing == [controllers |-> {}, named |-> {}, near |-> {}]
Merge(e, f) == [x \in DOMAIN e |-> e[x] \cup f[x]]

Init ==
  /\ mem \in Heaps
  /\ changes = IF mem \in Changing THEN 0 ELSE MaxGame
  /\ pc = [r \in Requests |-> "idle"]
  /\ loc = [r \in Requests |-> Fresh]
  /\ target = [r \in Requests |-> NoId]
  /\ status = [r \in Requests |-> "PENDING"]
  /\ reported = [r \in Requests |-> "none"]
  /\ wrote = [r \in Requests |-> {}]
  /\ quiet = [r \in Requests |-> TRUE]
  /\ ever = [r \in Requests |-> Nothing]

-----------------------------------------------------------------------------
Active(r) == pc[r] \notin {"idle", "done"}

\* The histories, after a change of memory made by the game or by a request.
Observe(by) ==
  /\ quiet' = [r \in Requests |-> quiet[r] /\ (r = by \/ ~ Active(r) \/ mem' = mem)]
  /\ ever' = [r \in Requests |->
                IF Active(r) THEN Merge(ever[r], Shows(mem', target[r])) ELSE ever[r]]

\* The game changes one word, frees one object or exits.
Game ==
  /\ changes < MaxGame
  /\ changes' = changes + 1
  /\ \/ \E n \in Nodes, l \in Links :
          mem' \in {[mem EXCEPT !.left[n] = l], [mem EXCEPT !.right[n] = l],
                    [mem EXCEPT !.parent[n] = l], [mem EXCEPT !.root = l]}
     \/ \E n \in Nodes, i \in Ids : mem' = [mem EXCEPT !.key[n] = i]
     \/ \E n \in Nodes, a \in Actors \cup {Null} : mem' = [mem EXCEPT !.actor[n] = a]
     \/ \E a \in Actors, i \in Ids : mem' = [mem EXCEPT !.id[a] = i]
     \/ \E a \in Actors : mem' = [mem EXCEPT !.near[a] = ~ @]
     \/ \E c \in Controllers : mem' = [mem EXCEPT !.vtable[c] = ~ @]
     \/ \E c \in Controllers, i \in Ids \cup {NoId} : mem' = [mem EXCEPT !.slot[c] = i]
     \/ \E c \in Controllers \cup {Null} : mem' = [mem EXCEPT !.controller = c]
     \/ mem' \in {[mem EXCEPT !.manager = Null], [mem EXCEPT !.header = Null]}
     \/ \E a \in Addresses : mem' = [mem EXCEPT !.mapped = @ \ {a}]
     \/ mem' = [mem EXCEPT !.mapped = {}]
  /\ Observe(Null)
  /\ UNCHANGED <<pc, loc, target, status, reported, wrote>>

-----------------------------------------------------------------------------
Unchanged == UNCHANGED <<mem, changes, target, reported, wrote, quiet, ever>>

Finish(r, s) ==
  /\ pc' = [pc EXCEPT ![r] = "done"]
  /\ status' = [status EXCEPT ![r] = s]
  /\ UNCHANGED loc

\* Go on at `to` with one local variable set.
Continue(r, to, var, value) ==
  /\ pc' = [pc EXCEPT ![r] = to]
  /\ loc' = [loc EXCEPT ![r][var] = value]
  /\ UNCHANGED status

\* A read of an object that is not mapped fails, and most failures end the request.
Readable(a) == a \in mem.mapped
Read(r, at, a, onSuccess) ==
  /\ pc[r] = at
  /\ IF Readable(a) THEN onSuccess ELSE Finish(r, "FAULT")
  /\ Unchanged

\* The id is not one a character can have, or the device does not take the request.
Refuse(r) ==
  /\ pc[r] = "idle"
  /\ reported' = [reported EXCEPT ![r] = "error"]
  /\ UNCHANGED <<mem, changes, pc, loc, target, status, wrote, quiet, ever>>

Call(r, i) ==
  /\ pc[r] = "idle"
  /\ reported' = [reported EXCEPT ![r] = "none"]
  /\ pc' = [pc EXCEPT ![r] = "controller"]
  /\ target' = [target EXCEPT ![r] = i]
  /\ ever' = [ever EXCEPT ![r] = Shows(mem, i)]
  /\ UNCHANGED <<mem, changes, loc, status, wrote, quiet>>

\* The answer is delivered and the locals go.  The client looks at the id read back as
\* well as at the status.
Return(r) ==
  /\ pc[r] = "done"
  /\ reported' = [reported EXCEPT ![r] =
       IF status[r] = "SUCCESS" /\ loc[r].selectedId = target[r] THEN "selected" ELSE "error"]
  /\ pc' = [pc EXCEPT ![r] = "idle"]
  /\ loc' = [loc EXCEPT ![r] = Fresh]
  /\ target' = [target EXCEPT ![r] = NoId]
  /\ status' = [status EXCEPT ![r] = "PENDING"]
  /\ wrote' = [wrote EXCEPT ![r] = {}]
  /\ quiet' = [quiet EXCEPT ![r] = TRUE]
  /\ ever' = [ever EXCEPT ![r] = Nothing]
  /\ UNCHANGED <<mem, changes>>

ReadControllerField(r) ==
  Read(r, "controller", "image", Continue(r, "manager", "controller", mem.controller))

ReadTreeField(r) ==
  Read(r, "manager", "image",
       IF loc[r].controller = Null \/ mem.manager = Null
         THEN Finish(r, "NOT_FOUND")
         ELSE Continue(r, "vtable", "node", Null))

CheckVtable(r) ==
  Read(r, "vtable", loc[r].controller,
       IF mem.vtable[loc[r].controller]
         THEN Continue(r, "header", "node", Null)
         ELSE Finish(r, "REVISION_MISMATCH"))

ReadHeader(r) ==
  Read(r, "header", "manager",
       IF mem.header = Null THEN Finish(r, "NOT_FOUND")
                            ELSE Continue(r, "root", "header", mem.header))

\* A tree without a node; the variant overlooks the sentinel.
NoNode(r, n)    == n = Null
EmptyTree(r, n) == n \in {Null, loc[r].header}

ReadRoot(r) ==
  Read(r, "root", loc[r].header,
       IF EmptyTree(r, mem.root)
         THEN Finish(r, "NOT_FOUND")
         ELSE Continue(r, "key", "node", mem.root))

ReadKey(r) ==
  Read(r, "key", loc[r].node,
       Continue(r, IF mem.key[loc[r].node] = target[r] THEN "actor" ELSE "child",
                "id", mem.key[loc[r].node]))

ReadActor(r) ==
  Read(r, "actor", loc[r].node,
       IF mem.actor[loc[r].node] = Null
         THEN Finish(r, "NOT_FOUND")
         ELSE Continue(r, "id", "actor", mem.actor[loc[r].node]))

\* A failed read of the id or the coordinates only means the target is not found.
ReadActorId(r) ==
  /\ pc[r] = "id"
  /\ IF Readable(loc[r].actor)
       THEN Continue(r, "xy", "id", mem.id[loc[r].actor])
       ELSE Continue(r, "xy", "id", NoId)
  /\ Unchanged

\* A variant satisfied with the key of the node.
KeyIsEnough(r) == Readable(loc[r].actor) /\ mem.near[loc[r].actor]
\* The object, not only the tree, must carry the id, with map coordinates.
IsTarget(r) ==
  /\ loc[r].id = target[r]
  /\ Readable(loc[r].actor) /\ mem.near[loc[r].actor]

ReadActorPosition(r) ==
  /\ pc[r] = "xy"
  /\ IF IsTarget(r) THEN Continue(r, "write", "node", Null)
                    ELSE Finish(r, "NOT_FOUND")
  /\ Unchanged

\* The side of the tree the target is on; the variant swaps them.
WrongSide(r) == IF target[r] < loc[r].id THEN mem.right[loc[r].node]
                                          ELSE mem.left[loc[r].node]
Side(r) == IF target[r] < loc[r].id THEN mem.left[loc[r].node]
                                     ELSE mem.right[loc[r].node]

ReadChild(r) ==
  Read(r, "child", loc[r].node,
       IF Side(r) \in {Null, loc[r].header}
         THEN Finish(r, "NOT_FOUND")
         ELSE Continue(r, "parent", "child", Side(r)))

\* A child is followed only if it names the node as its parent, and only within
\* the loop bound, which the variant does not count.
ChildAgrees(r) == mem.parent[loc[r].child] = loc[r].node

UncountedDepth(r) == loc[r].depth
NextDepth(r)      == loc[r].depth + 1

ReadParent(r) ==
  /\ pc[r] = "parent"
  /\ \/ /\ Readable(loc[r].child) /\ ChildAgrees(r) /\ NextDepth(r) < MaxDepth
        /\ pc' = [pc EXCEPT ![r] = "key"]
        /\ loc' = [loc EXCEPT ![r].node = loc[r].child, ![r].depth = NextDepth(r)]
        /\ UNCHANGED status
     \/ /\ Readable(loc[r].child) /\ ~ (ChildAgrees(r) /\ NextDepth(r) < MaxDepth)
        /\ Finish(r, "NOT_FOUND")
     \/ ~ Readable(loc[r].child) /\ Finish(r, "FAULT")
  /\ Unchanged

\* WriteUInt32 of the id into controller + 0x28.
WriteSlot(r) ==
  LET c == loc[r].controller IN
  /\ pc[r] = "write"
  /\ IF Readable(c)
       THEN /\ mem' = [mem EXCEPT !.slot[c] = target[r]]
            /\ wrote' = [wrote EXCEPT ![r] = @ \cup {c}]
            /\ Continue(r, "readback", "node", Null)
            /\ Observe(r)
       ELSE /\ Finish(r, "FAULT")
            /\ UNCHANGED <<mem, wrote, quiet, ever>>
  /\ UNCHANGED <<changes, target, reported>>

\* The status of the answer is that of the slot read back.
Verdict(r) == IF mem.slot[loc[r].controller] = target[r] THEN "SUCCESS"
                                                         ELSE "UNSUCCESSFUL"

ReadBack(r) ==
  Read(r, "readback", loc[r].controller,
       /\ pc' = [pc EXCEPT ![r] = "done"]
       /\ status' = [status EXCEPT ![r] = Verdict(r)]
       /\ loc' = [loc EXCEPT ![r].selectedId = mem.slot[loc[r].controller]])

-----------------------------------------------------------------------------
Step(r) ==
  \/ ReadControllerField(r) \/ ReadTreeField(r) \/ CheckVtable(r)
  \/ ReadHeader(r) \/ ReadRoot(r)
  \/ ReadKey(r) \/ ReadActor(r) \/ ReadActorId(r) \/ ReadActorPosition(r)
  \/ ReadChild(r) \/ ReadParent(r)
  \/ WriteSlot(r) \/ ReadBack(r)

Next ==
  \/ Game
  \/ \E r \in Requests : Step(r) \/ Return(r) \/ Refuse(r) \/ \E i \in Ids : Call(r, i)

Spec == Init /\ [][Next]_vars

\* A driver thread inside a request keeps running; the game owes nothing.
FairSpec == Spec /\ \A r \in Requests : WF_vars(Step(r))

-----------------------------------------------------------------------------
(***************************************************************************)
(* Properties.                                                             *)
(***************************************************************************)

\* Every variable has its type.
TypeOK ==
  /\ mem \in Memory
  /\ changes \in 0..MaxGame
  /\ pc \in [Requests -> Points]
  /\ loc \in [Requests ->
       [controller : Controllers \cup {Null}, header : {Header, Null}, node : Nodes \cup {Null},
        depth : 0..MaxDepth - 1, child : Nodes \cup {Null, Header}, actor : Actors \cup {Null},
        id : Ids \cup {NoId}, selectedId : Ids \cup {NoId}]]
  /\ target \in [Requests -> Ids \cup {NoId}]
  /\ status \in [Requests -> Statuses]
  /\ reported \in [Requests -> {"none", "selected", "error"}]
  /\ wrote \in [Requests -> SUBSET Controllers]
  /\ quiet \in [Requests -> BOOLEAN]
  /\ ever \in [Requests -> [controllers : SUBSET Controllers, named : SUBSET Actors,
                             near : SUBSET Actors]]

\* The nodes a node links.
Sides(m, n) == {m.left[n], m.right[n]} \cap Nodes

\* The ways of d links down from the root, both ends of each link agreeing.
Ways(m, d) ==
  {p \in [0..d -> Nodes] :
     /\ p[0] = m.root
     /\ \A i \in 0..d - 1 : p[i + 1] \in Sides(m, p[i]) /\ m.parent[p[i + 1]] = p[i]}

\* The nodes below a link: the least set with the link and what its members link.
Below(m, link) ==
  {n \in Nodes : \A S \in SUBSET Nodes :
     (link \in Nodes => link \in S) /\ (\A k \in S : Sides(m, k) \subseteq S) => n \in S}

\* An intact search tree under the controller the driver knows.
WellFormed(m) ==
  /\ m.mapped = Addresses
  /\ m.controller # Null /\ m.vtable[m.controller]
  /\ m.manager # Null /\ m.header # Null
  /\ \A n \in Below(m, m.root) :
       /\ \A c \in Sides(m, n) : m.parent[c] = n
       /\ \A c \in Below(m, m.left[n]) : m.key[c] < m.key[n]
       /\ \A c \in Below(m, m.right[n]) : m.key[n] < m.key[c]

\* A character with id t stands in the tree, no deeper than the loop goes: its node and
\* its object agree on the id, and it has coordinates on a map.
Stands(m, n, t) == /\ m.key[n] = t /\ m.actor[n] # Null
                   /\ m.id[m.actor[n]] = t /\ m.near[m.actor[n]]
Present(m, t) == \E d \in 0..MaxDepth - 1 : \E p \in Ways(m, d) : Stands(m, p[d], t)

\* In a memory nobody else changes during the request the walk decides exactly
\* whether the character is there.  Whatever the shape of the tree, success
\* means it is present and selected; in an intact tree no deeper than the loop
\* bound, a present character is always selected; and a write always succeeds.
QuietVerdict ==
  [][\A r \in Requests : Active(r) /\ pc'[r] = "done" /\ quiet[r] =>
       /\ status'[r] = "SUCCESS" =>
            /\ Present(mem, target[r])
            /\ mem.vtable[mem.controller] /\ mem.slot[mem.controller] = target[r]
       /\ WellFormed(mem) /\ Present(mem, target[r]) => status'[r] = "SUCCESS"
       /\ wrote[r] # {} => status'[r] = "SUCCESS"]_vars

Promised == INSTANCE TargetMark WITH
  Denials <- {"NOT_FOUND", "REVISION_MISMATCH"},
  slot <- mem.slot, evidence <- ever, marked <- wrote, answer <- status, report <- reported

\* The request keeps the promise of TargetMark.  However the game changes underneath,
\* the id is written at most once, only into an object that was a target controller at
\* some time during the request, on the strength of one character object that carried
\* the id and had map coordinates during it; success is answered only when the slot
\* holds the id at that moment, whoever else wrote it in between; and who is told that
\* the character is not there can rely on nothing having been selected.
ImplementsTargetMark == Promised!Spec

\* A request returns even if links form a cycle.
SelectionReturns == \A r \in Requests : Active(r) ~> ~ Active(r)
=============================================================================
