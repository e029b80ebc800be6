------------------------ MODULE TargetSelectionProofs ------------------------
(***************************************************************************)
(* For any sets of requests, controllers, nodes, characters and ids, and   *)
(* however the game changes: the types of TargetSelection, that it         *)
(* implements TargetMark, that its verdict is exact in a memory nobody     *)
(* else changes, and that it takes a bounded number of steps.              *)
(*                                                                         *)
(* What the driver has read may be wrong a moment later, so the invariant  *)
(* says of each local variable not what memory holds but what it has held  *)
(* since the call: the history `ever` only grows, and a value read from    *)
(* memory is in it.                                                        *)
(***************************************************************************)
EXTENDS TargetSelection, WellFoundedInduction, TLAPS

Loc ==
  [controller : Controllers \cup {Null}, header : {Header, Null}, node : Nodes \cup {Null},
   depth : 0..MaxDepth - 1, child : Nodes \cup {Null, Header}, actor : Actors \cup {Null},
   id : Ids \cup {NoId}, selectedId : Ids \cup {NoId}]
Evidence == [controllers : SUBSET Controllers, named : SUBSET Actors, near : SUBSET Actors]

\* The evidence e holds all that f does.
Covers(e, f) ==
  f.controllers \subseteq e.controllers /\ f.named \subseteq e.named /\ f.near \subseteq e.near

InTree   == {"key", "actor", "child", "parent"}
Found    == {"id", "xy"}
Verified == {"header", "root", "write", "readback"} \cup InTree \cup Found

\* Where a request is determines which of its local variables point at something.
LocalsSound(r) ==
  /\ pc[r] \in Verified \cup {"vtable"} => loc[r].controller \in Controllers
  /\ pc[r] \in {"root"} \cup InTree => loc[r].header = Header
  /\ pc[r] \in InTree => loc[r].node \in Nodes
  /\ pc[r] = "parent" => loc[r].child \in Nodes
  /\ pc[r] \in Found => loc[r].actor \in Actors

\* What it has answered and marked.
PhaseSound(r) ==
  /\ status[r] = "PENDING" <=> pc[r] # "done"
  /\ target[r] = NoId <=> pc[r] = "idle"
  /\ pc[r] \notin {"readback", "done"} => wrote[r] = {}
  /\ pc[r] = "readback" => wrote[r] = {loc[r].controller}
  /\ status[r] \in {"NOT_FOUND", "REVISION_MISMATCH"} => wrote[r] = {}
  /\ status[r] = "SUCCESS" => loc[r].selectedId = target[r]

\* What the game has shown it.
EvidenceSound(r) ==
  /\ Active(r) => Covers(ever[r], Shows(mem, target[r]))
  /\ pc[r] \in Verified => loc[r].controller \in ever[r].controllers
  /\ pc[r] = "xy" /\ loc[r].id = target[r] => loc[r].actor \in ever[r].named
  /\ pc[r] = "write" => ever[r].named \cap ever[r].near # {}

Sound(r)  == LocalsSound(r) /\ PhaseSound(r) /\ EvidenceSound(r)
Invariant == TypeOK /\ \A r \in Requests : Sound(r)

-----------------------------------------------------------------------------
LEMMA InitHolds == Init => Invariant
<1> SUFFICES ASSUME Init PROVE Invariant
  OBVIOUS
<1>1. mem \in Memory
  BY HeapsAssumption DEF Init
<1>2. changes \in 0..MaxGame /\ loc \in [Requests -> Loc]
  BY TargetSelectionAssumption DEF TargetSelectionAssumption, Init, Fresh, Loc
<1>3. /\ ever \in [Requests -> Evidence] /\ wrote \in [Requests -> SUBSET Controllers]
      /\ quiet \in [Requests -> BOOLEAN]
  BY DEF Init, Nothing, Evidence
<1>4. /\ pc \in [Requests -> Points] /\ status \in [Requests -> Statuses]
      /\ reported \in [Requests -> {"none", "selected", "error"}]
      /\ target \in [Requests -> Ids \cup {NoId}]
  BY DEF Init, Points, Statuses
<1>5. TypeOK
  BY <1>1, <1>2, <1>3, <1>4 DEF TypeOK, Loc, Evidence
<1>6. ASSUME NEW r \in Requests PROVE Sound(r)
  BY DEF Init, Sound, LocalsSound, PhaseSound, EvidenceSound, Active, Verified, InTree, Found
<1> QED
  BY <1>5, <1>6 DEF Invariant

\* The fields of a memory.
LEMMA Fields ==
  ASSUME mem \in Memory
  PROVE  /\ mem.controller \in Controllers \cup {Null} /\ mem.header \in {Header, Null}
         /\ mem.manager \in {"manager", Null} /\ mem.root \in Links
         /\ mem.vtable \in [Controllers -> BOOLEAN] /\ mem.slot \in [Controllers -> Ids \cup {NoId}]
         /\ mem.key \in [Nodes -> Ids] /\ mem.actor \in [Nodes -> Actors \cup {Null}]
         /\ mem.left \in [Nodes -> Links] /\ mem.right \in [Nodes -> Links]
         /\ mem.parent \in [Nodes -> Links]
         /\ mem.id \in [Actors -> Ids] /\ mem.near \in [Actors -> BOOLEAN]
  BY DEF Memory

-----------------------------------------------------------------------------
\* Merging evidence takes none away.
LEMMA Merged ==
  ASSUME NEW e \in Evidence, NEW f \in Evidence
  PROVE  Merge(e, f) \in Evidence /\ Covers(Merge(e, f), e) /\ Covers(Merge(e, f), f)
<1> DEFINE m == [controllers |-> e.controllers \cup f.controllers,
                 named |-> e.named \cup f.named, near |-> e.near \cup f.near]
<1>1. DOMAIN e = {"controllers", "named", "near"}
  BY DEF Evidence
<1>2. DOMAIN m = {"controllers", "named", "near"}
  OBVIOUS
<1>3. /\ m["controllers"] = e["controllers"] \cup f["controllers"]
      /\ m["named"] = e["named"] \cup f["named"] /\ m["near"] = e["near"] \cup f["near"]
  OBVIOUS
<1>4. m = [x \in {"controllers", "named", "near"} |-> m[x]]
  OBVIOUS
<1>5. [x \in {"controllers", "named", "near"} |-> m[x]] =
      [x \in {"controllers", "named", "near"} |-> e[x] \cup f[x]]
  BY <1>3
<1>6. Merge(e, f) = m
  BY <1>1, <1>4, <1>5 DEF Merge
<1> QED
  BY <1>6 DEF Evidence, Covers

\* What Observe does to the history: it grows, and covers the new memory.
LEMMA Observed ==
  ASSUME Invariant, mem' \in Memory, NEW by, Observe(by)
  PROVE  /\ quiet' \in [Requests -> BOOLEAN]
         /\ ever' \in [Requests -> Evidence]
         /\ \A r \in Requests :
              /\ Covers(ever'[r], ever[r])
              /\ Active(r) => Covers(ever'[r], Shows(mem', target[r]))
<1>1. ever \in [Requests -> Evidence]
  BY DEF Invariant, TypeOK, Evidence
<1>2. ASSUME NEW r \in Requests
      PROVE  Shows(mem', target[r]) \in Evidence
  BY DEF Shows, Evidence
<1>3. ASSUME NEW e \in Evidence, NEW f \in Evidence
      PROVE  Merge(e, f) \in Evidence /\ Covers(Merge(e, f), e) /\ Covers(Merge(e, f), f)
  BY Merged
<1>4. \A r \in Requests :
        ever'[r] = IF Active(r) THEN Merge(ever[r], Shows(mem', target[r])) ELSE ever[r]
  BY DEF Observe
<1>5. quiet' \in [Requests -> BOOLEAN]
  BY DEF Observe, Invariant, TypeOK
<1>6. \A r \in Requests : ever'[r] \in Evidence /\ Covers(ever'[r], ever[r])
  BY <1>1, <1>2, <1>3, <1>4 DEF Covers
<1>7. \A r \in Requests : Active(r) => Covers(ever'[r], Shows(mem', target[r]))
  BY <1>1, <1>2, <1>3, <1>4
<1>8. ever' \in [Requests -> Evidence]
  BY <1>6 DEF Observe
<1> QED
  BY <1>5, <1>6, <1>7, <1>8

\* Whatever the game does, its memory is a memory.
LEMMA GameMemory == ASSUME mem \in Memory, Game PROVE mem' \in Memory
<1> USE TargetSelectionAssumption DEF TargetSelectionAssumption, Memory
<1>1. ASSUME NEW n \in Nodes, NEW l \in Links,
             mem' \in {[mem EXCEPT !.left[n] = l], [mem EXCEPT !.right[n] = l],
                       [mem EXCEPT !.parent[n] = l], [mem EXCEPT !.root = l]}
      PROVE  mem' \in Memory
  <2>1. CASE mem' = [mem EXCEPT !.left[n] = l]
    BY <2>1
  <2>2. CASE mem' = [mem EXCEPT !.right[n] = l]
    BY <2>2
  <2>3. CASE mem' = [mem EXCEPT !.parent[n] = l]
    BY <2>3
  <2>4. CASE mem' = [mem EXCEPT !.root = l]
    BY <2>4
  <2> QED
    BY <1>1, <2>1, <2>2, <2>3, <2>4
<1>2. ASSUME NEW n \in Nodes, NEW i \in Ids, mem' = [mem EXCEPT !.key[n] = i]
      PROVE  mem' \in Memory
  BY <1>2
<1>3. ASSUME NEW n \in Nodes, NEW a \in Actors \cup {Null}, mem' = [mem EXCEPT !.actor[n] = a]
      PROVE  mem' \in Memory
  BY <1>3
<1>4. ASSUME NEW a \in Actors, NEW i \in Ids, mem' = [mem EXCEPT !.id[a] = i]
      PROVE  mem' \in Memory
  BY <1>4
<1>5. ASSUME NEW a \in Actors, mem' = [mem EXCEPT !.near[a] = ~ @]
      PROVE  mem' \in Memory
  BY <1>5
<1>6. ASSUME NEW c \in Controllers, mem' = [mem EXCEPT !.vtable[c] = ~ @]
      PROVE  mem' \in Memory
  BY <1>6
<1>7. ASSUME NEW c \in Controllers, NEW i \in Ids \cup {NoId}, mem' = [mem EXCEPT !.slot[c] = i]
      PROVE  mem' \in Memory
  BY <1>7
<1>8. ASSUME NEW c \in Controllers \cup {Null}, mem' = [mem EXCEPT !.controller = c]
      PROVE  mem' \in Memory
  BY <1>8
<1>9. ASSUME mem' \in {[mem EXCEPT !.manager = Null], [mem EXCEPT !.header = Null]}
      PROVE  mem' \in Memory
  BY <1>9
<1>10. ASSUME NEW a \in Addresses, mem' = [mem EXCEPT !.mapped = @ \ {a}]
       PROVE  mem' \in Memory
  BY <1>10
<1>11. ASSUME mem' = [mem EXCEPT !.mapped = {}]
       PROVE  mem' \in Memory
  BY <1>11
<1> QED
  BY <1>1, <1>2, <1>3, <1>4, <1>5, <1>6, <1>7, <1>8, <1>9, <1>10, <1>11 DEF Game

LEMMA GameStep == Invariant /\ Game => Invariant'
<1> SUFFICES ASSUME Invariant, Game PROVE Invariant'
  OBVIOUS
<1>1. mem' \in Memory
  BY GameMemory DEF Invariant, TypeOK
<1>2. UNCHANGED <<pc, loc, target, status, reported, wrote>> /\ Observe(Null)
  BY DEF Game
<1>3. changes' \in 0..MaxGame
  BY TargetSelectionAssumption DEF TargetSelectionAssumption, Game, Invariant, TypeOK
<1>4. TypeOK'
  BY <1>1, <1>2, <1>3, Observed DEF Invariant, TypeOK, Evidence
<1>5. ASSUME NEW r \in Requests PROVE Sound(r)'
  <2>1. Covers(ever'[r], ever[r]) /\ (Active(r) => Covers(ever'[r], Shows(mem', target[r])))
    BY <1>1, <1>2, Observed
  <2>2. LocalsSound(r)' /\ PhaseSound(r)'
    BY <1>2 DEF Invariant, Sound, LocalsSound, PhaseSound
  <2>3. EvidenceSound(r)'
    BY <1>2, <2>1 DEF Invariant, Sound, EvidenceSound, Covers, Active
  <2> QED
    BY <2>2, <2>3 DEF Sound
<1> QED
  BY <1>4, <1>5 DEF Invariant

-----------------------------------------------------------------------------
\* A step that touches only what the driver itself remembers of one request need
\* only be looked at for that request.
LEMMA OwnStep ==
  ASSUME Invariant, NEW r \in Requests, Unchanged,
         NEW p \in Points, NEW l \in Loc, NEW s \in Statuses,
         pc' = [pc EXCEPT ![r] = p], loc' = [loc EXCEPT ![r] = l],
         status' = [status EXCEPT ![r] = s], Sound(r)'
  PROVE  Invariant'
<1>1. TypeOK'
  BY DEF Invariant, TypeOK, Unchanged, Loc
<1>2. ASSUME NEW q \in Requests, q # r PROVE Sound(q)'
  <2>1. pc'[q] = pc[q] /\ loc'[q] = loc[q] /\ status'[q] = status[q]
    BY <1>2 DEF Invariant, TypeOK
  <2>2. Sound(q)
    BY DEF Invariant
  <2> QED
    BY <2>1, <2>2 DEF Unchanged, Sound, LocalsSound, PhaseSound, EvidenceSound, Active
<1> QED
  BY <1>1, <1>2 DEF Invariant

LEMMA FinishHolds ==
  ASSUME Invariant, NEW r \in Requests, Unchanged, Active(r),
         NEW s \in Statuses \ {"PENDING", "SUCCESS"}, Finish(r, s),
         s \in {"NOT_FOUND", "REVISION_MISMATCH"} => wrote[r] = {}
  PROVE  Invariant'
<1>1. pc \in [Requests -> Points] /\ loc \in [Requests -> Loc] /\ status \in [Requests -> Statuses]
  BY DEF Invariant, TypeOK, Loc
<1>2. pc'[r] = "done" /\ status'[r] = s /\ loc' = [loc EXCEPT ![r] = loc[r]]
  BY <1>1 DEF Finish
<1>3. Sound(r)
  BY DEF Invariant
<1>4. LocalsSound(r)' /\ EvidenceSound(r)'
  BY <1>2 DEF LocalsSound, EvidenceSound, Active, Verified, InTree, Found
<1>5. PhaseSound(r)'
  BY <1>2, <1>3 DEF Unchanged, Sound, PhaseSound, Active
<1>6. "done" \in Points /\ loc[r] \in Loc
  BY <1>1 DEF Points
<1> QED
  BY <1>2, <1>4, <1>5, <1>6, OwnStep DEF Finish, Sound

LEMMA ContinueHolds ==
  ASSUME Invariant, NEW r \in Requests, Unchanged, Active(r), pc[r] # "readback",
         NEW to \in Points \ {"idle", "readback", "done"}, NEW var, NEW value,
         Continue(r, to, var, value), [loc[r] EXCEPT ![var] = value] \in Loc,
         LocalsSound(r)', EvidenceSound(r)'
  PROVE  Invariant'
<1> DEFINE l == [loc[r] EXCEPT ![var] = value]
<1>1. pc \in [Requests -> Points] /\ loc \in [Requests -> Loc] /\ status \in [Requests -> Statuses]
  BY DEF Invariant, TypeOK, Loc
<1>2. /\ pc' = [pc EXCEPT ![r] = to] /\ loc' = [loc EXCEPT ![r] = l]
      /\ status' = [status EXCEPT ![r] = status[r]] /\ status[r] \in Statuses
  BY <1>1 DEF Continue
<1>3. pc'[r] = to /\ status'[r] = status[r]
  BY <1>1, <1>2
<1>4. PhaseSound(r)
  BY DEF Invariant, Sound
<1>5. PhaseSound(r)'
  BY <1>3, <1>4 DEF Unchanged, PhaseSound, Active
<1> QED
  BY <1>2, <1>5, OwnStep DEF Sound

-----------------------------------------------------------------------------
\* What is known of a request inside the driver when it takes a step of its own.
LEMMA Inside ==
  ASSUME Invariant, NEW r \in Requests, Active(r)
  PROVE  /\ mem \in Memory /\ loc[r] \in Loc /\ target[r] \in Ids /\ target[r] # NoId
         /\ loc \in [Requests -> Loc] /\ pc \in [Requests -> Points]
         /\ LocalsSound(r) /\ PhaseSound(r) /\ EvidenceSound(r)
         /\ Covers(ever[r], Shows(mem, target[r]))
         /\ pc[r] # "readback" => wrote[r] = {}
  BY DEF Invariant, TypeOK, Loc, Sound, PhaseSound, EvidenceSound, Active

LEMMA ReadControllerFieldHolds ==
  ASSUME Invariant, NEW r \in Requests, ReadControllerField(r) PROVE Invariant'
<1>1. Active(r) /\ pc[r] = "controller" /\ Unchanged
  BY DEF ReadControllerField, Read, Active
<1>2. CASE Finish(r, "FAULT")
  BY <1>1, <1>2, FinishHolds DEF Statuses
<1>3. CASE Continue(r, "manager", "controller", mem.controller)
  <2>1. loc'[r] = [loc[r] EXCEPT !.controller = mem.controller] /\ pc'[r] = "manager"
    BY <1>1, <1>3, Inside DEF Continue
  <2>2. [loc[r] EXCEPT !.controller = mem.controller] \in Loc
    BY <1>1, Inside, Fields DEF Loc
  <2>3. LocalsSound(r)' /\ EvidenceSound(r)'
    BY <1>1, <2>1, Inside DEF Unchanged, LocalsSound, EvidenceSound, Active, Verified, InTree, Found
  <2> QED
    BY <1>1, <1>3, <2>2, <2>3, ContinueHolds DEF Points
<1> QED
  BY <1>2, <1>3 DEF ReadControllerField, Read

LEMMA ReadTreeFieldHolds ==
  ASSUME Invariant, NEW r \in Requests, ReadTreeField(r) PROVE Invariant'
<1>1. Active(r) /\ pc[r] = "manager" /\ Unchanged /\ wrote[r] = {}
  BY Inside DEF ReadTreeField, Read, Active
<1>2. CASE Finish(r, "FAULT") \/ Finish(r, "NOT_FOUND")
  BY <1>1, <1>2, FinishHolds DEF Statuses
<1>3. CASE loc[r].controller # Null /\ Continue(r, "vtable", "node", Null)
  <2>1. loc'[r] = [loc[r] EXCEPT !.node = Null] /\ pc'[r] = "vtable"
    BY <1>1, <1>3, Inside DEF Continue
  <2>2. [loc[r] EXCEPT !.node = Null] \in Loc
    BY <1>1, Inside DEF Loc
  <2>3. loc'[r].controller \in Controllers
    BY <1>1, <1>3, <2>1, Inside DEF Loc
  <2>4. LocalsSound(r)' /\ EvidenceSound(r)'
    BY <1>1, <2>1, <2>3, Inside DEF Unchanged, LocalsSound, EvidenceSound, Active, Verified,
       InTree, Found
  <2> QED
    BY <1>1, <1>3, <2>2, <2>4, ContinueHolds DEF Points
<1> QED
  BY <1>2, <1>3 DEF ReadTreeField, Read

LEMMA CheckVtableHolds ==
  ASSUME Invariant, NEW r \in Requests, CheckVtable(r) PROVE Invariant'
<1>1. Active(r) /\ pc[r] = "vtable" /\ Unchanged /\ wrote[r] = {}
  BY Inside DEF CheckVtable, Read, Active
<1>2. CASE Finish(r, "FAULT") \/ Finish(r, "REVISION_MISMATCH")
  BY <1>1, <1>2, FinishHolds DEF Statuses
<1>3. CASE mem.vtable[loc[r].controller] /\ Continue(r, "header", "node", Null)
  <2>1. loc'[r] = [loc[r] EXCEPT !.node = Null] /\ pc'[r] = "header"
    BY <1>1, <1>3, Inside DEF Continue
  <2>2. [loc[r] EXCEPT !.node = Null] \in Loc
    BY <1>1, Inside DEF Loc
  <2>3. loc'[r].controller = loc[r].controller /\ loc[r].controller \in Controllers
    BY <1>1, <2>1, Inside DEF Loc, LocalsSound
  <2>4. loc[r].controller \in ever[r].controllers
    BY <1>1, <1>3, <2>3, Inside DEF Covers, Shows
  <2>5. LocalsSound(r)'
    BY <2>1, <2>3 DEF LocalsSound, Verified, InTree, Found
  <2>6. EvidenceSound(r)'
    BY <1>1, <2>1, <2>3, <2>4, Inside DEF Unchanged, EvidenceSound, Active
  <2> QED
    BY <1>1, <1>3, <2>2, <2>5, <2>6, ContinueHolds DEF Points
<1> QED
  BY <1>2, <1>3 DEF CheckVtable, Read

LEMMA ReadHeaderHolds ==
  ASSUME Invariant, NEW r \in Requests, ReadHeader(r) PROVE Invariant'
<1>1. Active(r) /\ pc[r] = "header" /\ Unchanged /\ wrote[r] = {}
  BY Inside DEF ReadHeader, Read, Active
<1>2. CASE Finish(r, "FAULT") \/ Finish(r, "NOT_FOUND")
  BY <1>1, <1>2, FinishHolds DEF Statuses
<1>3. CASE mem.header # Null /\ Continue(r, "root", "header", mem.header)
  <2>0. mem.header = Header
    BY <1>1, <1>3, Inside, Fields
  <2>1. loc'[r] = [loc[r] EXCEPT !.header = Header] /\ pc'[r] = "root"
    BY <1>1, <1>3, <2>0, Inside DEF Continue
  <2>2. [loc[r] EXCEPT !.header = mem.header] \in Loc
    BY <1>1, <2>0, Inside DEF Loc
  <2>3. loc'[r].header = Header /\ loc'[r].controller = loc[r].controller
    BY <1>1, <2>1, Inside DEF Loc
  <2>4. LocalsSound(r)'
    BY <1>1, <2>1, <2>3, Inside DEF LocalsSound, Verified, InTree, Found
  <2>5. EvidenceSound(r)'
    BY <1>1, <2>1, <2>3, Inside DEF Unchanged, EvidenceSound, Active, Verified
  <2> QED
    BY <1>1, <1>3, <2>2, <2>4, <2>5, ContinueHolds DEF Points
<1> QED
  BY <1>2, <1>3 DEF ReadHeader, Read

LEMMA ReadRootHolds ==
  ASSUME Invariant, NEW r \in Requests, ReadRoot(r) PROVE Invariant'
<1>1. Active(r) /\ pc[r] = "root" /\ Unchanged /\ wrote[r] = {}
  BY Inside DEF ReadRoot, Read, Active
<1>2. CASE Finish(r, "FAULT") \/ Finish(r, "NOT_FOUND")
  BY <1>1, <1>2, FinishHolds DEF Statuses
<1>3. CASE ~ EmptyTree(r, mem.root) /\ Continue(r, "key", "node", mem.root)
  <2>0. mem.root \in Nodes
    BY <1>1, <1>3, Inside, Fields DEF EmptyTree, LocalsSound, Links
  <2>1. loc'[r] = [loc[r] EXCEPT !.node = mem.root] /\ pc'[r] = "key"
    BY <1>1, <1>3, Inside DEF Continue
  <2>2. [loc[r] EXCEPT !.node = mem.root] \in Loc
    BY <1>1, <2>0, Inside DEF Loc
  <2>3. /\ loc'[r].node = mem.root /\ loc'[r].header = loc[r].header
        /\ loc'[r].controller = loc[r].controller
    BY <1>1, <2>1, Inside DEF Loc
  <2>4. LocalsSound(r)'
    BY <1>1, <2>0, <2>1, <2>3, Inside DEF LocalsSound, Verified, InTree, Found
  <2>5. EvidenceSound(r)'
    BY <1>1, <2>1, <2>3, Inside DEF Unchanged, EvidenceSound, Active, Verified
  <2> QED
    BY <1>1, <1>3, <2>2, <2>4, <2>5, ContinueHolds DEF Points
<1> QED
  BY <1>2, <1>3 DEF ReadRoot, Read

LEMMA ReadKeyHolds ==
  ASSUME Invariant, NEW r \in Requests, ReadKey(r) PROVE Invariant'
<1> DEFINE key == mem.key[loc[r].node]
           to  == IF key = target[r] THEN "actor" ELSE "child"
<1>1. Active(r) /\ pc[r] = "key" /\ Unchanged /\ wrote[r] = {}
  BY Inside DEF ReadKey, Read, Active
<1>2. CASE Finish(r, "FAULT")
  BY <1>1, <1>2, FinishHolds DEF Statuses
<1>3. CASE Continue(r, to, "id", key)
  <2>0. key \in Ids /\ to \in {"actor", "child"}
    BY <1>1, Inside, Fields DEF LocalsSound, InTree
  <2>1. loc'[r] = [loc[r] EXCEPT !.id = key] /\ pc'[r] = to
    BY <1>1, <1>3, Inside DEF Continue
  <2>2. [loc[r] EXCEPT !.id = key] \in Loc
    BY <1>1, <2>0, Inside DEF Loc
  <2>3. /\ loc'[r].node = loc[r].node /\ loc'[r].header = loc[r].header
        /\ loc'[r].controller = loc[r].controller
    BY <1>1, <2>1, Inside DEF Loc
  <2>4. LocalsSound(r)'
    BY <1>1, <2>0, <2>1, <2>3, Inside DEF LocalsSound, Verified, InTree, Found
  <2>5. EvidenceSound(r)'
    BY <1>1, <2>0, <2>1, <2>3, Inside DEF Unchanged, EvidenceSound, Active, Verified, InTree
  <2>6. to \in Points \ {"idle", "readback", "done"}
    BY <2>0 DEF Points
  <2> QED
    BY <1>1, <1>3, <2>2, <2>4, <2>5, <2>6, ContinueHolds
<1> QED
  BY <1>2, <1>3 DEF ReadKey, Read

LEMMA ReadActorHolds ==
  ASSUME Invariant, NEW r \in Requests, ReadActor(r) PROVE Invariant'
<1> DEFINE actor == mem.actor[loc[r].node]
<1>1. Active(r) /\ pc[r] = "actor" /\ Unchanged /\ wrote[r] = {}
  BY Inside DEF ReadActor, Read, Active
<1>2. CASE Finish(r, "FAULT") \/ Finish(r, "NOT_FOUND")
  BY <1>1, <1>2, FinishHolds DEF Statuses
<1>3. CASE actor # Null /\ Continue(r, "id", "actor", actor)
  <2>0. actor \in Actors
    BY <1>1, <1>3, Inside, Fields DEF LocalsSound, InTree
  <2>1. loc'[r] = [loc[r] EXCEPT !.actor = actor] /\ pc'[r] = "id"
    BY <1>1, <1>3, Inside DEF Continue
  <2>2. [loc[r] EXCEPT !.actor = actor] \in Loc
    BY <1>1, <2>0, Inside DEF Loc
  <2>3. loc'[r].actor = actor /\ loc'[r].controller = loc[r].controller
    BY <1>1, <2>1, Inside DEF Loc
  <2>4. LocalsSound(r)'
    BY <1>1, <2>0, <2>1, <2>3, Inside DEF LocalsSound, Verified, InTree, Found
  <2>5. EvidenceSound(r)'
    BY <1>1, <2>1, <2>3, Inside DEF Unchanged, EvidenceSound, Active, Verified, InTree
  <2> QED
    BY <1>1, <1>3, <2>2, <2>4, <2>5, ContinueHolds DEF Points
<1> QED
  BY <1>2, <1>3 DEF ReadActor, Read

\* The id read from the object is the target's only if the object carried it then.
LEMMA ReadActorIdHolds ==
  ASSUME Invariant, NEW r \in Requests, ReadActorId(r) PROVE Invariant'
<1> DEFINE actor == loc[r].actor
<1>1. Active(r) /\ pc[r] = "id" /\ Unchanged /\ wrote[r] = {}
  BY Inside DEF ReadActorId, Active
<1>2. ASSUME NEW i \in Ids \cup {NoId}, Continue(r, "xy", "id", i),
             i = NoId \/ i = mem.id[actor]
      PROVE  Invariant'
  <2>1. loc'[r] = [loc[r] EXCEPT !.id = i] /\ pc'[r] = "xy"
    BY <1>1, <1>2, Inside DEF Continue
  <2>2. [loc[r] EXCEPT !.id = i] \in Loc
    BY <1>1, Inside DEF Loc
  <2>3. /\ loc'[r].id = i /\ loc'[r].actor = actor /\ actor \in Actors
        /\ loc'[r].controller = loc[r].controller
    BY <1>1, <2>1, Inside DEF Loc, LocalsSound, Found
  <2>4. LocalsSound(r)'
    BY <1>1, <2>1, <2>3, Inside DEF LocalsSound, Verified, InTree, Found
  <2>5. i = target[r] => actor \in ever[r].named
    BY <1>1, <1>2, <2>3, Inside DEF Covers, Shows
  <2>6. EvidenceSound(r)'
    BY <1>1, <2>1, <2>3, <2>5, Inside DEF Unchanged, EvidenceSound, Active, Verified, Found
  <2> QED
    BY <1>1, <1>2, <2>2, <2>4, <2>6, ContinueHolds DEF Points
<1>3. mem.id[actor] \in Ids
  BY <1>1, Inside, Fields DEF LocalsSound, Found
<1> QED
  BY <1>2, <1>3 DEF ReadActorId

LEMMA ReadActorPositionHolds ==
  ASSUME Invariant, NEW r \in Requests, ReadActorPosition(r) PROVE Invariant'
<1> DEFINE actor == loc[r].actor
<1>1. Active(r) /\ pc[r] = "xy" /\ Unchanged /\ wrote[r] = {}
  BY Inside DEF ReadActorPosition, Active
<1>2. CASE Finish(r, "NOT_FOUND")
  BY <1>1, <1>2, FinishHolds DEF Statuses
<1>3. CASE IsTarget(r) /\ Continue(r, "write", "node", Null)
  <2>1. loc'[r] = [loc[r] EXCEPT !.node = Null] /\ pc'[r] = "write"
    BY <1>1, <1>3, Inside DEF Continue
  <2>2. [loc[r] EXCEPT !.node = Null] \in Loc
    BY <1>1, Inside DEF Loc
  <2>3. loc'[r].controller = loc[r].controller /\ actor \in Actors
    BY <1>1, <2>1, Inside DEF Loc, LocalsSound, Found
  <2>4. LocalsSound(r)'
    BY <1>1, <2>1, <2>3, Inside DEF LocalsSound, Verified, InTree, Found
  <2>5. actor \in ever[r].named
    BY <1>1, <1>3, Inside DEF IsTarget, EvidenceSound
  <2>6. actor \in ever[r].near
    BY <1>1, <1>3, <2>3, Inside DEF IsTarget, Covers, Shows
  <2>7. EvidenceSound(r)'
    BY <1>1, <2>1, <2>3, <2>5, <2>6, Inside DEF Unchanged, EvidenceSound, Active, Verified, Found
  <2> QED
    BY <1>1, <1>3, <2>2, <2>4, <2>7, ContinueHolds DEF Points
<1> QED
  BY <1>2, <1>3 DEF ReadActorPosition

LEMMA ReadChildHolds ==
  ASSUME Invariant, NEW r \in Requests, ReadChild(r) PROVE Invariant'
<1>1. Active(r) /\ pc[r] = "child" /\ Unchanged /\ wrote[r] = {}
  BY Inside DEF ReadChild, Read, Active
<1>2. CASE Finish(r, "FAULT") \/ Finish(r, "NOT_FOUND")
  BY <1>1, <1>2, FinishHolds DEF Statuses
<1>3. CASE Side(r) \notin {Null, loc[r].header} /\ Continue(r, "parent", "child", Side(r))
  <2>0. Side(r) \in Nodes
    BY <1>1, <1>3, Inside, Fields DEF Side, LocalsSound, InTree, Links
  <2>1. loc'[r] = [loc[r] EXCEPT !.child = Side(r)] /\ pc'[r] = "parent"
    BY <1>1, <1>3, Inside DEF Continue
  <2>2. [loc[r] EXCEPT !.child = Side(r)] \in Loc
    BY <1>1, <2>0, Inside DEF Loc
  <2>3. /\ loc'[r].child = Side(r) /\ loc'[r].node = loc[r].node
        /\ loc'[r].header = loc[r].header /\ loc'[r].controller = loc[r].controller
    BY <1>1, <2>1, Inside DEF Loc
  <2>4. LocalsSound(r)'
    BY <1>1, <2>0, <2>1, <2>3, Inside DEF LocalsSound, Verified, InTree, Found
  <2>5. EvidenceSound(r)'
    BY <1>1, <2>1, <2>3, Inside DEF Unchanged, EvidenceSound, Active, Verified, InTree
  <2> QED
    BY <1>1, <1>3, <2>2, <2>4, <2>5, ContinueHolds DEF Points
<1> QED
  BY <1>2, <1>3 DEF ReadChild, Read

LEMMA ReadParentHolds ==
  ASSUME Invariant, NEW r \in Requests, ReadParent(r) PROVE Invariant'
<1>1. Active(r) /\ pc[r] = "parent" /\ Unchanged /\ wrote[r] = {}
  BY Inside DEF ReadParent, Active
<1>2. CASE Finish(r, "FAULT") \/ Finish(r, "NOT_FOUND")
  BY <1>1, <1>2, FinishHolds DEF Statuses
<1>3. CASE /\ NextDepth(r) < MaxDepth
           /\ pc' = [pc EXCEPT ![r] = "key"]
           /\ loc' = [loc EXCEPT ![r].node = loc[r].child, ![r].depth = NextDepth(r)]
           /\ UNCHANGED status
  <2> DEFINE l == [loc[r] EXCEPT !.node = loc[r].child, !.depth = NextDepth(r)]
  <2>1. loc' = [loc EXCEPT ![r] = l] /\ pc'[r] = "key"
    BY <1>1, <1>3, Inside
  <2>2. loc[r].child \in Nodes
    BY <1>1, Inside DEF LocalsSound
  <2>3. NextDepth(r) \in 0..MaxDepth - 1
    BY <1>1, <1>3, Inside, TargetSelectionAssumption
    DEF TargetSelectionAssumption, NextDepth, Loc
  <2>4. l \in Loc
    BY <1>1, <2>2, <2>3, Inside DEF Loc
  <2>5. /\ loc'[r].node = loc[r].child /\ loc'[r].header = loc[r].header
        /\ loc'[r].controller = loc[r].controller /\ loc'[r].selectedId = loc[r].selectedId
    BY <1>1, <2>1, Inside DEF Loc
  <2>6. LocalsSound(r)'
    BY <1>1, <2>1, <2>2, <2>5, Inside DEF LocalsSound, Verified, InTree, Found
  <2>7. EvidenceSound(r)'
    BY <1>1, <2>1, <2>5, Inside DEF Unchanged, EvidenceSound, Active, Verified, InTree
  <2>8. /\ status' = [status EXCEPT ![r] = status[r]] /\ status'[r] = status[r]
        /\ status[r] \in Statuses
    BY <1>3 DEF Invariant, TypeOK
  <2>9. PhaseSound(r)'
    BY <1>1, <2>1, <2>5, <2>8, Inside DEF Unchanged, PhaseSound
  <2> QED
    BY <1>1, <1>3, <2>1, <2>4, <2>6, <2>7, <2>8, <2>9, OwnStep DEF Points, Sound
<1> QED
  BY <1>2, <1>3 DEF ReadParent

LEMMA ReadBackHolds ==
  ASSUME Invariant, NEW r \in Requests, ReadBack(r) PROVE Invariant'
<1> DEFINE held == mem.slot[loc[r].controller]
           l    == [loc[r] EXCEPT !.selectedId = held]
<1>1. Active(r) /\ pc[r] = "readback" /\ Unchanged
  BY DEF ReadBack, Read, Active
<1>2. CASE Finish(r, "FAULT")
  BY <1>1, <1>2, FinishHolds DEF Statuses
<1>3. CASE /\ pc' = [pc EXCEPT ![r] = "done"]
           /\ status' = [status EXCEPT ![r] = Verdict(r)]
           /\ loc' = [loc EXCEPT ![r].selectedId = held]
  <2>1. held \in Ids \cup {NoId}
    BY <1>1, Inside, Fields DEF LocalsSound, Verified
  <2>2. loc' = [loc EXCEPT ![r] = l] /\ loc'[r] = l /\ pc'[r] = "done"
    BY <1>1, <1>3, Inside
  <2>3. l \in Loc
    BY <1>1, <2>1, Inside DEF Loc
  <2>4. l.selectedId = held
    BY <1>1, Inside DEF Loc
  <2>5. /\ status'[r] = Verdict(r) /\ Verdict(r) \in {"SUCCESS", "UNSUCCESSFUL"}
        /\ Verdict(r) = "SUCCESS" => held = target[r]
    BY <1>3 DEF Invariant, TypeOK, Verdict
  <2>6. PhaseSound(r)'
    BY <1>1, <2>2, <2>4, <2>5, Inside DEF Unchanged, PhaseSound
  <2>7. LocalsSound(r)' /\ EvidenceSound(r)'
    BY <2>2 DEF LocalsSound, EvidenceSound, Active, Verified, InTree, Found
  <2> QED
    BY <1>1, <1>3, <2>2, <2>3, <2>5, <2>6, <2>7, OwnStep DEF Points, Statuses, Sound
<1> QED
  BY <1>2, <1>3 DEF ReadBack, Read

\* The selection slots are no evidence: writing one adds nothing to the history.
LEMMA HistoryKept ==
  ASSUME Invariant, NEW c, NEW i, NEW by, Observe(by),
         mem' = [mem EXCEPT !.slot[c] = i]
  PROVE  ever' = ever
<1>1. \A j \in Ids \cup {NoId} : Shows(mem', j) = Shows(mem, j)
  BY DEF Invariant, TypeOK, Shows, Memory
<1>2. ASSUME NEW e \in Evidence, NEW f \in Evidence, Covers(e, f)
      PROVE  Merge(e, f) = e
  <2>1. \A x \in DOMAIN e : e[x] \cup f[x] = e[x]
    BY <1>2 DEF Evidence, Covers
  <2>2. [x \in DOMAIN e |-> e[x] \cup f[x]] = [x \in DOMAIN e |-> e[x]]
    BY <2>1
  <2> QED
    BY <2>2 DEF Merge, Evidence
<1>3. ASSUME NEW r \in Requests PROVE ever'[r] = ever[r]
  <2>1. ever[r] \in Evidence /\ Shows(mem, target[r]) \in Evidence
    BY DEF Invariant, TypeOK, Evidence, Shows
  <2>2. target[r] \in Ids \cup {NoId} /\ (Active(r) => Covers(ever[r], Shows(mem, target[r])))
    BY DEF Invariant, TypeOK, Sound, EvidenceSound
  <2> QED
    BY <1>1, <1>2, <2>1, <2>2 DEF Observe
<1> QED
  BY <1>3 DEF Observe, Invariant, TypeOK

\* The write changes the memory everyone sees, but nothing that is evidence.
LEMMA WriteSlotHolds ==
  ASSUME Invariant, NEW r \in Requests, WriteSlot(r) PROVE Invariant'
<1> DEFINE c == loc[r].controller
           l == [loc[r] EXCEPT !.node = Null]
<1>1. Active(r) /\ pc[r] = "write" /\ wrote[r] = {} /\ c \in Controllers
  BY Inside DEF WriteSlot, Active, LocalsSound, Verified
<1>2. CASE Finish(r, "FAULT") /\ UNCHANGED <<mem, changes, target, reported, wrote, quiet, ever>>
  BY <1>1, <1>2, FinishHolds DEF Statuses, Unchanged
<1>3. CASE /\ mem' = [mem EXCEPT !.slot[c] = target[r]]
           /\ wrote' = [wrote EXCEPT ![r] = @ \cup {c}]
           /\ Continue(r, "readback", "node", Null)
           /\ Observe(r)
           /\ UNCHANGED <<changes, target, reported>>
  <2>1. mem' \in Memory
    BY <1>1, <1>3, Inside DEF Memory
  <2>2. /\ loc' = [loc EXCEPT ![r] = l] /\ loc'[r] = l /\ l \in Loc /\ l.controller = c
        /\ l.selectedId = loc[r].selectedId
    BY <1>1, <1>3, Inside DEF Continue, Loc
  <2>3. /\ pc'[r] = "readback" /\ wrote'[r] = {c} /\ pc' \in [Requests -> Points]
        /\ wrote' \in [Requests -> SUBSET Controllers]
    BY <1>1, <1>3 DEF Continue, Invariant, TypeOK, Points
  <2>4. \A q \in Requests \ {r} : pc'[q] = pc[q] /\ loc'[q] = loc[q] /\ wrote'[q] = wrote[q]
    BY <1>3, <2>2 DEF Continue, Invariant, TypeOK
  <2>5. \A i \in Ids \cup {NoId} : Shows(mem', i) = Shows(mem, i)
    BY <1>1, <1>3, Inside DEF Shows, Memory
  <2>6. ever' \in [Requests -> Evidence] /\ quiet' \in [Requests -> BOOLEAN]
    BY <1>3, <2>1, Observed
  <2>7. \A q \in Requests : Covers(ever'[q], ever[q])
    BY <1>3, <2>1, Observed
  <2>8. TypeOK'
    BY <1>3, <2>1, <2>2, <2>3, <2>6 DEF Continue, Invariant, TypeOK, Loc, Evidence
  <2>9. Sound(r)'
    <3>1. LocalsSound(r)'
      BY <1>1, <2>2, <2>3 DEF LocalsSound, Verified, InTree, Found
    <3>2. PhaseSound(r)'
      BY <1>1, <1>3, <2>2, <2>3, Inside DEF PhaseSound, Continue
    <3>3. c \in ever[r].controllers /\ Covers(ever[r], Shows(mem', target[r]))
      BY <1>1, <2>5, Inside DEF EvidenceSound, Verified
    <3>4. EvidenceSound(r)'
      BY <1>1, <1>3, <2>2, <2>3, <2>7, <3>3 DEF EvidenceSound, Covers, Active
    <3> QED
      BY <3>1, <3>2, <3>4 DEF Sound
  <2>10. ASSUME NEW q \in Requests \ {r} PROVE Sound(q)'
    <3>1. Sound(q) /\ target[q] \in Ids \cup {NoId}
      BY DEF Invariant, TypeOK
    <3>2. LocalsSound(q)' /\ PhaseSound(q)'
      BY <1>3, <2>4, <3>1 DEF Continue, Sound, LocalsSound, PhaseSound
    <3>3. Active(q) => Covers(ever'[q], Shows(mem', target[q]))
      BY <2>5, <2>7, <3>1 DEF Sound, EvidenceSound, Covers
    <3>4. EvidenceSound(q)'
      BY <1>3, <2>4, <2>7, <3>1, <3>3 DEF Sound, EvidenceSound, Covers, Active
    <3> QED
      BY <3>2, <3>4 DEF Sound
  <2> QED
    BY <2>8, <2>9, <2>10 DEF Invariant
<1> QED
  BY <1>2, <1>3 DEF WriteSlot

-----------------------------------------------------------------------------
LEMMA CallHolds ==
  ASSUME Invariant, NEW r \in Requests, NEW i \in Ids, Call(r, i) PROVE Invariant'
<1>1. Shows(mem, i) \in Evidence
  BY DEF Shows, Evidence
<1>2. TypeOK'
  BY <1>1 DEF Call, Invariant, TypeOK, Points, Evidence
<1>3. ASSUME NEW q \in Requests, q # r PROVE Sound(q)'
  <2>1. /\ pc'[q] = pc[q] /\ target'[q] = target[q] /\ ever'[q] = ever[q] /\ Sound(q)
        /\ UNCHANGED <<mem, loc, status, wrote>>
    BY <1>3 DEF Call, Invariant, TypeOK
  <2> QED
    BY <2>1 DEF Sound, LocalsSound, PhaseSound, EvidenceSound, Active
<1>4. Sound(r)'
  <2>1. /\ pc'[r] = "controller" /\ target'[r] = i /\ ever'[r] = Shows(mem, i) /\ pc[r] = "idle"
        /\ UNCHANGED <<mem, loc, status, wrote>>
    BY DEF Call, Invariant, TypeOK
  <2>2. i # NoId
    BY TargetSelectionAssumption DEF TargetSelectionAssumption, NoId
  <2>3. PhaseSound(r)'
    BY <2>1, <2>2 DEF Invariant, Sound, PhaseSound
  <2>4. LocalsSound(r)' /\ EvidenceSound(r)'
    BY <2>1 DEF LocalsSound, EvidenceSound, Covers, Verified, InTree, Found
  <2> QED
    BY <2>3, <2>4 DEF Sound
<1> QED
  BY <1>2, <1>3, <1>4 DEF Invariant

LEMMA ReturnHolds ==
  ASSUME Invariant, NEW r \in Requests, Return(r) PROVE Invariant'
<1>1. Fresh \in Loc /\ Nothing \in Evidence
  BY TargetSelectionAssumption DEF TargetSelectionAssumption, Fresh, Nothing, Loc, Evidence
<1>2. TypeOK'
  BY <1>1 DEF Return, Invariant, TypeOK, Points, Statuses, Loc, Evidence
<1>3. ASSUME NEW q \in Requests, q # r PROVE Sound(q)'
  <2>1. /\ pc'[q] = pc[q] /\ loc'[q] = loc[q] /\ target'[q] = target[q] /\ ever'[q] = ever[q]
        /\ status'[q] = status[q] /\ wrote'[q] = wrote[q] /\ mem' = mem /\ Sound(q)
    BY <1>3 DEF Return, Invariant, TypeOK
  <2> QED
    BY <2>1 DEF Sound, LocalsSound, PhaseSound, EvidenceSound, Active
<1>4. Sound(r)'
  <2>1. pc'[r] = "idle" /\ target'[r] = NoId /\ status'[r] = "PENDING" /\ wrote'[r] = {}
    BY DEF Return, Invariant, TypeOK
  <2> QED
    BY <2>1 DEF Sound, LocalsSound, PhaseSound, EvidenceSound, Active, Verified, InTree, Found
<1> QED
  BY <1>2, <1>3, <1>4 DEF Invariant

LEMMA RefuseHolds ==
  ASSUME Invariant, NEW r \in Requests, Refuse(r) PROVE Invariant'
<1>1. TypeOK'
  BY DEF Refuse, Invariant, TypeOK
<1> QED
  BY <1>1 DEF Refuse, Invariant, Sound, LocalsSound, PhaseSound, EvidenceSound, Active

\* The invariant holds always.
THEOREM Invariance == Spec => []Invariant
<1>1. Invariant /\ [Next]_vars => Invariant'
  <2> SUFFICES ASSUME Invariant, [Next]_vars PROVE Invariant'
    OBVIOUS
  <2>1. CASE Game
    BY <2>1, GameStep
  <2>2. ASSUME NEW r \in Requests, Step(r) PROVE Invariant'
    BY <2>2, ReadControllerFieldHolds, ReadTreeFieldHolds, CheckVtableHolds, ReadHeaderHolds,
       ReadRootHolds, ReadKeyHolds, ReadActorHolds, ReadActorIdHolds, ReadActorPositionHolds,
       ReadChildHolds, ReadParentHolds, WriteSlotHolds, ReadBackHolds DEF Step
  <2>3. ASSUME NEW r \in Requests, Return(r) \/ Refuse(r) \/ \E i \in Ids : Call(r, i)
        PROVE  Invariant'
    BY <2>3, ReturnHolds, RefuseHolds, CallHolds
  <2>4. CASE UNCHANGED vars
    BY <2>4 DEF vars, Invariant, TypeOK, Sound, LocalsSound, PhaseSound, EvidenceSound, Active
  <2> QED
    BY <2>1, <2>2, <2>3, <2>4 DEF Next
<1> QED
  BY <1>1, InitHolds, PTL DEF Spec

\* Every variable of the request has its type (TypeOK).
THEOREM TypeCorrect == Spec => []TypeOK
<1>1. Invariant => TypeOK
  BY DEF Invariant
<1> QED
  BY <1>1, Invariance, PTL

-----------------------------------------------------------------------------
(***************************************************************************)
(* The request implements TargetMark.                                      *)
(***************************************************************************)
Before == {"FAULT", "NOT_FOUND", "REVISION_MISMATCH"}

\* On the way to the write a step says nothing, or ends the request with a failure.
LEMMA OnTheWay ==
  ASSUME NEW r \in Requests,
         \/ ReadControllerField(r) \/ ReadTreeField(r) \/ CheckVtable(r) \/ ReadHeader(r)
         \/ ReadRoot(r) \/ ReadKey(r) \/ ReadActor(r) \/ ReadActorId(r)
         \/ ReadActorPosition(r) \/ ReadChild(r) \/ ReadParent(r)
  PROVE  /\ Unchanged /\ Active(r) /\ pc[r] # "readback"
         /\ UNCHANGED status \/ \E s \in Before : Finish(r, s)
<1> USE DEF Read, Active, Before
<1>1. CASE ReadControllerField(r) \/ ReadTreeField(r) \/ CheckVtable(r) \/ ReadHeader(r)
  BY <1>1 DEF ReadControllerField, ReadTreeField, CheckVtable, ReadHeader, Continue
<1>2. CASE ReadRoot(r) \/ ReadKey(r) \/ ReadActor(r) \/ ReadActorId(r)
  BY <1>2 DEF ReadRoot, ReadKey, ReadActor, ReadActorId, Continue
<1>3. CASE ReadActorPosition(r) \/ ReadChild(r) \/ ReadParent(r)
  BY <1>3 DEF ReadActorPosition, ReadChild, ReadParent, Continue
<1> QED
  BY <1>1, <1>2, <1>3

\* An answer is one that TargetMark allows: success only while the slot holds the id,
\* and a denial only from a request that has marked nothing.
LEMMA AnswerAllowed ==
  ASSUME Invariant, NEW r \in Requests, Active(r), Unchanged, NEW s,
         status' = [status EXCEPT ![r] = s],
         s = "SUCCESS" => \E c \in wrote[r] : mem.slot[c] = target[r],
         s \in {"NOT_FOUND", "REVISION_MISMATCH"} => wrote[r] = {}
  PROVE  Promised!Answer(r)
<1>1. status[r] = "PENDING" /\ target[r] # NoId
  BY Inside DEF PhaseSound, Active
<1>2. status'[r] = s /\ \A q \in Requests \ {r} : status'[q] = status[q]
  BY DEF Invariant, TypeOK
<1> QED
  BY <1>1, <1>2 DEF Unchanged, Promised!Answer

\* Every step of a request is one of TargetMark, or changes nothing it speaks of.
LEMMA RequestStep ==
  ASSUME Invariant, NEW r \in Requests, Step(r)
  PROVE  [Promised!Next]_(Promised!vars)
<1>1. ASSUME Unchanged, Active(r), pc[r] # "readback",
             UNCHANGED status \/ \E s \in Before : Finish(r, s)
      PROVE  [Promised!Next]_(Promised!vars)
  <2>1. CASE UNCHANGED status
    BY <1>1, <2>1 DEF Unchanged, Promised!vars
  <2>2. ASSUME NEW s \in Before, Finish(r, s) PROVE Promised!Answer(r)
    BY <1>1, <2>2, Inside, AnswerAllowed DEF Finish, Before
  <2> QED
    BY <1>1, <2>1, <2>2 DEF Promised!Next
<1>2. CASE WriteSlot(r)
  <2> DEFINE c == loc[r].controller
  <2>1. Active(r) /\ pc[r] = "write"
    BY <1>2 DEF WriteSlot, Active
  <2>2. CASE Finish(r, "FAULT") /\ UNCHANGED <<mem, changes, target, reported, wrote, quiet, ever>>
    BY <1>1, <2>1, <2>2 DEF Unchanged, Before
  <2>3. CASE /\ mem' = [mem EXCEPT !.slot[c] = target[r]]
             /\ wrote' = [wrote EXCEPT ![r] = @ \cup {c}]
             /\ UNCHANGED <<status, target, reported>> /\ Observe(r)
    <3>1. /\ c \in Controllers /\ wrote[r] = {} /\ c \in ever[r].controllers
          /\ ever[r].named \cap ever[r].near # {}
      BY <2>1, Inside DEF LocalsSound, EvidenceSound, Verified
    <3>2. mem'.slot = [mem.slot EXCEPT ![c] = target[r]]
      BY <2>3, Inside, <2>1 DEF Memory
    <3>3. wrote' = [wrote EXCEPT ![r] = {c}]
      BY <2>3, <3>1
    <3>4. ever' = ever
      BY <2>1, <2>3, HistoryKept
    <3>5. status[r] = "PENDING" /\ target[r] # NoId
      BY <2>1, Inside DEF PhaseSound
    <3>6. Promised!Mark(r, c)
      BY <2>3, <3>1, <3>2, <3>3, <3>4, <3>5 DEF Promised!Mark
    <3> QED
      BY <3>1, <3>6 DEF Promised!Next
  <2> QED
    BY <1>2, <2>2, <2>3 DEF WriteSlot, Continue
<1>3. CASE ReadBack(r)
  <2>1. Active(r) /\ Unchanged /\ wrote[r] = {loc[r].controller}
    BY <1>3, Inside DEF ReadBack, Read, Active, PhaseSound
  <2>2. \E s \in {"FAULT", Verdict(r)} : status' = [status EXCEPT ![r] = s]
    BY <1>3 DEF ReadBack, Read, Finish
  <2>3. Promised!Answer(r)
    BY <2>1, <2>2, AnswerAllowed DEF Verdict
  <2> QED
    BY <2>3 DEF Promised!Next
<1> QED
  BY <1>1, <1>2, <1>3, OnTheWay DEF Step

LEMMA RefinementStep == Invariant /\ [Next]_vars => [Promised!Next]_(Promised!vars)
<1> SUFFICES ASSUME Invariant, [Next]_vars PROVE [Promised!Next]_(Promised!vars)
  OBVIOUS
<1>1. CASE Game
  <2>1. \A r \in Requests : Covers(ever'[r], ever[r])
    BY <1>1, GameMemory, Observed DEF Game, Invariant, TypeOK
  <2>2. \A r \in Requests : DOMAIN ever[r] = {"controllers", "named", "near"}
    BY DEF Invariant, TypeOK
  <2>3. Promised!Drift
    BY <1>1, <2>1, <2>2 DEF Game, Covers, Promised!Drift
  <2> QED
    BY <2>3 DEF Promised!Next
<1>2. ASSUME NEW r \in Requests, Step(r) PROVE [Promised!Next]_(Promised!vars)
  BY <1>2, RequestStep
<1>3. ASSUME NEW r \in Requests, NEW i \in Ids, Call(r, i) PROVE [Promised!Next]_(Promised!vars)
  <2>1. target[r] = NoId /\ \A q \in Requests \ {r} : ever'[q] = ever[q]
    BY <1>3 DEF Call, Invariant, TypeOK, Sound, PhaseSound
  <2>2. Promised!Ask(r, i)
    BY <1>3, <2>1 DEF Call, Promised!Ask, Promised!OthersKeepEvidence
  <2> QED
    BY <2>2 DEF Promised!Next
<1>4. ASSUME NEW r \in Requests, Refuse(r) PROVE [Promised!Next]_(Promised!vars)
  <2>1. Promised!Refuse(r)
    BY <1>4 DEF Refuse, Invariant, Sound, PhaseSound, Promised!Refuse
  <2> QED
    BY <2>1 DEF Promised!Next
<1>5. ASSUME NEW r \in Requests, Return(r) PROVE [Promised!Next]_(Promised!vars)
  <2>1. /\ status[r] # "PENDING" /\ \A q \in Requests \ {r} : ever'[q] = ever[q]
        /\ status[r] = "SUCCESS" => loc[r].selectedId = target[r]
    BY <1>5 DEF Return, Invariant, TypeOK, Sound, PhaseSound
  <2>2. Promised!Tell(r)
    BY <1>5, <2>1 DEF Return, Promised!Tell, Promised!OthersKeepEvidence
  <2> QED
    BY <2>2 DEF Promised!Next
<1>6. CASE UNCHANGED vars
  BY <1>6 DEF vars, Promised!vars
<1> QED
  BY <1>1, <1>2, <1>3, <1>4, <1>5, <1>6 DEF Next

\* A request to select a character keeps the promise of TargetMark, however the game
\* changes and whoever else selects at the same time.
THEOREM Implementation == Spec => ImplementsTargetMark
<1>1. Init => Promised!Init
  BY DEF Init, Promised!Init
<1> QED
  BY <1>1, RefinementStep, Invariance, PTL DEF Spec, ImplementsTargetMark, Promised!Spec

OnTree == InTree \cup Found

\* Where the comparison of keys leads from node n.
Toward(n, t) == IF t < mem.key[n] THEN mem.left[n] ELSE mem.right[n]

\* A way p of e links that ends at the target goes where the comparison of keys leads.
Leads(p, e, t) == \A i \in Nat : i < e => mem.key[p[i]] # t /\ p[i + 1] = Toward(p[i], t)

\* The controller is the one the driver knows, and was verified.
ControllerKnown(r) ==
  /\ pc[r] # "controller" => loc[r].controller = mem.controller
  /\ pc[r] \in Verified => mem.vtable[loc[r].controller]

\* The node at hand is at the end of a way down as long as the loop has counted; and on
\* the way to the target, if the tree is intact and the target stands in it.
OnTheTrail(r) ==
  pc[r] \in OnTree =>
    /\ \E p \in Ways(mem, loc[r].depth) : p[loc[r].depth] = loc[r].node
    /\ WellFormed(mem) =>
         \A d \in 0..MaxDepth - 1 : \A p \in Ways(mem, d) :
           Stands(mem, p[d], target[r]) => loc[r].depth <= d /\ p[loc[r].depth] = loc[r].node

\* What was read of the node and of its object is what memory holds.
ReadTrue(r) ==
  /\ pc[r] \in {"child", "parent"} => loc[r].id = mem.key[loc[r].node] /\ loc[r].id # target[r]
  /\ pc[r] = "parent" => loc[r].child = Side(r)
  /\ pc[r] \in {"actor"} \cup Found => mem.key[loc[r].node] = target[r]
  /\ pc[r] \in Found => loc[r].actor = mem.actor[loc[r].node]
  /\ pc[r] = "xy" => /\ loc[r].id = target[r] => mem.id[loc[r].actor] = target[r]
                     /\ Readable(loc[r].actor) => loc[r].id = mem.id[loc[r].actor]

\* Only a target that stands in the tree is written, and the slot keeps it.
WrittenTrue(r) ==
  /\ pc[r] \in {"write", "readback"} => Present(mem, target[r])
  /\ pc[r] = "readback" => /\ Readable(loc[r].controller)
                           /\ mem.slot[loc[r].controller] = target[r]

\* While nobody else changes memory.
QuietSound(r) ==
  /\ pc[r] \in {"idle", "controller", "manager", "vtable", "header", "root"} => loc[r].depth = 0
  /\ Active(r) /\ quiet[r] =>
       ControllerKnown(r) /\ OnTheTrail(r) /\ ReadTrue(r) /\ WrittenTrue(r)
-----------------------------------------------------------------------------
(***************************************************************************)
(* In a memory nobody else changes the verdict is exact.                   *)
(***************************************************************************)

\* Induction over the natural numbers, for a set.
LEMMA SetInduction ==
  ASSUME NEW S, 0 \in S, \A k \in Nat : k \in S => k + 1 \in S
  PROVE  Nat \subseteq S
<1> DEFINE T == Nat \ S
           R == OpToRel(<, Nat)
<1> SUFFICES ASSUME T # {} PROVE FALSE
  OBVIOUS
<1>1. IsWellFoundedOn(R, Nat)
  BY NatLessThanWellFounded
<1>2. PICK x \in T : \A y \in T : ~ (<<y, x>> \in R)
  <2> HIDE DEF R
  <2>1. T \subseteq Nat
    OBVIOUS
  <2> QED
    BY <1>1, <2>1, WFMin
<1>3. x # 0 /\ x - 1 \in Nat /\ x \in Nat
  OBVIOUS
<1>4. x - 1 \in T
  BY <1>3
<1>5. <<x - 1, x>> \in R
  BY <1>3 DEF OpToRel
<1> QED
  BY <1>2, <1>4, <1>5

LEMMA OnAWay ==
  ASSUME NEW m, NEW d \in Nat, NEW p \in Ways(m, d)
  PROVE  /\ p \in [0..d -> Nodes] /\ p[0] = m.root
         /\ \A i \in 0..d : p[i] \in Nodes
         /\ \A i \in Nat : i < d => p[i + 1] \in Sides(m, p[i]) /\ m.parent[p[i + 1]] = p[i]
<1>1. p \in [0..d -> Nodes] /\ p[0] = m.root
  BY DEF Ways
<1>2. \A i \in 0..d - 1 : p[i + 1] \in Sides(m, p[i]) /\ m.parent[p[i + 1]] = p[i]
  BY DEF Ways
<1> QED
  BY <1>1, <1>2

\* A set closed under the links of its members holds the rest of a way it meets.
LEMMA DownTheWay ==
  ASSUME NEW m, NEW d \in Nat, NEW p \in Ways(m, d),
         NEW S \in SUBSET Nodes, \A k \in S : Sides(m, k) \subseteq S,
         NEW i \in Nat, i <= d, p[i] \in S
  PROVE  p[d] \in S
<1> DEFINE T == {k \in Nat : i + k <= d => p[i + k] \in S}
<1>1. 0 \in T
  OBVIOUS
<1>2. ASSUME NEW k \in Nat, k \in T PROVE k + 1 \in T
  <2> SUFFICES ASSUME i + (k + 1) <= d PROVE p[i + (k + 1)] \in S
    OBVIOUS
  <2>1. i + k \in Nat /\ i + k < d /\ p[i + k] \in S
    BY <1>2
  <2>2. p[(i + k) + 1] \in Sides(m, p[i + k])
    BY <2>1, OnAWay
  <2>3. (i + k) + 1 = i + (k + 1)
    OBVIOUS
  <2> QED
    BY <2>1, <2>2, <2>3
<1>3. Nat \subseteq T
  <2> HIDE DEF T
  <2> QED
    BY <1>1, <1>2, SetInduction
<1>4. d - i \in Nat /\ i + (d - i) = d
  OBVIOUS
<1> QED
  BY <1>3, <1>4

LEMMA EndIsBelow ==
  ASSUME NEW m, NEW d \in Nat, NEW p \in Ways(m, d), NEW i \in Nat, i <= d
  PROVE  p[d] \in Below(m, p[i])
<1>1. p[i] \in Nodes /\ p[d] \in Nodes
  BY OnAWay
<1>2. ASSUME NEW S \in SUBSET Nodes, p[i] \in S, \A k \in S : Sides(m, k) \subseteq S
      PROVE  p[d] \in S
  BY <1>2, DownTheWay
<1> QED
  BY <1>1, <1>2 DEF Below

\* The part of a way down to one of its nodes is a way.
LEMMA WayAbove ==
  ASSUME NEW m, NEW d \in Nat, NEW p \in Ways(m, d), NEW i \in Nat, i <= d
  PROVE  \E q \in Ways(m, i) : q[i] = p[i]
<1> DEFINE q == [j \in 0..i |-> p[j]]
<1>1. q \in [0..i -> Nodes] /\ q[i] = p[i] /\ q[0] = m.root
  BY OnAWay
<1>2. ASSUME NEW j \in 0..i - 1
      PROVE  q[j + 1] \in Sides(m, q[j]) /\ m.parent[q[j + 1]] = q[j]
  <2>1. j \in Nat /\ j < d /\ q[j] = p[j] /\ q[j + 1] = p[j + 1]
    OBVIOUS
  <2> QED
    BY <2>1, OnAWay
<1> HIDE DEF q
<1> QED
  BY <1>1, <1>2 DEF Ways

LEMMA WayLonger ==
  ASSUME NEW m, NEW d \in Nat, NEW p \in Ways(m, d), NEW c \in Sides(m, p[d]),
         m.parent[c] = p[d]
  PROVE  \E q \in Ways(m, d + 1) : q[d + 1] = c
<1> DEFINE q == [j \in 0..d + 1 |-> IF j = d + 1 THEN c ELSE p[j]]
<1>1. q \in [0..d + 1 -> Nodes] /\ q[d + 1] = c /\ q[0] = m.root
  BY OnAWay DEF Sides
<1>2. ASSUME NEW j \in 0..(d + 1) - 1
      PROVE  q[j + 1] \in Sides(m, q[j]) /\ m.parent[q[j + 1]] = q[j]
  <2>1. CASE j = d
    BY <2>1
  <2>2. CASE j # d
    <3>1. j \in Nat /\ j < d /\ q[j] = p[j] /\ q[j + 1] = p[j + 1]
      BY <2>2
    <3> QED
      BY <3>1, OnAWay
  <2> QED
    BY <2>1, <2>2
<1> HIDE DEF q
<1> QED
  BY <1>1, <1>2 DEF Ways

\* In an intact tree every node above the target is on the way the comparison of keys
\* takes.
LEMMA TrailSide ==
  ASSUME mem \in Memory, WellFormed(mem), NEW t,
         NEW d \in Nat, NEW p \in Ways(mem, d), Stands(mem, p[d], t)
  PROVE  Leads(p, d, t)
<1> SUFFICES ASSUME NEW i \in Nat, i < d
             PROVE  mem.key[p[i]] # t /\ p[i + 1] = Toward(p[i], t)
  BY DEF Leads
<1> DEFINE n == p[i]
<1>1. n \in Nodes /\ p[d] \in Nodes /\ p[i + 1] \in Sides(mem, n) /\ p[0] = mem.root
  BY OnAWay
<1>2. p[d] \in Below(mem, p[i + 1])
  BY EndIsBelow
<1>3. n \in Below(mem, mem.root)
  <2>1. PICK q \in Ways(mem, i) : q[i] = n
    BY WayAbove
  <2>2. q[i] \in Below(mem, q[0]) /\ q[0] = mem.root
    BY EndIsBelow, OnAWay
  <2> QED
    BY <2>1, <2>2
<1>4. /\ \A c \in Below(mem, mem.left[n]) : mem.key[c] < mem.key[n]
      /\ \A c \in Below(mem, mem.right[n]) : mem.key[n] < mem.key[c]
  BY <1>3 DEF WellFormed
<1>5. mem.key[n] \in Nat /\ mem.key[p[d]] \in Nat /\ mem.key[p[d]] = t
  BY <1>1, Fields, TargetSelectionAssumption DEF TargetSelectionAssumption, Stands
<1>6. p[i + 1] = mem.left[n] \/ p[i + 1] = mem.right[n]
  BY <1>1 DEF Sides
<1>7. p[i + 1] = mem.left[n] => t < mem.key[n]
  BY <1>2, <1>4, <1>5
<1>8. p[i + 1] = mem.right[n] => mem.key[n] < t
  BY <1>2, <1>4, <1>5
<1> QED
  BY <1>5, <1>6, <1>7, <1>8 DEF Toward

\* The state a request in a quiet memory is in, and what its steps re-establish.
Steady(r) == Active(r) /\ quiet[r] /\ QuietSound(r)
After(r)  == ControllerKnown(r)' /\ OnTheTrail(r)' /\ ReadTrue(r)' /\ WrittenTrue(r)'

LEMMA SteadyFacts ==
  ASSUME Invariant, NEW r \in Requests, Steady(r)
  PROVE  /\ ControllerKnown(r) /\ OnTheTrail(r) /\ ReadTrue(r) /\ WrittenTrue(r)
         /\ pc[r] \in {"controller", "manager", "vtable", "header", "root"} => loc[r].depth = 0
         /\ mem \in Memory /\ loc[r] \in Loc /\ target[r] \in Ids /\ target[r] # NoId
         /\ loc \in [Requests -> Loc] /\ pc \in [Requests -> Points]
         /\ LocalsSound(r) /\ loc[r].depth \in Nat /\ loc[r].depth < MaxDepth
<1>1. Active(r)
  BY DEF Steady
<1>2. loc[r] \in Loc
  BY <1>1, Inside
<1>3. loc[r].depth \in Nat /\ loc[r].depth < MaxDepth
  BY <1>2, TargetSelectionAssumption DEF TargetSelectionAssumption, Loc
<1> QED
  BY <1>1, <1>3, Inside DEF Steady, QuietSound

\* A step that goes on at the same node, after the controller was verified.
LEMMA TrailKept ==
  ASSUME NEW r \in Requests, ControllerKnown(r), OnTheTrail(r), Unchanged,
         pc[r] \in OnTree, pc'[r] \in OnTree,
         loc'[r].controller = loc[r].controller, loc'[r].node = loc[r].node,
         loc'[r].depth = loc[r].depth
  PROVE  ControllerKnown(r)' /\ OnTheTrail(r)' /\ WrittenTrue(r)'
<1>1. mem' = mem /\ target' = target
  BY DEF Unchanged
<1>2. pc[r] \in Verified /\ pc[r] # "controller" /\ pc'[r] \notin {"write", "readback"}
  BY DEF OnTree, Verified, InTree, Found
<1>3. ControllerKnown(r)'
  BY <1>1, <1>2 DEF ControllerKnown
<1>4. OnTheTrail(r)'
  BY <1>1 DEF OnTheTrail
<1> QED
  BY <1>2, <1>3, <1>4 DEF WrittenTrue

LEMMA QuietPointers ==
  ASSUME Invariant, NEW r \in Requests, Steady(r), pc'[r] # "done",
         ReadControllerField(r) \/ ReadTreeField(r) \/ CheckVtable(r) \/ ReadHeader(r)
  PROVE  After(r) /\ loc'[r].depth = loc[r].depth
<1>1. Unchanged /\ mem' = mem
  BY DEF ReadControllerField, ReadTreeField, CheckVtable, ReadHeader, Read, Unchanged
<1>2. \A s : ~ Finish(r, s)
  BY SteadyFacts DEF Finish
<1>3. /\ pc[r] \in {"controller", "manager", "vtable", "header"}
      /\ pc'[r] \in {"manager", "vtable", "header", "root"}
      /\ pc'[r] \in Verified => pc[r] \in Verified \/ mem.vtable[loc[r].controller]
      /\ loc'[r].depth = loc[r].depth
      /\ IF pc[r] = "controller" THEN loc'[r].controller = mem.controller /\ pc'[r] = "manager"
                                 ELSE loc'[r].controller = loc[r].controller
  <2>1. CASE ReadControllerField(r)
    <3>1. pc[r] = "controller" /\ Continue(r, "manager", "controller", mem.controller)
      BY <1>2, <2>1 DEF ReadControllerField, Read
    <3>2. pc'[r] = "manager" /\ loc'[r] = [loc[r] EXCEPT !.controller = mem.controller]
      BY <3>1, SteadyFacts DEF Continue
    <3> QED
      BY <3>1, <3>2, SteadyFacts DEF Loc, Verified, InTree, Found
  <2>2. CASE ReadTreeField(r)
    <3>1. pc[r] = "manager" /\ Continue(r, "vtable", "node", Null)
      BY <1>2, <2>2 DEF ReadTreeField, Read
    <3>2. pc'[r] = "vtable" /\ loc'[r] = [loc[r] EXCEPT !.node = Null]
      BY <3>1, SteadyFacts DEF Continue
    <3> QED
      BY <3>1, <3>2, SteadyFacts DEF Loc, Verified, InTree, Found
  <2>3. CASE CheckVtable(r)
    <3>1. pc[r] = "vtable" /\ mem.vtable[loc[r].controller] /\ Continue(r, "header", "node", Null)
      BY <1>2, <2>3 DEF CheckVtable, Read
    <3>2. pc'[r] = "header" /\ loc'[r] = [loc[r] EXCEPT !.node = Null]
      BY <3>1, SteadyFacts DEF Continue
    <3> QED
      BY <3>1, <3>2, SteadyFacts DEF Loc
  <2>4. CASE ReadHeader(r)
    <3>1. pc[r] = "header" /\ Continue(r, "root", "header", mem.header)
      BY <1>2, <2>4 DEF ReadHeader, Read
    <3>2. pc'[r] = "root" /\ loc'[r] = [loc[r] EXCEPT !.header = mem.header]
      BY <3>1, SteadyFacts DEF Continue
    <3> QED
      BY <3>1, <3>2, SteadyFacts DEF Loc, Verified
  <2> QED
    BY <2>1, <2>2, <2>3, <2>4
<1>4. ControllerKnown(r)'
  <2>1. CASE pc[r] = "controller"
    BY <1>1, <1>3, <2>1 DEF ControllerKnown, Verified, InTree, Found
  <2>2. CASE pc[r] # "controller"
    BY <1>1, <1>3, <2>2, SteadyFacts DEF ControllerKnown
  <2> QED
    BY <2>1, <2>2
<1>5. OnTheTrail(r)' /\ ReadTrue(r)' /\ WrittenTrue(r)'
  BY <1>3 DEF OnTheTrail, ReadTrue, WrittenTrue, OnTree, InTree, Found
<1> QED
  BY <1>3, <1>4, <1>5 DEF After

\* The root is the end of the way of no link.
LEMMA QuietRoot ==
  ASSUME Invariant, NEW r \in Requests, Steady(r), pc'[r] # "done", ReadRoot(r)
  PROVE  After(r)
<1>1. Unchanged /\ mem' = mem /\ pc[r] = "root"
  BY DEF ReadRoot, Read, Unchanged
<1>2. ~ EmptyTree(r, mem.root) /\ Continue(r, "key", "node", mem.root)
  <2>1. \A s : ~ Finish(r, s)
    BY SteadyFacts DEF Finish
  <2> QED
    BY <2>1 DEF ReadRoot, Read
<1>3. mem.root \in Nodes
  BY <1>1, <1>2, SteadyFacts, Fields DEF EmptyTree, LocalsSound, Links
<1>4. /\ pc'[r] = "key" /\ loc'[r].controller = loc[r].controller /\ loc'[r].node = mem.root
      /\ loc'[r].depth = 0
  <2>1. pc'[r] = "key" /\ loc'[r] = [loc[r] EXCEPT !.node = mem.root]
    BY <1>2, SteadyFacts DEF Continue
  <2> QED
    BY <1>1, <2>1, SteadyFacts DEF Loc
<1>5. ControllerKnown(r)'
  BY <1>1, <1>4, SteadyFacts DEF ControllerKnown, Verified
<1>6. OnTheTrail(r)'
  <2>1. \E p \in Ways(mem, 0) : p[0] = mem.root
    <3> DEFINE p == [i \in 0..0 |-> mem.root]
    <3>1. p \in [0..0 -> Nodes] /\ p[0] = mem.root /\ 0..0 - 1 = {}
      BY <1>3
    <3> HIDE DEF p
    <3>2. p \in Ways(mem, 0)
      BY <3>1 DEF Ways
    <3> QED
      BY <3>1, <3>2
  <2>2. \A d \in 0..MaxDepth - 1 : \A p \in Ways(mem, d) : 0 <= d /\ p[0] = mem.root
    BY OnAWay, TargetSelectionAssumption DEF TargetSelectionAssumption
  <2> QED
    BY <1>1, <1>4, <2>1, <2>2 DEF OnTheTrail
<1>7. ReadTrue(r)' /\ WrittenTrue(r)'
  BY <1>4 DEF ReadTrue, WrittenTrue, Found
<1> QED
  BY <1>5, <1>6, <1>7 DEF After

LEMMA QuietKey ==
  ASSUME Invariant, NEW r \in Requests, Steady(r), pc'[r] # "done", ReadKey(r)
  PROVE  After(r)
<1> DEFINE key == mem.key[loc[r].node]
           to  == IF key = target[r] THEN "actor" ELSE "child"
<1>1. Unchanged /\ mem' = mem /\ target' = target /\ pc[r] = "key"
  BY DEF ReadKey, Read, Unchanged
<1>2. Continue(r, to, "id", key)
  <2>1. \A s : ~ Finish(r, s)
    BY SteadyFacts DEF Finish
  <2> QED
    BY <2>1 DEF ReadKey, Read
<1>3. pc'[r] = to /\ loc'[r] = [loc[r] EXCEPT !.id = key]
  BY <1>2, SteadyFacts DEF Continue
<1>4. /\ loc'[r].controller = loc[r].controller /\ loc'[r].node = loc[r].node
      /\ loc'[r].depth = loc[r].depth /\ loc'[r].id = key
  BY <1>3, SteadyFacts DEF Loc
<1>5. pc[r] \in OnTree /\ pc'[r] \in OnTree
  BY <1>1, <1>3 DEF OnTree, InTree
<1>6. ControllerKnown(r)' /\ OnTheTrail(r)' /\ WrittenTrue(r)'
  BY <1>1, <1>4, <1>5, SteadyFacts, TrailKept
<1>7. ReadTrue(r)'
  <2>1. CASE key = target[r]
    BY <1>1, <1>3, <1>4, <2>1 DEF ReadTrue, Found
  <2>2. CASE key # target[r]
    BY <1>1, <1>3, <1>4, <2>2 DEF ReadTrue, Found
  <2> QED
    BY <2>1, <2>2
<1> QED
  BY <1>6, <1>7 DEF After

LEMMA QuietActor ==
  ASSUME Invariant, NEW r \in Requests, Steady(r), pc'[r] # "done", ReadActor(r)
  PROVE  After(r)
<1>1. Unchanged /\ mem' = mem /\ target' = target /\ pc[r] = "actor"
  BY DEF ReadActor, Read, Unchanged
<1>2. Continue(r, "id", "actor", mem.actor[loc[r].node])
  <2>1. \A s : ~ Finish(r, s)
    BY SteadyFacts DEF Finish
  <2> QED
    BY <2>1 DEF ReadActor, Read
<1>3. pc'[r] = "id" /\ loc'[r] = [loc[r] EXCEPT !.actor = mem.actor[loc[r].node]]
  BY <1>2, SteadyFacts DEF Continue
<1>4. /\ loc'[r].controller = loc[r].controller /\ loc'[r].node = loc[r].node
      /\ loc'[r].depth = loc[r].depth /\ loc'[r].actor = mem.actor[loc[r].node]
  BY <1>3, SteadyFacts DEF Loc
<1>5. pc[r] \in OnTree /\ pc'[r] \in OnTree
  BY <1>1, <1>3 DEF OnTree, InTree, Found
<1>6. ControllerKnown(r)' /\ OnTheTrail(r)' /\ WrittenTrue(r)'
  BY <1>1, <1>4, <1>5, SteadyFacts, TrailKept
<1>7. ReadTrue(r)'
  BY <1>1, <1>3, <1>4, SteadyFacts DEF ReadTrue, Found
<1> QED
  BY <1>6, <1>7 DEF After

LEMMA QuietActorId ==
  ASSUME Invariant, NEW r \in Requests, Steady(r), ReadActorId(r)
  PROVE  After(r)
<1>1. Unchanged /\ mem' = mem /\ target' = target /\ pc[r] = "id"
  BY DEF ReadActorId, Unchanged
<1>2. PICK i \in {NoId, mem.id[loc[r].actor]} :
        /\ Continue(r, "xy", "id", i)
        /\ Readable(loc[r].actor) => i = mem.id[loc[r].actor]
  BY DEF ReadActorId
<1>3. pc'[r] = "xy" /\ loc'[r] = [loc[r] EXCEPT !.id = i]
  BY <1>2, SteadyFacts DEF Continue
<1>4. /\ loc'[r].controller = loc[r].controller /\ loc'[r].node = loc[r].node
      /\ loc'[r].depth = loc[r].depth /\ loc'[r].actor = loc[r].actor /\ loc'[r].id = i
  BY <1>3, SteadyFacts DEF Loc
<1>5. pc[r] \in OnTree /\ pc'[r] \in OnTree
  BY <1>1, <1>3 DEF OnTree, Found
<1>6. ControllerKnown(r)' /\ OnTheTrail(r)' /\ WrittenTrue(r)'
  BY <1>1, <1>4, <1>5, SteadyFacts, TrailKept
<1>7. ReadTrue(r)'
  <2>1. i = target[r] => mem.id[loc[r].actor] = target[r]
    BY <1>2, SteadyFacts
  <2>2. mem.key[loc[r].node] = target[r] /\ loc[r].actor = mem.actor[loc[r].node]
    BY <1>1, SteadyFacts DEF ReadTrue, Found
  <2> QED
    BY <1>1, <1>2, <1>3, <1>4, <2>1, <2>2 DEF ReadTrue, Found, Readable
<1> QED
  BY <1>6, <1>7 DEF After

\* What is about to be written stands in the tree.
LEMMA QuietPosition ==
  ASSUME Invariant, NEW r \in Requests, Steady(r), pc'[r] # "done", ReadActorPosition(r)
  PROVE  After(r)
<1>1. Unchanged /\ mem' = mem /\ target' = target /\ pc[r] = "xy"
  BY DEF ReadActorPosition, Unchanged
<1>2. IsTarget(r) /\ Continue(r, "write", "node", Null)
  <2>1. \A s : ~ Finish(r, s)
    BY SteadyFacts DEF Finish
  <2> QED
    BY <2>1 DEF ReadActorPosition
<1>3. pc'[r] = "write" /\ loc'[r] = [loc[r] EXCEPT !.node = Null]
  BY <1>2, SteadyFacts DEF Continue
<1>4. loc'[r].controller = loc[r].controller
  BY <1>3, SteadyFacts DEF Loc
<1>5. ControllerKnown(r)'
  BY <1>1, <1>3, <1>4, SteadyFacts DEF ControllerKnown, Verified, Found
<1>6. Present(mem, target[r])
  <2> DEFINE n == loc[r].node
             d == loc[r].depth
  <2>1. PICK p \in Ways(mem, d) : p[d] = n
    BY <1>1, SteadyFacts DEF OnTheTrail, OnTree, Found
  <2>2. /\ mem.key[n] = target[r] /\ loc[r].actor = mem.actor[n]
        /\ loc[r].id = target[r] => mem.id[loc[r].actor] = target[r]
    BY <1>1, SteadyFacts DEF ReadTrue, Found
  <2>3. loc[r].actor # Null
    BY <1>1, SteadyFacts, TargetSelectionAssumption
    DEF TargetSelectionAssumption, LocalsSound, Found
  <2>4. Stands(mem, n, target[r])
    BY <1>2, <2>2, <2>3 DEF Stands, IsTarget
  <2>5. d \in 0..MaxDepth - 1
    BY SteadyFacts, TargetSelectionAssumption DEF TargetSelectionAssumption
  <2> QED
    BY <2>1, <2>4, <2>5 DEF Present
<1>7. OnTheTrail(r)' /\ ReadTrue(r)' /\ WrittenTrue(r)'
  BY <1>1, <1>3, <1>6 DEF OnTheTrail, ReadTrue, WrittenTrue, OnTree, InTree, Found
<1> QED
  BY <1>5, <1>7 DEF After

LEMMA QuietChild ==
  ASSUME Invariant, NEW r \in Requests, Steady(r), pc'[r] # "done", ReadChild(r)
  PROVE  After(r)
<1>1. Unchanged /\ mem' = mem /\ target' = target /\ pc[r] = "child"
  BY DEF ReadChild, Read, Unchanged
<1>2. Continue(r, "parent", "child", Side(r))
  <2>1. \A s : ~ Finish(r, s)
    BY SteadyFacts DEF Finish
  <2> QED
    BY <2>1 DEF ReadChild, Read
<1>3. pc'[r] = "parent" /\ loc'[r] = [loc[r] EXCEPT !.child = Side(r)]
  BY <1>2, SteadyFacts DEF Continue
<1>4. /\ loc'[r].controller = loc[r].controller /\ loc'[r].node = loc[r].node
      /\ loc'[r].depth = loc[r].depth /\ loc'[r].id = loc[r].id /\ loc'[r].child = Side(r)
  BY <1>3, SteadyFacts DEF Loc
<1>5. pc[r] \in OnTree /\ pc'[r] \in OnTree
  BY <1>1, <1>3 DEF OnTree, InTree
<1>6. ControllerKnown(r)' /\ OnTheTrail(r)' /\ WrittenTrue(r)'
  BY <1>1, <1>4, <1>5, SteadyFacts, TrailKept
<1>7. Side(r)' = Side(r)
  BY <1>1, <1>4 DEF Side
<1>8. ReadTrue(r)'
  BY <1>1, <1>3, <1>4, <1>7, SteadyFacts DEF ReadTrue, Found
<1> QED
  BY <1>6, <1>8 DEF After

\* One link further down, and still on the way to the target.
LEMMA QuietParent ==
  ASSUME Invariant, NEW r \in Requests, Steady(r), pc'[r] # "done", ReadParent(r)
  PROVE  After(r)
<1> DEFINE n == loc[r].node
           d == loc[r].depth
           c == loc[r].child
<1>1. Unchanged /\ mem' = mem /\ target' = target /\ pc[r] = "parent"
  BY DEF ReadParent, Unchanged
<1>2. /\ mem.parent[c] = n /\ pc' = [pc EXCEPT ![r] = "key"]
      /\ loc' = [loc EXCEPT ![r].node = c, ![r].depth = d + 1]
  <2>1. \A s : ~ Finish(r, s)
    BY SteadyFacts DEF Finish
  <2> QED
    BY <2>1 DEF ReadParent, ChildAgrees, NextDepth
<1>3. /\ pc'[r] = "key" /\ loc'[r].controller = loc[r].controller /\ loc'[r].node = c
      /\ loc'[r].depth = d + 1
  <2>1. pc'[r] = "key" /\ loc'[r] = [loc[r] EXCEPT !.node = c, !.depth = d + 1]
    BY <1>2, SteadyFacts
  <2> QED
    BY <2>1, SteadyFacts DEF Loc
<1>4. ControllerKnown(r)'
  BY <1>1, <1>3, SteadyFacts DEF ControllerKnown, Verified, InTree
<1>5. /\ c = Toward(n, target[r])
      /\ mem.key[n] # target[r] /\ d \in Nat /\ n \in Nodes /\ c \in Nodes
  BY <1>1, SteadyFacts DEF ReadTrue, Side, Toward, LocalsSound, InTree
<1>6. c \in Sides(mem, n)
  BY <1>5 DEF Sides, Toward
<1>7. \E q \in Ways(mem, d + 1) : q[d + 1] = c
  <2>1. PICK p \in Ways(mem, d) : p[d] = n
    BY <1>1, SteadyFacts DEF OnTheTrail, OnTree, InTree
  <2> QED
    BY <1>2, <1>5, <1>6, <2>1, WayLonger
<1>8. ASSUME WellFormed(mem), NEW e \in 0..MaxDepth - 1, NEW p \in Ways(mem, e),
             Stands(mem, p[e], target[r])
      PROVE  d + 1 <= e /\ p[d + 1] = c
  <2>1. d <= e /\ p[d] = n
    BY <1>1, <1>8, SteadyFacts DEF OnTheTrail, OnTree, InTree
  <2>2. d # e
    BY <1>5, <1>8, <2>1 DEF Stands
  <2>3. d < e /\ e \in Nat
    BY <1>5, <2>1, <2>2
  <2>4. mem \in Memory
    BY SteadyFacts
  <2>5. Leads(p, e, target[r])
    BY <1>8, <2>3, <2>4, TrailSide
  <2>6. p[d + 1] = Toward(p[d], target[r])
    BY <1>5, <2>3, <2>5 DEF Leads
  <2> QED
    BY <1>5, <2>1, <2>3, <2>6
<1> HIDE DEF n, d, c
<1>9. OnTheTrail(r)'
  BY <1>1, <1>3, <1>7, <1>8 DEF OnTheTrail
<1>10. ReadTrue(r)' /\ WrittenTrue(r)'
  BY <1>3 DEF ReadTrue, WrittenTrue, Found
<1> QED
  BY <1>4, <1>9, <1>10 DEF After

\* The write leaves the tree as it is.
LEMMA QuietWrite ==
  ASSUME Invariant, NEW r \in Requests, Steady(r), pc'[r] # "done", WriteSlot(r)
  PROVE  After(r)
<1> DEFINE c == loc[r].controller
<1>1. /\ pc[r] = "write" /\ Readable(c) /\ mem' = [mem EXCEPT !.slot[c] = target[r]]
      /\ target' = target /\ Continue(r, "readback", "node", Null)
  <2>1. \A s : ~ Finish(r, s)
    BY SteadyFacts DEF Finish
  <2> QED
    BY <2>1 DEF WriteSlot
<1>2. /\ mem'.slot = [mem.slot EXCEPT ![c] = target[r]] /\ mem'.mapped = mem.mapped
      /\ mem'.vtable = mem.vtable /\ mem'.controller = mem.controller /\ mem'.root = mem.root
      /\ mem'.left = mem.left /\ mem'.right = mem.right /\ mem'.parent = mem.parent
      /\ mem'.key = mem.key /\ mem'.actor = mem.actor /\ mem'.id = mem.id /\ mem'.near = mem.near
  BY <1>1, SteadyFacts DEF Memory
<1>3. pc'[r] = "readback" /\ loc'[r].controller = c
  <2>1. pc'[r] = "readback" /\ loc'[r] = [loc[r] EXCEPT !.node = Null]
    BY <1>1, SteadyFacts DEF Continue
  <2> QED
    BY <2>1, SteadyFacts DEF Loc
<1>4. ControllerKnown(r)'
  BY <1>1, <1>2, <1>3, SteadyFacts DEF ControllerKnown, Verified
<1>5. Present(mem', target[r])
  <2>1. Present(mem, target[r])
    BY <1>1, SteadyFacts DEF WrittenTrue
  <2>2. \A d : Ways(mem', d) = Ways(mem, d)
    BY <1>2 DEF Ways, Sides
  <2>3. \A n : Stands(mem, n, target[r]) => Stands(mem', n, target[r])
    BY <1>2 DEF Stands
  <2> QED
    BY <2>1, <2>2, <2>3 DEF Present
<1>6. c \in mem'.mapped /\ mem'.slot[c] = target[r]
  <2>1. c \in Controllers /\ mem.slot \in [Controllers -> Ids \cup {NoId}]
    BY <1>1, SteadyFacts, Fields DEF LocalsSound, Verified
  <2> QED
    BY <1>1, <1>2, <2>1 DEF Readable
<1>7. OnTheTrail(r)' /\ ReadTrue(r)' /\ WrittenTrue(r)'
  BY <1>1, <1>3, <1>5, <1>6
  DEF OnTheTrail, ReadTrue, WrittenTrue, Readable, OnTree, InTree, Found
<1> QED
  BY <1>4, <1>7 DEF After

\* The loop counts nothing before it begins.
LEMMA NotYetCounted ==
  ASSUME Invariant, NEW r \in Requests, Step(r),
         pc'[r] \in {"manager", "vtable", "header", "root"}
  PROVE  pc[r] \in {"controller", "manager", "vtable", "header"} /\ loc'[r].depth = loc[r].depth
<1>1. pc \in [Requests -> Points] /\ loc \in [Requests -> Loc]
  BY DEF Invariant, TypeOK, Loc
<1>2. \A s : ~ Finish(r, s)
  BY <1>1 DEF Finish
<1>3. CASE ReadControllerField(r)
  BY <1>1, <1>2, <1>3 DEF ReadControllerField, Read, Continue, Loc
<1>4. CASE ReadTreeField(r)
  BY <1>1, <1>2, <1>4 DEF ReadTreeField, Read, Continue, Loc
<1>5. CASE CheckVtable(r)
  BY <1>1, <1>2, <1>5 DEF CheckVtable, Read, Continue, Loc
<1>6. CASE ReadHeader(r)
  BY <1>1, <1>2, <1>6 DEF ReadHeader, Read, Continue, Loc
<1>7. ~ (ReadRoot(r) \/ ReadKey(r) \/ ReadActor(r) \/ ReadChild(r))
  BY <1>1, <1>2 DEF ReadRoot, ReadKey, ReadActor, ReadChild, Read, Continue
<1>8. ~ (ReadActorId(r) \/ ReadActorPosition(r) \/ ReadParent(r) \/ WriteSlot(r) \/ ReadBack(r))
  BY <1>1, <1>2 DEF ReadActorId, ReadActorPosition, ReadParent, WriteSlot, ReadBack, Read, Continue
<1> QED
  BY <1>3, <1>4, <1>5, <1>6, <1>7, <1>8 DEF Step

\* A request takes its steps inside the driver, and is quiet after one only if it was
\* before.
LEMMA OwnMemory ==
  ASSUME Invariant, NEW r \in Requests, Step(r)
  PROVE  Active(r) /\ (quiet'[r] => quiet[r])
<1>1. CASE WriteSlot(r)
  <2>1. quiet' = quiet \/ Observe(r)
    BY <1>1 DEF WriteSlot
  <2> QED
    BY <1>1, <2>1 DEF WriteSlot, Observe, Active
<1>2. CASE ReadBack(r)
  BY <1>2 DEF ReadBack, Read, Unchanged, Active
<1>3. ASSUME Unchanged, Active(r) PROVE Active(r) /\ (quiet'[r] => quiet[r])
  BY <1>3 DEF Unchanged
<1> QED
  BY <1>1, <1>2, <1>3, OnTheWay DEF Step

LEMMA QuietOwn ==
  ASSUME Invariant, NEW r \in Requests, QuietSound(r), Step(r)
  PROVE  QuietSound(r)'
<1>1. Active(r) /\ (quiet'[r] => quiet[r])
  BY OwnMemory
<1>2. pc'[r] \notin {"idle", "controller"}
  <2>1. pc \in [Requests -> Points]
    BY DEF Invariant, TypeOK
  <2>2. CASE ReadControllerField(r) \/ ReadTreeField(r) \/ CheckVtable(r) \/ ReadHeader(r)
    BY <2>1, <2>2
    DEF ReadControllerField, ReadTreeField, CheckVtable, ReadHeader, Read, Continue, Finish
  <2>3. CASE ReadRoot(r) \/ ReadKey(r) \/ ReadActor(r) \/ ReadChild(r)
    BY <2>1, <2>3 DEF ReadRoot, ReadKey, ReadActor, ReadChild, Read, Continue, Finish
  <2>4. CASE ReadActorId(r) \/ ReadActorPosition(r) \/ ReadParent(r) \/ WriteSlot(r) \/ ReadBack(r)
    BY <2>1, <2>4
    DEF ReadActorId, ReadActorPosition, ReadParent, WriteSlot, ReadBack, Read, Continue, Finish
  <2> QED
    BY <2>2, <2>3, <2>4 DEF Step
<1>3. pc'[r] \in {"manager", "vtable", "header", "root"} => loc'[r].depth = 0
  BY NotYetCounted DEF QuietSound
<1>4. ASSUME pc'[r] # "done", quiet'[r]
      PROVE  ControllerKnown(r)' /\ OnTheTrail(r)' /\ ReadTrue(r)' /\ WrittenTrue(r)'
  <2>1. Steady(r)
    BY <1>1, <1>4 DEF Steady
  <2>2. ~ ReadBack(r)
    BY <1>4, SteadyFacts, <2>1 DEF ReadBack, Read, Finish
  <2> QED
    BY <1>4, <2>1, <2>2, QuietPointers, QuietRoot, QuietKey, QuietActor, QuietActorId,
       QuietPosition, QuietChild, QuietParent, QuietWrite DEF Step, After
<1> QED
  BY <1>2, <1>3, <1>4 DEF QuietSound, Active

\* A step of the game or of another request, if it leaves memory alone.
LEMMA QuietOthers ==
  ASSUME NEW r \in Requests, QuietSound(r), pc'[r] = pc[r], loc'[r] = loc[r],
         target'[r] = target[r], Active(r) /\ quiet'[r] => quiet[r] /\ mem' = mem
  PROVE  QuietSound(r)'
<1>1. CASE Active(r) /\ quiet'[r]
  <2>1. mem' = mem /\ ControllerKnown(r) /\ OnTheTrail(r) /\ ReadTrue(r) /\ WrittenTrue(r)
    BY <1>1 DEF QuietSound
  <2>2. Side(r)' = Side(r)
    BY <2>1 DEF Side
  <2>3. ControllerKnown(r)' /\ OnTheTrail(r)'
    BY <2>1 DEF ControllerKnown, OnTheTrail
  <2>4. ReadTrue(r)' /\ WrittenTrue(r)'
    BY <2>1, <2>2 DEF ReadTrue, WrittenTrue, Readable
  <2> QED
    BY <2>3, <2>4 DEF QuietSound
<1>2. CASE ~ (Active(r) /\ quiet'[r])
  BY <1>2 DEF QuietSound, Active
<1> QED
  BY <1>1, <1>2

\* A step of one request keeps what another has.
LEMMA OtherKept ==
  ASSUME Invariant, NEW r \in Requests, NEW q \in Requests, q # r, Step(r)
  PROVE  target' = target /\ pc'[q] = pc[q] /\ loc'[q] = loc[q]
<1>1. pc \in [Requests -> Points] /\ loc \in [Requests -> Loc]
  BY DEF Invariant, TypeOK, Loc
<1>2. CASE ReadControllerField(r) \/ ReadTreeField(r) \/ CheckVtable(r) \/ ReadHeader(r)
  BY <1>1, <1>2 DEF ReadControllerField, ReadTreeField, CheckVtable, ReadHeader,
     Read, Continue, Finish, Unchanged
<1>3. CASE ReadRoot(r) \/ ReadKey(r) \/ ReadActor(r) \/ ReadChild(r)
  BY <1>1, <1>3 DEF ReadRoot, ReadKey, ReadActor, ReadChild,
     Read, Continue, Finish, Unchanged
<1>4. CASE ReadActorId(r) \/ ReadActorPosition(r) \/ WriteSlot(r)
  BY <1>1, <1>4 DEF ReadActorId, ReadActorPosition, WriteSlot,
     Continue, Finish, Unchanged
<1>5. CASE ReadParent(r)
  BY <1>1, <1>5 DEF ReadParent, Finish, Unchanged
<1>6. CASE ReadBack(r)
  BY <1>1, <1>6 DEF ReadBack, Read, Finish, Unchanged
<1> QED
  BY <1>2, <1>3, <1>4, <1>5, <1>6 DEF Step

LEMMA QuietStep ==
  ASSUME Invariant, \A r \in Requests : QuietSound(r), Next, NEW q \in Requests
  PROVE  QuietSound(q)'
<1>1. CASE Game
  <2>1. UNCHANGED <<pc, loc, target>> /\ Observe(Null)
    BY <1>1 DEF Game
  <2>2. Active(q) /\ quiet'[q] => quiet[q] /\ mem' = mem
    BY <2>1, TargetSelectionAssumption DEF TargetSelectionAssumption, Observe
  <2> QED
    BY <2>1, <2>2, QuietOthers
<1>2. ASSUME NEW r \in Requests, Step(r) PROVE QuietSound(q)'
  <2>1. CASE q = r
    BY <1>2, <2>1, QuietOwn
  <2>2. CASE q # r
    <3>1. target' = target /\ pc'[q] = pc[q] /\ loc'[q] = loc[q]
      BY <1>2, <2>2, OtherKept
    <3>2. Active(q) /\ quiet'[q] => quiet[q] /\ mem' = mem
      <4>1. CASE WriteSlot(r)
        <5>1. UNCHANGED <<mem, quiet>> \/ Observe(r)
          BY <4>1 DEF WriteSlot
        <5> QED
          BY <2>2, <5>1 DEF Observe
      <4>2. CASE ReadBack(r)
        BY <4>2 DEF ReadBack, Read, Unchanged
      <4> QED
        BY <1>2, <4>1, <4>2, OnTheWay DEF Step, Unchanged
    <3> QED
      BY <3>1, <3>2, QuietOthers
  <2> QED
    BY <2>1, <2>2
<1>3. ASSUME NEW r \in Requests, NEW i \in Ids, Call(r, i) PROVE QuietSound(q)'
  <2>1. CASE q = r
    <3>1. pc'[q] = "controller" /\ loc'[q].depth = 0
      BY <1>3, <2>1 DEF Call, QuietSound, Invariant, TypeOK
    <3> QED
      BY <3>1 DEF QuietSound, ControllerKnown, OnTheTrail, ReadTrue, WrittenTrue, OnTree, InTree,
         Found, Verified
  <2>2. CASE q # r
    BY <1>3, <2>2, QuietOthers DEF Call, Invariant, TypeOK
  <2> QED
    BY <2>1, <2>2
<1>4. ASSUME NEW r \in Requests, Return(r) PROVE QuietSound(q)'
  <2>1. CASE q = r
    BY <1>4, <2>1 DEF Return, QuietSound, Active, Fresh, Invariant, TypeOK
  <2>2. CASE q # r
    BY <1>4, <2>2, QuietOthers DEF Return, Invariant, TypeOK
  <2> QED
    BY <2>1, <2>2
<1>5. ASSUME NEW r \in Requests, Refuse(r) PROVE QuietSound(q)'
  BY <1>5, QuietOthers DEF Refuse
<1> QED
  BY <1>1, <1>2, <1>3, <1>4, <1>5 DEF Next

-----------------------------------------------------------------------------
\* Success comes from the slot read back after a write of what stands in the tree.
LEMMA QuietAnswer ==
  ASSUME Invariant, NEW r \in Requests, Steady(r), Step(r), pc'[r] = "done"
  PROVE  /\ status'[r] = "SUCCESS" =>
              /\ Present(mem, target[r])
              /\ mem.vtable[mem.controller] /\ mem.slot[mem.controller] = target[r]
         /\ wrote[r] # {} => status'[r] = "SUCCESS"
<1>1. status \in [Requests -> Statuses]
  BY DEF Invariant, TypeOK
<1>2. CASE ReadBack(r)
  <2>1. pc[r] = "readback" /\ ControllerKnown(r) /\ WrittenTrue(r)
    BY <1>2, SteadyFacts DEF ReadBack, Read
  <2>2. /\ loc[r].controller = mem.controller /\ mem.vtable[mem.controller]
        /\ Present(mem, target[r]) /\ Readable(loc[r].controller)
        /\ mem.slot[mem.controller] = target[r]
    BY <2>1 DEF ControllerKnown, WrittenTrue, Verified
  <2>3. status'[r] = "SUCCESS"
    BY <1>1, <1>2, <2>2 DEF ReadBack, Read, Verdict
  <2> QED
    BY <2>2, <2>3
<1>3. CASE ~ ReadBack(r)
  <2>1. pc[r] # "readback" /\ (UNCHANGED status \/ \E s \in Before : Finish(r, s))
    <3>1. CASE WriteSlot(r)
      BY <3>1 DEF WriteSlot, Continue, Before
    <3> QED
      BY <1>3, <3>1, OnTheWay DEF Step
  <2>2. wrote[r] = {} /\ status[r] = "PENDING"
    BY <2>1, Inside DEF Steady, PhaseSound, Active
  <2>3. status'[r] # "SUCCESS"
    BY <1>1, <2>1, <2>2 DEF Finish, Before
  <2> QED
    BY <2>2, <2>3
<1> QED
  BY <1>2, <1>3

\* In an intact tree with the target in it no step of the request can fail.
LEMMA QuietFound ==
  ASSUME Invariant, NEW r \in Requests, Steady(r), Step(r), pc'[r] = "done",
         WellFormed(mem), Present(mem, target[r])
  PROVE  status'[r] = "SUCCESS"
<1> DEFINE n == loc[r].node
           d == loc[r].depth
<1>1. /\ \A a \in Addresses : Readable(a)
      /\ mem.controller # Null /\ mem.vtable[mem.controller] /\ mem.manager # Null
      /\ mem.header # Null
  BY DEF WellFormed, Readable
<1>2. /\ {"image", "manager", Header} \subseteq Addresses /\ Controllers \subseteq Addresses
      /\ Nodes \subseteq Addresses /\ Actors \subseteq Addresses
  BY DEF Addresses
<1>3. PICK e \in 0..MaxDepth - 1 : \E p \in Ways(mem, e) : Stands(mem, p[e], target[r])
  BY DEF Present
<1>4. PICK p \in Ways(mem, e) : Stands(mem, p[e], target[r])
  BY <1>3
<1>5. e \in Nat /\ e < MaxDepth
  BY TargetSelectionAssumption DEF TargetSelectionAssumption
<1>6. Leads(p, e, target[r])
  BY <1>4, <1>5, SteadyFacts, TrailSide
<1>7. pc[r] \in OnTree => d <= e /\ p[d] = n /\ d \in Nat /\ n \in Nodes
  <2>1. d \in Nat
    BY SteadyFacts
  <2>2. pc[r] \in OnTree => d <= e /\ p[d] = n
    BY <1>4, SteadyFacts DEF OnTheTrail
  <2>3. d <= e => p[d] \in Nodes
    BY <1>5, <2>1, OnAWay
  <2> QED
    BY <2>1, <2>2, <2>3
<1>8. pc[r] \in {"child", "parent"} =>
        /\ d < e /\ p[d + 1] = Toward(n, target[r]) /\ p[d + 1] \in Nodes
        /\ mem.parent[p[d + 1]] = n
  <2> SUFFICES ASSUME pc[r] \in {"child", "parent"}
               PROVE  /\ d < e /\ p[d + 1] = Toward(n, target[r]) /\ p[d + 1] \in Nodes
                      /\ mem.parent[p[d + 1]] = n
    OBVIOUS
  <2>1. d <= e /\ p[d] = n /\ d \in Nat
    BY <1>7 DEF OnTree, InTree
  <2>2. mem.key[n] # target[r]
    BY SteadyFacts DEF ReadTrue
  <2>3. d < e
    BY <1>4, <1>5, <2>1, <2>2 DEF Stands
  <2>4. p[d + 1] = Toward(p[d], target[r])
    BY <1>6, <2>1, <2>3 DEF Leads
  <2>5. p[d + 1] \in Sides(mem, p[d]) /\ mem.parent[p[d + 1]] = p[d]
    BY <1>5, <2>1, <2>3, OnAWay
  <2> QED
    BY <2>1, <2>3, <2>4, <2>5 DEF Sides
<1>9. pc[r] \in {"actor"} \cup Found => Stands(mem, n, target[r])
  <2> SUFFICES ASSUME pc[r] \in {"actor"} \cup Found PROVE Stands(mem, n, target[r])
    OBVIOUS
  <2>1. d <= e /\ p[d] = n /\ d \in Nat
    BY <1>7 DEF OnTree, InTree
  <2>2. mem.key[n] = target[r]
    BY SteadyFacts DEF ReadTrue
  <2>3. d < e => mem.key[p[d]] # target[r]
    BY <1>6, <2>1 DEF Leads
  <2>4. d = e
    BY <1>5, <2>1, <2>2, <2>3
  <2> QED
    BY <1>4, <2>1, <2>4
<1>10. Header # Null /\ Null \notin Nodes /\ Header \notin Nodes /\ Null \notin Actors
  BY TargetSelectionAssumption DEF TargetSelectionAssumption
<1> HIDE DEF n, d
<1>11. pc[r] # "controller" =>
         loc[r].controller = mem.controller /\ loc[r].controller \in Controllers
  <2>1. mem.controller \in Controllers
    BY <1>1, SteadyFacts, Fields
  <2> QED
    BY <2>1, SteadyFacts DEF ControllerKnown
<1>12. pc \in [Requests -> Points]
  BY SteadyFacts
<1>13. ~ (ReadControllerField(r) \/ ReadTreeField(r) \/ CheckVtable(r) \/ ReadHeader(r))
  <2>1. ~ ReadControllerField(r)
    BY <1>1, <1>2, <1>12 DEF ReadControllerField, Read, Continue
  <2>2. ~ ReadTreeField(r)
    BY <1>1, <1>2, <1>11, <1>12 DEF ReadTreeField, Read, Continue
  <2>3. ~ CheckVtable(r)
    BY <1>1, <1>2, <1>11, <1>12 DEF CheckVtable, Read, Continue
  <2>4. ~ ReadHeader(r)
    BY <1>1, <1>2, <1>12 DEF ReadHeader, Read, Continue
  <2> QED
    BY <2>1, <2>2, <2>3, <2>4
<1>14. ~ ReadRoot(r)
  <2> SUFFICES ASSUME ReadRoot(r) PROVE FALSE
    OBVIOUS
  <2>1. pc[r] = "root" /\ loc[r].header = Header
    BY SteadyFacts DEF ReadRoot, Read, LocalsSound
  <2>2. mem.root \in Nodes
    BY <1>5, OnAWay
  <2>3. ~ EmptyTree(r, mem.root)
    BY <1>10, <2>1, <2>2 DEF EmptyTree
  <2> QED
    BY <1>1, <1>2, <1>12, <2>1, <2>3 DEF ReadRoot, Read, Continue
<1>15. ~ ReadKey(r)
  <2> SUFFICES ASSUME ReadKey(r) PROVE FALSE
    OBVIOUS
  <2>1. Readable(loc[r].node)
    BY <1>1, <1>2, <1>7 DEF ReadKey, Read, OnTree, InTree, n
  <2> QED
    BY <1>12, <2>1 DEF ReadKey, Read, Continue
<1>16. ~ ReadActor(r)
  <2> SUFFICES ASSUME ReadActor(r) PROVE FALSE
    OBVIOUS
  <2>1. pc[r] = "actor"
    BY DEF ReadActor, Read
  <2>2. Readable(loc[r].node) /\ mem.actor[loc[r].node] # Null
    BY <1>1, <1>2, <1>7, <1>9, <2>1 DEF Stands, OnTree, InTree, n
  <2> QED
    BY <1>12, <2>1, <2>2 DEF ReadActor, Read, Continue
<1>17. ~ ReadActorId(r)
  BY <1>12 DEF ReadActorId, Continue
<1>18. ~ ReadActorPosition(r)
  <2> SUFFICES ASSUME ReadActorPosition(r) PROVE FALSE
    OBVIOUS
  <2>1. pc[r] = "xy"
    BY DEF ReadActorPosition
  <2>2. /\ loc[r].actor = mem.actor[n] /\ loc[r].actor \in Actors
        /\ Readable(loc[r].actor) => loc[r].id = mem.id[loc[r].actor]
    BY <2>1, SteadyFacts DEF ReadTrue, LocalsSound, Found, n
  <2>3. mem.id[mem.actor[n]] = target[r] /\ mem.near[mem.actor[n]]
    BY <1>9, <2>1 DEF Stands, Found
  <2>4. IsTarget(r)
    BY <1>1, <1>2, <2>2, <2>3 DEF IsTarget
  <2> QED
    BY <1>12, <2>1, <2>4 DEF ReadActorPosition, Continue
<1>19. ~ ReadChild(r)
  <2> SUFFICES ASSUME ReadChild(r) PROVE FALSE
    OBVIOUS
  <2>1. pc[r] = "child"
    BY DEF ReadChild, Read
  <2>2. loc[r].header = Header /\ loc[r].id = mem.key[n]
    BY <2>1, SteadyFacts DEF LocalsSound, InTree, ReadTrue, n
  <2>3. Side(r) \in Nodes
    BY <1>8, <2>1, <2>2 DEF Side, Toward, n
  <2>4. Readable(loc[r].node)
    BY <1>1, <1>2, <1>7, <2>1 DEF OnTree, InTree, n
  <2> QED
    BY <1>10, <1>12, <2>1, <2>2, <2>3, <2>4 DEF ReadChild, Read, Continue
<1>20. ~ ReadParent(r)
  <2> SUFFICES ASSUME ReadParent(r) PROVE FALSE
    OBVIOUS
  <2>1. pc[r] = "parent"
    BY DEF ReadParent
  <2>2. loc[r].child = Toward(n, target[r])
    BY <2>1, SteadyFacts DEF ReadTrue, Side, Toward, n
  <2>3. ChildAgrees(r) /\ Readable(loc[r].child)
    BY <1>1, <1>2, <1>8, <2>1, <2>2 DEF ChildAgrees, n
  <2>4. NextDepth(r) < MaxDepth
    <3>1. d < e /\ d \in Nat
      BY <1>7, <1>8, <2>1 DEF OnTree, InTree
    <3> QED
      BY <1>5, <3>1, TargetSelectionAssumption DEF TargetSelectionAssumption, NextDepth, d
  <2>5. pc' = [pc EXCEPT ![r] = "key"]
    BY <2>3, <2>4 DEF ReadParent
  <2> QED
    BY <1>12, <2>5
<1>21. ~ WriteSlot(r)
  <2> SUFFICES ASSUME WriteSlot(r) PROVE FALSE
    OBVIOUS
  <2>1. Readable(loc[r].controller) /\ pc[r] = "write"
    BY <1>1, <1>2, <1>11 DEF WriteSlot
  <2> QED
    BY <1>12, <2>1 DEF WriteSlot, Continue
<1>22. ASSUME ReadBack(r) PROVE status'[r] = "SUCCESS"
  <2>1. pc[r] = "readback"
    BY <1>22 DEF ReadBack, Read
  <2>2. Readable(loc[r].controller) /\ mem.slot[loc[r].controller] = target[r]
    BY <2>1, SteadyFacts DEF WrittenTrue
  <2>3. status \in [Requests -> Statuses]
    BY DEF Invariant, TypeOK
  <2> QED
    BY <1>22, <2>2, <2>3 DEF ReadBack, Read, Verdict
<1> QED
  BY <1>13, <1>14, <1>15, <1>16, <1>17, <1>18, <1>19, <1>20, <1>21, <1>22 DEF Step

-----------------------------------------------------------------------------
\* Only a step of its own ends a request.
LEMMA EndsItself ==
  ASSUME Invariant, Next, NEW r \in Requests, Active(r), pc'[r] = "done"
  PROVE  Step(r)
<1>1. ~ Game
  BY DEF Game, Active
<1>2. ASSUME NEW q \in Requests, Step(q), q # r PROVE FALSE
  BY <1>2, OtherKept DEF Active
<1>3. ASSUME NEW q \in Requests, NEW i \in Ids, Call(q, i) PROVE FALSE
  BY <1>3 DEF Call, Active, Invariant, TypeOK
<1>4. ASSUME NEW q \in Requests, Return(q) \/ Refuse(q) PROVE FALSE
  BY <1>4 DEF Return, Refuse, Active, Invariant, TypeOK
<1> QED
  BY <1>1, <1>2, <1>3, <1>4 DEF Next

\* In a memory nobody else changes during the request the walk decides exactly whether
\* the character is there: success means it is present and selected, a present character
\* of an intact tree is always selected, and a write always succeeds.
THEOREM QuietVerdictExact == Spec => QuietVerdict
<1> DEFINE QuietAll == \A r \in Requests : QuietSound(r)
<1>1. Init => QuietAll
  BY DEF Init, QuietSound, Active, Fresh
<1>2. Invariant /\ QuietAll /\ [Next]_vars => QuietAll'
  <2> SUFFICES ASSUME Invariant, QuietAll, [Next]_vars PROVE QuietAll'
    OBVIOUS
  <2>1. CASE Next
    BY <2>1, QuietStep
  <2>2. CASE UNCHANGED vars
    BY <2>2, QuietOthers DEF vars
  <2> QED
    BY <2>1, <2>2
<1>3. Invariant /\ QuietAll /\ [Next]_vars =>
        [\A r \in Requests : Active(r) /\ pc'[r] = "done" /\ quiet[r] =>
           /\ status'[r] = "SUCCESS" =>
                /\ Present(mem, target[r])
                /\ mem.vtable[mem.controller] /\ mem.slot[mem.controller] = target[r]
           /\ WellFormed(mem) /\ Present(mem, target[r]) => status'[r] = "SUCCESS"
           /\ wrote[r] # {} => status'[r] = "SUCCESS"]_vars
  <2> SUFFICES ASSUME Invariant, QuietAll, Next, NEW r \in Requests,
                      Active(r), pc'[r] = "done", quiet[r]
               PROVE  /\ status'[r] = "SUCCESS" =>
                           /\ Present(mem, target[r])
                           /\ mem.vtable[mem.controller] /\ mem.slot[mem.controller] = target[r]
                      /\ WellFormed(mem) /\ Present(mem, target[r]) => status'[r] = "SUCCESS"
                      /\ wrote[r] # {} => status'[r] = "SUCCESS"
    OBVIOUS
  <2>1. Step(r)
    BY EndsItself
  <2>2. Steady(r)
    BY DEF Steady
  <2> QED
    BY <2>1, <2>2, QuietAnswer, QuietFound
<1> QED
  BY <1>1, <1>2, <1>3, Invariance, PTL DEF Spec, QuietVerdict
-----------------------------------------------------------------------------
(***************************************************************************)
(* Whatever the game does, a request takes a bounded number of steps.      *)
(***************************************************************************)

\* The steps a request at point p, d links down, can still take.
Remaining(p, d) ==
  LET turns == 3 * (MaxDepth - d) IN
  CASE p = "readback"   -> 1
    [] p = "write"      -> 2
    [] p = "xy"         -> 3
    [] p = "id"         -> 4
    [] p = "actor"      -> 5
    [] p = "parent"     -> turns + 3
    [] p = "child"      -> turns + 4
    [] p = "key"        -> turns + 5
    [] p = "root"       -> 3 * MaxDepth + 6
    [] p = "header"     -> 3 * MaxDepth + 7
    [] p = "vtable"     -> 3 * MaxDepth + 8
    [] p = "manager"    -> 3 * MaxDepth + 9
    [] p = "controller" -> 3 * MaxDepth + 10
    [] OTHER            -> 0
StepsLeft(r) == Remaining(pc[r], loc[r].depth)

\* Each step of a request is one step less to take, and nothing the game or another
\* request does gives it more.
StepsAreBounded ==
  [][\A r \in Requests :
       /\ StepsLeft(r) \in 0..3 * MaxDepth + 10
       /\ Step(r) => StepsLeft(r)' < StepsLeft(r)
       /\ pc[r] # "idle" => StepsLeft(r)' <= StepsLeft(r)]_vars

LEMMA StepsInRange ==
  ASSUME Invariant, NEW r \in Requests
  PROVE  StepsLeft(r) \in 0..3 * MaxDepth + 10
<1>1. loc[r].depth \in Nat /\ loc[r].depth < MaxDepth /\ MaxDepth \in Nat /\ pc[r] \in Points
  <2>1. loc[r].depth \in 0..MaxDepth - 1 /\ MaxDepth \in Nat
    BY TargetSelectionAssumption DEF TargetSelectionAssumption, Invariant, TypeOK
  <2> QED
    BY <2>1 DEF Invariant, TypeOK
<1>2. StepsLeft(r) \in Nat /\ StepsLeft(r) <= 3 * MaxDepth + 10
  BY <1>1 DEF StepsLeft, Remaining, Points
<1> QED
  BY <1>1, <1>2

LEMMA StepSpends ==
  ASSUME Invariant, NEW r \in Requests, Step(r)
  PROVE  StepsLeft(r)' \in Nat /\ StepsLeft(r)' < StepsLeft(r)
<1>1. /\ pc \in [Requests -> Points] /\ loc \in [Requests -> Loc]
      /\ loc[r].depth \in 0..MaxDepth - 1 /\ MaxDepth \in Nat
  BY TargetSelectionAssumption DEF TargetSelectionAssumption, Invariant, TypeOK, Loc
<1>2. ASSUME pc'[r] = "done", Active(r) PROVE StepsLeft(r)' \in Nat /\ StepsLeft(r)' < StepsLeft(r)
  BY <1>1, <1>2 DEF StepsLeft, Remaining, Active, Points
<1>3. ASSUME NEW to, NEW var, NEW value, Continue(r, to, var, value), var # "depth"
      PROVE  pc'[r] = to /\ loc'[r].depth = loc[r].depth
  BY <1>1, <1>3 DEF Continue, Loc
<1>4. ASSUME NEW s, Finish(r, s) PROVE pc'[r] = "done"
  BY <1>1, <1>4 DEF Finish
<1>5. Active(r)
  BY OwnMemory
<1>6. CASE ReadControllerField(r) \/ ReadTreeField(r) \/ CheckVtable(r) \/ ReadHeader(r)
  <2>1. \/ pc'[r] = "done"
        \/ pc[r] = "controller" /\ pc'[r] = "manager"
        \/ pc[r] = "manager" /\ pc'[r] = "vtable"
        \/ pc[r] = "vtable" /\ pc'[r] = "header"
        \/ pc[r] = "header" /\ pc'[r] = "root"
    BY <1>3, <1>4, <1>6 DEF ReadControllerField, ReadTreeField, CheckVtable, ReadHeader, Read
  <2> QED
    BY <1>1, <1>2, <1>5, <2>1 DEF StepsLeft, Remaining
<1>7. CASE ReadRoot(r) \/ ReadKey(r) \/ ReadActor(r) \/ ReadChild(r)
  <2>1. \/ pc'[r] = "done"
        \/ /\ \/ pc[r] = "root" /\ pc'[r] = "key"
              \/ pc[r] = "key" /\ pc'[r] \in {"actor", "child"}
              \/ pc[r] = "actor" /\ pc'[r] = "id"
              \/ pc[r] = "child" /\ pc'[r] = "parent"
           /\ loc'[r].depth = loc[r].depth
    BY <1>3, <1>4, <1>7 DEF ReadRoot, ReadKey, ReadActor, ReadChild, Read
  <2> QED
    BY <1>1, <1>2, <1>5, <2>1 DEF StepsLeft, Remaining
<1>8. CASE ReadActorId(r) \/ ReadActorPosition(r) \/ WriteSlot(r) \/ ReadBack(r)
  <2>1. \/ pc'[r] = "done"
        \/ pc[r] = "id" /\ pc'[r] = "xy"
        \/ pc[r] = "xy" /\ pc'[r] = "write"
        \/ pc[r] = "write" /\ pc'[r] = "readback"
    BY <1>1, <1>3, <1>4, <1>8 DEF ReadActorId, ReadActorPosition, WriteSlot, ReadBack, Read
  <2> QED
    BY <1>1, <1>2, <1>5, <2>1 DEF StepsLeft, Remaining
<1>9. CASE ReadParent(r)
  <2>1. \/ pc'[r] = "done"
        \/ /\ pc[r] = "parent" /\ pc'[r] = "key"
           /\ loc'[r] = [loc[r] EXCEPT !.node = loc[r].child, !.depth = loc[r].depth + 1]
           /\ loc[r].depth + 1 < MaxDepth
    BY <1>1, <1>4, <1>9 DEF ReadParent, NextDepth
  <2>2. pc'[r] = "done" \/ loc'[r].depth = loc[r].depth + 1
    BY <1>1, <2>1 DEF Loc
  <2> QED
    BY <1>1, <1>2, <1>5, <2>1, <2>2 DEF StepsLeft, Remaining
<1> QED
  BY <1>6, <1>7, <1>8, <1>9 DEF Step

\* A select request takes at most 3 * MaxDepth + 10 steps, whatever the game and the
\* other requests do meanwhile: rings of nodes and links that move cannot hold it.
THEOREM BoundedRequest == Spec => StepsAreBounded
<1>1. Invariant /\ [Next]_vars =>
        [\A r \in Requests :
           /\ StepsLeft(r) \in 0..3 * MaxDepth + 10
           /\ Step(r) => StepsLeft(r)' < StepsLeft(r)
           /\ pc[r] # "idle" => StepsLeft(r)' <= StepsLeft(r)]_vars
  <2> SUFFICES ASSUME Invariant, Next, NEW r \in Requests
               PROVE  /\ StepsLeft(r) \in 0..3 * MaxDepth + 10
                      /\ Step(r) => StepsLeft(r)' < StepsLeft(r)
                      /\ pc[r] # "idle" => StepsLeft(r)' <= StepsLeft(r)
    OBVIOUS
  <2>1. StepsLeft(r) \in 0..3 * MaxDepth + 10 /\ MaxDepth \in Nat
    BY StepsInRange, TargetSelectionAssumption DEF TargetSelectionAssumption
  <2>2. Step(r) => StepsLeft(r)' < StepsLeft(r)
    BY StepSpends
  <2>3. ASSUME pc[r] # "idle", ~ Step(r) PROVE StepsLeft(r)' <= StepsLeft(r)
    <3>1. ASSUME pc'[r] = pc[r], loc'[r] = loc[r] PROVE StepsLeft(r)' = StepsLeft(r)
      BY <3>1 DEF StepsLeft, Remaining
    <3>2. CASE Game
      BY <2>1, <3>1, <3>2 DEF Game
    <3>3. ASSUME NEW q \in Requests, Step(q) PROVE StepsLeft(r)' <= StepsLeft(r)
      BY <2>1, <2>3, <3>1, <3>3, OtherKept
    <3>4. ASSUME NEW q \in Requests, Return(q) PROVE StepsLeft(r)' <= StepsLeft(r)
      <4>1. CASE q = r
        <5>1. pc'[r] = "idle"
          BY <3>4, <4>1 DEF Return, Invariant, TypeOK
        <5>2. StepsLeft(r)' = 0
          BY <5>1 DEF StepsLeft, Remaining
        <5> QED
          BY <2>1, <5>2
      <4>2. CASE q # r
        BY <2>1, <3>1, <3>4, <4>2 DEF Return, Invariant, TypeOK
      <4> QED
        BY <4>1, <4>2
    <3>5. ASSUME NEW q \in Requests, Refuse(q) \/ \E i \in Ids : Call(q, i)
          PROVE  StepsLeft(r)' <= StepsLeft(r)
      BY <2>1, <2>3, <3>1, <3>5 DEF Refuse, Call, Invariant, TypeOK
    <3> QED
      BY <3>2, <3>3, <3>4, <3>5 DEF Next
  <2>4. Step(r) => StepsLeft(r)' <= StepsLeft(r)
    BY <2>1, StepSpends
  <2> QED
    BY <2>1, <2>2, <2>3, <2>4
<1> QED
  BY <1>1, Invariance, PTL DEF Spec, StepsAreBounded
=============================================================================
