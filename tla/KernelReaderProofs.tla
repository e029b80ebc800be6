------------------------- MODULE KernelReaderProofs -------------------------
(***************************************************************************)
(* For every set of requests, objects and process ids: the inductive       *)
(* invariant of KernelReader, the safety properties that follow from it,   *)
(* and that the reader implements AccessGrant.                             *)
(*                                                                         *)
(* The argument: a reader holds exactly what its program counter says      *)
(* (HoldingsFollowProgress), the kernel counts exactly what readers hold   *)
(* (CountsMatchHolders), so an object is freed only when no reader points  *)
(* at it, so what was verified of an object stays true of it.              *)
(***************************************************************************)
EXTENDS KernelReaderImplements, FiniteSetTheorems, TLAPS

\* The holders of an object are finitely many, so they can be counted.
LEMMA HoldersFinite ==
  /\ \A o \in Objects : IsFiniteSet(HandleHolders(o)) /\ IsFiniteSet(PointerHolders(o))
  BY KernelReaderAssumption, FS_Subset DEF KernelReaderAssumption, HandleHolders, PointerHolders

\* An object somebody holds has a positive count: it cannot be freed, and giving
\* it back does not take the count below zero.
LEMMA HeldIsCounted ==
  ASSUME IInv, NEW r \in Requests, NEW o \in Objects
  PROVE  /\ handle[r] = o => handleCount[o] > 0
         /\ process[r] = o \/ bound[r] = o => pointerCount[o] > 0
<1>1. handle[r] = o => HandleHolders(o) # {}
  BY DEF HandleHolders
<1>2. process[r] = o \/ bound[r] = o => PointerHolders(o) # {}
  BY DEF PointerHolders
<1> QED
  BY <1>1, <1>2, HoldersFinite, FS_EmptySet DEF IInv, TypeOK, CountsMatchHolders

\* Every step keeps the types.  The counts need HeldIsCounted: CloseHandle,
\* LocateImage and Destroy release only what was counted.
LEMMA TypeStep == IInv /\ [Next]_vars => TypeOK'
<1> SUFFICES ASSUME IInv, [Next]_vars PROVE TypeOK'
  OBVIOUS
<1>t. TypeOK
  BY DEF IInv
<1> USE <1>t, KernelReaderAssumption DEF KernelReaderAssumption, TypeOK, Life, Images, Kinds,
        Points, Statuses, ReadRights, WriteRights, kernelVars, countVars, callVars, holdVars,
        Goto, Report, Spend
<1>1. ASSUME NEW o \in Objects, NEW p \in Pids, NEW name \in Images, StartProcess(o, p, name)
      PROVE  TypeOK'
  BY <1>1 DEF StartProcess
<1>2. ASSUME NEW o \in Objects, ExitProcess(o)
      PROVE  TypeOK'
  BY <1>2 DEF ExitProcess
<1>3. ASSUME NEW o \in Objects, FreeObject(o)
      PROVE  TypeOK'
  BY <1>3 DEF FreeObject
<1>4. ASSUME NEW r \in Requests, NEW k \in Kinds, NEW q \in Pids \cup {None}, Call(r, k, q)
      PROVE  TypeOK'
  BY <1>4 DEF Call
<1>5. ASSUME NEW r \in Requests, RefuseInitialize(r)
      PROVE  TypeOK'
  BY <1>5 DEF RefuseInitialize
<1>6. ASSUME NEW r \in Requests, OpenProcess(r)
      PROVE  TypeOK'
  <2>1. RequestedAccess(kind[r]) \subseteq ReadRights \cup WriteRights
    BY DEF RequestedAccess
  <2>2. granted' \in [Requests -> SUBSET (ReadRights \cup WriteRights)]
    BY <1>6, <2>1 DEF OpenProcess, Unbound
  <2>3. handle' \in [Requests -> Objects \cup {None}] /\ handleCount' \in [Objects -> Nat]
    BY <1>6 DEF OpenProcess, Unbound
  <2> QED
    BY <1>6, <2>2, <2>3 DEF OpenProcess, Unbound
<1>7. ASSUME NEW r \in Requests, LookupProcess(r)
      PROVE  TypeOK'
  BY <1>7 DEF LookupProcess, Unbound, Reference
<1>8. ASSUME NEW r \in Requests, QueryObject(r)
      PROVE  TypeOK'
  BY <1>8 DEF QueryObject, AllRights
<1>9. ASSUME NEW r \in Requests, ReferenceObject(r)
      PROVE  TypeOK'
  <2>1. handle[r] \in Objects
    BY <1>9 DEF ReferenceObject, Reference, Goto, IInv, TypeOK, HoldingsFollowProgress
  <2> QED
    BY <1>9, <2>1 DEF ReferenceObject, Reference
<1>10. ASSUME NEW r \in Requests, CloseHandle(r)
      PROVE  TypeOK'
  <2>1. handleCount[handle[r]] > 0 /\ handle[r] \in Objects
    BY <1>10, HeldIsCounted DEF CloseHandle, AfterClose, Goto, IInv, TypeOK, HoldingsFollowProgress
  <2> QED
    BY <1>10, <2>1 DEF CloseHandle, AfterClose
<1>11. ASSUME NEW r \in Requests, LocateImage(r)
      PROVE  TypeOK'
  <2>1. pointerCount[process[r]] > 0 /\ process[r] \in Objects
    BY <1>11, HeldIsCounted DEF LocateImage, IsDarkEden, Dereference, Goto, IInv, TypeOK, HoldingsFollowProgress
  <2> QED
    BY <1>11, <2>1 DEF LocateImage, IsDarkEden, Dereference
<1>12. ASSUME NEW r \in Requests, ResolveImageOffset(r)
      PROVE  TypeOK'
  BY <1>12 DEF ResolveImageOffset
<1>13. ASSUME NEW r \in Requests, NEW p \in Pids, InitializeAgain(r, p)
      PROVE  TypeOK'
  BY <1>13 DEF InitializeAgain
<1>14. ASSUME NEW r \in Requests, RejectRange(r)
      PROVE  TypeOK'
  BY <1>14 DEF RejectRange
<1>15. ASSUME NEW r \in Requests, Attach(r)
      PROVE  TypeOK'
  BY <1>15 DEF Attach
<1>16. ASSUME NEW r \in Requests, TouchMemory(r)
      PROVE  TypeOK'
  BY <1>16 DEF TouchMemory
<1>17. ASSUME NEW r \in Requests, Detach(r)
      PROVE  TypeOK'
  BY <1>17 DEF Detach
<1>18. ASSUME NEW r \in Requests, Return(r)
      PROVE  TypeOK'
  BY <1>18 DEF Return
<1>19. ASSUME NEW r \in Requests, Destroy(r)
      PROVE  TypeOK'
  <2>1. CASE bound[r] = None
    BY <1>19, <2>1 DEF Destroy, Dereference
  <2>2. CASE bound[r] # None
    <3>1. pointerCount[bound[r]] > 0 /\ bound[r] \in Objects
      BY <2>2, HeldIsCounted
    <3> QED
      BY <1>19, <2>2, <3>1 DEF Destroy, Dereference
  <2> QED
    BY <2>1, <2>2
<1>20. CASE UNCHANGED vars
  BY <1>20 DEF vars
<1> HIDE DEF TypeOK, Life, Images, Kinds, Points, Statuses, Goto, Report, Spend
<1> QED
  BY <1>1, <1>2, <1>3, <1>4, <1>5, <1>6, <1>7, <1>8, <1>9, <1>10,
     <1>11, <1>12, <1>13, <1>14, <1>15, <1>16, <1>17, <1>18, <1>19, <1>20 DEF Next, Kernel, Step

\* Opening and closing a handle move the handle count with the set of holders.
LEMMA HandleTaken ==
  ASSUME TypeOK, CountsMatchHolders, NEW r \in Requests, NEW o \in Objects,
         handle[r] = None,
         handle' = [handle EXCEPT ![r] = o],
         handleCount' = [handleCount EXCEPT ![o] = @ + 1]
  PROVE  \A b \in Objects : handleCount'[b] = Cardinality(HandleHolders(b)')
<1> TAKE b \in Objects
<1> USE KernelReaderAssumption DEF KernelReaderAssumption, TypeOK, HandleHolders
<1>1. HandleHolders(b)' = IF b = o THEN HandleHolders(b) \cup {r} ELSE HandleHolders(b)
  OBVIOUS
<1>2. r \notin HandleHolders(b)
  OBVIOUS
<1>3. handleCount[b] = Cardinality(HandleHolders(b))
  BY DEF CountsMatchHolders
<1>4. Cardinality(HandleHolders(b) \cup {r}) = Cardinality(HandleHolders(b)) + 1
  BY <1>2, HoldersFinite, FS_AddElement
<1> HIDE DEF HandleHolders
<1> QED
  BY <1>1, <1>3, <1>4

LEMMA HandleReleased ==
  ASSUME TypeOK, CountsMatchHolders, NEW r \in Requests, NEW o \in Objects,
         handle[r] = o,
         handle' = [handle EXCEPT ![r] = None],
         handleCount' = [handleCount EXCEPT ![o] = @ - 1]
  PROVE  \A b \in Objects : handleCount'[b] = Cardinality(HandleHolders(b)')
<1> TAKE b \in Objects
<1> USE KernelReaderAssumption DEF KernelReaderAssumption, TypeOK, HandleHolders
<1>1. HandleHolders(b)' = IF b = o THEN HandleHolders(b) \ {r} ELSE HandleHolders(b)
  OBVIOUS
<1>2. r \in HandleHolders(o)
  OBVIOUS
<1>3. handleCount[b] = Cardinality(HandleHolders(b))
  BY DEF CountsMatchHolders
<1> HIDE DEF HandleHolders
<1>4. Cardinality(HandleHolders(o) \ {r}) = Cardinality(HandleHolders(o)) - 1
  BY <1>2, HoldersFinite, FS_RemoveElement
<1> QED
  BY <1>1, <1>3, <1>4

\* Taking and releasing a reference move the pointer count with its holders,
\* whether the reference is the local variable or the member process_.
LEMMA PointerTaken ==
  ASSUME TypeOK, CountsMatchHolders, NEW r \in Requests, NEW o \in Objects,
         process[r] = None, bound[r] = None,
         \/ process' = [process EXCEPT ![r] = o] /\ bound' = bound
         \/ bound' = [bound EXCEPT ![r] = o] /\ process' = process,
         pointerCount' = [pointerCount EXCEPT ![o] = @ + 1]
  PROVE  \A b \in Objects : pointerCount'[b] = Cardinality(PointerHolders(b)')
<1> TAKE b \in Objects
<1> USE KernelReaderAssumption DEF KernelReaderAssumption, TypeOK, PointerHolders
<1>1. PointerHolders(b)' = IF b = o THEN PointerHolders(b) \cup {r} ELSE PointerHolders(b)
  OBVIOUS
<1>2. r \notin PointerHolders(b)
  OBVIOUS
<1>3. pointerCount[b] = Cardinality(PointerHolders(b))
  BY DEF CountsMatchHolders
<1>4. Cardinality(PointerHolders(b) \cup {r}) = Cardinality(PointerHolders(b)) + 1
  BY <1>2, HoldersFinite, FS_AddElement
<1> HIDE DEF PointerHolders
<1> QED
  BY <1>1, <1>3, <1>4

LEMMA PointerReleased ==
  ASSUME TypeOK, CountsMatchHolders, NEW r \in Requests, NEW o \in Objects,
         \/ process[r] = o /\ bound[r] = None
         \/ bound[r] = o /\ process[r] = None,
         process' = [process EXCEPT ![r] = None],
         bound' = [bound EXCEPT ![r] = None],
         pointerCount' = [pointerCount EXCEPT ![o] = @ - 1]
  PROVE  \A b \in Objects : pointerCount'[b] = Cardinality(PointerHolders(b)')
<1> TAKE b \in Objects
<1> USE KernelReaderAssumption DEF KernelReaderAssumption, TypeOK, PointerHolders
<1>1. PointerHolders(b)' = IF b = o THEN PointerHolders(b) \ {r} ELSE PointerHolders(b)
  OBVIOUS
<1>2. r \in PointerHolders(o)
  OBVIOUS
<1>3. pointerCount[b] = Cardinality(PointerHolders(b))
  BY DEF CountsMatchHolders
<1> HIDE DEF PointerHolders
<1>4. Cardinality(PointerHolders(o) \ {r}) = Cardinality(PointerHolders(o)) - 1
  BY <1>2, HoldersFinite, FS_RemoveElement
<1> QED
  BY <1>1, <1>3, <1>4

\* Every step keeps the counts equal to the numbers of holders.
LEMMA CountsStep == IInv /\ [Next]_vars => CountsMatchHolders'
<1> SUFFICES ASSUME IInv, [Next]_vars PROVE CountsMatchHolders'
  OBVIOUS
<1>t. TypeOK
  BY DEF IInv
<1>c. CountsMatchHolders
  BY DEF IInv
<1>h. HoldingsFollowProgress
  BY DEF IInv
<1> USE <1>c DEF CountsMatchHolders, HandleHolders, PointerHolders, kernelVars, countVars,
        callVars, holdVars
<1>1. ASSUME NEW o \in Objects, NEW p \in Pids, NEW name \in Images, StartProcess(o, p, name)
      PROVE  CountsMatchHolders'
  BY <1>1 DEF StartProcess
<1>2. ASSUME NEW o \in Objects, ExitProcess(o)
      PROVE  CountsMatchHolders'
  BY <1>2 DEF ExitProcess
<1>3. ASSUME NEW o \in Objects, FreeObject(o)
      PROVE  CountsMatchHolders'
  BY <1>3 DEF FreeObject
<1>4. ASSUME NEW r \in Requests, NEW k \in Kinds, NEW q \in Pids \cup {None}, Call(r, k, q)
      PROVE  CountsMatchHolders'
  BY <1>4 DEF Call
<1>5. ASSUME NEW r \in Requests, RefuseInitialize(r)
      PROVE  CountsMatchHolders'
  BY <1>5 DEF RefuseInitialize
<1>6. ASSUME NEW r \in Requests, OpenProcess(r)
      PROVE  CountsMatchHolders'
  <2>1. CASE handle' = handle /\ handleCount' = handleCount
    BY <1>6, <2>1 DEF OpenProcess, Unbound
  <2>2. CASE handle' # handle \/ handleCount' # handleCount
    <3> DEFINE o == pidTable[pid[r]]
    <3>1. /\ o \in Objects /\ handle[r] = None
          /\ handle' = [handle EXCEPT ![r] = o]
          /\ handleCount' = [handleCount EXCEPT ![o] = @ + 1]
      BY <1>6, <2>2, <1>t, <1>h DEF OpenProcess, Unbound, Goto, TypeOK, HoldingsFollowProgress
    <3>2. \A b \in Objects : handleCount'[b] = Cardinality(HandleHolders(b)')
      BY <3>1, <1>t, HandleTaken
    <3> QED
      BY <1>6, <3>2 DEF OpenProcess, Unbound
  <2> QED
    BY <2>1, <2>2
<1>7. ASSUME NEW r \in Requests, LookupProcess(r)
      PROVE  CountsMatchHolders'
  <2>1. CASE bound' = bound /\ pointerCount' = pointerCount
    BY <1>7, <2>1 DEF LookupProcess, Unbound, Reference
  <2>2. CASE bound' # bound \/ pointerCount' # pointerCount
    <3> DEFINE o == pidTable[pid[r]]
    <3>1. /\ o \in Objects /\ bound[r] = None /\ process[r] = None /\ process' = process
          /\ bound' = [bound EXCEPT ![r] = o]
          /\ pointerCount' = [pointerCount EXCEPT ![o] = @ + 1]
      BY <1>7, <2>2, <1>t, <1>h DEF LookupProcess, Unbound, Reference, Goto, TypeOK, HoldingsFollowProgress
    <3>2. \A b \in Objects : pointerCount'[b] = Cardinality(PointerHolders(b)')
      BY <3>1, <1>t, PointerTaken
    <3> QED
      BY <1>7, <3>2 DEF LookupProcess, Unbound, Reference
  <2> QED
    BY <2>1, <2>2
<1>8. ASSUME NEW r \in Requests, QueryObject(r)
      PROVE  CountsMatchHolders'
  BY <1>8 DEF QueryObject, AllRights
<1>9. ASSUME NEW r \in Requests, ReferenceObject(r)
      PROVE  CountsMatchHolders'
  <2>1. CASE process' = process /\ pointerCount' = pointerCount
    BY <1>9, <2>1 DEF ReferenceObject, Reference
  <2>2. CASE process' # process \/ pointerCount' # pointerCount
    <3> DEFINE o == handle[r]
    <3>1. /\ o \in Objects /\ bound[r] = None /\ process[r] = None /\ bound' = bound
          /\ process' = [process EXCEPT ![r] = o]
          /\ pointerCount' = [pointerCount EXCEPT ![o] = @ + 1]
      BY <1>9, <2>2, <1>t, <1>h DEF ReferenceObject, Reference, Goto, TypeOK, HoldingsFollowProgress
    <3>2. \A b \in Objects : pointerCount'[b] = Cardinality(PointerHolders(b)')
      BY <3>1, <1>t, PointerTaken
    <3> QED
      BY <1>9, <3>2 DEF ReferenceObject, Reference
  <2> QED
    BY <2>1, <2>2
<1>10. ASSUME NEW r \in Requests, CloseHandle(r)
      PROVE  CountsMatchHolders'
  <2> DEFINE o == handle[r]
  <2>1. /\ o \in Objects
        /\ handle' = [handle EXCEPT ![r] = None]
        /\ handleCount' = [handleCount EXCEPT ![o] = @ - 1]
    BY <1>10, <1>t, <1>h DEF CloseHandle, AfterClose, Goto, TypeOK, HoldingsFollowProgress
  <2>2. \A b \in Objects : handleCount'[b] = Cardinality(HandleHolders(b)')
    BY <2>1, <1>t, HandleReleased
  <2> QED
    BY <1>10, <2>2 DEF CloseHandle, AfterClose
<1>11. ASSUME NEW r \in Requests, LocateImage(r)
      PROVE  CountsMatchHolders'
  <2> DEFINE o == process[r]
  <2>1. o \in Objects /\ bound[r] = None /\ process' = [process EXCEPT ![r] = None]
    BY <1>11, <1>t, <1>h DEF LocateImage, IsDarkEden, Dereference, Goto, TypeOK, HoldingsFollowProgress
  <2>2. CASE bound' = [bound EXCEPT ![r] = o] /\ pointerCount' = pointerCount
    <3>1. \A b \in Objects : PointerHolders(b)' = PointerHolders(b)
      BY <2>1, <2>2, <1>t, KernelReaderAssumption DEF KernelReaderAssumption, TypeOK
    <3> QED
      BY <1>11, <2>2, <3>1 DEF LocateImage, IsDarkEden, Dereference
  <2>3. CASE bound' = bound /\ pointerCount' = [pointerCount EXCEPT ![o] = @ - 1]
    <3>1. bound' = [bound EXCEPT ![r] = None]
      BY <2>1, <2>3, <1>t DEF TypeOK
    <3>2. \A b \in Objects : pointerCount'[b] = Cardinality(PointerHolders(b)')
      BY <2>1, <2>3, <3>1, <1>t, PointerReleased
    <3> QED
      BY <1>11, <3>2 DEF LocateImage, IsDarkEden, Dereference
  <2> QED
    BY <1>11, <2>2, <2>3 DEF LocateImage, IsDarkEden, Dereference
<1>12. ASSUME NEW r \in Requests, ResolveImageOffset(r)
      PROVE  CountsMatchHolders'
  BY <1>12 DEF ResolveImageOffset
<1>13. ASSUME NEW r \in Requests, NEW p \in Pids, InitializeAgain(r, p)
      PROVE  CountsMatchHolders'
  BY <1>13 DEF InitializeAgain
<1>14. ASSUME NEW r \in Requests, RejectRange(r)
      PROVE  CountsMatchHolders'
  BY <1>14 DEF RejectRange
<1>15. ASSUME NEW r \in Requests, Attach(r)
      PROVE  CountsMatchHolders'
  BY <1>15 DEF Attach
<1>16. ASSUME NEW r \in Requests, TouchMemory(r)
      PROVE  CountsMatchHolders'
  BY <1>16 DEF TouchMemory
<1>17. ASSUME NEW r \in Requests, Detach(r)
      PROVE  CountsMatchHolders'
  BY <1>17 DEF Detach
<1>18. ASSUME NEW r \in Requests, Return(r)
      PROVE  CountsMatchHolders'
  BY <1>18 DEF Return
<1>19. ASSUME NEW r \in Requests, Destroy(r)
      PROVE  CountsMatchHolders'
  <2>1. CASE bound[r] = None
    BY <1>19, <2>1 DEF Destroy, Dereference
  <2>2. CASE bound[r] # None
    <3> DEFINE o == bound[r]
    <3>1. /\ o \in Objects /\ process[r] = None /\ process' = process
          /\ bound' = [bound EXCEPT ![r] = None]
          /\ pointerCount' = [pointerCount EXCEPT ![o] = @ - 1]
      BY <1>19, <2>2, <1>t, <1>h DEF Destroy, Dereference, Goto, TypeOK, HoldingsFollowProgress
    <3>2. process' = [process EXCEPT ![r] = None]
      BY <3>1, <1>t DEF TypeOK
    <3>3. \A b \in Objects : pointerCount'[b] = Cardinality(PointerHolders(b)')
      BY <3>1, <3>2, <1>t, PointerReleased
    <3> QED
      BY <1>19, <3>3 DEF Destroy, Dereference
  <2> QED
    BY <2>1, <2>2
<1>20. CASE UNCHANGED vars
  BY <1>20 DEF vars
<1> HIDE DEF CountsMatchHolders, HandleHolders, PointerHolders
<1> QED
  BY <1>1, <1>2, <1>3, <1>4, <1>5, <1>6, <1>7, <1>8, <1>9, <1>10,
     <1>11, <1>12, <1>13, <1>14, <1>15, <1>16, <1>17, <1>18, <1>19, <1>20 DEF Next, Kernel, Step

\* A process id is dropped when its process exits.
LEMMA IdsStep == IInv /\ [Next]_vars => IdsDenoteRunning'
<1> SUFFICES ASSUME IInv, [Next]_vars PROVE IdsDenoteRunning'
  OBVIOUS
<1>t. TypeOK
  BY DEF IInv
<1>d. IdsDenoteRunning
  BY DEF IInv
<1> USE <1>t, <1>d, KernelReaderAssumption DEF KernelReaderAssumption, TypeOK, IdsDenoteRunning,
        Life, kernelVars
<1>1. ASSUME NEW o \in Objects, NEW p \in Pids, NEW name \in Images, StartProcess(o, p, name)
      PROVE  IdsDenoteRunning'
  BY <1>1 DEF StartProcess
<1>2. ASSUME NEW o \in Objects, ExitProcess(o)
      PROVE  IdsDenoteRunning'
  BY <1>2 DEF ExitProcess
<1>3. ASSUME NEW o \in Objects, FreeObject(o)
      PROVE  IdsDenoteRunning'
  BY <1>3 DEF FreeObject
<1>4. ASSUME NEW r \in Requests, NEW k \in Kinds, NEW q \in Pids \cup {None}, Call(r, k, q)
      PROVE  IdsDenoteRunning'
  BY <1>4 DEF Call
<1>5. ASSUME NEW r \in Requests, RefuseInitialize(r)
      PROVE  IdsDenoteRunning'
  BY <1>5 DEF RefuseInitialize
<1>6. ASSUME NEW r \in Requests, OpenProcess(r)
      PROVE  IdsDenoteRunning'
  BY <1>6 DEF OpenProcess, Unbound
<1>7. ASSUME NEW r \in Requests, LookupProcess(r)
      PROVE  IdsDenoteRunning'
  BY <1>7 DEF LookupProcess, Unbound, Reference
<1>8. ASSUME NEW r \in Requests, QueryObject(r)
      PROVE  IdsDenoteRunning'
  BY <1>8 DEF QueryObject, AllRights
<1>9. ASSUME NEW r \in Requests, ReferenceObject(r)
      PROVE  IdsDenoteRunning'
  BY <1>9 DEF ReferenceObject, Reference
<1>10. ASSUME NEW r \in Requests, CloseHandle(r)
      PROVE  IdsDenoteRunning'
  BY <1>10 DEF CloseHandle, AfterClose
<1>11. ASSUME NEW r \in Requests, LocateImage(r)
      PROVE  IdsDenoteRunning'
  BY <1>11 DEF LocateImage, IsDarkEden, Dereference
<1>12. ASSUME NEW r \in Requests, ResolveImageOffset(r)
      PROVE  IdsDenoteRunning'
  BY <1>12 DEF ResolveImageOffset
<1>13. ASSUME NEW r \in Requests, NEW p \in Pids, InitializeAgain(r, p)
      PROVE  IdsDenoteRunning'
  BY <1>13 DEF InitializeAgain
<1>14. ASSUME NEW r \in Requests, RejectRange(r)
      PROVE  IdsDenoteRunning'
  BY <1>14 DEF RejectRange
<1>15. ASSUME NEW r \in Requests, Attach(r)
      PROVE  IdsDenoteRunning'
  BY <1>15 DEF Attach
<1>16. ASSUME NEW r \in Requests, TouchMemory(r)
      PROVE  IdsDenoteRunning'
  BY <1>16 DEF TouchMemory
<1>17. ASSUME NEW r \in Requests, Detach(r)
      PROVE  IdsDenoteRunning'
  BY <1>17 DEF Detach
<1>18. ASSUME NEW r \in Requests, Return(r)
      PROVE  IdsDenoteRunning'
  BY <1>18 DEF Return
<1>19. ASSUME NEW r \in Requests, Destroy(r)
      PROVE  IdsDenoteRunning'
  BY <1>19 DEF Destroy, Dereference
<1>20. CASE UNCHANGED vars
  BY <1>20 DEF vars
<1> HIDE DEF TypeOK, IdsDenoteRunning, Life
<1> QED
  BY <1>1, <1>2, <1>3, <1>4, <1>5, <1>6, <1>7, <1>8, <1>9, <1>10,
     <1>11, <1>12, <1>13, <1>14, <1>15, <1>16, <1>17, <1>18, <1>19, <1>20 DEF Next, Kernel, Step

\* Every step keeps what is held in line with the program counter.
LEMMA HoldingsStep == IInv /\ [Next]_vars => HoldingsFollowProgress'
<1> SUFFICES ASSUME IInv, [Next]_vars PROVE HoldingsFollowProgress'
  OBVIOUS
<1>t. TypeOK
  BY DEF IInv
<1>h. HoldingsFollowProgress
  BY DEF IInv
<1>f. NoUseAfterFree
  BY DEF IInv
<1> USE <1>t, <1>h, KernelReaderAssumption DEF KernelReaderAssumption, TypeOK,
        HoldingsFollowProgress, Points, Statuses, Goto, Report, kernelVars, countVars, callVars, holdVars
<1>1. ASSUME NEW o \in Objects, NEW p \in Pids, NEW name \in Images, StartProcess(o, p, name)
      PROVE  HoldingsFollowProgress'
  BY <1>1, <1>f DEF StartProcess, NoUseAfterFree
<1>2. ASSUME NEW o \in Objects, ExitProcess(o)
      PROVE  HoldingsFollowProgress'
  BY <1>2 DEF ExitProcess
<1>3. ASSUME NEW o \in Objects, FreeObject(o)
      PROVE  HoldingsFollowProgress'
  <2>1. \A q \in Requests : bound[q] # o
    BY <1>3, HeldIsCounted DEF FreeObject, TypeOK
  <2> QED
    BY <1>3, <2>1 DEF FreeObject
<1>4. ASSUME NEW r \in Requests, NEW k \in Kinds, NEW q \in Pids \cup {None}, Call(r, k, q)
      PROVE  HoldingsFollowProgress'
  BY <1>4 DEF Call
<1>5. ASSUME NEW r \in Requests, RefuseInitialize(r)
      PROVE  HoldingsFollowProgress'
  BY <1>5 DEF RefuseInitialize
<1>6. ASSUME NEW r \in Requests, OpenProcess(r)
      PROVE  HoldingsFollowProgress'
  BY <1>6 DEF OpenProcess, Unbound
<1>7. ASSUME NEW r \in Requests, LookupProcess(r)
      PROVE  HoldingsFollowProgress'
  BY <1>7 DEF LookupProcess, Unbound, Reference
<1>8. ASSUME NEW r \in Requests, QueryObject(r)
      PROVE  HoldingsFollowProgress'
  BY <1>8 DEF QueryObject, AllRights
<1>9. ASSUME NEW r \in Requests, ReferenceObject(r)
      PROVE  HoldingsFollowProgress'
  BY <1>9 DEF ReferenceObject, Reference
<1>10. ASSUME NEW r \in Requests, CloseHandle(r)
      PROVE  HoldingsFollowProgress'
  BY <1>10 DEF CloseHandle, AfterClose
<1>11. ASSUME NEW r \in Requests, LocateImage(r)
      PROVE  HoldingsFollowProgress'
  BY <1>11 DEF LocateImage, IsDarkEden, Dereference
<1>12. ASSUME NEW r \in Requests, ResolveImageOffset(r)
      PROVE  HoldingsFollowProgress'
  BY <1>12 DEF ResolveImageOffset
<1>13. ASSUME NEW r \in Requests, NEW p \in Pids, InitializeAgain(r, p)
      PROVE  HoldingsFollowProgress'
  BY <1>13 DEF InitializeAgain
<1>14. ASSUME NEW r \in Requests, RejectRange(r)
      PROVE  HoldingsFollowProgress'
  BY <1>14 DEF RejectRange
<1>15. ASSUME NEW r \in Requests, Attach(r)
      PROVE  HoldingsFollowProgress'
  BY <1>15 DEF Attach
<1>16. ASSUME NEW r \in Requests, TouchMemory(r)
      PROVE  HoldingsFollowProgress'
  BY <1>16 DEF TouchMemory
<1>17. ASSUME NEW r \in Requests, Detach(r)
      PROVE  HoldingsFollowProgress'
  BY <1>17 DEF Detach
<1>18. ASSUME NEW r \in Requests, Return(r)
      PROVE  HoldingsFollowProgress'
  BY <1>18 DEF Return
<1>19. ASSUME NEW r \in Requests, Destroy(r)
      PROVE  HoldingsFollowProgress'
  BY <1>19 DEF Destroy, Dereference
<1>20. CASE UNCHANGED vars
  BY <1>20 DEF vars
<1> HIDE DEF TypeOK, HoldingsFollowProgress, Points, Statuses, Goto, Report
<1> QED
  BY <1>1, <1>2, <1>3, <1>4, <1>5, <1>6, <1>7, <1>8, <1>9, <1>10,
     <1>11, <1>12, <1>13, <1>14, <1>15, <1>16, <1>17, <1>18, <1>19, <1>20 DEF Next, Kernel, Step

\* Nothing that is pointed at is freed: a positive count keeps FreeObject away.
LEMMA LifeStep == IInv /\ [Next]_vars => NoUseAfterFree'
<1> SUFFICES ASSUME IInv, [Next]_vars PROVE NoUseAfterFree'
  OBVIOUS
<1>t. TypeOK
  BY DEF IInv
<1>f. NoUseAfterFree
  BY DEF IInv
<1>h. HoldingsFollowProgress
  BY DEF IInv
<1>d. IdsDenoteRunning
  BY DEF IInv
<1> USE <1>t, <1>f, KernelReaderAssumption DEF KernelReaderAssumption, TypeOK, NoUseAfterFree,
        Life, Goto, kernelVars, callVars, holdVars
<1>1. ASSUME NEW o \in Objects, NEW p \in Pids, NEW name \in Images, StartProcess(o, p, name)
      PROVE  NoUseAfterFree'
  BY <1>1 DEF StartProcess
<1>2. ASSUME NEW o \in Objects, ExitProcess(o)
      PROVE  NoUseAfterFree'
  BY <1>2 DEF ExitProcess
<1>3. ASSUME NEW o \in Objects, FreeObject(o)
      PROVE  NoUseAfterFree'
  <2>1. \A q \in Requests : handle[q] # o /\ process[q] # o /\ bound[q] # o
    BY <1>3, HeldIsCounted DEF FreeObject, TypeOK
  <2>2. \A q \in Requests : attached[q] # o
    BY <2>1, <1>h DEF HoldingsFollowProgress
  <2> QED
    BY <1>3, <2>1, <2>2 DEF FreeObject
<1>4. ASSUME NEW r \in Requests, NEW k \in Kinds, NEW q \in Pids \cup {None}, Call(r, k, q)
      PROVE  NoUseAfterFree'
  BY <1>4 DEF Call
<1>5. ASSUME NEW r \in Requests, RefuseInitialize(r)
      PROVE  NoUseAfterFree'
  BY <1>5 DEF RefuseInitialize
<1>6. ASSUME NEW r \in Requests, OpenProcess(r)
      PROVE  NoUseAfterFree'
  BY <1>6, <1>d DEF OpenProcess, Unbound, IdsDenoteRunning
<1>7. ASSUME NEW r \in Requests, LookupProcess(r)
      PROVE  NoUseAfterFree'
  BY <1>7, <1>d DEF LookupProcess, Unbound, Reference, IdsDenoteRunning
<1>8. ASSUME NEW r \in Requests, QueryObject(r)
      PROVE  NoUseAfterFree'
  BY <1>8 DEF QueryObject, AllRights
<1>9. ASSUME NEW r \in Requests, ReferenceObject(r)
      PROVE  NoUseAfterFree'
  BY <1>9 DEF ReferenceObject, Reference
<1>10. ASSUME NEW r \in Requests, CloseHandle(r)
      PROVE  NoUseAfterFree'
  BY <1>10 DEF CloseHandle, AfterClose
<1>11. ASSUME NEW r \in Requests, LocateImage(r)
      PROVE  NoUseAfterFree'
  BY <1>11 DEF LocateImage, IsDarkEden, Dereference
<1>12. ASSUME NEW r \in Requests, ResolveImageOffset(r)
      PROVE  NoUseAfterFree'
  BY <1>12 DEF ResolveImageOffset
<1>13. ASSUME NEW r \in Requests, NEW p \in Pids, InitializeAgain(r, p)
      PROVE  NoUseAfterFree'
  BY <1>13 DEF InitializeAgain
<1>14. ASSUME NEW r \in Requests, RejectRange(r)
      PROVE  NoUseAfterFree'
  BY <1>14 DEF RejectRange
<1>15. ASSUME NEW r \in Requests, Attach(r)
      PROVE  NoUseAfterFree'
  BY <1>15 DEF Attach
<1>16. ASSUME NEW r \in Requests, TouchMemory(r)
      PROVE  NoUseAfterFree'
  BY <1>16 DEF TouchMemory
<1>17. ASSUME NEW r \in Requests, Detach(r)
      PROVE  NoUseAfterFree'
  BY <1>17 DEF Detach
<1>18. ASSUME NEW r \in Requests, Return(r)
      PROVE  NoUseAfterFree'
  BY <1>18 DEF Return
<1>19. ASSUME NEW r \in Requests, Destroy(r)
      PROVE  NoUseAfterFree'
  BY <1>19 DEF Destroy, Dereference
<1>20. CASE UNCHANGED vars
  BY <1>20 DEF vars
<1> HIDE DEF TypeOK, NoUseAfterFree, Life, Goto
<1> QED
  BY <1>1, <1>2, <1>3, <1>4, <1>5, <1>6, <1>7, <1>8, <1>9, <1>10,
     <1>11, <1>12, <1>13, <1>14, <1>15, <1>16, <1>17, <1>18, <1>19, <1>20 DEF Next, Kernel, Step

\* The invariant holds before any process or request exists.
LEMMA InitInv == Init => IInv
<1> SUFFICES ASSUME Init PROVE IInv
  OBVIOUS
<1> USE KernelReaderAssumption DEF KernelReaderAssumption, Init
<1>1. TypeOK
  BY DEF TypeOK, Life, Images, Kinds, Points, Statuses
<1>2. IdsDenoteRunning
  BY DEF IdsDenoteRunning
<1>3. CountsMatchHolders
  <2>1. \A o \in Objects : HandleHolders(o) = {} /\ PointerHolders(o) = {}
    BY DEF HandleHolders, PointerHolders
  <2> QED
    BY <2>1, FS_EmptySet DEF CountsMatchHolders
<1>4. NoUseAfterFree /\ HoldingsFollowProgress
  BY DEF NoUseAfterFree, HoldingsFollowProgress
<1> QED
  BY <1>1, <1>2, <1>3, <1>4 DEF IInv

\* The invariant is inductive.
LEMMA StepInv == IInv /\ [Next]_vars => IInv'
  BY TypeStep, IdsStep, CountsStep, LifeStep, HoldingsStep DEF IInv

\* The inductive invariant holds in every reachable state.
THEOREM Invariance == Spec => []IInv
  BY InitInv, StepInv, PTL DEF Spec

\* Type correctness; the counts of the kernel never go below zero.
THEOREM TypeCorrect == Spec => []TypeOK
<1>1. IInv => TypeOK
  BY DEF IInv
<1> QED
  BY <1>1, Invariance, PTL

\* The readers neither leak nor over-release a handle or a reference.
THEOREM NoLeak == Spec => []CountsMatchHolders
<1>1. IInv => CountsMatchHolders
  BY DEF IInv
<1> QED
  BY <1>1, Invariance, PTL

\* No reader ever points at, or is attached to, a freed process object.
THEOREM NeverFreedInUse == Spec => []NoUseAfterFree
<1>1. IInv => NoUseAfterFree
  BY DEF IInv
<1> QED
  BY <1>1, Invariance, PTL

\* Memory is touched only in a process whose image and rights were verified.
THEOREM OnlyVerifiedTouched == Spec => []AttachedOnlyVerified
<1>1. IInv => AttachedOnlyVerified
  BY DEF IInv, HoldingsFollowProgress, AttachedOnlyVerified
<1> QED
  BY <1>1, Invariance, PTL

\* A request that has returned holds nothing.
THEOREM ReturnsEmptyHanded == Spec => []NothingHeldAfterReturn
<1>1. IInv => NothingHeldAfterReturn
  BY DEF IInv, HoldingsFollowProgress, NothingHeldAfterReturn
<1> QED
  BY <1>1, Invariance, PTL

\* The step that BoundOnce asks of every behaviour.
KeepsBinding ==
  \A r \in Requests : bound[r] # None =>
    \/ bound'[r] = bound[r] /\ image'[bound[r]] = image[bound[r]]
    \/ bound'[r] = None /\ pc'[r] = "idle"

\* No step moves a binding or changes the program of a bound object.
LEMMA BindingStep == IInv /\ [Next]_vars => KeepsBinding
<1> SUFFICES ASSUME IInv, [Next]_vars PROVE KeepsBinding
  OBVIOUS
<1>t. TypeOK
  BY DEF IInv
<1>h. HoldingsFollowProgress
  BY DEF IInv
<1>f. NoUseAfterFree
  BY DEF IInv
<1> USE <1>t, KernelReaderAssumption DEF KernelReaderAssumption, TypeOK, Goto,
        kernelVars, holdVars, KeepsBinding
<1>1. ASSUME NEW o \in Objects, NEW p \in Pids, NEW name \in Images, StartProcess(o, p, name)
      PROVE  KeepsBinding
  BY <1>1, <1>f DEF StartProcess, NoUseAfterFree
<1>2. ASSUME NEW o \in Objects, ExitProcess(o)
      PROVE  KeepsBinding
  BY <1>2 DEF ExitProcess
<1>3. ASSUME NEW o \in Objects, FreeObject(o)
      PROVE  KeepsBinding
  <2>1. \A q \in Requests : bound[q] # o
    BY <1>3, HeldIsCounted DEF FreeObject
  <2> QED
    BY <1>3, <2>1 DEF FreeObject
<1>4. ASSUME NEW r \in Requests, NEW k \in Kinds, NEW q \in Pids \cup {None}, Call(r, k, q)
      PROVE  KeepsBinding
  BY <1>4 DEF Call
<1>5. ASSUME NEW r \in Requests, RefuseInitialize(r)
      PROVE  KeepsBinding
  BY <1>5 DEF RefuseInitialize
<1>6. ASSUME NEW r \in Requests, OpenProcess(r)
      PROVE  KeepsBinding
  BY <1>6 DEF OpenProcess, Unbound
<1>7. ASSUME NEW r \in Requests, LookupProcess(r)
      PROVE  KeepsBinding
  BY <1>7 DEF LookupProcess, Unbound, Reference
<1>8. ASSUME NEW r \in Requests, QueryObject(r)
      PROVE  KeepsBinding
  BY <1>8 DEF QueryObject, AllRights
<1>9. ASSUME NEW r \in Requests, ReferenceObject(r)
      PROVE  KeepsBinding
  BY <1>9 DEF ReferenceObject, Reference
<1>10. ASSUME NEW r \in Requests, CloseHandle(r)
      PROVE  KeepsBinding
  BY <1>10 DEF CloseHandle, AfterClose
<1>11. ASSUME NEW r \in Requests, LocateImage(r)
      PROVE  KeepsBinding
  BY <1>11, <1>h DEF LocateImage, IsDarkEden, Dereference, HoldingsFollowProgress
<1>12. ASSUME NEW r \in Requests, ResolveImageOffset(r)
      PROVE  KeepsBinding
  BY <1>12 DEF ResolveImageOffset
<1>13. ASSUME NEW r \in Requests, NEW p \in Pids, InitializeAgain(r, p)
      PROVE  KeepsBinding
  BY <1>13 DEF InitializeAgain
<1>14. ASSUME NEW r \in Requests, RejectRange(r)
      PROVE  KeepsBinding
  BY <1>14 DEF RejectRange
<1>15. ASSUME NEW r \in Requests, Attach(r)
      PROVE  KeepsBinding
  BY <1>15 DEF Attach
<1>16. ASSUME NEW r \in Requests, TouchMemory(r)
      PROVE  KeepsBinding
  BY <1>16 DEF TouchMemory
<1>17. ASSUME NEW r \in Requests, Detach(r)
      PROVE  KeepsBinding
  BY <1>17 DEF Detach
<1>18. ASSUME NEW r \in Requests, Return(r)
      PROVE  KeepsBinding
  BY <1>18 DEF Return
<1>19. ASSUME NEW r \in Requests, Destroy(r)
      PROVE  KeepsBinding
  BY <1>19 DEF Destroy, Dereference
<1>20. CASE UNCHANGED vars
  BY <1>20 DEF vars
<1> HIDE DEF TypeOK, Goto, KeepsBinding
<1> QED
  BY <1>1, <1>2, <1>3, <1>4, <1>5, <1>6, <1>7, <1>8, <1>9, <1>10,
     <1>11, <1>12, <1>13, <1>14, <1>15, <1>16, <1>17, <1>18, <1>19, <1>20 DEF Next, Kernel, Step

\* A reader stays bound to one process object until it is destroyed.
THEOREM ReaderBindsOnce == Spec => BoundOnce
<1>1. IInv /\ [Next]_vars => [KeepsBinding]_vars
  BY BindingStep
<1> QED
  BY <1>1, Invariance, PTL DEF Spec, BoundOnce, KeepsBinding

\* Every step of the reader is a step of AccessGrant or leaves it unchanged.
LEMMA RefinementStep == IInv /\ [Next]_vars => [Abstract!Next]_(Abstract!vars)
<1> SUFFICES ASSUME IInv, [Next]_vars PROVE [Abstract!Next]_(Abstract!vars)
  OBVIOUS
<1>t. TypeOK
  BY DEF IInv
<1>h. HoldingsFollowProgress
  BY DEF IInv
<1>f. NoUseAfterFree
  BY DEF IInv
<1> USE <1>t, KernelReaderAssumption DEF KernelReaderAssumption, TypeOK, Goto, program,
        kernelVars, callVars, holdVars, Abstract!vars
<1>1. ASSUME NEW o \in Objects, NEW p \in Pids, NEW name \in Images, StartProcess(o, p, name)
      PROVE  [Abstract!Next]_(Abstract!vars)
  <2>1. Abstract!Appear(o)
    BY <1>1 DEF StartProcess, Life, Images, Abstract!Appear
  <2> QED
    BY <2>1 DEF Abstract!Next
<1>2. ASSUME NEW o \in Objects, ExitProcess(o)
      PROVE  [Abstract!Next]_(Abstract!vars)
  BY <1>2 DEF ExitProcess
<1>3. ASSUME NEW o \in Objects, FreeObject(o)
      PROVE  [Abstract!Next]_(Abstract!vars)
  <2>1. \A q \in Requests : bound[q] # o
    BY <1>3, HeldIsCounted DEF FreeObject
  <2>2. Abstract!Vanish(o)
    BY <1>3, <2>1 DEF FreeObject, Images, Abstract!Vanish
  <2> QED
    BY <2>2 DEF Abstract!Next
<1>4. ASSUME NEW r \in Requests, NEW k \in Kinds, NEW q \in Pids \cup {None}, Call(r, k, q)
      PROVE  [Abstract!Next]_(Abstract!vars)
  <2>1. bound[r] = None
    BY <1>4, <1>h DEF Call, HoldingsFollowProgress
  <2>2. Abstract!Ask(r)
    BY <1>4, <2>1 DEF Call, Abstract!Ask, Abstract!OthersUnchanged
  <2> QED
    BY <2>2 DEF Abstract!Next
<1>5. ASSUME NEW r \in Requests, RefuseInitialize(r)
      PROVE  [Abstract!Next]_(Abstract!vars)
  BY <1>5 DEF RefuseInitialize
<1>6. ASSUME NEW r \in Requests, OpenProcess(r)
      PROVE  [Abstract!Next]_(Abstract!vars)
  <2>1. Abstract!Ask(r)
    BY <1>6 DEF OpenProcess, Unbound, Abstract!Ask, Abstract!OthersUnchanged
  <2> QED
    BY <2>1 DEF Abstract!Next
<1>7. ASSUME NEW r \in Requests, LookupProcess(r)
      PROVE  [Abstract!Next]_(Abstract!vars)
  <2>1. CASE bound' = bound
    BY <1>7, <2>1 DEF LookupProcess, Unbound, Reference
  <2>2. CASE bound' # bound
    <3>1. pidTable[pid[r]] \in Objects /\ life[pidTable[pid[r]]] # "unused"
      BY <1>7, <2>2 DEF LookupProcess, Unbound, Reference, IInv, IdsDenoteRunning
    <3>2. Abstract!Grant(r, pidTable[pid[r]])
      BY <1>7, <2>2, <3>1 DEF LookupProcess, Unbound, Reference, Images, Abstract!Grant
    <3> QED
      BY <3>1, <3>2 DEF Abstract!Next
  <2> QED
    BY <2>1, <2>2
<1>8. ASSUME NEW r \in Requests, QueryObject(r)
      PROVE  [Abstract!Next]_(Abstract!vars)
  BY <1>8 DEF QueryObject, AllRights
<1>9. ASSUME NEW r \in Requests, ReferenceObject(r)
      PROVE  [Abstract!Next]_(Abstract!vars)
  BY <1>9 DEF ReferenceObject, Reference
<1>10. ASSUME NEW r \in Requests, CloseHandle(r)
      PROVE  [Abstract!Next]_(Abstract!vars)
  BY <1>10 DEF CloseHandle, AfterClose
<1>11. ASSUME NEW r \in Requests, LocateImage(r)
      PROVE  [Abstract!Next]_(Abstract!vars)
  <2>1. CASE bound' = bound
    BY <1>11, <2>1 DEF LocateImage, IsDarkEden, Dereference
  <2>2. CASE bound' # bound
    <3>1. /\ process[r] \in Objects /\ bound[r] = None /\ life[process[r]] # "unused"
          /\ kind[r] # "legacy" => RequestedAccess(kind[r]) \subseteq granted[r]
      BY <1>11, <1>h, <1>f DEF LocateImage, IsDarkEden, Dereference, HoldingsFollowProgress, NoUseAfterFree
    <3>2. Abstract!Grant(r, process[r])
      BY <1>11, <2>2, <3>1 DEF LocateImage, IsDarkEden, Dereference, Images, Abstract!Grant
    <3> QED
      BY <3>1, <3>2 DEF Abstract!Next
  <2> QED
    BY <2>1, <2>2
<1>12. ASSUME NEW r \in Requests, ResolveImageOffset(r)
      PROVE  [Abstract!Next]_(Abstract!vars)
  BY <1>12 DEF ResolveImageOffset
<1>13. ASSUME NEW r \in Requests, NEW p \in Pids, InitializeAgain(r, p)
      PROVE  [Abstract!Next]_(Abstract!vars)
  BY <1>13 DEF InitializeAgain
<1>14. ASSUME NEW r \in Requests, RejectRange(r)
      PROVE  [Abstract!Next]_(Abstract!vars)
  BY <1>14 DEF RejectRange
<1>15. ASSUME NEW r \in Requests, Attach(r)
      PROVE  [Abstract!Next]_(Abstract!vars)
  <2>1. bound[r] # None /\ attached[r] = None
    BY <1>15, <1>h DEF Attach, HoldingsFollowProgress
  <2>2. Abstract!Touch(r)
    BY <1>15, <2>1 DEF Attach, Abstract!Touch
  <2> QED
    BY <2>2 DEF Abstract!Next
<1>16. ASSUME NEW r \in Requests, TouchMemory(r)
      PROVE  [Abstract!Next]_(Abstract!vars)
  BY <1>16 DEF TouchMemory
<1>17. ASSUME NEW r \in Requests, Detach(r)
      PROVE  [Abstract!Next]_(Abstract!vars)
  <2>1. attached[r] # None
    BY <1>17, <1>h DEF Detach, HoldingsFollowProgress
  <2>2. Abstract!Leave(r)
    BY <1>17, <2>1 DEF Detach, Abstract!Leave
  <2> QED
    BY <2>2 DEF Abstract!Next
<1>18. ASSUME NEW r \in Requests, Return(r)
      PROVE  [Abstract!Next]_(Abstract!vars)
  BY <1>18 DEF Return
<1>19. ASSUME NEW r \in Requests, Destroy(r)
      PROVE  [Abstract!Next]_(Abstract!vars)
  <2>1. attached[r] = None
    BY <1>19, <1>h DEF Destroy, Dereference, HoldingsFollowProgress
  <2>2. Abstract!GiveBack(r)
    BY <1>19, <2>1 DEF Destroy, Dereference, Abstract!GiveBack, Abstract!OthersUnchanged
  <2> QED
    BY <2>2 DEF Abstract!Next
<1>20. CASE UNCHANGED vars
  BY <1>20 DEF vars
<1> HIDE DEF TypeOK, Goto, program
<1> QED
  BY <1>1, <1>2, <1>3, <1>4, <1>5, <1>6, <1>7, <1>8, <1>9, <1>10,
     <1>11, <1>12, <1>13, <1>14, <1>15, <1>16, <1>17, <1>18, <1>19, <1>20 DEF Next, Kernel, Step

\* The reader implements AccessGrant.
THEOREM Implementation == Spec => ImplementsAccessGrant
<1>1. Init => Abstract!Init
  BY DEF Init, Abstract!Init, program
<1> QED
  BY <1>1, RefinementStep, Invariance, PTL DEF Spec, ImplementsAccessGrant, Abstract!Spec

=============================================================================
