---------------------------- MODULE KernelReader ----------------------------
(***************************************************************************)
(* KernelProcessMemoryReader: how a request of the driver gets hold of the *)
(* game process, touches its memory and lets go of it again.               *)
(*                                                                         *)
(* Several requests run at once, each on a reader of its own, against the  *)
(* objects of the Windows kernel: processes start and exit at any moment,  *)
(* process ids are reused, and an object that nobody references is freed   *)
(* and its memory reused for another process.  One action is one call the  *)
(* reader makes into the kernel.                                           *)
(***************************************************************************)
EXTENDS Integers, FiniteSets

CONSTANTS
  Requests,  \* requests (driver threads) that may run at the same time
  Objects,   \* addresses a process object (EPROCESS) can have
  Pids,      \* process ids
  None,      \* the null handle, pointer and process id
  MaxOps     \* bound on the memory operations of one request

ASSUME KernelReaderAssumption ==
  /\ IsFiniteSet(Requests)
  /\ None \notin Objects
  /\ None \notin Pids
  /\ MaxOps \in Nat

VARIABLES
  life,          \* [Objects -> Life], what the kernel keeps at an address
  image,         \* name of the program each process runs
  pidTable,      \* the process a process id denotes now
  handleCount,   \* open handles to each object
  pointerCount,  \* counted references to each object
  pc,            \* where each request is
  kind,          \* which entry point it runs
  pid,           \* the process id it was given
  handle,        \* processHandle: the object it refers to
  granted,       \* info.GrantedAccess of that handle (kept as history)
  process,       \* the local PEPROCESS of InitializeForRequest
  bound,         \* the member process_
  attached,      \* the address space the thread is attached to
  budget,        \* memory operations it may still make
  status         \* status of its last call

kernelVars  == <<life, image, pidTable>>
countVars   == <<handleCount, pointerCount>>
callVars    == <<kind, pid>>
holdVars    == <<handle, process, bound, attached>>
vars == <<life, image, pidTable, handleCount, pointerCount, pc, kind, pid,
          handle, granted, process, bound, attached, budget, status>>

Life   == {"unused", "running", "exited"}
Images == {"darkeden.exe", "other.exe"}
Kinds  == {"read", "select", "legacy"}
Points == {"idle", "initialize", "query", "reference", "close", "image",
           "resolve", "ready", "copy", "write", "detach", "destroy"}
Statuses == {"PENDING", "SUCCESS", "INVALID_DEVICE_STATE", "INVALID_PARAMETER",
             "OPEN_FAILED", "QUERY_FAILED", "INFO_LENGTH_MISMATCH",
             "ACCESS_DENIED", "REFERENCE_FAILED", "NAME_FAILED",
             "OBJECT_NAME_INVALID", "INTEGER_OVERFLOW", "FAULT",
             "PARTIAL_COPY"}

ReadRights  == {"VM_READ", "QUERY_LIMITED_INFORMATION"}
WriteRights == {"VM_WRITE", "VM_OPERATION"}
RequestedAccess(k) ==
  IF k = "select" THEN ReadRights \cup WriteRights ELSE ReadRights

Init ==
  /\ life = [o \in Objects |-> "unused"]
  /\ image = [o \in Objects |-> "other.exe"]
  /\ pidTable = [p \in Pids |-> None]
  /\ handleCount = [o \in Objects |-> 0]
  /\ pointerCount = [o \in Objects |-> 0]
  /\ pc = [r \in Requests |-> "idle"]
  /\ kind = [r \in Requests |-> "read"]
  /\ pid = [r \in Requests |-> None]
  /\ handle = [r \in Requests |-> None]
  /\ granted = [r \in Requests |-> {}]
  /\ process = [r \in Requests |-> None]
  /\ bound = [r \in Requests |-> None]
  /\ attached = [r \in Requests |-> None]
  /\ budget = [r \in Requests |-> 0]
  /\ status = [r \in Requests |-> "PENDING"]

-----------------------------------------------------------------------------
(***************************************************************************)
(* The kernel around the reader.                                           *)
(***************************************************************************)

StartProcess(o, p, name) ==
  /\ life[o] = "unused" /\ pidTable[p] = None
  /\ life' = [life EXCEPT ![o] = "running"]
  /\ image' = [image EXCEPT ![o] = name]
  /\ pidTable' = [pidTable EXCEPT ![p] = o]
  /\ UNCHANGED <<countVars, pc, callVars, holdVars, granted, budget, status>>

\* The id is free at once: nothing here relies on Windows keeping it while the
\* object is referenced.
ExitProcess(o) ==
  /\ life[o] = "running"
  /\ life' = [life EXCEPT ![o] = "exited"]
  /\ pidTable' = [p \in Pids |-> IF pidTable[p] = o THEN None ELSE pidTable[p]]
  /\ UNCHANGED <<image, countVars, pc, callVars, holdVars, granted, budget, status>>

FreeObject(o) ==
  /\ life[o] = "exited" /\ handleCount[o] = 0 /\ pointerCount[o] = 0
  /\ life' = [life EXCEPT ![o] = "unused"]
  /\ image' = [image EXCEPT ![o] = "other.exe"]
  /\ UNCHANGED <<pidTable, countVars, pc, callVars, holdVars, granted,
                 budget, status>>

-----------------------------------------------------------------------------
(***************************************************************************)
(* A request.                                                              *)
(***************************************************************************)

Goto(r, from, to) ==
  /\ pc[r] = from
  /\ pc' = [pc EXCEPT ![r] = to]

Report(r, s) == status' = [status EXCEPT ![r] = s]

\* A reference that is never given back; a pointer used without a reference.
DropReference(o) == UNCHANGED pointerCount
BorrowReference(o) == UNCHANGED pointerCount

Reference(o)   == pointerCount' = [pointerCount EXCEPT ![o] = @ + 1]
Dereference(o) == pointerCount' = [pointerCount EXCEPT ![o] = @ - 1]

\* Only an unbound reader can be initialized.
Unbound(r) == bound[r] = None

\* An entry point of Example.cpp constructs a reader for the process id it got.
Call(r, k, p) ==
  /\ Goto(r, "idle", "initialize")
  /\ kind' = [kind EXCEPT ![r] = k]
  /\ pid' = [pid EXCEPT ![r] = p]
  /\ budget' = [budget EXCEPT ![r] = MaxOps]
  /\ Report(r, "PENDING")
  /\ UNCHANGED <<kernelVars, countVars, holdVars, granted>>

\* A reader that is bound, or is given no process id, does not initialize.
RefuseInitialize(r) ==
  /\ bound[r] # None \/ pid[r] = None
  /\ Goto(r, "initialize", IF bound[r] = None THEN "destroy" ELSE "ready")
  /\ Report(r, IF bound[r] = None THEN "INVALID_PARAMETER"
                                  ELSE "INVALID_DEVICE_STATE")
  /\ UNCHANGED <<kernelVars, countVars, callVars, holdVars, granted, budget>>

\* ZwOpenProcess: it fails, or returns a handle that may have fewer rights than
\* were asked for.
OpenProcess(r) ==
  /\ kind[r] # "legacy" /\ Unbound(r) /\ pid[r] # None
  /\ \/ /\ Goto(r, "initialize", "destroy")
        /\ Report(r, "OPEN_FAILED")
        /\ UNCHANGED <<handle, granted, handleCount>>
     \/ /\ Goto(r, "initialize", "query")
        /\ pidTable[pid[r]] # None
        /\ handle' = [handle EXCEPT ![r] = pidTable[pid[r]]]
        /\ handleCount' = [handleCount EXCEPT ![pidTable[pid[r]]] = @ + 1]
        /\ \E rights \in SUBSET RequestedAccess(kind[r]) :
             granted' = [granted EXCEPT ![r] = rights]
        /\ Report(r, "SUCCESS")
  /\ UNCHANGED <<kernelVars, pointerCount, callVars, process, bound, attached,
                 budget>>

\* Initialize: PsLookupProcessByProcessId finds and references in one call.
LookupProcess(r) ==
  /\ kind[r] = "legacy" /\ Unbound(r) /\ pid[r] # None
  /\ \/ /\ Goto(r, "initialize", "destroy")
        /\ Report(r, "OPEN_FAILED")
        /\ UNCHANGED <<bound, pointerCount>>
     \/ /\ Goto(r, "initialize", "ready")
        /\ pidTable[pid[r]] # None
        /\ bound' = [bound EXCEPT ![r] = pidTable[pid[r]]]
        /\ Reference(pidTable[pid[r]])
        /\ Report(r, "SUCCESS")
  /\ UNCHANGED <<kernelVars, handleCount, callVars, handle, process, attached,
                 granted, budget>>

\* The mask of the handle holds every right that was asked for; the variant tests for
\* any of them.
SomeRights(r) == RequestedAccess(kind[r]) \cap granted[r] # {}
AllRights(r)  == RequestedAccess(kind[r]) \subseteq granted[r]

\* ZwQueryObject: the rights of the handle are checked before it is used.
QueryObject(r) ==
  /\ \/ /\ Goto(r, "query", "close")
        /\ \E s \in {"QUERY_FAILED", "INFO_LENGTH_MISMATCH"} : Report(r, s)
     \/ /\ Goto(r, "query", "reference")
        /\ AllRights(r)
        /\ Report(r, "SUCCESS")
     \/ /\ Goto(r, "query", "close")
        /\ ~ AllRights(r)
        /\ Report(r, "ACCESS_DENIED")
  /\ UNCHANGED <<kernelVars, countVars, callVars, holdVars, granted, budget>>

ReferenceObject(r) ==
  /\ Goto(r, "reference", "close")
  /\ \/ /\ process' = [process EXCEPT ![r] = handle[r]]
        /\ Reference(handle[r])
        /\ Report(r, "SUCCESS")
     \/ /\ Report(r, "REFERENCE_FAILED")
        /\ UNCHANGED <<process, pointerCount>>
  /\ UNCHANGED <<kernelVars, handleCount, callVars, handle, bound, attached,
                 granted, budget>>

AfterClose(r) == IF status[r] = "SUCCESS" THEN "image" ELSE "destroy"

\* ZwClose runs whatever happened; only a success goes on.
CloseHandle(r) ==
  /\ Goto(r, "close", AfterClose(r))
  /\ handleCount' = [handleCount EXCEPT ![handle[r]] = @ - 1]
  /\ handle' = [handle EXCEPT ![r] = None]
  /\ UNCHANGED <<kernelVars, pointerCount, callVars, process, bound, attached,
                 granted, budget, status>>

\* The program the object runs; the variant does not check it.
AnyProgram(r)  == TRUE
IsDarkEden(r) == image[process[r]] = "darkeden.exe"

\* The image name is that of the referenced object, not of the process id.
LocateImage(r) ==
  /\ \/ /\ Goto(r, "image", "resolve")
        /\ IsDarkEden(r)
        /\ bound' = [bound EXCEPT ![r] = process[r]]
        /\ Report(r, "SUCCESS")
        /\ UNCHANGED pointerCount
     \/ /\ Goto(r, "image", "destroy")
        /\ Dereference(process[r])
        /\ \/ Report(r, "NAME_FAILED")
           \/ ~ IsDarkEden(r) /\ Report(r, "OBJECT_NAME_INVALID")
        /\ UNCHANGED bound
  /\ process' = [process EXCEPT ![r] = None]
  /\ UNCHANGED <<kernelVars, handleCount, callVars, handle, attached, granted,
                 budget>>

ResolveImageOffset(r) ==
  /\ \/ Goto(r, "resolve", "ready") /\ Report(r, "SUCCESS")
     \/ Goto(r, "resolve", "destroy") /\ Report(r, "INTEGER_OVERFLOW")
  /\ UNCHANGED <<kernelVars, countVars, callVars, holdVars, granted, budget>>

Spend(r) ==
  /\ budget[r] > 0
  /\ budget' = [budget EXCEPT ![r] = @ - 1]

\* A reader may be asked to initialize again, for another process id.
InitializeAgain(r, p) ==
  /\ Goto(r, "ready", "initialize")
  /\ Spend(r)
  /\ pid' = [pid EXCEPT ![r] = p]
  /\ UNCHANGED <<kernelVars, countVars, kind, holdVars, granted, status>>

\* An address outside the user range: no memory is touched.  The caller returns
\* or, where it tolerates a failed read, goes on.
RejectRange(r) ==
  /\ \/ Goto(r, "ready", "ready")
     \/ Goto(r, "ready", "destroy")
  /\ Spend(r)
  /\ Report(r, "INVALID_PARAMETER")
  /\ UNCHANGED <<kernelVars, countVars, callVars, holdVars, granted>>

\* KeStackAttachProcess of CopyValue or, in a select request, of WriteUInt32.
Attach(r) ==
  /\ \/ Goto(r, "ready", "copy")
     \/ kind[r] = "select" /\ Goto(r, "ready", "write")
  /\ Spend(r)
  /\ attached' = [attached EXCEPT ![r] = bound[r]]
  /\ UNCHANGED <<kernelVars, countVars, callVars, handle, process, bound,
                 granted, status>>

\* A variant in which an exception leaves the function before the thread is detached.
TouchMemoryUnwinding(r) ==
  /\ \/ Goto(r, "copy", "detach") /\ Report(r, "PARTIAL_COPY")
     \/ Goto(r, "copy", "destroy") /\ Report(r, "FAULT")
     \/ /\ Goto(r, "copy", "detach") \/ Goto(r, "write", "detach")
        /\ life[attached[r]] = "running" /\ Report(r, "SUCCESS")
  /\ UNCHANGED <<kernelVars, countVars, callVars, holdVars, granted, budget>>

\* MmCopyMemory, or ProbeForWrite and the exchange.  The memory of a process
\* that has exited is gone, and a fault is caught.
TouchMemory(r) ==
  /\ \/ Goto(r, "copy", "detach") /\ Report(r, "PARTIAL_COPY")
     \/ /\ Goto(r, "copy", "detach") \/ Goto(r, "write", "detach")
        /\ \/ Report(r, "FAULT")
           \/ life[attached[r]] = "running" /\ Report(r, "SUCCESS")
  /\ UNCHANGED <<kernelVars, countVars, callVars, holdVars, granted, budget>>

\* KeUnstackDetachProcess, on the normal path and on the exceptional one.
Detach(r) ==
  /\ \/ Goto(r, "detach", "ready")
     \/ status[r] # "SUCCESS" /\ Goto(r, "detach", "destroy")
  /\ attached' = [attached EXCEPT ![r] = None]
  /\ UNCHANGED <<kernelVars, countVars, callVars, handle, process, bound,
                 granted, budget, status>>

\* The entry point has what it wants.
Return(r) ==
  /\ Goto(r, "ready", "destroy")
  /\ UNCHANGED <<kernelVars, countVars, callVars, holdVars, granted, budget,
                 status>>

\* The destructor, on every path out of the entry point.  The locals go with
\* the call, and the status has been reported.
Destroy(r) ==
  /\ Goto(r, "destroy", "idle")
  /\ IF bound[r] # None
       THEN /\ Dereference(bound[r])
            /\ bound' = [bound EXCEPT ![r] = None]
       ELSE UNCHANGED <<pointerCount, bound>>
  /\ kind' = [kind EXCEPT ![r] = "read"]
  /\ pid' = [pid EXCEPT ![r] = None]
  /\ granted' = [granted EXCEPT ![r] = {}]
  /\ budget' = [budget EXCEPT ![r] = 0]
  /\ Report(r, "PENDING")
  /\ UNCHANGED <<kernelVars, handleCount, handle, process, attached>>

-----------------------------------------------------------------------------
Kernel ==
  \/ \E o \in Objects, p \in Pids, name \in Images : StartProcess(o, p, name)
  \/ \E o \in Objects : ExitProcess(o) \/ FreeObject(o)

Step(r) ==
  \/ RefuseInitialize(r)
  \/ OpenProcess(r)
  \/ LookupProcess(r)
  \/ QueryObject(r)
  \/ ReferenceObject(r)
  \/ CloseHandle(r)
  \/ LocateImage(r)
  \/ ResolveImageOffset(r)
  \/ \E p \in Pids : InitializeAgain(r, p)
  \/ RejectRange(r)
  \/ Attach(r)
  \/ TouchMemory(r)
  \/ Detach(r)
  \/ Return(r)
  \/ Destroy(r)

Next ==
  \/ Kernel
  \/ \E r \in Requests :
       \/ \E k \in Kinds, p \in Pids \cup {None} : Call(r, k, p)
       \/ Step(r)

Spec == Init /\ [][Next]_vars

\* A driver thread inside a request keeps running, and the kernel frees an
\* object nobody references.  Nobody has to start or end a process, or to ask.
FairSpec ==
  /\ Spec
  /\ \A r \in Requests : WF_vars(Step(r))
  /\ \A o \in Objects : WF_vars(FreeObject(o))

-----------------------------------------------------------------------------
(***************************************************************************)
(* Properties.                                                             *)
(***************************************************************************)

\* Every variable has its type; in particular no count of the kernel is ever
\* taken below zero.
TypeOK ==
  /\ life \in [Objects -> Life]
  /\ image \in [Objects -> Images]
  /\ pidTable \in [Pids -> Objects \cup {None}]
  /\ handleCount \in [Objects -> Nat]
  /\ pointerCount \in [Objects -> Nat]
  /\ pc \in [Requests -> Points]
  /\ kind \in [Requests -> Kinds]
  /\ pid \in [Requests -> Pids \cup {None}]
  /\ handle \in [Requests -> Objects \cup {None}]
  /\ granted \in [Requests -> SUBSET (ReadRights \cup WriteRights)]
  /\ process \in [Requests -> Objects \cup {None}]
  /\ bound \in [Requests -> Objects \cup {None}]
  /\ attached \in [Requests -> Objects \cup {None}]
  /\ budget \in [Requests -> 0..MaxOps]
  /\ status \in [Requests -> Statuses]

HandleHolders(o)  == {r \in Requests : handle[r] = o}
PointerHolders(o) == {r \in Requests : process[r] = o \/ bound[r] = o}

\* The counts of the kernel are exactly the handles and references the readers
\* hold: no path through InitializeForRequest, its seven early returns and the
\* destructor leaks one or releases one twice.
CountsMatchHolders ==
  \A o \in Objects :
    /\ handleCount[o] = Cardinality(HandleHolders(o))
    /\ pointerCount[o] = Cardinality(PointerHolders(o))

\* An object a reader still points at, or whose address space a thread is
\* attached to, has not been freed, so its address is not another process's.
NoUseAfterFree ==
  \A r \in Requests :
    \A o \in {handle[r], process[r], bound[r], attached[r]} \ {None} :
      life[o] # "unused"

\* Memory is touched on behalf of a user only in a process that runs
\* darkeden.exe, through the object the reader is bound to, and only if the
\* handle to that object carried every right the request needs.
AttachedOnlyVerified ==
  \A r \in Requests : attached[r] # None =>
    /\ attached[r] = bound[r]
    /\ kind[r] # "legacy" =>
         /\ image[attached[r]] = "darkeden.exe"
         /\ RequestedAccess(kind[r]) \subseteq granted[r]

\* When a request has returned its thread is attached to no address space and
\* holds neither a handle nor a reference.
NothingHeldAfterReturn ==
  \A r \in Requests : pc[r] = "idle" =>
    {handle[r], process[r], bound[r], attached[r]} = {None}

\* What a request holds follows from where it is (the inductive part of the
\* argument): the handle lives from the open to the close, the local reference
\* from ObReferenceObjectByHandle to the image check, the attachment around one
\* copy or write; rights are checked before the reference is taken and the image
\* before the reader is bound.
HoldingsFollowProgress ==
  \A r \in Requests :
    /\ handle[r] # None <=> pc[r] \in {"query", "reference", "close"}
    /\ process[r] # None <=>
         pc[r] = "image" \/ (pc[r] = "close" /\ status[r] = "SUCCESS")
    /\ bound[r] # None =>
         pc[r] \in {"initialize", "resolve", "ready", "copy", "write", "detach", "destroy"}
    /\ pc[r] \in {"resolve", "ready", "copy", "write", "detach"} => bound[r] # None
    /\ attached[r] = IF pc[r] \in {"copy", "write", "detach"} THEN bound[r] ELSE None
    /\ kind[r] # "legacy" /\ (pc[r] = "reference" \/ process[r] # None \/ bound[r] # None) =>
         RequestedAccess(kind[r]) \subseteq granted[r]
    /\ kind[r] # "legacy" /\ bound[r] # None => image[bound[r]] = "darkeden.exe"

\* A process id denotes a running process.
IdsDenoteRunning == \A p \in Pids : pidTable[p] # None => life[pidTable[p]] = "running"

\* The inductive invariant: each safety property above follows from it, and none
\* of them is inductive alone.
IInv ==
  /\ TypeOK
  /\ IdsDenoteRunning
  /\ CountsMatchHolders
  /\ NoUseAfterFree
  /\ HoldingsFollowProgress

\* A reader is bound once: while it is bound its object stays the same and
\* keeps its program, however process ids are reused; only the destructor ends
\* the binding.
BoundOnce ==
  [][\A r \in Requests : bound[r] # None =>
       \/ bound'[r] = bound[r] /\ image'[bound[r]] = image[bound[r]]
       \/ bound'[r] = None /\ pc'[r] = "idle"]_vars

\* Whatever the kernel answers and whenever the process exits, requests return and
\* give back what they hold, so none keeps a dead process in the kernel for ever.
ExitedProcessesAreReclaimed ==
  \A o \in Objects : life[o] = "exited" ~> life[o] = "unused"
=============================================================================
