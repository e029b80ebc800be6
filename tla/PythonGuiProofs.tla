--------------------------- MODULE PythonGuiProofs ---------------------------
(***************************************************************************)
(* The safety properties of PythonGui, for any set of process ids and any  *)
(* number of kinds of value.                                               *)
(*                                                                         *)
(* The Tk thread takes no event while it reads values, so what is shown so *)
(* far is of the process chosen now (ReadingIsOfChosen).  A worker reports *)
(* once (OneCallbackEach), which bounds the queue.                         *)
(***************************************************************************)
EXTENDS PythonGui, FiniteSetTheorems, TLAPS

\* TypeOK without its bound on the queue, which follows from OneCallbackEach.
Types ==
  /\ running \subseteq Pids /\ labels \subseteq Pids
  /\ pid \in Pids \cup {None} /\ rows \in Pids \cup {None}
  /\ values \subseteq Pids /\ reading \in 0..Kinds
  /\ enabled \in [Jobs -> BOOLEAN] /\ answer \in [Jobs -> BOOLEAN]
  /\ worker \in [Jobs -> Pids \cup {None, "idle"}]
  /\ callbacks \in Seq(Jobs)
  /\ open \in BOOLEAN /\ byHand \in BOOLEAN

OneCallbackEach == \A k, l \in DOMAIN callbacks : callbacks[k] = callbacks[l] => k = l

ReadingIsOfChosen ==
  /\ \A p, q \in values : p = q
  /\ reading > 0 => values \subseteq {pid}

Invariant == Types /\ OneCallbackEach /\ RowsOfChosenProcess /\ ReadingIsOfChosen

-----------------------------------------------------------------------------
LEMMA InitHolds == Init => Invariant
<1> SUFFICES ASSUME Init PROVE Invariant
  OBVIOUS
<1>1. Types
  <2>1. /\ enabled \in [Jobs -> BOOLEAN] /\ answer \in [Jobs -> BOOLEAN]
        /\ worker \in [Jobs -> Pids \cup {None, "idle"}]
        /\ callbacks \in Seq(Jobs)
    BY DEF Init
  <2>2. reading \in 0..Kinds
    BY PythonGuiAssumption DEF PythonGuiAssumption, Init
  <2> QED
    BY <2>1, <2>2 DEF Init, Types
<1>2. OneCallbackEach
  BY DEF Init, OneCallbackEach
<1>3. RowsOfChosenProcess /\ ReadingIsOfChosen
  BY DEF Init, RowsOfChosenProcess, ReadingIsOfChosen
<1> QED
  BY <1>1, <1>2, <1>3 DEF Invariant

\* What a callback takes from the queue and from its thread.
LEMMA Dispatched ==
  ASSUME Types, OneCallbackEach, NEW j \in Jobs, Dispatch(j)
  PROVE  /\ callbacks' \in Seq(Jobs) /\ OneCallbackEach'
         /\ worker' \in [Jobs -> Pids \cup {None, "idle"}]
         /\ answer' \in [Jobs -> BOOLEAN]
<1>1. callbacks \in Seq(Jobs) /\ callbacks # <<>> /\ callbacks' = Tail(callbacks)
  BY DEF Types, Dispatch
<1>2. callbacks' \in Seq(Jobs) /\ Len(callbacks') = Len(callbacks) - 1
  BY <1>1
<1>3. \A k \in 1..Len(callbacks') : callbacks'[k] = callbacks[k + 1]
  BY <1>1
<1>4. OneCallbackEach'
  BY <1>1, <1>2, <1>3 DEF OneCallbackEach
<1> QED
  BY <1>2, <1>4 DEF Types, Dispatch

\* What the end of a worker does to them: its callback is not in the queue yet.
LEMMA Ended ==
  ASSUME Types, OneCallbackEach, NEW j \in Jobs, WorkerEnds(j)
  PROVE  /\ callbacks' \in Seq(Jobs) /\ OneCallbackEach'
         /\ worker' \in [Jobs -> Pids \cup {None, "idle"}]
         /\ answer' \in [Jobs -> BOOLEAN]
<1>1. CASE open
  <2>1. callbacks \in Seq(Jobs) /\ callbacks' = Append(callbacks, j)
    BY <1>1 DEF Types, WorkerEnds
  <2>2. \A k \in DOMAIN callbacks : callbacks[k] # j
    BY DEF WorkerEnds, Working
  <2>3. /\ callbacks' \in Seq(Jobs) /\ Len(callbacks') = Len(callbacks) + 1
        /\ callbacks'[Len(callbacks) + 1] = j
        /\ \A k \in 1..Len(callbacks) : callbacks'[k] = callbacks[k]
    BY <2>1
  <2>4. OneCallbackEach'
    BY <2>1, <2>2, <2>3 DEF OneCallbackEach
  <2> QED
    BY <1>1, <2>3, <2>4 DEF Types, WorkerEnds
<1>2. CASE ~ open
  BY <1>2 DEF Types, OneCallbackEach, WorkerEnds
<1> QED
  BY <1>1, <1>2

LEMMA QueueStep ==
  Invariant /\ [Next]_vars => /\ callbacks' \in Seq(Jobs) /\ OneCallbackEach'
                              /\ worker' \in [Jobs -> Pids \cup {None, "idle"}]
                              /\ answer' \in [Jobs -> BOOLEAN]
<1> DEFINE Sound == /\ callbacks \in Seq(Jobs) /\ OneCallbackEach
                    /\ worker \in [Jobs -> Pids \cup {None, "idle"}]
                    /\ answer \in [Jobs -> BOOLEAN]
<1> SUFFICES ASSUME Invariant, [Next]_vars PROVE Sound'
  OBVIOUS
<1>1. Sound /\ Types /\ OneCallbackEach
  BY DEF Invariant, Types
<1>2. CASE UNCHANGED <<callbacks, worker, answer>>
  BY <1>1, <1>2 DEF OneCallbackEach
<1>3. CASE Callback
  BY <1>1, <1>3, Dispatched DEF Callback, DriverStarted, NearbyLoaded, TargetSelected, Jobs
<1>4. ASSUME NEW j \in Jobs, WorkerEnds(j)
      PROVE  Sound'
  BY <1>1, <1>4, Ended
<1>5. CASE StartDriver \/ RefreshNearby \/ SelectNearby
  <2>1. PICK j \in Jobs, p \in Pids \cup {None} : Begin(j, p)
    BY <1>1, <1>5 DEF StartDriver, RefreshNearby, SelectNearby, Jobs, Types
  <2> QED
    BY <1>1, <2>1 DEF Begin, OneCallbackEach
<1> QED
  <2>1. ASSUME NEW p \in Pids, StartGame(p) \/ ExitGame(p) \/ ChooseProcess(p)
        PROVE  UNCHANGED <<callbacks, worker, answer>>
    BY <2>1 DEF StartGame, ExitGame, ChooseProcess, threadVars
  <2>2. RefreshProcesses \/ ReadAll \/ ReadNext \/ Close => UNCHANGED <<callbacks, worker, answer>>
    BY DEF RefreshProcesses, ReadAll, ReadNext, Close, threadVars
  <2>3. UNCHANGED vars => UNCHANGED <<callbacks, worker, answer>>
    BY DEF vars
  <2> QED
    BY <1>2, <1>3, <1>4, <1>5, <2>1, <2>2, <2>3 DEF Next

\* What the window shows, and of which process.
LEMMA WindowStep ==
  Invariant /\ [Next]_vars => /\ running' \subseteq Pids /\ labels' \subseteq Pids
                              /\ pid' \in Pids \cup {None} /\ rows' \in Pids \cup {None}
                              /\ values' \subseteq Pids /\ reading' \in 0..Kinds
                              /\ enabled' \in [Jobs -> BOOLEAN]
                              /\ open' \in BOOLEAN /\ byHand' \in BOOLEAN
                              /\ RowsOfChosenProcess' /\ ReadingIsOfChosen'
<1> DEFINE Sound == /\ running \subseteq Pids /\ labels \subseteq Pids
                    /\ pid \in Pids \cup {None} /\ rows \in Pids \cup {None}
                    /\ values \subseteq Pids /\ reading \in 0..Kinds
                    /\ enabled \in [Jobs -> BOOLEAN]
                    /\ open \in BOOLEAN /\ byHand \in BOOLEAN
                    /\ RowsOfChosenProcess /\ ReadingIsOfChosen
<1> SUFFICES ASSUME Invariant, [Next]_vars PROVE Sound'
  OBVIOUS
<1>t. Types /\ RowsOfChosenProcess /\ ReadingIsOfChosen
  BY DEF Invariant
<1> USE <1>t, PythonGuiAssumption DEF PythonGuiAssumption, Types, RowsOfChosenProcess,
        ReadingIsOfChosen, readVars, threadVars
<1>1. ASSUME NEW p \in Pids, StartGame(p) \/ ExitGame(p) \/ ChooseProcess(p)
      PROVE  Sound'
  <2>1. CASE StartGame(p)
    BY <2>1 DEF StartGame
  <2>2. CASE ExitGame(p)
    BY <2>2 DEF ExitGame
  <2>3. CASE ChooseProcess(p)
    BY <2>3 DEF ChooseProcess, Idle
  <2> QED
    BY <1>1, <2>1, <2>2, <2>3
<1>2. CASE RefreshProcesses
  <2>1. PICK listed \in Listings :
          /\ labels' = listed
          /\ IF pid \in listed
               THEN UNCHANGED <<pid, rows, byHand>>
               ELSE pid' \in NewChoice(listed) /\ rows' = None /\ byHand' = FALSE
    BY <1>2 DEF RefreshProcesses
  <2>2. listed \subseteq Pids
    BY <2>1 DEF Listings
  <2>3. NewChoice(listed) \subseteq Pids \cup {None}
    BY <2>2 DEF NewChoice
  <2>4. reading = 0 /\ UNCHANGED <<running, threadVars, open, readVars>>
    BY <1>2 DEF RefreshProcesses, Idle
  <2>5. CASE pid \in listed
    BY <2>1, <2>2, <2>4, <2>5
  <2>6. CASE pid \notin listed
    <3>1. pid' \in Pids \cup {None} /\ rows' = None /\ labels' \subseteq Pids
      BY <2>1, <2>2, <2>3, <2>6
    <3>2. byHand' \in BOOLEAN
      BY <2>1, <2>6
    <3>3. reading' = 0 /\ values' = values
      BY <2>4
    <3>4. RowsOfChosenProcess' /\ ReadingIsOfChosen'
      BY <3>1, <3>3
    <3> QED
      BY <2>4, <3>1, <3>2, <3>3, <3>4
  <2> QED
    BY <2>5, <2>6
<1>3. CASE StartDriver \/ RefreshNearby \/ SelectNearby
  <2>1. PICK j \in Jobs, p \in Pids \cup {None} : Begin(j, p)
    BY <1>3 DEF StartDriver, RefreshNearby, SelectNearby, Jobs
  <2> QED
    BY <2>1 DEF Begin
<1>4. CASE DriverStarted \/ TargetSelected
  BY <1>4 DEF DriverStarted, TargetSelected, Dispatch, Enable
<1>5. CASE NearbyLoaded
  BY <1>5 DEF NearbyLoaded, Dispatch, Enable, ForChosen
<1>6. CASE ReadAll
  BY <1>6 DEF ReadAll, Idle
<1>7. CASE ReadNext
  <2>1. reading' \in 0..Kinds /\ values' \subseteq {pid} \cap Pids
    BY <1>7 DEF ReadNext
  <2> QED
    BY <1>7, <2>1 DEF ReadNext
<1>8. CASE Close
  BY <1>8 DEF Close, Idle
<1>9. ASSUME NEW j \in Jobs, WorkerEnds(j)
      PROVE  Sound'
  BY <1>9 DEF WorkerEnds
<1>10. CASE UNCHANGED vars
  BY <1>10 DEF vars
<1> QED
  BY <1>1, <1>2, <1>3, <1>4, <1>5, <1>6, <1>7, <1>8, <1>9, <1>10 DEF Next, Callback

-----------------------------------------------------------------------------
\* The inductive invariant holds in every reachable state.
THEOREM Invariance == Spec => []Invariant
<1>1. Invariant /\ [Next]_vars => Invariant'
  BY QueueStep, WindowStep DEF Invariant, Types
<1> QED
  BY InitHolds, <1>1, PTL DEF Spec

\* Types are kept, and the queue of the Tk thread never holds more callbacks than there
\* are buttons: a worker reports once.
THEOREM TypeCorrect == Spec => []TypeOK
<1>1. Invariant => TypeOK
  <2> SUFFICES ASSUME Invariant PROVE TypeOK
    OBVIOUS
  <2>1. IsFiniteSet(Jobs)
    <3>1. IsFiniteSet({"driver"})
      BY FS_Singleton
    <3>2. IsFiniteSet({"driver"} \cup {"nearby"})
      BY <3>1, FS_AddElement
    <3>3. IsFiniteSet(({"driver"} \cup {"nearby"}) \cup {"select"})
      BY <3>2, FS_AddElement
    <3>4. Jobs = ({"driver"} \cup {"nearby"}) \cup {"select"}
      BY DEF Jobs
    <3> QED
      BY <3>3, <3>4
  <2>2. callbacks \in Injection(1..Len(callbacks), Jobs)
    BY DEF Invariant, Types, OneCallbackEach, Injection, IsInjective
  <2>3. Len(callbacks) \in Nat
    BY DEF Invariant, Types
  <2>4. Cardinality(1..Len(callbacks)) = Len(callbacks)
    BY <2>3, FS_Interval
  <2>5. Cardinality(1..Len(callbacks)) <= Cardinality(Jobs)
    BY <2>1, <2>2, FS_Injection
  <2> QED
    BY <2>4, <2>5 DEF Invariant, Types, TypeOK
<1> QED
  BY Invariance, <1>1, PTL

\* Neither the poll nor a late answer puts one game's characters beside another's id.
THEOREM RowsBelong == Spec => []RowsOfChosenProcess
<1>1. Invariant => RowsOfChosenProcess
  BY DEF Invariant
<1> QED
  BY Invariance, <1>1, PTL

\* The values on the window are of one process, though each is read by a request of its
\* own and the choice may change at any event.
THEOREM ValuesBelong == Spec => []ValuesOfOneReading
<1>1. Invariant => ValuesOfOneReading
  <2> SUFFICES ASSUME Invariant PROVE Cardinality(values) <= 1
    BY DEF ValuesOfOneReading
  <2>1. CASE values = {}
    BY <2>1, FS_EmptySet
  <2>2. CASE values # {}
    <3>1. PICK p : p \in values
      BY <2>2
    <3>2. values = {p}
      BY <3>1 DEF Invariant, ReadingIsOfChosen
    <3>3. Cardinality({p}) = 1
      BY FS_Singleton
    <3> QED
      BY <3>2, <3>3
  <2> QED
    BY <2>1, <2>2
<1> QED
  BY Invariance, <1>1, PTL
=============================================================================
