----------------------------- MODULE PythonGui ------------------------------
(***************************************************************************)
(* The Python test GUI (python/gui.py): one Tk thread that handles the     *)
(* user's events and the process poll, a worker thread behind each of the  *)
(* three slow buttons, and the callbacks the workers hand to the Tk thread *)
(* with after(0).  Meanwhile games start and exit, the user picks another  *)
(* process in the combo box, and the window may be closed.  Reading all    *)
(* values has no worker: it holds the Tk thread from the first value to    *)
(* the last.                                                               *)
(*                                                                         *)
(* The text of the status line is left out; whether a callback's result is *)
(* shown at all is kept.                                                   *)
(***************************************************************************)
EXTENDS Integers, Sequences, FiniteSets

CONSTANTS
  Pids,   \* process ids a game can get
  Kinds,  \* how many kinds of value there are
  None    \* no process

ASSUME PythonGuiAssumption == None \notin Pids /\ Kinds \in Nat \ {0}

Jobs == {"driver", "nearby", "select"}

VARIABLES
  running,    \* process ids of games that run now
  labels,     \* the entries of process_box
  pid,        \* the entry chosen, self.pid
  rows,       \* the process whose characters nearby_tree shows
  values,     \* the processes the values shown that are no errors were read from
  reading,    \* how many values read_all has still to read
  enabled,    \* the state of the button of each job
  worker,     \* the process each worker thread works for; "idle" without a thread
  answer,     \* whether that worker succeeded
  callbacks,  \* callbacks waiting for the Tk thread, in order
  open,       \* the window exists
  byHand      \* the user chose `pid` since the rows were loaded (history)

readVars   == <<values, reading>>
vars == <<running, labels, pid, rows, readVars, enabled, worker, answer, callbacks, open, byHand>>
threadVars == <<enabled, worker, answer, callbacks>>

\* App.__init__ ends with a refresh; before it nothing is chosen.
Init ==
  /\ running \in SUBSET Pids
  /\ labels = {} /\ pid = None /\ rows = None
  /\ values = {} /\ reading = 0
  /\ enabled = [j \in Jobs |-> TRUE]
  /\ worker = [j \in Jobs |-> "idle"]
  /\ answer = [j \in Jobs |-> FALSE]
  /\ callbacks = <<>> /\ open = TRUE /\ byHand = FALSE

-----------------------------------------------------------------------------
StartGame(p) ==
  /\ p \notin running
  /\ running' = running \cup {p}
  /\ UNCHANGED <<labels, pid, rows, threadVars, open, byHand, readVars>>

ExitGame(p) ==
  /\ p \in running
  /\ running' = running \ {p}
  /\ UNCHANGED <<labels, pid, rows, threadVars, open, byHand, readVars>>

-----------------------------------------------------------------------------
(***************************************************************************)
(* The Tk thread.  An event handler runs to its end before the next one.   *)
(***************************************************************************)

\* A variant whose loop handles events between two values.
Attentive == open
\* The Tk thread takes its next event.
Idle == open /\ reading = 0

\* A variant that leaves the choice when no game is listed.
NewChoiceIfAny(listed) == IF listed = {} THEN {pid} ELSE listed
\* The first process listed, or none.
NewChoice(listed) == IF listed = {} THEN {None} ELSE listed

\* DE_ListProcesses: an enumeration that fails becomes an empty list.
Listings == {running, {}}

\* refresh_processes, from its button or from the poll.  An engine that cannot be loaded
\* leaves everything as it was.  The rows of a process that is gone go with it.
RefreshProcesses ==
  /\ Idle
  /\ \E listed \in Listings :
       /\ labels' = listed
       /\ IF pid \in listed
            THEN UNCHANGED <<pid, rows, byHand>>
            ELSE /\ pid' \in NewChoice(listed)
                 /\ rows' = None
                 /\ byHand' = FALSE
  /\ UNCHANGED <<running, threadVars, open, readVars>>

\* The combo box writes self.pid; no handler runs.
ChooseProcess(p) ==
  /\ Idle /\ p \in labels /\ p # pid
  /\ pid' = p
  /\ byHand' = TRUE
  /\ UNCHANGED <<running, labels, rows, threadVars, open, readVars>>

\* The handler of a slow button disables it and starts a thread.
Begin(j, p) ==
  /\ Idle /\ enabled[j]
  /\ enabled' = [enabled EXCEPT ![j] = FALSE]
  /\ worker' = [worker EXCEPT ![j] = p]
  /\ UNCHANGED <<running, labels, pid, rows, answer, callbacks, open, byHand, readVars>>

StartDriver   == Begin("driver", None)
RefreshNearby == pid # None /\ Begin("nearby", pid)
\* One row is selected; the request carries its id and the process chosen now.
SelectNearby  == pid # None /\ rows # None /\ Begin("select", pid)

Dispatch(j) ==
  /\ Idle /\ callbacks # <<>> /\ Head(callbacks) = j
  /\ callbacks' = Tail(callbacks)
  /\ worker' = [worker EXCEPT ![j] = "idle"]
  /\ answer' = [answer EXCEPT ![j] = FALSE]
  /\ UNCHANGED <<running, labels, pid, open, readVars>>

\* A variant that gives the button back only to an answer for the process chosen.
EnableCurrent(j) == enabled' = [enabled EXCEPT ![j] = worker[j] \in {pid, None}]
\* The button comes back first, whoever the answer is for.
Enable(j) == enabled' = [enabled EXCEPT ![j] = TRUE]

DriverStarted ==
  /\ Dispatch("driver")
  /\ Enable("driver")
  /\ UNCHANGED <<rows, byHand>>

\* A variant that shows every answer.
ForAnyone(j) == TRUE
\* An answer for a process that is no longer chosen is dropped.
ForChosen(j) == pid = worker[j]

NearbyLoaded ==
  /\ Dispatch("nearby")
  /\ Enable("nearby")
  /\ IF ForChosen("nearby") /\ answer["nearby"]
       THEN rows' = worker["nearby"] /\ byHand' = FALSE
       ELSE UNCHANGED <<rows, byHand>>

TargetSelected ==
  /\ Dispatch("select")
  /\ Enable("select")
  /\ UNCHANGED <<rows, byHand>>

\* read_all: one value after another of the process chosen, each read or an error.
\* Every value is overwritten, so those shown before are left out from the start.
ReadAll ==
  /\ Idle /\ pid # None
  /\ reading' = Kinds /\ values' = {}
  /\ UNCHANGED <<running, labels, pid, rows, threadVars, open, byHand>>

ReadNext ==
  /\ open /\ reading > 0
  /\ reading' = reading - 1
  /\ \E read \in SUBSET ({pid} \cap running) : values' = values \cup read
  /\ UNCHANGED <<running, labels, pid, rows, threadVars, open, byHand>>

\* The window goes, and what it showed.
Close ==
  /\ Idle
  /\ open' = FALSE /\ values' = {} /\ rows' = None /\ byHand' = FALSE
  /\ UNCHANGED <<running, labels, pid, reading, threadVars>>

-----------------------------------------------------------------------------
(***************************************************************************)
(* A worker thread.                                                        *)
(***************************************************************************)

\* A variant whose thread reports again.
Unfinished(j) == worker[j] # "idle"
\* The thread of a job has not handed its result over yet.
Working(j) == worker[j] # "idle" /\ \A k \in DOMAIN callbacks : callbacks[k] # j

\* The engine or the service answers, or fails, and the thread hands the result to
\* the Tk thread; after a close that fails and the thread ends.  A request for a
\* game that is gone does not succeed.
WorkerEnds(j) ==
  /\ Working(j)
  /\ \E ok \in BOOLEAN :
       /\ ok => worker[j] \in running \cup {None}
       /\ IF open
            THEN /\ callbacks' = Append(callbacks, j)
                 /\ answer' = [answer EXCEPT ![j] = ok]
                 /\ UNCHANGED worker
            ELSE /\ worker' = [worker EXCEPT ![j] = "idle"]
                 /\ UNCHANGED <<callbacks, answer>>
  /\ UNCHANGED <<running, labels, pid, rows, enabled, open, byHand, readVars>>

-----------------------------------------------------------------------------
Callback == DriverStarted \/ NearbyLoaded \/ TargetSelected

Next ==
  \/ \E p \in Pids : StartGame(p) \/ ExitGame(p) \/ ChooseProcess(p)
  \/ RefreshProcesses
  \/ StartDriver \/ RefreshNearby \/ SelectNearby
  \/ ReadAll \/ ReadNext \/ Callback \/ Close
  \/ \E j \in Jobs : WorkerEnds(j)

Spec == Init /\ [][Next]_vars

\* A reading ends and a worker's call returns: the driver ends every request.  The event
\* loop comes round to callbacks and to the poll however often the user has all values
\* read between two of them, because Tk serves its queue and its timers in order; hence
\* strong fairness.  The user and the games owe nothing.
FairSpec ==
  /\ Spec
  /\ SF_vars(Callback) /\ SF_vars(RefreshProcesses) /\ WF_vars(ReadNext)
  /\ \A j \in Jobs : WF_vars(WorkerEnds(j))

-----------------------------------------------------------------------------
(***************************************************************************)
(* Properties.                                                             *)
(***************************************************************************)

\* Every variable has its type, and each job has at most one callback waiting.
TypeOK ==
  /\ running \subseteq Pids /\ labels \subseteq Pids
  /\ pid \in Pids \cup {None} /\ rows \in Pids \cup {None}
  /\ values \subseteq Pids /\ reading \in 0..Kinds
  /\ enabled \in [Jobs -> BOOLEAN] /\ answer \in [Jobs -> BOOLEAN]
  /\ worker \in [Jobs -> Pids \cup {None, "idle"}]
  /\ callbacks \in Seq(Jobs) /\ Len(callbacks) <= Cardinality(Jobs)
  /\ open \in BOOLEAN /\ byHand \in BOOLEAN

\* The rows shown are those of the process chosen, unless the user has chosen
\* another one since: neither the poll, which switches away from a game that has
\* exited, nor an answer that arrives late puts one game's characters beside
\* another's id.
RowsOfChosenProcess == rows \notin {None, pid} => byHand

\* Values shown side by side are of one process, though the poll or the user may change
\* the choice at any time and each value is read by a request of its own.
ValuesOfOneReading == Cardinality(values) <= 1

\* A disabled button comes back unless the window is closed.
ButtonsComeBack == \A j \in Jobs : ~ enabled[j] ~> enabled[j] \/ ~ open

\* A game that has exited for good does not stay chosen.
ExitedGameIsLeft ==
  \A p \in Pids : <>[](p \notin running /\ open) => <>[](pid # p)
=============================================================================
