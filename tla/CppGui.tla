------------------------------- MODULE CppGui -------------------------------
(***************************************************************************)
(* The native GUI (gui/Main.cpp): one UI thread that handles the user's    *)
(* clicks and the Finished message, and the worker thread a read runs on.  *)
(* The two share `busy`, `job` and the std::thread object `worker`; the    *)
(* worker's last act is to post Finished to the window.                    *)
(*                                                                         *)
(* A job's answer is reduced to whether it succeeded.  The log, the status *)
(* line and the labels are left out.                                       *)
(***************************************************************************)
EXTENDS Integers, FiniteSets

CONSTANTS
  Pids,         \* process ids a game can get
  None,
  PostMayFail   \* whether PostMessageW may fail, its result is not looked at

Axes  == {"X", "Y", "Both"}
Modes == {"direct", "path32", "path64", "player"}
\* The text of the address field: not an address, one above 2^32-1, or another.
Addresses == {"bad", "wide", "narrow"}
Settings  == [pid : Pids \cup {None}, mode : Modes, address : Addresses]
Requests  == [settings : Settings, axis : Axes]
Jobs      == [settings : Settings, axis : Axes, ok : BOOLEAN]

ASSUME CppGuiAssumption == None \notin Pids \cup Jobs /\ PostMayFail \in BOOLEAN

VARIABLES
  running,     \* games that run now
  list,        \* the entries of the process combo box
  settings,    \* what the window's controls say
  shown,       \* the request whose answer each value field shows
  busy,        \* the flag; the controls are enabled when it is off
  job,         \* the Job the UI thread and the worker share
  worker,      \* the thread: "none" (not joinable), "reading", "posting", "ended"
  finished,    \* Finished is in the window's queue
  open,        \* the window exists
  terminated   \* std::terminate was called or a null job was used

vars == <<running, list, settings, shown, busy, job, worker, finished, open, terminated>>
gameVars == <<running>>
jobVars  == <<busy, job, worker, finished, terminated>>

NoValues == [x |-> None, y |-> None]

\* The window is built with player mode selected and the processes listed.
Init ==
  /\ running \in SUBSET Pids
  /\ list = running
  /\ settings \in [pid : IF running = {} THEN {None} ELSE running,
                   mode : {"player"}, address : {"narrow"}]
  /\ shown = NoValues
  /\ busy = FALSE /\ job = None /\ worker = "none"
  /\ finished = FALSE /\ open = TRUE /\ terminated = FALSE

Live == open /\ ~ terminated

-----------------------------------------------------------------------------
StartGame(p) == running' = running \cup {p} /\ running' # running
                  /\ UNCHANGED <<list, settings, shown, jobVars, open>>
ExitGame(p)  == running' = running \ {p} /\ running' # running
                  /\ UNCHANGED <<list, settings, shown, jobVars, open>>

-----------------------------------------------------------------------------
(***************************************************************************)
(* The UI thread.  A handler runs to its end before the next message.      *)
(***************************************************************************)

\* A variant without the guard.
AlwaysAccepts == Live
\* WM_COMMAND does nothing while a read is out.
Accepts == Live /\ ~ busy

\* A variant that keeps the choice whether it is listed or not.
PreviousChoice == {settings.pid}
\* The chosen process if it still runs, else the first one listed.
ListedChoice ==
  IF settings.pid \in running THEN {settings.pid}
  ELSE IF running = {} THEN {None} ELSE running

Choose(p) == [pid |-> p, mode |-> settings.mode, address |-> settings.address]

\* RefreshProcesses.  When the enumeration throws, the emptied combo box stays.
RefreshProcesses ==
  /\ Accepts
  /\ shown' = NoValues
  /\ \/ /\ list' = running
        /\ \E p \in ListedChoice : settings' = Choose(p)
     \/ /\ list' = {}
        /\ settings' = Choose(None)
  /\ UNCHANGED <<gameVars, jobVars, open>>

\* ResetValues, and a variant that forgets it.
Keep  == shown
Reset == NoValues

\* Any change of a combo box or of the address clears what is shown.
ChangeSettings ==
  /\ Accepts
  /\ \E s \in Settings :
       /\ s.pid \in list \cup {settings.pid} /\ s # settings
       /\ settings' = s
  /\ shown' = Reset
  /\ UNCHANGED <<gameVars, list, jobVars, open>>

PointerBytes(mode) == CASE mode = "direct" -> 0 [] mode = "path64" -> 8 [] OTHER -> 4

Askable ==
  /\ settings.pid # None
  /\ settings.address # "bad"
  /\ ~ (PointerBytes(settings.mode) = 4 /\ settings.address = "wide")

\* StartRead up to its refusals: the old values go even when nothing is asked.
StartRead(axis) ==
  /\ Accepts
  /\ settings.mode = "direct" => axis = "X"
  /\ shown' = Reset

RefuseRead(axis) ==
  /\ StartRead(axis)
  /\ ~ Askable
  /\ UNCHANGED <<gameVars, list, settings, jobVars, open>>

\* The job is stored, the controls are disabled and the thread object is assigned:
\* assigning to a joinable one terminates the program.
AskRead(axis) ==
  /\ StartRead(axis)
  /\ Askable
  /\ job' = [settings |-> settings, axis |-> axis, ok |-> FALSE]
  /\ busy' = TRUE
  /\ worker' = "reading"
  /\ terminated' = (worker # "none")
  /\ UNCHANGED <<gameVars, list, settings, finished, open>>

\* No thread could be created: the flag and the job are taken back.
ThreadFails(axis) ==
  /\ StartRead(axis)
  /\ Askable
  /\ job' = None
  /\ busy' = FALSE
  /\ UNCHANGED <<gameVars, list, settings, worker, finished, open, terminated>>

\* A variant that leaves the ended thread joinable.
KeepThread == worker
\* join() waits for the thread and leaves the object not joinable.
Join == "none"

ShowAnswer ==
  LET request == [settings |-> job.settings, axis |-> job.axis]
  IN  [x |-> IF job.axis # "Y" THEN request ELSE shown.x,
       y |-> IF job.axis # "X" THEN request ELSE shown.y]

\* SetBusy(false) comes before anything else; in the variant a failed read returns
\* first.
BusyUnlessShown == ~ (job # None /\ job.ok)
BusyAfterRead   == FALSE

FinishRead ==
  /\ Live /\ finished
  /\ worker \in {"none", "ended"}
  /\ finished' = FALSE
  /\ worker' = Join
  /\ busy' = BusyAfterRead
  /\ job' = None
  /\ shown' = IF job # None /\ job.ok THEN ShowAnswer ELSE shown
  /\ UNCHANGED <<gameVars, list, settings, open, terminated>>

\* WM_CLOSE is refused while a read is out.
Closable == ~ busy

Close ==
  /\ Live /\ Closable
  /\ open' = FALSE
  /\ finished' = FALSE
  /\ UNCHANGED <<gameVars, list, settings, shown, busy, job, worker, terminated>>

-----------------------------------------------------------------------------
(***************************************************************************)
(* The worker thread.                                                      *)
(***************************************************************************)

\* The driver answers, or the read fails or throws; the outcome is left in the job.
ReadEnds ==
  /\ worker = "reading" /\ ~ terminated
  /\ worker' = "posting"
  /\ IF job = None
       THEN terminated' = TRUE /\ UNCHANGED job
       ELSE /\ \E ok \in BOOLEAN :
              job' = [settings |-> job.settings, axis |-> job.axis, ok |-> ok]
            /\ UNCHANGED terminated
  /\ UNCHANGED <<gameVars, list, settings, shown, busy, finished, open>>

\* PostMessageW(window, Finished), and the thread ends.
Post ==
  /\ worker = "posting" /\ ~ terminated
  /\ worker' = "ended"
  /\ \/ finished' = open
     \/ PostMayFail /\ UNCHANGED finished
  /\ UNCHANGED <<gameVars, list, settings, shown, busy, job, open, terminated>>

-----------------------------------------------------------------------------
Next ==
  \/ \E p \in Pids : StartGame(p) \/ ExitGame(p)
  \/ RefreshProcesses \/ ChangeSettings
  \/ \E axis \in Axes : RefuseRead(axis) \/ AskRead(axis) \/ ThreadFails(axis)
  \/ FinishRead \/ Close
  \/ ReadEnds \/ Post

Spec == Init /\ [][Next]_vars

\* The message loop takes its messages, and the driver ends every request.
FairSpec == Spec /\ WF_vars(FinishRead) /\ WF_vars(ReadEnds) /\ WF_vars(Post)

-----------------------------------------------------------------------------
(***************************************************************************)
(* Properties.                                                             *)
(***************************************************************************)

\* Every variable has its type, and the process chosen is one the combo box lists.
TypeOK ==
  /\ running \subseteq Pids /\ list \subseteq Pids
  /\ settings \in Settings /\ settings.pid \in list \cup {None}
  /\ shown \in [x : Requests \cup {None}, y : Requests \cup {None}]
  /\ job \in Jobs \cup {None}
  /\ worker \in {"none", "reading", "posting", "ended"}
  /\ busy \in BOOLEAN /\ finished \in BOOLEAN
  /\ open \in BOOLEAN /\ terminated \in BOOLEAN

\* A value on the window was read with the settings the window now has.  The answer
\* comes long after the click, so this needs the settings held still meanwhile.
ShownMatchesSettings ==
  \A v \in {shown.x, shown.y} : v # None => v.settings = settings

\* Both fields show one answer, and a field whose axis was not asked shows none: no
\* value of an earlier read is left beside a new one, nor while one is out.
ShownIsOneAnswer ==
  /\ shown.x # None => shown.x.axis # "Y" /\ (shown.x.axis = "Both" => shown.y = shown.x)
  /\ shown.y # None => shown.y.axis # "X" /\ (shown.y.axis = "Both" => shown.x = shown.y)
  /\ busy => shown = NoValues

\* No thread object is assigned while joinable, and a worker never meets a job that
\* the UI thread has taken away.
NeverTerminates == ~ terminated

\* Once the thread has its answer the window takes requests, and a close, again.
AnsweredWindowIsFree == worker \in {"posting", "ended"} ~> ~ busy
=============================================================================
