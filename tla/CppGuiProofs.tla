---------------------------- MODULE CppGuiProofs ----------------------------
(***************************************************************************)
(* The safety properties of CppGui, for any set of process ids and whether *)
(* PostMessageW may fail or not.                                           *)
(*                                                                         *)
(* The answer of a read is shown long after the click, by a handler that   *)
(* looks at no control, so that it belongs to the window's settings rests  *)
(* on the flag: BusyMeansJob says what holds while the flag is on (a       *)
(* thread, its job, nothing shown, the settings of the job), and what the  *)
(* UI thread may count on while it is off (no thread, no job, no message). *)
(***************************************************************************)
EXTENDS CppGui, TLAPS

BusyMeansJob ==
  /\ busy => /\ worker # "none"
             /\ job # None /\ job.settings = settings
             /\ shown = NoValues
  /\ ~ busy => worker = "none" /\ job = None /\ ~ finished

Invariant == TypeOK /\ BusyMeansJob /\ ShownMatchesSettings /\ ShownIsOneAnswer /\ NeverTerminates

-----------------------------------------------------------------------------
LEMMA InitHolds == Init => Invariant
<1> SUFFICES ASSUME Init PROVE Invariant
  OBVIOUS
<1>1. TypeOK
  BY DEF Init, TypeOK, Settings, Modes, Addresses, NoValues
<1>2. BusyMeansJob /\ NeverTerminates
  BY DEF Init, BusyMeansJob, NeverTerminates
<1>3. ShownMatchesSettings /\ ShownIsOneAnswer
  BY DEF Init, ShownMatchesSettings, ShownIsOneAnswer, NoValues
<1> QED
  BY <1>1, <1>2, <1>3 DEF Invariant

LEMMA TypeStep == Invariant /\ [Next]_vars => TypeOK'
<1> SUFFICES ASSUME Invariant, [Next]_vars PROVE TypeOK'
  OBVIOUS
<1> USE CppGuiAssumption DEF CppGuiAssumption, Invariant, TypeOK, gameVars, jobVars
<1>1. ASSUME NEW p \in Pids, StartGame(p) \/ ExitGame(p)
      PROVE  TypeOK'
  BY <1>1 DEF StartGame, ExitGame
<1>2. CASE RefreshProcesses
  <2>1. list' \subseteq Pids
    BY <1>2 DEF RefreshProcesses
  <2>2. settings' \in Settings /\ settings'.pid \in list' \cup {None}
    BY <1>2 DEF RefreshProcesses, ListedChoice, Choose, Settings
  <2> QED
    BY <1>2, <2>1, <2>2 DEF RefreshProcesses, NoValues
<1>3. CASE ChangeSettings
  BY <1>3 DEF ChangeSettings, Accepts, Reset, NoValues
<1>4. ASSUME NEW axis \in Axes, RefuseRead(axis)
      PROVE  TypeOK'
  BY <1>4 DEF RefuseRead, StartRead, Accepts, Reset, NoValues
<1>5. ASSUME NEW axis \in Axes, AskRead(axis)
      PROVE  TypeOK'
  <2>1. job' \in Jobs
    BY <1>5 DEF AskRead, Jobs
  <2>2. terminated' \in BOOLEAN
    BY <1>5 DEF AskRead
  <2> QED
    BY <1>5, <2>1, <2>2 DEF AskRead, StartRead, Reset, NoValues
<1>6. ASSUME NEW axis \in Axes, ThreadFails(axis)
      PROVE  TypeOK'
  BY <1>6 DEF ThreadFails, StartRead, Accepts, Reset, NoValues, Askable
<1>7. CASE FinishRead
  <2>1. shown' \in [x : Requests \cup {None}, y : Requests \cup {None}]
    <3>1. CASE job # None /\ job.ok
      <4>1. [settings |-> job.settings, axis |-> job.axis] \in Requests
        BY <3>1 DEF Jobs, Requests
      <4> QED
        BY <1>7, <3>1, <4>1 DEF FinishRead, ShowAnswer
    <3>2. CASE ~ (job # None /\ job.ok)
      BY <1>7, <3>2 DEF FinishRead
    <3> QED
      BY <3>1, <3>2
  <2> QED
    BY <1>7, <2>1 DEF FinishRead, Join, BusyAfterRead
<1>8. CASE Close
  BY <1>8 DEF Close, Live, Closable
<1>9. CASE ReadEnds
  <2>1. job # None
    BY <1>9 DEF ReadEnds, BusyMeansJob
  <2>2. job' \in Jobs
    BY <1>9, <2>1 DEF ReadEnds, Jobs
  <2> QED
    BY <1>9, <2>1, <2>2 DEF ReadEnds
<1>10. CASE Post
  BY <1>10 DEF Post
<1>11. CASE UNCHANGED vars
  BY <1>11 DEF vars
<1> QED
  BY <1>1, <1>2, <1>3, <1>4, <1>5, <1>6, <1>7, <1>8, <1>9, <1>10, <1>11 DEF Next

\* The flag goes on with a job and a thread, and off when both are gone.
LEMMA BusyStep == Invariant /\ [Next]_vars => BusyMeansJob' /\ NeverTerminates'
<1> DEFINE Sound == BusyMeansJob /\ NeverTerminates
<1> SUFFICES ASSUME Invariant, [Next]_vars PROVE Sound'
  OBVIOUS
<1> USE CppGuiAssumption DEF CppGuiAssumption, Invariant, TypeOK, BusyMeansJob, NeverTerminates,
        gameVars, jobVars
<1>1. ASSUME NEW p \in Pids, StartGame(p) \/ ExitGame(p)
      PROVE  Sound'
  BY <1>1 DEF StartGame, ExitGame
<1>2. CASE RefreshProcesses
  BY <1>2 DEF RefreshProcesses, Accepts, ListedChoice, NoValues
<1>3. CASE ChangeSettings
  BY <1>3 DEF ChangeSettings, Accepts, Reset, NoValues
<1>4. ASSUME NEW axis \in Axes, RefuseRead(axis)
      PROVE  Sound'
  BY <1>4 DEF RefuseRead, StartRead, Accepts, Reset, NoValues
<1>5. ASSUME NEW axis \in Axes, AskRead(axis)
      PROVE  Sound'
  <2>1. job' \in Jobs /\ job'.settings = settings'
    BY <1>5 DEF AskRead, Jobs
  <2>2. worker = "none"
    BY <1>5 DEF AskRead, StartRead, Accepts
  <2>3. ~ terminated'
    BY <1>5, <2>2 DEF AskRead
  <2> QED
    BY <1>5, <2>1, <2>3 DEF AskRead, StartRead, Reset
<1>6. ASSUME NEW axis \in Axes, ThreadFails(axis)
      PROVE  Sound'
  BY <1>6 DEF ThreadFails, StartRead, Accepts, Reset, NoValues, Askable
<1>7. CASE FinishRead
  BY <1>7 DEF FinishRead, Live, Join, BusyAfterRead
<1>8. CASE Close
  BY <1>8 DEF Close, Live, Closable
<1>9. CASE ReadEnds
  <2>1. job \in Jobs /\ busy
    BY <1>9 DEF ReadEnds
  <2>2. job' \in Jobs /\ job'.settings = settings'
    BY <1>9, <2>1 DEF ReadEnds, Jobs
  <2>3. ~ terminated'
    BY <1>9, <2>1 DEF ReadEnds
  <2> QED
    BY <1>9, <2>1, <2>2, <2>3 DEF ReadEnds
<1>10. CASE Post
  BY <1>10 DEF Post
<1>11. CASE UNCHANGED vars
  BY <1>11 DEF vars
<1> QED
  BY <1>1, <1>2, <1>3, <1>4, <1>5, <1>6, <1>7, <1>8, <1>9, <1>10, <1>11 DEF Next

\* What is shown belongs to the settings: they change only when nothing is shown
\* afterwards, and an answer arrives where nothing was shown.
LEMMA ShownStep == Invariant /\ [Next]_vars => ShownMatchesSettings' /\ ShownIsOneAnswer'
<1> DEFINE Sound == ShownMatchesSettings /\ ShownIsOneAnswer
<1> SUFFICES ASSUME Invariant, [Next]_vars PROVE Sound'
  OBVIOUS
<1> USE DEF Invariant, TypeOK, BusyMeansJob, ShownMatchesSettings, ShownIsOneAnswer,
        gameVars, jobVars
<1>1. ASSUME NEW p \in Pids, StartGame(p) \/ ExitGame(p)
      PROVE  Sound'
  BY <1>1 DEF StartGame, ExitGame
<1>2. CASE RefreshProcesses
  BY <1>2 DEF RefreshProcesses, Accepts, ListedChoice, NoValues
<1>3. CASE ChangeSettings
  BY <1>3 DEF ChangeSettings, Accepts, Reset, NoValues
<1>4. ASSUME NEW axis \in Axes, RefuseRead(axis)
      PROVE  Sound'
  BY <1>4 DEF RefuseRead, StartRead, Accepts, Reset, NoValues
<1>5. ASSUME NEW axis \in Axes, AskRead(axis)
      PROVE  Sound'
  BY <1>5 DEF AskRead, StartRead, Accepts, Reset, NoValues, Askable
<1>6. ASSUME NEW axis \in Axes, ThreadFails(axis)
      PROVE  Sound'
  BY <1>6 DEF ThreadFails, StartRead, Accepts, Reset, NoValues, Askable
<1>7. CASE FinishRead
  <2>1. busy /\ shown = NoValues /\ job \in Jobs /\ job.settings = settings
    BY <1>7 DEF FinishRead
  <2>2. CASE job.ok
    <3> DEFINE request == [settings |-> job.settings, axis |-> job.axis]
    <3>1. shown' = [x |-> IF job.axis # "Y" THEN request ELSE None,
                    y |-> IF job.axis # "X" THEN request ELSE None]
      BY <1>7, <2>1, <2>2 DEF FinishRead, ShowAnswer, NoValues
    <3>2. settings' = settings /\ ~ busy'
      BY <1>7 DEF FinishRead, BusyAfterRead
    <3>3. ShownMatchesSettings'
      BY <2>1, <3>1, <3>2
    <3>4. ShownIsOneAnswer'
      BY <3>1, <3>2
    <3> QED
      BY <3>3, <3>4
  <2>3. CASE ~ job.ok
    BY <1>7, <2>1, <2>3 DEF FinishRead, BusyAfterRead, NoValues
  <2> QED
    BY <2>2, <2>3
<1>8. CASE Close
  BY <1>8 DEF Close, Live, Closable
<1>9. CASE ReadEnds
  BY <1>9 DEF ReadEnds
<1>10. CASE Post
  BY <1>10 DEF Post
<1>11. CASE UNCHANGED vars
  BY <1>11 DEF vars
<1> QED
  BY <1>1, <1>2, <1>3, <1>4, <1>5, <1>6, <1>7, <1>8, <1>9, <1>10, <1>11 DEF Next

-----------------------------------------------------------------------------
\* What the flag means, and what the window shows, are invariants.
THEOREM Invariance == Spec => []Invariant
<1>1. Invariant /\ [Next]_vars => Invariant'
  BY TypeStep, BusyStep, ShownStep DEF Invariant
<1> QED
  BY InitHolds, <1>1, PTL DEF Spec

\* Every variable keeps its type, and the process chosen is one the combo box lists.
THEOREM TypeCorrect == Spec => []TypeOK
<1>1. Invariant => TypeOK
  BY DEF Invariant
<1> QED
  BY Invariance, <1>1, PTL

\* A value on the window was read with the settings the window shows beside it.
THEOREM ShownWasAsked == Spec => []ShownMatchesSettings
<1>1. Invariant => ShownMatchesSettings
  BY DEF Invariant
<1> QED
  BY Invariance, <1>1, PTL

\* No field keeps a value of an earlier read beside a new one.
THEOREM OneAnswerShown == Spec => []ShownIsOneAnswer
<1>1. Invariant => ShownIsOneAnswer
  BY DEF Invariant
<1> QED
  BY Invariance, <1>1, PTL

\* StartRead never assigns over a joinable thread, and the worker never meets a null
\* job, even when PostMessageW fails.
THEOREM StaysAlive == Spec => []NeverTerminates
<1>1. Invariant => NeverTerminates
  BY DEF Invariant
<1> QED
  BY Invariance, <1>1, PTL
=============================================================================
