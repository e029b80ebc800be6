---------------------------- MODULE DriverService ----------------------------
(***************************************************************************)
(* The life of the driver (driver/Driver.cpp): DriverEntry with the record *)
(* it keeps in the registry, the device clients open and ask, Unload; and  *)
(* the callers that start the service and wait for it                      *)
(* (python/driver_service.py).  A client that cannot open the device asks  *)
(* the control manager why, and tells its user.                            *)
(*                                                                         *)
(* The service control manager and the I/O manager are external: starting  *)
(* is refused unless the service is stopped; a start may be blocked before *)
(* it comes to DriverEntry, by Windows or by what protects the game; a     *)
(* device that is initializing or whose driver is to be unloaded cannot be *)
(* opened, and Unload runs once no handle is open.  Scripts install and    *)
(* remove the service and clear its record.  The machine may crash at any  *)
(* point; the registry survives, but perhaps as it was earlier.            *)
(*                                                                         *)
(* What a request asks and the checks on its buffers are left to the       *)
(* modules of the requests.                                                *)
(***************************************************************************)
EXTENDS Integers, FiniteSets

CONSTANTS
  Clients,    \* threads that send requests to the device
  Starters,   \* threads that call start_driver
  MaxPolls    \* how often start_driver looks for the running state

ASSUME DriverServiceAssumption == MaxPolls \in Nat \ {0}

VARIABLES
  service,   \* the state the service control manager reports
  lastExit,  \* how the service ended last, by its win32ExitCode
  entry,     \* what the driver's code does next; "absent" when it is not loaded
  status,    \* whether the last call DriverEntry made succeeded
  device,    \* the device object
  link,      \* the symbolic link exists
  record,    \* InitializationStage and InitializationStatus in the registry
  recordOf,  \* whose record that is (history)
  failedAt,  \* the stage that failed in the last load, 0 for none (history)
  client,    \* where each client is
  seen,      \* the service when its open failed (history)
  hint,      \* what its user is told
  starter,   \* where each caller of start_driver is
  polls      \* how often it has looked

serviceVars == <<service, lastExit>>
driverVars  == <<entry, status, device, link>>
recordVars  == <<record, recordOf, failedAt>>
clientVars  == <<client, seen, hint>>
starterVars == <<starter, polls>>
vars == <<serviceVars, driverVars, recordVars, clientVars, starterVars>>

\* The clients that hold a handle.
Holding == {"open", "waiting", "answered"}
\* The service's key without the two values.
NoRecord == [stage |-> 0, ok |-> TRUE]
\* The record is nobody's; the last start's, complete; of an earlier start, because the
\* last one was blocked; or it cannot be said.
RecordsOf == {"nobody", "last", "earlier", "unsure"}
\* Nothing is told.
Silent == [c \in Clients |-> "none"]

Init ==
  /\ service = "stopped" /\ lastExit = "never" /\ entry = "absent" /\ status = TRUE
  /\ device = "none" /\ link = FALSE
  /\ record = NoRecord /\ recordOf = "nobody" /\ failedAt = 0
  /\ client = [c \in Clients |-> "idle"] /\ seen = Silent /\ hint = Silent
  /\ starter = [s \in Starters |-> "idle"]
  /\ polls = [s \in Starters |-> 0]

-----------------------------------------------------------------------------
(***************************************************************************)
(* DriverEntry.                                                            *)
(***************************************************************************)

\* Whoever waits for sc start learns the outcome.
Release(to) ==
  starter' = [s \in Starters |-> IF starter[s] = "wait" THEN to ELSE starter[s]]

\* The driver is loaded and DriverEntry called.
LoadDriver ==
  /\ entry = "loading"
  /\ entry' = "begin"
  /\ recordOf' = "last" /\ failedAt' = 0
  /\ UNCHANGED <<serviceVars, status, device, link, record, clientVars, starterVars>>

\* Or it is not: error 647, as if DriverEntry had failed, while the game's protection runs;
\* 577 for a signature; or another.  No record is written.
BlockDriver ==
  /\ entry = "loading"
  /\ entry' = "absent" /\ service' = "stopped"
  /\ lastExit' \in {"entry_failed", "blocked"}
  /\ recordOf' = IF recordOf = "last" THEN "earlier" ELSE recordOf
  /\ Release("refused")
  /\ UNCHANGED <<status, device, link, record, failedAt, clientVars, polls>>

\* RecordInitialization.  The key may not open and either value may not be written;
\* nobody looks.
RecordInitialization(stage, ok) ==
  \/ /\ record' = [stage |-> stage, ok |-> ok]
     /\ UNCHANGED recordOf
  \/ /\ record' \in {record, [stage |-> stage, ok |-> record.ok],
                      [stage |-> record.stage, ok |-> ok]}
     /\ recordOf' = "unsure"

BeginEntry ==
  /\ entry = "begin"
  /\ RecordInitialization(1, TRUE)
  /\ entry' = "create"
  /\ UNCHANGED <<serviceVars, status, device, link, failedAt, clientVars, starterVars>>

CreateDevice ==
  /\ entry = "create"
  /\ status' \in IF device = "none" THEN BOOLEAN ELSE {FALSE}
  /\ device' = IF status' THEN "initializing" ELSE device
  /\ failedAt' = IF status' THEN failedAt ELSE 2
  /\ entry' = "created"
  /\ UNCHANGED <<serviceVars, link, record, recordOf, clientVars, starterVars>>

RecordDevice ==
  /\ entry = "created"
  /\ RecordInitialization(2, status)
  /\ entry' = IF status THEN "link" ELSE "fail"
  /\ UNCHANGED <<serviceVars, status, device, link, failedAt, clientVars, starterVars>>

CreateSymbolicLink ==
  /\ entry = "link"
  /\ status' \in IF link THEN {FALSE} ELSE BOOLEAN
  /\ link' = (link \/ status')
  /\ failedAt' = IF status' THEN failedAt ELSE 3
  /\ entry' = "linked"
  /\ UNCHANGED <<serviceVars, device, record, recordOf, clientVars, starterVars>>

\* What DriverEntry does after the link; a variant returns without looking.
ReturnAnyway == "return"
AfterLink    == IF status THEN "return" ELSE "fail"
\* Variants: the outcome of the earlier stage is recorded; the device is left behind.
EarlierOutcome == TRUE
LinkOutcome    == status
KeepDevice     == device
DeleteDevice   == "none"

RecordLink ==
  /\ entry = "linked"
  /\ RecordInitialization(3, LinkOutcome)
  /\ entry' = AfterLink
  /\ device' = IF status THEN device ELSE DeleteDevice
  /\ UNCHANGED <<serviceVars, status, link, failedAt, clientVars, starterVars>>

\* DriverEntry clears DO_DEVICE_INITIALIZING and returns: the service runs.
EntrySucceeds ==
  /\ entry = "return"
  /\ device' = "ready"
  /\ entry' = "loaded" /\ service' = "running" /\ lastExit' = "success"
  /\ Release("poll")
  /\ UNCHANGED <<status, link, recordVars, clientVars, polls>>

EntryFails ==
  /\ entry = "fail"
  /\ entry' = "absent" /\ service' = "stopped" /\ lastExit' = "entry_failed"
  /\ Release("refused")
  /\ UNCHANGED <<status, device, link, recordVars, clientVars, polls>>

-----------------------------------------------------------------------------
(***************************************************************************)
(* Stopping: the control manager asks, and Unload runs when it may.        *)
(***************************************************************************)

StopService ==
  /\ service = "running"
  /\ service' = "stopping"
  /\ UNCHANGED <<lastExit, driverVars, recordVars, clientVars, starterVars>>

\* Unload deletes the link, then the device; a variant does it the other way round.
DeviceFirst == <<"device", "link">>
UnloadOrder == <<"link", "device">>

Undo(what) ==
  /\ link' = (link /\ what # "link")
  /\ device' = IF what = "device" THEN "none" ELSE device

BeginUnload ==
  /\ service = "stopping" /\ entry = "loaded"
  /\ \A c \in Clients : client[c] \notin Holding
  /\ Undo(UnloadOrder[1])
  /\ entry' = "unload"
  /\ UNCHANGED <<serviceVars, status, recordVars, clientVars, starterVars>>

EndUnload ==
  /\ entry = "unload"
  /\ Undo(UnloadOrder[2])
  /\ entry' = "absent" /\ service' = "stopped" /\ lastExit' = "success"
  /\ UNCHANGED <<status, recordVars, clientVars, starterVars>>

\* The registry goes to disk some time after the driver writes to it: an earlier record may
\* be back, for which no record stands here (nothing is said of an unsure one).
Crash ==
  /\ entry # "absent"
  /\ service' = "stopped" /\ lastExit' = "never" /\ entry' = "absent"
  /\ device' = "none" /\ link' = FALSE
  /\ record' \in {record, NoRecord} /\ recordOf' = "unsure"
  /\ client' = [c \in Clients |-> "idle"] /\ seen' = Silent /\ hint' = Silent
  /\ starter' = [s \in Starters |-> "idle"]
  /\ UNCHANGED <<status, failedAt, polls>>

-----------------------------------------------------------------------------
(***************************************************************************)
(* The scripts.                                                            *)
(***************************************************************************)

\* Uninstall-Driver.ps1 deletes the stopped service, its key and so the record.
Uninstall ==
  /\ service = "stopped"
  /\ service' = "uninstalled" /\ lastExit' = "never"
  /\ record' = NoRecord /\ recordOf' = "nobody" /\ failedAt' = 0
  /\ UNCHANGED <<driverVars, clientVars, starterVars>>

Install ==
  /\ service = "uninstalled"
  /\ service' = "stopped"
  /\ UNCHANGED <<lastExit, driverVars, recordVars, clientVars, starterVars>>

\* Deploy-Driver.ps1 clears the record before a start.  It has looked whether the service
\* is stopped, but some steps before: another caller may have started it.
ClearRecord ==
  /\ service # "uninstalled"
  /\ record' = NoRecord
  /\ recordOf' = IF entry \in {"absent", "loading"} THEN "nobody" ELSE "unsure"
  /\ UNCHANGED <<serviceVars, driverVars, failedAt, clientVars, starterVars>>

-----------------------------------------------------------------------------
(***************************************************************************)
(* A client opens the device, sends one request and closes the handle on   *)
(* every path out.                                                         *)
(***************************************************************************)

Moves(c, from, to) ==
  /\ client[c] = from
  /\ client' = [client EXCEPT ![c] = to]
  /\ UNCHANGED <<serviceVars, driverVars, recordVars, starterVars>>

Step(c, from, to) == Moves(c, from, to) /\ UNCHANGED <<seen, hint>>

Openable == link /\ device = "ready" /\ service = "running"

Open(c)   == Openable /\ Step(c, "idle", "open")
Ask(c)    == Step(c, "open", "waiting")
Answer(c) == Step(c, "waiting", "answered")

\* A variant whose handle stays open when a request fails.
CloseIfAnswered == {"answered"}
\* The handle closes with the answer or, when the request could not be sent, without.
ClosedFrom == {"open", "answered"}
Close(c)  == client[c] \in ClosedFrom /\ Step(c, client[c], "idle")

\* CreateFileW finds no device.
OpenFails(c) ==
  /\ ~ Openable
  /\ Moves(c, "idle", "missing")
  /\ seen' = [seen EXCEPT ![c] = service]
  /\ UNCHANGED hint

\* FormatDeviceError: what the user is told of a device that is not there.
\* Of a stopped service it is the error it ended with.
Diagnosis ==
  CASE service = "uninstalled" -> "not_installed"
    [] service = "running"     -> "no_device"
    [] service = "stopped"     -> lastExit
    [] OTHER                   -> "changing"

\* QueryDriverService asks after the open has failed, and may itself fail.
Diagnose(c) ==
  /\ Moves(c, "missing", "told")
  /\ \E text \in {Diagnosis, "unknown"} : hint' = [hint EXCEPT ![c] = text]
  /\ seen' = [seen EXCEPT ![c] = "none"]

Acknowledge(c) ==
  /\ Moves(c, "told", "idle")
  /\ hint' = [hint EXCEPT ![c] = "none"]
  /\ UNCHANGED seen

-----------------------------------------------------------------------------
(***************************************************************************)
(* start_driver.                                                           *)
(***************************************************************************)

Goes(s, from, to) ==
  /\ starter[s] = from
  /\ starter' = [starter EXCEPT ![s] = to]

CallStart(s) ==
  /\ Goes(s, "idle", "query")
  /\ polls' = [polls EXCEPT ![s] = 0]
  /\ UNCHANGED <<serviceVars, driverVars, recordVars, clientVars>>

\* It runs already; or there is none, which raises an error.
QueryService(s) ==
  /\ Goes(s, "query", IF service \in {"running", "uninstalled"} THEN "idle" ELSE "start")
  /\ UNCHANGED <<serviceVars, driverVars, recordVars, clientVars, polls>>

\* sc start waits until the driver is loaded and DriverEntry returns; it is refused when
\* another caller was faster or the service is gone.
StartService(s) ==
  /\ IF service = "stopped"
       THEN Goes(s, "start", "wait") /\ service' = "starting" /\ entry' = "loading"
       ELSE Goes(s, "start", "refused") /\ UNCHANGED <<service, entry>>
  /\ UNCHANGED <<lastExit, status, device, link, recordVars, clientVars, polls>>

\* sc.exe returned an error.
StartRefused(s) ==
  /\ Goes(s, "refused", "idle")
  /\ UNCHANGED <<serviceVars, driverVars, recordVars, clientVars, polls>>

\* Variants: polls are not counted; one poll too many.
CountNothing(s) == polls[s]
CountPoll(s)    == polls[s] + 1
OnePollMore(s)  == polls'[s] > MaxPolls
OutOfPolls(s)   == polls'[s] = MaxPolls

\* The call returns that the driver runs, that it is gone or that it could not confirm
\* it, or sleeps and looks again.
Poll(s) ==
  /\ polls' = [polls EXCEPT ![s] = CountPoll(s)]
  /\ Goes(s, "poll", IF service \in {"running", "uninstalled"} \/ OutOfPolls(s)
                       THEN "idle" ELSE "poll")
  /\ UNCHANGED <<serviceVars, driverVars, recordVars, clientVars>>

\* sc query fails, sc.exe takes longer than its fifteen seconds, or the installed file
\* is missing.
CommandFails(s) ==
  /\ \E at \in {"query", "wait", "poll"} : Goes(s, at, "idle")
  /\ UNCHANGED <<serviceVars, driverVars, recordVars, clientVars, polls>>

-----------------------------------------------------------------------------
Load == LoadDriver \/ BlockDriver
DriverEntry == \/ BeginEntry \/ CreateDevice \/ RecordDevice \/ CreateSymbolicLink
               \/ RecordLink \/ EntrySucceeds \/ EntryFails
Unload == BeginUnload \/ EndUnload
Client(c)  == \/ Open(c) \/ Ask(c) \/ Answer(c) \/ Close(c)
              \/ OpenFails(c) \/ Diagnose(c) \/ Acknowledge(c)
Starter(s) == QueryService(s) \/ StartService(s) \/ StartRefused(s) \/ Poll(s)

Next ==
  \/ Load \/ DriverEntry \/ Unload \/ StopService \/ Crash
  \/ Install \/ Uninstall \/ ClearRecord
  \/ \E c \in Clients : Client(c)
  \/ \E s \in Starters : CallStart(s) \/ Starter(s) \/ CommandFails(s)

Spec == Init /\ [][Next]_vars

\* The control manager loads the driver or gives up; the driver's code and the callers
\* run on; requests are answered and handles closed.
FairSpec ==
  /\ Spec
  /\ WF_vars(Load) /\ WF_vars(DriverEntry) /\ WF_vars(Unload)
  /\ \A c \in Clients : WF_vars(Answer(c)) /\ WF_vars(Close(c))
  /\ \A s \in Starters : WF_vars(Starter(s))

-----------------------------------------------------------------------------
(***************************************************************************)
(* Properties.                                                             *)
(***************************************************************************)

\* Every variable has its type, and start_driver looks at most MaxPolls times.
TypeOK ==
  /\ service \in {"uninstalled", "stopped", "starting", "running", "stopping"}
  /\ entry \in {"absent", "loading", "begin", "create", "created", "link", "linked", "return",
                "fail", "loaded", "unload"}
  /\ device \in {"none", "initializing", "ready"}
  /\ record \in [stage : 0..3, ok : BOOLEAN] /\ recordOf \in RecordsOf /\ failedAt \in {0, 2, 3}
  /\ status \in BOOLEAN /\ link \in BOOLEAN
  /\ lastExit \in {"never", "success", "entry_failed", "blocked"}
  /\ client \in [Clients -> {"idle", "missing", "told"} \cup Holding]
  /\ seen \in [Clients -> {"none", "uninstalled", "stopped", "starting", "running", "stopping"}]
  /\ hint \in [Clients -> {"none", "unknown", "not_installed", "no_device", "changing",
                          "never", "success", "entry_failed", "blocked"}]
  /\ starter \in [Starters -> {"idle", "query", "start", "wait", "refused", "poll"}]
  /\ polls \in [Starters -> 0..MaxPolls]

\* The link never names a device that is gone, in whatever order creating, failing and
\* unloading go, and a client that holds a handle has the whole driver behind it.
NoDanglingLink ==
  /\ link => device # "none"
  /\ (\E c \in Clients : client[c] \in Holding) => device = "ready" /\ entry = "loaded"

\* A service that is not running leaves neither device nor link, so it starts again.
StoppedLeavesNothing == entry = "absent" => device = "none" /\ ~ link

\* How far the last load came that did come to DriverEntry: the stage that failed, or all.
Outcome == IF failedAt = 0 THEN [stage |-> 3, ok |-> TRUE] ELSE [stage |-> failedAt, ok |-> FALSE]

\* When no write was lost, the registry tells how far DriverEntry came in the last load,
\* even if the starts after it were blocked.  A record that was cleared while the driver
\* was not loaded stays cleared until DriverEntry runs, so that whoever starts it then
\* does not take an earlier record for the new one.
RecordTellsOutcome ==
  entry \in {"absent", "loading", "loaded", "unload"} =>
    /\ recordOf \in {"last", "earlier"} => record = Outcome
    /\ recordOf = "nobody" => record = NoRecord

\* A user who is told that the service runs without its device, and to check which driver
\* is installed, tried while the service was not running: what runs has its device.
\* One who is told that the driver failed to initialize finds the failure in the
\* registry if DriverEntry was reached and no write lost, and nothing there if the record
\* was cleared and the start blocked.  (If it was blocked and nobody cleared the record,
\* the registry may hold the success of an earlier load.)
HintIsHonest ==
  [][\A c \in Clients : client[c] = "missing" /\ client'[c] = "told" =>
       /\ hint'[c] = "no_device" => seen[c] # "running"
       /\ hint'[c] = "entry_failed" =>
            /\ recordOf = "last" => failedAt # 0 /\ record = [stage |-> failedAt, ok |-> FALSE]
            /\ recordOf = "nobody" => record = NoRecord]_vars

\* Every call of start_driver ends, whoever stops the service meanwhile.
StartCallsReturn == \A s \in Starters : starter[s] # "idle" ~> starter[s] = "idle"

\* A stop completes: requests under way end and their handles are closed.
StopCompletes == service = "stopping" ~> service = "stopped"
=============================================================================
