------------------------- MODULE DriverServiceProofs -------------------------
(***************************************************************************)
(* The safety properties of DriverService, for any number of clients and   *)
(* of callers of start_driver.                                             *)
(*                                                                         *)
(* None of them is inductive: whether a link may be left behind depends on *)
(* how far DriverEntry has come, and what the registry says on which of    *)
(* its calls failed.  Invariant therefore tells, for every point of the    *)
(* driver's life, what the control manager reports, which of device and    *)
(* link exist, what a load that lost no record has written so far, and     *)
(* that what it wrote stays when later starts are blocked.                 *)
(***************************************************************************)
EXTENDS DriverService, TLAPS

\* TypeOK in two parts: the clients, whom few steps touch, and the rest.
ClientTypes ==
  /\ client \in [Clients -> {"idle", "missing", "told", "open", "waiting", "answered"}]
  /\ seen \in [Clients -> {"none", "uninstalled", "stopped", "starting", "running", "stopping"}]
  /\ hint \in [Clients -> {"none", "unknown", "not_installed", "no_device", "changing",
                          "never", "success", "entry_failed", "blocked"}]

DriverTypes ==
  /\ service \in {"uninstalled", "stopped", "starting", "running", "stopping"}
  /\ lastExit \in {"never", "success", "entry_failed", "blocked"}
  /\ entry \in {"absent", "loading", "begin", "create", "created", "link", "linked", "return",
                "fail", "loaded", "unload"}
  /\ device \in {"none", "initializing", "ready"}
  /\ record \in [stage : 0..3, ok : BOOLEAN] /\ recordOf \in RecordsOf /\ failedAt \in {0, 2, 3}
  /\ status \in BOOLEAN /\ link \in BOOLEAN
  /\ starter \in [Starters -> {"idle", "query", "start", "wait", "refused", "poll"}]
  /\ polls \in [Starters -> 0..MaxPolls]

ServiceMatches ==
  /\ entry = "absent" => service \in {"uninstalled", "stopped"}
  /\ entry \in {"loading", "begin", "create", "created", "link", "linked", "return", "fail"}
       => service = "starting"
  /\ entry = "loaded" => service \in {"running", "stopping"}
  /\ entry = "unload" => service = "stopping"

DeviceMatches ==
  /\ entry \in {"absent", "loading", "begin", "create", "fail"} => device = "none"
  /\ entry = "created" => device = IF status THEN "initializing" ELSE "none"
  /\ entry \in {"link", "linked", "return"} => device = "initializing"
  /\ entry \in {"loaded", "unload"} => device = "ready"

LinkMatches ==
  /\ entry \in {"absent", "loading", "begin", "create", "created", "link", "fail", "unload"} => ~ link
  /\ entry = "linked" => link = status
  /\ entry \in {"return", "loaded"} => link

HandlesMatch == \A c \in Clients : client[c] \in Holding => entry = "loaded"

\* A service that runs has its device, so it did not when an open failed.
SeenMatches == \A c \in Clients : client[c] = "missing" => seen[c] # "running"

PollsLeft == \A s \in Starters : starter[s] # "idle" => polls[s] < MaxPolls

\* What the registry holds when none of the records of the last load was lost.
RecordMatches ==
  /\ entry \in {"begin", "create", "link", "return", "loaded", "unload"} => failedAt = 0
  /\ entry \in {"created", "linked"} /\ status => failedAt = 0
  /\ entry = "created" /\ ~ status => failedAt = 2
  /\ entry = "linked" /\ ~ status => failedAt = 3
  /\ entry = "fail" => failedAt # 0 /\ record = [stage |-> failedAt, ok |-> FALSE]
  /\ entry \in {"return", "loaded", "unload"} => record = [stage |-> 3, ok |-> TRUE]
  /\ entry \in {"absent", "loading"} =>
       record = IF failedAt = 0 THEN [stage |-> 3, ok |-> TRUE]
                                ELSE [stage |-> failedAt, ok |-> FALSE]
  /\ recordOf = "last" /\ entry = "absent" /\ lastExit = "entry_failed" => failedAt # 0

\* A record that is nobody's is none, and no driver is loaded.
NobodyMatches == recordOf = "nobody" => record = NoRecord /\ entry \in {"absent", "loading"}

Invariant ==
  /\ TypeOK /\ ServiceMatches /\ DeviceMatches /\ LinkMatches
  /\ HandlesMatch /\ SeenMatches /\ PollsLeft
  /\ recordOf \in {"last", "earlier"} => RecordMatches
  /\ NobodyMatches

-----------------------------------------------------------------------------
\* Lost or not, what RecordInitialization leaves is a record.
LEMMA RecordedType ==
  ASSUME TypeOK, NEW stage \in 0..3, NEW ok \in BOOLEAN, RecordInitialization(stage, ok)
  PROVE  record' \in [stage : 0..3, ok : BOOLEAN] /\ recordOf' \in RecordsOf
<1>1. record \in [stage : 0..3, ok : BOOLEAN] /\ recordOf \in RecordsOf
  BY DEF TypeOK
<1>2. record.stage \in 0..3 /\ record.ok \in BOOLEAN
  BY <1>1
<1>3. /\ [stage |-> stage, ok |-> ok] \in [stage : 0..3, ok : BOOLEAN]
      /\ [stage |-> stage, ok |-> record.ok] \in [stage : 0..3, ok : BOOLEAN]
      /\ [stage |-> record.stage, ok |-> ok] \in [stage : 0..3, ok : BOOLEAN]
  BY <1>2
<1>4. recordOf' \in RecordsOf
  BY <1>1 DEF RecordInitialization, RecordsOf
<1>5. record' \in {record, [stage |-> stage, ok |-> ok], [stage |-> stage, ok |-> record.ok],
                   [stage |-> record.stage, ok |-> ok]}
  BY DEF RecordInitialization
<1> QED
  BY <1>1, <1>3, <1>4, <1>5

LEMMA InitHolds == Init => Invariant
<1> SUFFICES ASSUME Init PROVE Invariant
  OBVIOUS
<1>1. TypeOK
  <2>1. [stage |-> 0, ok |-> TRUE] \in [stage : 0..3, ok : BOOLEAN]
    OBVIOUS
  <2>2. polls \in [Starters -> 0..MaxPolls]
    BY DriverServiceAssumption DEF DriverServiceAssumption, Init
  <2> QED
    BY <2>1, <2>2 DEF Init, TypeOK, Silent, NoRecord, RecordsOf
<1>2. ServiceMatches /\ DeviceMatches /\ LinkMatches
  BY DEF Init, ServiceMatches, DeviceMatches, LinkMatches
<1>3. HandlesMatch /\ SeenMatches /\ PollsLeft
  BY DEF Init, HandlesMatch, SeenMatches, PollsLeft, Holding
<1>4. recordOf \notin {"last", "earlier"} /\ NobodyMatches
  BY DEF Init, NobodyMatches
<1> QED
  BY <1>1, <1>2, <1>3, <1>4 DEF Invariant

LEMMA TypeParts == TypeOK <=> ClientTypes /\ DriverTypes
BY DEF TypeOK, ClientTypes, DriverTypes, Holding

LEMMA DriverTypesStep == Invariant /\ [Next]_vars => DriverTypes'
<1> SUFFICES ASSUME Invariant, [Next]_vars PROVE DriverTypes'
  OBVIOUS
<1> USE DriverServiceAssumption DEF DriverServiceAssumption, DriverTypes,
        serviceVars, driverVars, recordVars, clientVars, starterVars
<1>0. DriverTypes
  BY TypeParts DEF Invariant
<1> USE <1>0
<1>1. CASE BeginEntry
  <2>1. record' \in [stage : 0..3, ok : BOOLEAN] /\ recordOf' \in RecordsOf
    <3>1. 1 \in 0..3
      OBVIOUS
    <3>2. RecordInitialization(1, TRUE)
      BY <1>1, Zenon DEF BeginEntry
    <3> QED
      BY <3>1, <3>2, RecordedType, Zenon DEF Invariant
  <2> QED
    BY <1>1, <2>1 DEF BeginEntry
<1>2. CASE CreateDevice
  BY <1>2 DEF CreateDevice
<1>3. CASE RecordDevice
  BY <1>3, RecordedType DEF RecordDevice, Invariant
<1>4. CASE CreateSymbolicLink
  BY <1>4 DEF CreateSymbolicLink
<1>5. CASE RecordLink
  BY <1>5, RecordedType DEF RecordLink, AfterLink, LinkOutcome, DeleteDevice, Invariant
<1>6. CASE EntrySucceeds
  BY <1>6 DEF EntrySucceeds, Release
<1>7. CASE EntryFails
  BY <1>7 DEF EntryFails, Release
<1>8. CASE BeginUnload
  BY <1>8 DEF BeginUnload, Undo, UnloadOrder
<1>9. CASE EndUnload
  BY <1>9 DEF EndUnload, Undo, UnloadOrder
<1>10. CASE StopService
  BY <1>10 DEF StopService
<1>11. CASE Crash
  <2>1. NoRecord \in [stage : 0..3, ok : BOOLEAN]
    BY DEF NoRecord
  <2> QED
    BY <1>11, <2>1 DEF Crash, RecordsOf
<1>12. ASSUME NEW c \in Clients, Client(c)
       PROVE  DriverTypes'
  BY <1>12 DEF Client, Open, Ask, Answer, Close, OpenFails, Diagnose, Acknowledge, Step, Moves
<1>13. ASSUME NEW s \in Starters,
              CallStart(s) \/ QueryService(s) \/ StartRefused(s) \/ CommandFails(s)
       PROVE  DriverTypes'
  BY <1>13 DEF CallStart, QueryService, StartRefused, CommandFails, Goes
<1>14. ASSUME NEW s \in Starters, StartService(s)
       PROVE  DriverTypes'
  <2>1. starter' \in [Starters -> {"idle", "query", "start", "wait", "refused", "poll"}]
    BY <1>14 DEF StartService, Goes
  <2>2. CASE service = "stopped"
    BY <1>14, <2>1, <2>2 DEF StartService
  <2>3. CASE service # "stopped"
    BY <1>14, <2>1, <2>3 DEF StartService
  <2> QED
    BY <2>2, <2>3
<1>15. ASSUME NEW s \in Starters, Poll(s)
       PROVE  DriverTypes'
  <2>1. polls[s] + 1 \in 0..MaxPolls
    BY <1>15 DEF Poll, Goes, PollsLeft, Invariant
  <2> QED
    BY <1>15, <2>1 DEF Poll, Goes, CountPoll
<1>16. CASE Load
  <2>1. lastExit' \in {"never", "success", "entry_failed", "blocked"}
    BY <1>16 DEF Load, LoadDriver, BlockDriver
  <2>2. starter' \in [Starters -> {"idle", "query", "start", "wait", "refused", "poll"}]
    BY <1>16 DEF Load, LoadDriver, BlockDriver, Release
  <2> QED
    BY <1>16, <2>1, <2>2 DEF Load, LoadDriver, BlockDriver, RecordsOf
<1>17. CASE Install \/ Uninstall \/ ClearRecord
  <2>1. NoRecord \in [stage : 0..3, ok : BOOLEAN]
    BY DEF NoRecord
  <2> QED
    BY <1>17, <2>1 DEF Install, Uninstall, ClearRecord, RecordsOf
<1>18. CASE UNCHANGED vars
  BY <1>18 DEF vars
<1> QED
  BY <1>1, <1>2, <1>3, <1>4, <1>5, <1>6, <1>7, <1>8, <1>9, <1>10, <1>11, <1>12, <1>13, <1>14,
     <1>15, <1>16, <1>17, <1>18 DEF Next, DriverEntry, Unload, Starter

\* Only the clients themselves and a crash touch the clients.
LEMMA ClientFrame ==
  Next => \/ UNCHANGED clientVars
          \/ Crash
          \/ \E c \in Clients : Client(c)
<1> SUFFICES ASSUME Next, ~ Crash, \A c \in Clients : ~ Client(c)
             PROVE  UNCHANGED clientVars
  OBVIOUS
<1> USE DEF clientVars
<1>1. CASE DriverEntry
  BY <1>1 DEF DriverEntry, BeginEntry, CreateDevice, RecordDevice, CreateSymbolicLink, RecordLink,
              EntrySucceeds, EntryFails
<1>2. CASE Unload \/ StopService
  BY <1>2 DEF Unload, BeginUnload, EndUnload, StopService
<1>3. ASSUME NEW s \in Starters, CallStart(s) \/ Starter(s) \/ CommandFails(s)
      PROVE  UNCHANGED clientVars
  BY <1>3 DEF CallStart, Starter, QueryService, StartService, StartRefused, Poll, CommandFails
<1>4. CASE Load \/ Install \/ Uninstall \/ ClearRecord
  BY <1>4 DEF Load, LoadDriver, BlockDriver, Install, Uninstall, ClearRecord
<1> QED
  BY <1>1, <1>2, <1>3, <1>4 DEF Next

\* Every step keeps the clients' types, and who finds no device finds no running service.
LEMMA ClientsStep == Invariant /\ [Next]_vars => ClientTypes' /\ SeenMatches'
<1> SUFFICES ASSUME Invariant, [Next]_vars PROVE ClientTypes' /\ SeenMatches'
  OBVIOUS
<1>1. ClientTypes /\ DriverTypes /\ SeenMatches
  BY TypeParts DEF Invariant
<1>2. CASE UNCHANGED clientVars
  BY <1>1, <1>2 DEF clientVars, ClientTypes, SeenMatches
<1>3. CASE Crash
  BY <1>3 DEF Crash, Silent, ClientTypes, SeenMatches
<1>4. ASSUME NEW c \in Clients, Client(c)
      PROVE  ClientTypes' /\ SeenMatches'
  <2>1. CASE Open(c) \/ Ask(c) \/ Answer(c) \/ Close(c)
    BY <1>1, <2>1 DEF Open, Ask, Answer, Close, Step, Moves, ClientTypes, SeenMatches
  <2>2. CASE OpenFails(c)
    <3>1. service # "running"
      BY <2>2 DEF OpenFails, Openable, Invariant, ServiceMatches, DeviceMatches, LinkMatches,
                  TypeOK
    <3> QED
      BY <1>1, <2>2, <3>1 DEF OpenFails, Moves, ClientTypes, DriverTypes, SeenMatches
  <2>3. CASE Diagnose(c)
    <3>1. Diagnosis \in {"not_installed", "no_device", "changing", "never", "success",
                         "entry_failed", "blocked"}
      BY <1>1 DEF Diagnosis, DriverTypes
    <3> QED
      BY <1>1, <2>3, <3>1 DEF Diagnose, Moves, ClientTypes, SeenMatches
  <2>4. CASE Acknowledge(c)
    BY <1>1, <2>4 DEF Acknowledge, Moves, ClientTypes, SeenMatches
  <2> QED
    BY <1>4, <2>1, <2>2, <2>3, <2>4 DEF Client
<1>5. CASE UNCHANGED vars
  BY <1>2, <1>5 DEF vars
<1> QED
  BY <1>2, <1>3, <1>4, <1>5, ClientFrame

\* Every step keeps what exists in step with where the driver is.
LEMMA ObjectsStep ==
  Invariant /\ [Next]_vars => ServiceMatches' /\ DeviceMatches' /\ LinkMatches'
<1> DEFINE Match == ServiceMatches /\ DeviceMatches /\ LinkMatches
<1> SUFFICES ASSUME Invariant, [Next]_vars PROVE Match'
  OBVIOUS
<1> USE DEF Invariant, TypeOK, ServiceMatches, DeviceMatches, LinkMatches, serviceVars, driverVars,
        recordVars, clientVars, starterVars
<1>1. CASE BeginEntry
  BY <1>1 DEF BeginEntry
<1>2. CASE CreateDevice
  BY <1>2 DEF CreateDevice
<1>3. CASE RecordDevice
  BY <1>3 DEF RecordDevice
<1>4. CASE CreateSymbolicLink
  BY <1>4 DEF CreateSymbolicLink
<1>5. CASE RecordLink
  BY <1>5 DEF RecordLink, AfterLink, LinkOutcome, DeleteDevice
<1>6. CASE EntrySucceeds
  BY <1>6 DEF EntrySucceeds
<1>7. CASE EntryFails
  BY <1>7 DEF EntryFails
<1>8. CASE BeginUnload
  BY <1>8 DEF BeginUnload, Undo, UnloadOrder
<1>9. CASE EndUnload
  BY <1>9 DEF EndUnload, Undo, UnloadOrder
<1>10. CASE StopService
  BY <1>10 DEF StopService
<1>11. CASE Crash
  BY <1>11 DEF Crash
<1>12. ASSUME NEW c \in Clients, Client(c)
       PROVE  Match'
  BY <1>12 DEF Client, Open, Ask, Answer, Close, OpenFails, Diagnose, Acknowledge, Step, Moves
<1>13. ASSUME NEW s \in Starters, StartService(s)
       PROVE  Match'
  BY <1>13 DEF StartService, Goes
<1>14. ASSUME NEW s \in Starters,
              CallStart(s) \/ QueryService(s) \/ StartRefused(s) \/ CommandFails(s) \/ Poll(s)
       PROVE  Match'
  BY <1>14 DEF CallStart, QueryService, StartRefused, CommandFails, Poll, Goes
<1>15. CASE Load
  BY <1>15 DEF Load, LoadDriver, BlockDriver
<1>16. CASE Install \/ Uninstall \/ ClearRecord
  BY <1>16 DEF Install, Uninstall, ClearRecord
<1>17. CASE UNCHANGED vars
  BY <1>17 DEF vars
<1> QED
  BY <1>1, <1>2, <1>3, <1>4, <1>5, <1>6, <1>7, <1>8, <1>9, <1>10, <1>11, <1>12, <1>13, <1>14,
     <1>15, <1>16, <1>17 DEF Next, DriverEntry, Unload, Starter

\* Every step keeps what the registry holds in step with which call failed, unless a
\* record is lost.
LEMMA RecordStep == Invariant /\ [Next]_vars => (recordOf \in {"last", "earlier"} => RecordMatches)'
<1> SUFFICES ASSUME Invariant, [Next]_vars, recordOf' \in {"last", "earlier"} PROVE RecordMatches'
  OBVIOUS
<1> USE DEF Invariant, TypeOK, RecordMatches, serviceVars, driverVars, recordVars, clientVars,
        starterVars
<1>1. CASE BeginEntry
  BY <1>1 DEF BeginEntry, RecordInitialization
<1>2. CASE CreateDevice
  BY <1>2 DEF CreateDevice
<1>3. CASE RecordDevice
  <2>1. recordOf = recordOf' /\ record' = [stage |-> 2, ok |-> status]
    BY <1>3, Zenon DEF RecordDevice, RecordInitialization
  <2>2. CASE status
    BY <1>3, <2>1, <2>2 DEF RecordDevice
  <2>3. CASE ~ status
    <3>1. status = FALSE
      BY <2>3
    <3>2. record' = [stage |-> 2, ok |-> FALSE]
      BY <2>1, <3>1, Zenon
    <3>3. failedAt' = 2 /\ entry' = "fail"
      BY <1>3, <2>1, <2>3 DEF RecordDevice
    <3> QED
      BY <3>2, <3>3
  <2> QED
    BY <2>2, <2>3
<1>4. CASE CreateSymbolicLink
  BY <1>4 DEF CreateSymbolicLink
<1>5. CASE RecordLink
  <2>1. recordOf = recordOf' /\ record' = [stage |-> 3, ok |-> status]
    BY <1>5, Zenon DEF RecordLink, LinkOutcome, RecordInitialization
  <2>2. CASE status
    <3>1. status = TRUE
      BY <2>2
    <3>2. record' = [stage |-> 3, ok |-> TRUE]
      BY <2>1, <3>1, Zenon
    <3> QED
      BY <1>5, <2>1, <2>2, <3>2 DEF RecordLink, AfterLink
  <2>3. CASE ~ status
    <3>1. status = FALSE
      BY <2>3
    <3>2. record' = [stage |-> 3, ok |-> FALSE]
      BY <2>1, <3>1, Zenon
    <3>3. failedAt' = 3 /\ entry' = "fail"
      BY <1>5, <2>1, <2>3 DEF RecordLink, AfterLink
    <3> QED
      BY <3>2, <3>3
  <2> QED
    BY <2>2, <2>3
<1>6. CASE EntrySucceeds
  BY <1>6 DEF EntrySucceeds
<1>7. CASE EntryFails
  BY <1>7 DEF EntryFails
<1>8. CASE BeginUnload
  BY <1>8 DEF BeginUnload, Undo, UnloadOrder
<1>9. CASE EndUnload
  BY <1>9 DEF EndUnload, Undo, UnloadOrder
<1>10. CASE StopService
  BY <1>10 DEF StopService
<1>11. CASE Crash
  BY <1>11 DEF Crash
<1>12. ASSUME NEW c \in Clients, Client(c)
       PROVE  RecordMatches'
  <2>1. UNCHANGED <<serviceVars, driverVars, recordVars>>
    BY <1>12 DEF Client, Open, Ask, Answer, Close, OpenFails, Diagnose, Acknowledge, Step, Moves
  <2> QED
    BY <2>1
<1>13. ASSUME NEW s \in Starters, StartService(s)
       PROVE  RecordMatches'
  <2>1. UNCHANGED <<record, recordOf, failedAt, lastExit, status>>
    BY <1>13 DEF StartService
  <2>2. CASE service = "stopped"
    <3>1. entry = "absent" /\ entry' = "loading"
      BY <1>13, <2>2 DEF StartService, ServiceMatches
    <3> QED
      BY <2>1, <3>1
  <2>3. CASE service # "stopped"
    <3>1. entry' = entry
      BY <1>13, <2>3 DEF StartService
    <3> QED
      BY <2>1, <3>1
  <2> QED
    BY <2>2, <2>3
<1>14. ASSUME NEW s \in Starters,
              CallStart(s) \/ QueryService(s) \/ StartRefused(s) \/ CommandFails(s) \/ Poll(s)
       PROVE  RecordMatches'
  <2>1. UNCHANGED <<serviceVars, driverVars, recordVars>>
    BY <1>14 DEF CallStart, QueryService, StartRefused, CommandFails, Poll
  <2> QED
    BY <2>1
<1>15. CASE Load
  BY <1>15 DEF Load, LoadDriver, BlockDriver
<1>16. CASE Install \/ Uninstall \/ ClearRecord
  BY <1>16 DEF Install, Uninstall, ClearRecord
<1>17. CASE UNCHANGED vars
  BY <1>17 DEF vars
<1> QED
  BY <1>1, <1>2, <1>3, <1>4, <1>5, <1>6, <1>7, <1>8, <1>9, <1>10, <1>11, <1>12, <1>13, <1>14,
     <1>15, <1>16, <1>17 DEF Next, DriverEntry, Unload, Starter

\* A record is somebody's as soon as DriverEntry is called.
LEMMA NobodyStep == Invariant /\ [Next]_vars => NobodyMatches'
<1> SUFFICES ASSUME Invariant, [Next]_vars PROVE NobodyMatches'
  OBVIOUS
<1>1. NobodyMatches /\ recordOf \in RecordsOf
  BY DEF Invariant, TypeOK
<1> USE <1>1 DEF NobodyMatches, serviceVars, driverVars, recordVars, clientVars, starterVars
<1>2. CASE BeginEntry
  BY <1>2 DEF BeginEntry, RecordInitialization
<1>3. CASE RecordDevice
  BY <1>3 DEF RecordDevice, RecordInitialization
<1>4. CASE RecordLink
  BY <1>4 DEF RecordLink, RecordInitialization
<1>5. CASE CreateDevice \/ CreateSymbolicLink \/ EntrySucceeds \/ EntryFails
  BY <1>5 DEF CreateDevice, CreateSymbolicLink, EntrySucceeds, EntryFails
<1>6. CASE Unload \/ StopService
  BY <1>6 DEF Unload, BeginUnload, EndUnload, StopService
<1>7. CASE Crash
  BY <1>7 DEF Crash
<1>8. CASE Load
  BY <1>8 DEF Load, LoadDriver, BlockDriver
<1>9. CASE Install \/ Uninstall \/ ClearRecord
  BY <1>9 DEF Install, Uninstall, ClearRecord, Invariant, ServiceMatches, TypeOK
<1>10. ASSUME NEW c \in Clients, Client(c)
       PROVE  NobodyMatches'
  <2>1. UNCHANGED <<serviceVars, driverVars, recordVars>>
    BY <1>10 DEF Client, Open, Ask, Answer, Close, OpenFails, Diagnose, Acknowledge, Step, Moves
  <2> QED
    BY <2>1
<1>11. ASSUME NEW s \in Starters, StartService(s)
       PROVE  NobodyMatches'
  BY <1>11 DEF StartService
<1>12. ASSUME NEW s \in Starters,
              CallStart(s) \/ QueryService(s) \/ StartRefused(s) \/ CommandFails(s) \/ Poll(s)
       PROVE  NobodyMatches'
  <2>1. UNCHANGED <<serviceVars, driverVars, recordVars>>
    BY <1>12 DEF CallStart, QueryService, StartRefused, CommandFails, Poll
  <2> QED
    BY <2>1
<1>13. CASE UNCHANGED vars
  BY <1>13 DEF vars
<1> QED
  BY <1>2, <1>3, <1>4, <1>5, <1>6, <1>7, <1>8, <1>9, <1>10, <1>11, <1>12, <1>13
     DEF Next, DriverEntry, Starter

\* A handle is open only while the driver is loaded, because Unload waits for the
\* last one; and a call of start_driver that goes on has polls left.
LEMMA CallersStep ==
  Invariant /\ [Next]_vars => HandlesMatch' /\ PollsLeft'
<1> DEFINE Match == HandlesMatch /\ PollsLeft
<1> SUFFICES ASSUME Invariant, [Next]_vars PROVE Match'
  OBVIOUS
<1> USE DriverServiceAssumption DEF DriverServiceAssumption, Invariant, TypeOK,
        ServiceMatches, HandlesMatch, PollsLeft, Holding,
        serviceVars, driverVars, recordVars, clientVars, starterVars
<1>1. CASE BeginEntry
  BY <1>1 DEF BeginEntry
<1>2. CASE CreateDevice
  BY <1>2 DEF CreateDevice
<1>3. CASE RecordDevice
  BY <1>3 DEF RecordDevice
<1>4. CASE CreateSymbolicLink
  BY <1>4 DEF CreateSymbolicLink
<1>5. CASE RecordLink
  BY <1>5 DEF RecordLink, AfterLink, LinkOutcome, DeleteDevice
<1>6. CASE EntrySucceeds
  BY <1>6 DEF EntrySucceeds, Release
<1>7. CASE EntryFails
  BY <1>7 DEF EntryFails, Release
<1>8. CASE BeginUnload
  BY <1>8 DEF BeginUnload, Undo, UnloadOrder
<1>9. CASE EndUnload
  BY <1>9 DEF EndUnload, Undo, UnloadOrder
<1>10. CASE StopService
  BY <1>10 DEF StopService
<1>11. CASE Crash
  BY <1>11 DEF Crash
<1>12. ASSUME NEW c \in Clients, Client(c)
       PROVE  Match'
  <2>1. CASE Open(c)
    BY <1>12, <2>1 DEF Open, Openable, Step, Moves, ClientTypes, DeviceMatches, TypeOK
  <2>2. CASE Ask(c) \/ Answer(c) \/ Close(c)
    BY <1>12, <2>2 DEF Ask, Answer, Close, Step, Moves
  <2>3. CASE OpenFails(c) \/ Diagnose(c) \/ Acknowledge(c)
    BY <1>12, <2>3 DEF OpenFails, Diagnose, Acknowledge, Moves
  <2> QED
    BY <1>12, <2>1, <2>2, <2>3 DEF Client
<1>13. ASSUME NEW s \in Starters, StartService(s)
       PROVE  Match'
  BY <1>13 DEF StartService, Goes
<1>14. ASSUME NEW s \in Starters,
              CallStart(s) \/ QueryService(s) \/ StartRefused(s) \/ CommandFails(s) \/ Poll(s)
       PROVE  Match'
  BY <1>14 DEF CallStart, QueryService, StartRefused, CommandFails, Poll, Goes, CountPoll, OutOfPolls
<1>15. CASE Load
  BY <1>15 DEF Load, LoadDriver, BlockDriver, Release
<1>16. CASE Install \/ Uninstall \/ ClearRecord
  BY <1>16 DEF Install, Uninstall, ClearRecord
<1>17. CASE UNCHANGED vars
  BY <1>17 DEF vars
<1> QED
  BY <1>1, <1>2, <1>3, <1>4, <1>5, <1>6, <1>7, <1>8, <1>9, <1>10, <1>11, <1>12, <1>13, <1>14,
     <1>15, <1>16, <1>17 DEF Next, DriverEntry, Unload, Starter

\* No other step tells something to a client whose open has failed.
LEMMA ToldByDiagnosis ==
  ASSUME TypeOK, Next, NEW c \in Clients, client[c] = "missing", client'[c] = "told"
  PROVE  Diagnose(c)
<1>1. ~ UNCHANGED clientVars
  BY DEF clientVars
<1>2. ~ Crash
  BY DEF Crash
<1>3. PICK d \in Clients : Client(d)
  BY <1>1, <1>2, ClientFrame
<1>4. client \in [Clients -> {"idle", "missing", "told", "open", "waiting", "answered"}]
  BY TypeParts DEF ClientTypes
<1>5. d = c
  BY <1>3, <1>4 DEF Client, Open, Ask, Answer, Close, OpenFails, Diagnose, Acknowledge, Step, Moves
<1> QED
  BY <1>3, <1>4, <1>5 DEF Client, Open, Ask, Answer, Close, OpenFails, Acknowledge, Step, Moves

-----------------------------------------------------------------------------
\* What is known of the driver at every point of its life is an invariant.
THEOREM Invariance == Spec => []Invariant
<1>1. Invariant /\ [Next]_vars => Invariant'
  <2> SUFFICES ASSUME Invariant, [Next]_vars PROVE Invariant'
    OBVIOUS
  <2>1. TypeOK'
    <3>1. ClientTypes' /\ DriverTypes'
      BY ClientsStep, DriverTypesStep
    <3> QED
      BY <3>1 DEF TypeOK, ClientTypes, DriverTypes, Holding
  <2> QED
    BY <2>1, ClientsStep, ObjectsStep, RecordStep, NobodyStep, CallersStep DEF Invariant
<1> QED
  BY InitHolds, <1>1, PTL DEF Spec

\* Every variable keeps its type, and start_driver never polls more than MaxPolls times.
THEOREM TypeCorrect == Spec => []TypeOK
<1>1. Invariant => TypeOK
  BY DEF Invariant
<1> QED
  BY Invariance, <1>1, PTL

\* The link never names a deleted device, and Unload never takes the device from under
\* an open handle.
THEOREM LinkIsSound == Spec => []NoDanglingLink
<1>1. Invariant => NoDanglingLink
  BY DEF Invariant, TypeOK, DeviceMatches, LinkMatches, HandlesMatch, Holding, NoDanglingLink
<1> QED
  BY Invariance, <1>1, PTL

\* Failed, unloaded or crashed, the driver leaves no device and no link behind, so
\* DriverEntry can create them again.
THEOREM LeavesNothing == Spec => []StoppedLeavesNothing
<1>1. Invariant => StoppedLeavesNothing
  BY DEF Invariant, DeviceMatches, LinkMatches, StoppedLeavesNothing
<1> QED
  BY Invariance, <1>1, PTL

\* Whatever starts are blocked afterwards, the registry tells how far the last load came
\* that reached DriverEntry, unless a write of its record was lost; a cleared record stays
\* cleared until then.
THEOREM RecordIsTrue == Spec => []RecordTellsOutcome
<1>1. Invariant => RecordTellsOutcome
  BY DEF Invariant, RecordMatches, NobodyMatches, RecordTellsOutcome, Outcome
<1> QED
  BY Invariance, <1>1, PTL

\* Whoever is told that the service runs without its device had tried while it did not
\* run.  Whoever is told that the driver failed to initialize finds that failure in the
\* registry if the start came to DriverEntry, and nothing there if the record was cleared
\* and the start blocked.
THEOREM DiagnosisIsSound == Spec => HintIsHonest
<1> DEFINE Failure == /\ recordOf = "last" => failedAt # 0 /\ record = [stage |-> failedAt, ok |-> FALSE]
                      /\ recordOf = "nobody" => record = NoRecord
           Told(c) == client[c] = "missing" /\ client'[c] = "told" =>
                        /\ hint'[c] = "no_device" => seen[c] # "running"
                        /\ hint'[c] = "entry_failed" => Failure
<1>1. Invariant /\ [Next]_vars => [\A c \in Clients : Told(c)]_vars
  <2> SUFFICES ASSUME Invariant, Next, NEW c \in Clients,
                      client[c] = "missing", client'[c] = "told"
               PROVE  seen[c] # "running" /\ (hint'[c] = "entry_failed" => Failure)
    BY DEF vars
  <2>1. Diagnose(c)
    BY ToldByDiagnosis DEF Invariant
  <2>2. seen[c] # "running"
    BY DEF Invariant, SeenMatches
  <2>3. ASSUME hint'[c] = "entry_failed"
        PROVE  Failure
    <3>1. hint'[c] \in {Diagnosis, "unknown"}
      BY <2>1 DEF Diagnose, Invariant, TypeOK
    <3>2. entry = "absent" /\ lastExit = "entry_failed"
      BY <2>3, <3>1 DEF Diagnosis, Invariant, TypeOK, ServiceMatches
    <3>3. recordOf = "last" => failedAt # 0 /\ record = [stage |-> failedAt, ok |-> FALSE]
      BY <3>2 DEF Invariant, RecordMatches
    <3>4. recordOf = "nobody" => record = NoRecord
      BY DEF Invariant, NobodyMatches
    <3> QED
      BY <3>3, <3>4
  <2> QED
    BY <2>2, <2>3
<1> QED
  BY Invariance, <1>1, PTL DEF Spec, HintIsHonest
=============================================================================
