# A verification development of MACRO-MEMORY-READER

This directory holds TLA+ models of the DarkEden memory reader, the TLC configurations
that check them on small instances, and TLAPS proofs about its core. Each definition
that stands for code names its lines in `PROJECT.json` under `map`.

Run everything inside this directory: `tlc -config MCKernelReader.cfg MCKernelReader`,
`tlapm KernelReaderProofs.tla`.

## 1. The system

A kernel driver reads (and in one place writes) the memory of the game `darkeden.exe` on
behalf of administrator programs: a native GUI, and a C++ engine under a Python GUI. A
request is synchronous: client → `DeviceIoControl` → driver → client, in the thread of
the caller. Nothing stops the game meanwhile.

| Component | State | Operations | Correct when |
|---|---|---|---|
| **Kernel process reader** `KernelProcessMemoryReader.*` | `process_`; local handle and reference; attachment of the thread; in the kernel, counts per process object | `Initialize`, `InitializeForRequest`, `ResolveImageOffset`, `CopyValue`, `WriteUInt32`, destructor | nothing leaks or is released twice; no freed object is used; only a verified `darkeden.exe` is touched, with the rights asked for |
| **Target selection** `Example.cpp`, `DriverClient.h` | the locals of the walk; the slot in the game | `ExecuteSelectTargetRequest`, `SelectNearbyTarget` | an id is written at most once, only into a controller and only for a character that was seen; success is what the slot holds; who is told "not found" has selected nothing; the walk ends |
| **Coordinate reads** `DriverProtocol.h`, `CoordinateRequest.h`, `DarkEdenCoordinateReader.h`, `DriverClient.h` | request, answer, address | `ExecuteDarkEdenRequest`, `Read`, `ReadPlayerCoordinates`, `ReadAllDarkEdenCoordinates` | success follows the documented chain within the pointers' width; driver and client agree on the protocol; a pair is published whole or not at all |
| **Own coordinates** `ValueEngine.cpp` | the image base found; the words read | `ReadOwnXFromYPath`, `ReadDword`, `FindImageBase` | the value is at the end of the documented path, though each word is a request of its own |
| **Text reads** `TextRequest.h`, `ReadText`, `DecodeText`, `DE_ReadValue` | buffer, terminator flag | `ReadPointedText`, `ReadOtherCharacterText`, the code pages, the UTF-16 retry | the bytes returned are the text in memory, whole or marked as cut; a name is what those bytes say |
| **Nearby characters** `ValueEngine.cpp` | worklist, seen nodes, seen actors, list | `DE_ListNearbyCharacters` | exact on a game that stands still; no duplicate or invented character on one that moves; ends |
| **Native GUI** `gui/Main.cpp` | `busy`, `job`, `worker`, settings, values | the message handlers, the worker, `Finished` | values belong to the settings beside them; the thread object is never misused; the window comes free |
| **Python GUI** `python/gui.py` | `pid`, rows, values, three buttons | handlers, poll, workers, `after(0)` callbacks, `read_all` | rows belong to the chosen game; values shown together are of one game; buttons come back; an exited game is left |
| **Driver life cycle** `driver/Driver.cpp`, `python/driver_service.py`, `scripts/Install-`, `Uninstall-`, `Deploy-Driver.ps1` | device, link, registry record, service state | `DriverEntry`, `Unload`, open/ask/close, `start_driver`, installing, removing, clearing the record | no half-loaded driver stays; the record tells how far the last load came; starting and stopping end |
| **Diagnosis** `DriverClient.h` | what the service was when the open failed | `QueryDriverService`, `FormatDeviceError` | the advice fits the state the user met, though the service is asked later |
| Python API, wording of messages, other scripts, tests | – | – | not modelled, see §8 |

What is shared and what makes it hard:

* **Process objects of the kernel** between requests in parallel, with processes that
  start, exit and hand on their ids between any two calls; each call can fail.
* **The game's memory** between the driver (or the engine) and the game. Words are read
  one at a time, so a walk can mix words of several trees; links may form cycles; memory
  may be gone.
* **The selection slot** between several select requests and the game.
* **`job`, `worker` and `busy`** between the UI thread and the worker of the native GUI,
  joined only by a posted message; and **`after(0)` callbacks** in the Python GUI, which
  arrive after the choice of process may have changed.
* **The service, the device and its link** between starters, clients and the service
  control manager, with a failure at each step, a start that something outside blocks before
  `DriverEntry` runs, and a crash at any point.

`PROJECT.json` lists under `hazards` what can go wrong at which line, and the properties
aimed at it.

## 2. Modules

| Module | Models | One action is |
|---|---|---|
| `KernelReader` | the reader and the kernel's process objects | one call of the reader into the kernel |
| `AccessGrant` | what the reader promises, without handles, references or ids | a grant, a touch, a return |
| `KernelReaderImplements` | the refinement mapping between the two | – |
| `TargetMark` | what selecting a character promises, without tree, walk or memory | a question, a mark, an answer, what the user is told |
| `TargetSelection` | the select request and its client against a moving game, and how it implements `TargetMark` | one word read or written, one word changed by the game |
| `CoordinateRead` | a coordinate request from the client and back; the engine's own X in four of them; the callers in kernel mode | one pointer read, one message |
| `TextRead` | a text request, its decoding, and the engine's own-name logic | one character read, one message |
| `NearbyList` | the engine's walk over the tree | one `ReadDword` or `ReadText` (a whole request) |
| `PythonGui` | the Tk thread, its workers, its callbacks | one event handler, run to its end |
| `CppGui` | the UI thread, its worker, the posted message | one message handler, or a step of the worker |
| `DriverService` | `DriverEntry`, `Unload`, clients and what they are told, `start_driver`, the scripts | one call into the kernel or to `sc.exe` |
| `KernelReaderProofs`, `TargetSelectionProofs`, `CoordinateReadProofs`, `TextReadProofs`, `NearbyListProofs`, `DriverServiceProofs`, `CppGuiProofs`, `PythonGuiProofs` | the theorems (§6) | – |

The `MC…` modules only hold definitions for TLC: the symmetry sets and the memories the
game may be in. A definition described as *a variant* in a comment is not part of the
model: it states a plausible mistake in the definition beside it, and `mutants` of
`PROJECT.json` says which property notices it.

How the modules fit together: `KernelReader` is the ground under every request of the
driver; `TargetSelection`, `CoordinateRead` and `TextRead` each replace it by its effect
("the word, or a failure") and add what the request does with the words. `NearbyList`
replaces the whole driver by `ReadDword`; the two GUIs replace a request by "an answer or
a failure, some time later"; `DriverService` replaces it by open, ask, answer, close.

### Reading the models

* `KernelReader`: `handle`, `process`, `bound` and `attached` are `processHandle`, the
  local `process`, the member `process_` and the attachment of the thread. A kernel call
  is a disjunction of its outcomes; `status` decides where the code goes, as `NT_SUCCESS`
  does. `kind = "legacy"` is `Initialize`, which checks neither rights nor program;
  `"select"` is `allowWrite`. An entry point of `Example.cpp` is any sequence of up to
  `MaxOps` memory operations. `InitializeAgain` is there because the class guards against
  it. The id of an exited process is free at once, though Windows keeps it for as long as
  the object is referenced: the reader is shown not to rely on that.
* `TargetSelection`, `NearbyList`: `mem` is a record of the words the code looks at.
  `Game` changes one of them, frees an object or ends the process; in `NearbyList` another
  game may also take the process id, with its image at the same base. `quiet` and `ever` are
  histories: whether memory has stood still during the call, and what it has shown.
  Coordinates are reduced to "on a map or not" (`near`). `TargetSelection` maps its
  variables to those of `TargetMark` by name: the slots of `mem` to `slot`, `ever` to the
  evidence, `wrote` to the mark, `reported` to what the user is told. `Refuse` and `Return`
  are the client's half, before and after the `DeviceIoControl`.
* `CoordinateRead`: memory is not a variable. Each read returns any word, or a failure
  with some bytes, so it also covers a game that moves. Widths are constants, with the
  order of the real ones (`PointerMax` < `UserMax` < `HostMax`). `call.kind` is who asks:
  `Read` ("value"), `ReadPlayerCoordinates` ("player"), the engine ("ownX"), and the entry
  points of `Example.cpp`. The first slot of every path is offset `Root`, resolved to any of
  `Bases`; the engine's further requests carry real offsets, relative to `imageBase`, to which
  the driver adds `image`, the base of the process it opens. `Restart` separates the two and
  sets `astray`.
* `NearbyList`: a node's key and an object's id may be zero, as they are in memory the game
  has cleared; two zeros are equal, and `IsCharacter` refuses them for the zero. An object's
  name is there or not (`name`); the own object never has one, which is how the game keeps it
  by `src/README.md:50` and is not a rule of the code.
* `TextRead`: memory is a sequence of bytes ending at `PointerMax + 1`, one past the last
  32-bit address; a UTF-16 character at the top reads that byte. `task` is what the text is
  for: `"name"` is `DE_ReadValue` with its retry, `"own"` and `"nearby"` are the two reads of
  the list, `"other"` the driver's chain to another character, which no caller uses. `Decode`
  is `DecodeText`: UTF-16 joined from pairs of bytes; else UTF-8, which is always read
  strictly, then code page 949, read strictly only for a nearby name; else the empty text.
  Windows' conversions are the constant operators `Utf8` and `Cp949`, any two that map bytes
  to code units or fail; the proofs know nothing else of them.
* `PythonGui`: `worker[j]` is the process a thread works for, and stays until its
  callback has run. `byHand` remembers that the user picked the process shown in the
  combo box after the rows were loaded; the code has no handler for that event. `values` is
  the set of processes the values on the window were read from; an error shows none. While
  `reading` counts down the Tk thread is inside `read_all` and takes no event (`Idle`).
* `CppGui`: `finished` is the posted message, `terminated` stands for `std::terminate`
  and for a null `job`.
* `DriverService`: `entry` is the point `DriverEntry` or `Unload` has reached. The
  service control manager and the I/O manager are external: the control manager refuses
  to start what is not stopped, and `Unload` runs when no handle is open. A start is first
  `"loading"`; then `LoadDriver` enters `DriverEntry`, or `BlockDriver` ends it with no line
  of the driver run. The repository has seen both kinds of the latter: error 647 while the
  game's protection runs, even for a minimal driver (`src/README.md:378-382`), which is the
  code a failing `DriverEntry` leaves (`"entry_failed"`), and 577 for a signature
  (`src/GUI-DRIVER.md:302`; `"blocked"` stands for every other code). The record of an earlier
  load stays then, for which reason `Deploy-Driver.ps1` clears it before it starts the service
  (`ClearRecord`; it may come at any time, since the script's check is some commands older).
  `lastExit` is the `win32ExitCode` a query returns, `hint` the branch of `FormatDeviceError`
  taken, and `seen` (history) the state the service had when the open failed. `recordOf`
  (history) is whose record the registry holds: `"nobody"`'s after clearing or installing; the
  `"last"` start's; that of an `"earlier"` one, the last having been blocked; or `"unsure"`,
  after a write that failed or a crash, since the registry is not flushed and a crash may bring
  an older record back.

## 3. Runs

| Run | Question | Bounds |
|---|---|---|
| `kernel_reader` | Do counts, references, attachments and rights stay right, and is `AccessGrant` implemented? | 2 requests of every kind, 2 objects, 1 id (so ids are reused), 1 memory operation each |
| `kernel_reader_live` | Is an exited process freed in the end? | 1 request repeated for ever, 2 operations |
| `select` | Does the select request decide rightly, and end? | all search trees of 3 nodes with every content of the objects, the empty tree, a ring; loop bound 2, so that trees deeper than the bound occur; one change by the game in the trees marked `Changing` |
| `select_pair` | Is `TargetMark` implemented when two requests and the game write the slot? | 2 requests, 2 controllers, 2 nodes, 1 change |
| `coordinate_read` | Are chains, widths, the protocol, the pair and the engine's relative addresses right? | every form of request and every kind of caller, 7 words at the edges of both widths, failures with 0 and with some bytes, 2 image bases and restarts between them |
| `text_read` | Is the text exact, in both widths, and the name what it says? | every text of zeros and letters over 8 bytes; every beginning of 4 bytes from {0, 65, 169, 195}, the last two of which are one character of UTF-8 in one order and of CP949 only in the other; buffer of 6, every pointer, chain of 5; 1 change in the marked texts |
| `nearby` | Is the list exact or at least honest, and does the walk end? | every linking of 2 nodes, every content with ids 0, 1 and 2, a chain whose middle node cannot be read, 3 heaps of 3 nodes with 2 changes, of a word or of the whole heap; the node bound is 2, the list fits 1 |
| `nearby_own_name` | (violation) Is the own name given only to the own character? | a fork, 2 changes |
| `python_gui` | Rows, values, buttons, chosen process | 2 games, 3 workers, 2 kinds of value (3 in the code), a closing window |
| `cpp_gui` | Values, settings, thread object, the window coming free | 2 games, every setting |
| `cpp_gui_lost_post` | (violation) The same if `PostMessageW` may fail | 1 game |
| `driver_service` | Half-loaded driver, record, diagnosis, start and stop | 1 client, 2 starters, 2 polls; starts blocked and scripts run any number of times |

Why these are enough to be of use: two requests and one reused id are the least that can
confuse each other's objects. Three nodes give every turn of a search and one level more
than the loop bound allows. A change of one word between two reads is the race itself;
`nearby` allows two because its own-name question needs two. The buffer of six bytes has
room for two wide characters and a terminator, and a text can fill it; four bytes make a
one-character name, a wide one of two characters, a text neither code page reads strictly and
one that ends in half a character. Deadlock is checked
in every run. Symmetry is used only in `kernel_reader`, whose properties treat requests
and objects alike and which checks no liveness.

What the runs say beyond "no error":

* `ImplementsTargetMark` is as much as a driver can promise that does not stop the game: the
  slot was written in an object that *was* the controller, for a character that *had* the id
  and coordinates, at some time during the request. Success concerns the moment of the read
  back; afterwards another request may overwrite the slot. A caller who is told of any error
  but "not found" or "revision mismatch" may have selected the character after all, because
  the read back can fail. `QuietVerdict` is exact, but only for a game that stands still.
* `SuccessFollowedPath` holds for the own X as long as the engine's image base is that of the
  process the driver opens. After a restart at another base every later address is shifted by
  the difference and the value is any word of the new game: nothing in the protocol lets
  either side notice. `astray` marks these calls.
* `HintIsHonest`: "the service runs but its device is missing" is said only to a user who
  tried while the service was not running. With this driver a device is thus never
  really missing from a running service: the advice to check what is installed comes from a
  service that was starting or stopping when the user tried. "The driver failed to initialize"
  says less. If the last start did come to `DriverEntry` and no write of the record was lost,
  the registry names the stage that failed; if the record was cleared and the start blocked,
  the registry is empty. But a start blocked with 647 *without* clearing leaves an earlier
  record in place, and the user may then find the complete success of an earlier load beside
  that message. `start_driver` and `Start-Driver.ps1` do not clear; only `Deploy-Driver.ps1` does.
* `ValuesOfOneReading` rests on `read_all` holding the Tk thread. Values of a game that is no
  longer chosen do stay on the window until the next reading.
* `QuietNameIsText`: the own name is what its bytes say, as UTF-8 or else CP949, as far as the
  buffer goes. The one doubtful case is a name of *one* character before a zero, for which the
  engine tries again in UTF-16: it is taken for half of a wide character exactly if the bytes
  from there on form a complete wide text of at least two characters. So a narrow `A` that is
  followed, after its zero, by more bytes of that shape comes back as another name; the code
  cannot tell the two apart, and the property says where the line is. It holds when the second
  request succeeds; when that fails, the engine returns the first character, with success. A
  nearby name is never cut: one that fills the buffer is left out.
* `RowsOfChosenProcess` carries the exception `byHand`: after the user picks another
  process the old rows stay until the next list.
* `AnsweredWindowIsFree` holds if the message is delivered, and not otherwise.

## 4. Disagreements with the documents

* `nearby_own_name`. `src/README.md:50` says that the player's own character, whose name
  pointer is empty, is named from the own-name path. The code gives that name to whichever
  *single* listed character has no readable name (`ValueEngine.cpp:208-211`). If the player
  is not listed and another character's name cannot be read, that one gets the player's
  name. What does hold is `OwnNameNotShared`.
* `cpp_gui_lost_post`. `src/GUI-DRIVER.md:195` says that the window can be closed once the
  answer has come. `Main.cpp:134` does not look at the result of `PostMessageW`; without
  the message `busy` stays set and closing is refused for ever.

## 5. Fairness

Every liveness property is checked under fairness of the program's own threads only:

* A driver thread inside a request keeps running (`WF(Step)`): it waits for nobody, its
  loops are bounded, each kernel call returns. For `kernel_reader_live` the kernel also
  frees an object that nobody references (`WF(FreeObject)`).
* The thread that lists keeps running (`NearbyList`).
* The window handles its events, and a worker's call returns, since the driver ends each
  request.
* Tk serves its queue and its timers in order, and the poll re-arms itself with `after(2000)`.
  A user who has all values read over and over disables both again and again for the length
  of a reading, so `PythonGui` takes strong fairness for `Callback` and `RefreshProcesses`;
  it is the only use of strong fairness.
* In `DriverService`, `DriverEntry`, `Unload` and `start_driver` run on, the control manager
  ends a load one way or the other (`WF(Load)`), and clients close their handles: `Handle`
  does it on every path.

Nothing is assumed of the user, of the games, or of who starts or stops the service.

## 6. Proofs

### The kernel reader

`KernelReaderProofs` proves, for **every** finite set of requests and every set of objects
and ids (`KernelReaderAssumption` only says that the requests are finitely many, that `None`
is neither an object nor an id and that `MaxOps` is a number):

| Theorem | States |
|---|---|
| `TypeCorrect` | `Spec => []TypeOK` – no count goes below zero |
| `NoLeak` | `Spec => []CountsMatchHolders` |
| `NeverFreedInUse` | `Spec => []NoUseAfterFree` |
| `OnlyVerifiedTouched` | `Spec => []AttachedOnlyVerified` |
| `ReturnsEmptyHanded` | `Spec => []NothingHeldAfterReturn` |
| `ReaderBindsOnce` | `Spec => BoundOnce` |
| `Implementation` | `Spec => ImplementsAccessGrant` |

None of these properties is inductive alone. `Dereference` keeps counts natural only if what
it releases was counted; counts match holders only if a call takes what it does not yet hold
and releases what it does; an object in use is not freed only if counts match; what was
checked of an object (program, rights) stays true only if it is not freed. The invariant
`IInv` closes the circle:

    IInv = TypeOK
         ∧ IdsDenoteRunning        an id leads to a live object
         ∧ CountsMatchHolders      the kernel counts what readers hold
         ∧ NoUseAfterFree          what is held is not freed
         ∧ HoldingsFollowProgress  where a request is determines what it holds
                                   and what has been verified

`InitInv` and the five step lemmas (`TypeStep`, `CountsStep`, `IdsStep`, `LifeStep`,
`HoldingsStep`), one case per action, give `Invariance`. Four lemmas on cardinality
(`HandleTaken`, `HandleReleased`, `PointerTaken`, `PointerReleased`) carry the counting.
`RefinementStep` shows that every step is a step of `AccessGrant` or a stutter: only
`LocateImage` and `LookupProcess` grant, only `Destroy` gives back, and `FreeObject` is the
abstract `Vanish`, which `NoUseAfterFree` justifies.

### The life of the driver

`DriverServiceProofs` proves, for any sets of clients and starters and any `MaxPolls > 0`,
`TypeCorrect`, `LinkIsSound` (`NoDanglingLink`), `LeavesNothing` (`StoppedLeavesNothing`),
`RecordIsTrue` (`RecordTellsOutcome`) and `DiagnosisIsSound` (`HintIsHonest`). Whether a link
may exist without its device depends on how far `DriverEntry` or `Unload` has come, so
`Invariant` says for every value of `entry` what the control manager reports
(`ServiceMatches`), which objects exist (`DeviceMatches`, `LinkMatches`) and, while `recordOf`
is `"last"` or `"earlier"`, what the registry holds (`RecordMatches`); while it is `"nobody"`
there is no record, and the driver's code has not run since (`NobodyMatches`, which is why
`ClearRecord` in the middle of a load must lead to `"unsure"`). Two more parts concern the
callers: an open handle means the driver is loaded (`HandlesMatch`, true because `Unload` waits
for the last handle), and a caller that goes on has polls left (`PollsLeft`, which keeps `polls`
in its type). For the diagnosis, `SeenMatches` says that a client whose open failed had met a
service that was not running, since a running one has link and device. That an exit code of a
failed `DriverEntry` goes with a failed stage is claimed only while `recordOf` is `"last"`, when
the start that left the code is the one that left the record: a blocked start leaves the same
code but makes the record an `"earlier"` one. `ClientTypes` and `DriverTypes` split `TypeOK` by
who changes what.

### Selecting a character

`TargetSelectionProofs` proves `TypeCorrect`, `Implementation` (`ImplementsTargetMark`) and
`QuietVerdictExact` (`QuietVerdict`) for any sets of requests, controllers, nodes, characters and ids, any memory and any number of
changes. Since the game may change a word right after the driver has read it, no invariant can
say that a local variable is what memory holds. `Invariant` says instead what memory has held
since the call, which is what `ever` keeps: it only grows (`Observed`) and always covers what
memory shows now. From `"header"` on the controller has shown its vtable; at `"xy"` an id equal
to the target's was carried by the character object at hand; at `"write"` that same object has
also shown map coordinates. `PhaseSound` adds that nothing is written before `"write"` and
exactly the checked controller at `"readback"`. One lemma per action shows that the invariant
is kept: a change of memory is looked at for every request (`GameStep`, `WriteSlotHolds`), a
step of one request only for that request (`OwnStep`). The write of one request changes what
another will read back but is no evidence (`HistoryKept`), so it maps to one `Mark`. The
assumptions are that ids are positive numbers, that the null pointer is the address of no
object and names no request, that the sentinel is no node, that the loop bound is positive, and
that the game starts in some memory.

`QuietVerdictExact` is about one request in a memory nobody else changes. `Ways(m, d)` are the
paths of d links from the root on which child and parent agree; `Below` is the least set of
nodes closed under links. The invariant `QuietSound` says that what was read is what memory
holds (`ControllerKnown`, `ReadTrue`), that the node at hand is the end of a way as long as the
loop has counted, and, if the tree is intact, lies on every way that ends at the target
(`OnTheTrail`), and that only an id that stands in the tree is written (`WrittenTrue`). Two lemmas
on ways carry it: what a way passes is below every node it passed before (`EndIsBelow`), so the
order of the keys leaves the search no other turn (`TrailSide`). From it `QuietAnswer` has the
first and the last part of the verdict, which need no intact tree, and `QuietFound` excludes every
step that could end in a failure. `EndIsBelow` is the one induction: over the *set* of lengths for
which it holds (`SetInduction`, from the well-foundedness of `<` on `Nat`), since the library's
own induction theorems take an operator the provers cannot instantiate.

`BoundedRequest` is the part of `SelectionReturns` that needs no fairness: `StepsLeft`, at most
3 · `MaxDepth` + 10, is lowered by every step of the request and raised by nothing the game or
another request does. A turn of the loop takes three steps and one of the depth left. The
driver holds the game's process object no longer than that, even in a ring of nodes.

### Reading coordinates

`CoordinateReadProofs` proves `TypeCorrect`, `AnswersAccepted` (`AnswersAreAccepted`),
`SuccessFollowsPath` (`SuccessFollowedPath`) and `AllOrNothingPublished` (`AllOrNothing`) for any
image bases, words and values in the game, any point at which a packed pair is split, and any
limits of the widths. `CoordinateReadAssumption` orders the limits, says that bases are
addresses and that a pointer can hold the largest offset of a path (2304).

* *Within the driver* (`Driver`): a request under way is valid; while it walks, the trail is as
  long as the pointers followed, each word of it is not null, and each address is the word
  before it plus the offset (`Followed`). `AddBounds` carries the arithmetic: a sum that passes
  the check of `AddOffset` stays in the width of the target, so the addition of the driver does
  not wrap. `Paths` compares the offsets in the code with the documented ones, request by
  request. A successful answer is the last value read (`LastRead`).
* *Within the client* (`Calling`): which requests are left and what is collected already, for each
  kind of call. A call of one request has nothing left (`OnlyPart`). A pair holds its X while Y
  is asked for, four bytes of it, and that X was read (`PlayerCall`, `XKept`). The engine has read
  n words, each leads to the address of the next (`Linked`), and the request under way is for
  the address the last word leads to, relative to the image base found (`OwnCall`). The readings
  of all formats come in pairs (`AllFormats`).

The parts need each other: that the client accepts an answer bounds the bytes collected, which
`TypeOK` counts; and that the image bases agree turns "relative to the image found" into the
address read, unless `astray`.

### Reading text

`TextReadProofs` proves `TypeCorrect`, `TextIsExact` (`QuietTextIsExact`) and `NameIsText`
(`QuietNameIsText`) for any memory of bytes, any chain of offsets, any buffer of whole wide
characters, any two code pages, of which only the type of their results is assumed, and any
number of changes by the game. `Exact` says, while memory has stood still since the
call, that the bytes taken are the first n characters of the text and that none of them is zero
(`Taken`); a successful answer ends at a zero that lies within memory and the buffer, or with
a full buffer (`Ended`). That the number of bytes is always a multiple of the width (`Control`)
is what a read at the end of the buffer needs. The own name adds `Second`: the wide request is only made when the narrow one met one
character followed by a zero, which read as it stands is the name until the second answer.
Two lemmas join what was read to what memory says: a narrow text of n bytes at the pointer is
what n bytes taken before a zero are, so that `Decode` and `Reading` look at the same bytes;
and a wide text is met by the second request exactly if it is complete. Neither needs to know
what the code pages do.

### Listing characters

`NearbyListProofs` proves `TypeCorrect`, `EachListedOnce` (`ListedOnceAndSeen`), `OwnNameKept`
(`OwnNameNotShared`) and `QuietListExact` (`QuietListIsExact`) for any tree, any characters and names, any bound on the nodes and any
number of changes by the game. Nothing is assumed of the links, which may form cycles or share
subtrees, before or after a change. `WalkBounded` therefore bounds the stack by the nodes seen:
a node is put on it only from a node seen for the first time, at most two each. `Recorded` ties
the list to the set of actors seen, `AtHand` says what the object about to be listed has shown
during the call, and `Shown` that the history covers what memory shows now. The only
assumptions are that the nodes are finitely many, the null pointer is no node, object or
sentinel, the sentinel is no node, the own object is an object, the
limits are numbers, and the memories the game starts from are well-formed (`HeapsAssumption`).

`QuietListExact` rests on `QuietWalk`, which holds while the game stands still. `Frontier`: the
nodes seen and those on the stack are in the tree, the root is among them, and a child of a node
seen is seen or on the stack, or is about to be put there. So an empty stack means that the nodes
seen are closed under `Children`, and `Reachable`, the least such set, is in them. `Copied` says
that the words read of the node at hand are those of the memory, `Collected` that the list has
the characters of the nodes seen and no others. A cycle or a shared node needs no case of its own.
`Children` excludes a node that cannot be read: the walk puts no such node on its stack, so what
only hangs below it is not listed, and the list is nevertheless answered as complete. TLC has the
heap `Gap` for this.

`BoundedWalk` is the same for the walk: at most 12 · (`MaxNodes` + 1) + 6 steps. A child put on
the stack costs the step that takes it off again, so each of the two steps that may do so
counts two (`OnTurn`); a node seen for the first time takes twelve from `MaxNodes` + 1, and
`WalkBounded` keeps the rest from growing. With the 2048 nodes of the code a list takes at most
some 24,600 of these steps before the window is free again.

### The native GUI

`CppGuiProofs` proves, for any set of process ids and either value of `PostMayFail`,
`TypeCorrect`, `ShownWasAsked` (`ShownMatchesSettings`), `OneAnswerShown` (`ShownIsOneAnswer`)
and `StaysAlive` (`NeverTerminates`). The properties meet in `BusyMeansJob`: while the flag is
on there are a thread and a job with the window's settings, and nothing is shown; while it is
off there is neither thread nor job nor a message on its way. So the answer, shown by a
handler that looks at no control, belongs to the settings, and a thread is only assigned to
an object that is not joinable. That no message is left when the flag is off is why a late
`Finished` cannot end the next read. `CppGuiAssumption` says that `None` is neither an id nor
a job.

### The Python GUI

`PythonGuiProofs` proves, for any set of process ids and any number of kinds of value,
`TypeCorrect`, `RowsBelong` (`RowsOfChosenProcess`) and `ValuesBelong`
(`ValuesOfOneReading`). `RowsOfChosenProcess` is inductive. The two others are not: the values
shown are of one process because a reading under way has read only from the process that is
chosen now (`ReadingIsOfChosen`), which no event can change before it ends; and the queue of
callbacks is bounded because no worker reports twice (`OneCallbackEach`), so that the queue is
an injection into the jobs.

## 7. What is only model-checked

* Liveness everywhere: `ExitedProcessesAreReclaimed`, `SelectionReturns`, `ListingEnds`,
  `ButtonsComeBack`, `ExitedGameIsLeft`, `AnsweredWindowIsFree`, `StartCallsReturn` and
  `StopCompletes`: reasoning about fairness and `ENABLED` is beyond the prover used.
  For `SelectionReturns` and `ListingEnds` only that is left to TLC: `BoundedRequest` and
  `BoundedWalk` bound the steps a call can take, so it ends if its thread goes on running.

Everything else a run checks is a theorem of §6: every invariant, the two exact verdicts and both
refinements. The recorded disagreements of §4 are counterexamples, and so only runs.

## 8. What is not modelled

* IRQL checks (the driver runs every request at passive level), the sizes of IRP buffers and
  the echoed version and size fields: stateless checks.
* Race and life of a character, the JSON text, the formatting of values, logs, status lines.
* `darkeden.py` (argument checks) and the wording of messages; the address field is reduced to
  the three outcomes of `ParseAddress` the GUI tells apart.
* The other PowerShell scripts, build files, the Lua and scan scripts used to find offsets, the tests.
* A restart at another image base within one list: `NearbyList` has restarts at the same base,
  `CoordinateRead` those at another. With shifted addresses any word may be read, and no
  property of the list would be left to state.
* The value-type setting of the native GUI: it travels with the job as the process, the mode
  and the address do, which `CppGui` has, and decides only how the answer is formatted.
* What a code page does with a given byte: `Utf8` and `Cp949` are constants.
* The select request sent to a game other than the one whose list was shown: `PythonGui` keeps
  which process the rows are of, `TargetSelection` what a game makes of an id.

## 9. Plan

Done: the kernel reader with its abstract specification and proofs; selection with its
client and its abstract specification; the three kinds of reads, the engine's own coordinates
and the kernel-mode callers; the two GUIs; the life cycle of the driver and the diagnosis of a
missing device, with starts that are blocked from outside and the scripts that install the
driver. Every property the runs check is proved but liveness.

Next, proving more: the bound on steps for `StartCallsReturn` and `StopCompletes` (the polls
left), and for the text and coordinate requests; and a refinement for reading text, which would
say once for both encodings what `Exact` says of each.
