--------------------------- MODULE CoordinateRead ---------------------------
(***************************************************************************)
(* A coordinate request end to end: the client (DriverClient.h) asks for   *)
(* one value or, as ReadPlayerCoordinates, for X and then Y in requests of *)
(* their own; the driver (ExecuteDarkEdenRequest, CoordinateRequest.h,     *)
(* DarkEdenCoordinateReader.h) follows a chain of pointers in the game and *)
(* answers; the client checks the answer and publishes the result.  The    *)
(* engine (ReadOwnXFromYPath) follows the chain to X itself, one word to a *)
(* request, each address made relative to the image base it has found; and *)
(* callers in kernel mode (Example.cpp) read without device or client.     *)
(*                                                                         *)
(* The memory of the game is not a variable: every read returns any word   *)
(* or fails, which covers a game that changes it between any two reads.    *)
(* Offsets are those of the code; the limits of the widths are constants,  *)
(* because the 32-bit limit is too large for TLC.                          *)
(***************************************************************************)
EXTENDS Integers, Sequences

CONSTANTS
  PointerMax,  \* the largest 32-bit address (0xFFFFFFFF)
  UserMax,     \* MmHighestUserAddress
  HostMax,     \* the largest address of the driver
  Bases,       \* what image base + offset can resolve to
  Words,       \* pointers found in the game
  Values,      \* 4-byte values found at the end of a chain
  Images,      \* image bases the game can be loaded at
  Half         \* 2^16, which splits a packed pair

ASSUME CoordinateReadAssumption ==
  /\ PointerMax \in Nat /\ 2304 <= PointerMax  \* the offsets of the paths are 32-bit ones
  /\ UserMax \in PointerMax..HostMax /\ HostMax \in Nat
  /\ Bases \subseteq 1..UserMax /\ Images \subseteq 1..PointerMax
  /\ Words \subseteq 0..HostMax /\ Values \subseteq Nat /\ Half \in Nat \ {0}

VARIABLES
  pc,        \* where the call is
  call,      \* what the user of the client asked
  todo,      \* requests the client has still to send
  request,   \* the request the driver works on
  address,   \* the address it reads next
  level,     \* pointers it has followed
  response,  \* its answer
  combined,  \* what the client has collected
  result,    \* what the client publishes ...
  ok,        \* ... and whether it reports success
  readings,  \* the readings of all formats
  image,     \* where the game's image is, which the driver asks the process
  imageBase, \* where the engine has found it
  astray,    \* the two have differed during the call (history)
  trail,     \* reads of this request, as <<address, word>> (history)
  reads      \* final reads that succeeded during the call (history)

clientVars == <<call, todo, combined, result, ok, readings>>
imageVars  == <<image, imageBase, astray>>
driverVars == <<request, address, level, response, trail, reads>>
vars == <<pc, clientVars, imageVars, driverVars>>

Axes       == {"X", "Y", "Both"}
ValueTypes == {"Int32", "Float32"}
Failures   == {"INVALID_PARAMETER", "INVALID_ADDRESS", "INTEGER_OVERFLOW",
               "PARTIAL_COPY", "FAULT", "NOT_OPENED"}
\* The offset of a path's first slot, which only names the path.
Root == 0
RequestsAt(offsets) ==
  [baseAddress : offsets, axis : Axes \cup {"other"}, pointerBytes : {0, 2, 4, 8},
   valueType : ValueTypes \cup {"other"}, reserved : 0..6]
Requests == RequestsAt(0..PointerMax)

\* ReadDword's request for the word at an offset from the image.
Word(offset) ==
  [baseAddress |-> offset, axis |-> "X", pointerBytes |-> 0, valueType |-> "Int32", reserved |-> 0]
Pair(bytes) ==
  [baseAddress |-> Root, axis |-> "Both", pointerBytes |-> bytes, valueType |-> "Int32",
   reserved |-> 0]

\* What callers ask: users of the client, the engine, and code in kernel mode.
Kernel == {"int32", "coordinates", "module", "formats"}
Calls  == [kind : {"value", "player"}, request : RequestsAt({Root})]
          \cup [kind : {"ownX", "int32"}, request : {Word(Root)}]
          \cup [kind : Kernel \ {"int32"}, request : {Pair(4)}]

Failed(s, bytes) == [status |-> s, bytesRead |-> bytes, x |-> 0, y |-> 0]
Nothing == Failed("INVALID_PARAMETER", 0)

Init ==
  /\ pc = "idle"
  /\ call = [kind |-> "value", request |-> Word(Root)] /\ request = Word(Root)
  /\ todo = <<>> /\ address = 0 /\ level = 0 /\ trail = <<>>
  /\ response = Nothing /\ combined = Nothing /\ result = Nothing /\ ok = FALSE
  /\ reads = <<>> /\ readings = <<>>
  /\ image \in Images /\ imageBase = 0 /\ astray = FALSE

-----------------------------------------------------------------------------
(***************************************************************************)
(* The protocol.                                                           *)
(***************************************************************************)

ValidRequest(q) ==
  /\ \/ q.reserved = 0
     \/ q.reserved \in {1, 3} /\ q.pointerBytes = 4 /\ q.axis = "X"
     \/ q.reserved \in {2, 4} /\ q.pointerBytes = 4 /\ q.axis = "Y"
     \/ /\ q.reserved = 5 /\ q.pointerBytes = 4 /\ q.axis = "Both"
        /\ q.valueType = "Int32"
  /\ q.axis \in Axes
  /\ (q.pointerBytes = 0 /\ q.axis = "X") \/ q.pointerBytes \in {4, 8}
  /\ q.valueType \in ValueTypes

\* The version, the sizes and the echoed fields of an answer are right by
\* construction of the answer; what is left to check is its content.
ValidResponse(q, r) ==
  LET expected == IF q.reserved = 5 THEN 4 ELSE IF q.axis = "Both" THEN 8 ELSE 4 IN
  /\ r.bytesRead <= expected
  /\ r.status = "SUCCESS" => r.bytesRead = expected
  /\ r.status # "SUCCESS" => r.x = 0 /\ r.y = 0
  /\ q.axis = "X" => r.y = 0
  /\ q.axis = "Y" => r.x = 0

-----------------------------------------------------------------------------
(***************************************************************************)
(* The driver.                                                             *)
(***************************************************************************)

\* Requests for one value and the fixed player paths use DispatchCoordinateRequest
\* itself; the others go through BasicDarkEdenCoordinateReader.
Legacy(q) == q.reserved = 0 /\ q.pointerBytes # 0

Levels(q) ==
  CASE q.reserved = 5 -> 4
    [] Legacy(q) \/ q.reserved = 4 -> 3
    [] OTHER -> q.reserved

\* The offsets added to the pointers read, in order.
Offsets(q) ==
  CASE q.reserved = 5 -> <<52, 0, 20, 12>>
    [] Legacy(q)      -> <<12, 68, IF q.axis = "Y" THEN 536 ELSE 532>>
    [] OTHER          -> <<IF q.reserved = 4 THEN 12 ELSE IF q.reserved >= 2 THEN 4 ELSE 0,
                           IF q.reserved = 4 THEN 68 ELSE IF q.reserved = 3 THEN 168 ELSE 2304,
                           IF q.reserved = 4 THEN 528 ELSE 524>>

PointerSize(q) == IF Legacy(q) THEN q.pointerBytes ELSE 4
Limit(q)       == IF PointerSize(q) = 4 THEN PointerMax ELSE HostMax
ValueSize(q)   == IF Legacy(q) /\ q.axis = "Both" THEN 8 ELSE 4

\* CopyValue of size bytes: the whole value, or a failure with some bytes copied.
Copy(a, size, words) ==
  IF a = 0 \/ a > UserMax - (size - 1)
    THEN [status : {"INVALID_PARAMETER"}, bytes : {0}, word : {0}]
    ELSE [status : {"SUCCESS"}, bytes : {size}, word : words]
         \cup [status : {"FAULT", "PARTIAL_COPY"}, bytes : {0, size - 1}, word : {0}]

\* A variant without the limit.
AddUnchecked(q, pointer, offset) ==
  IF pointer = 0 THEN "INVALID_ADDRESS" ELSE "SUCCESS"

\* The status of pointer + offset in the width of the target.
Add(q, pointer, offset) ==
  CASE pointer = 0 -> "INVALID_ADDRESS"
    [] pointer # 0 /\ (pointer > Limit(q) \/ offset > Limit(q) - pointer) -> "INTEGER_OVERFLOW"
    [] OTHER -> "SUCCESS"

Answer(r) ==
  /\ pc' = "reply"
  /\ response' = r

\* What ends a request before its first read.
Refusals ==
  CASE call.kind = "module" -> {"INVALID_ADDRESS", "INTEGER_OVERFLOW"}
    [] call.kind \in Kernel \ {"module"} -> {}
    [] OTHER -> {"NOT_OPENED", "INTEGER_OVERFLOW"}

\* Where the first read goes: the image base plus the offset, or a caller's address.
Starts == IF request.baseAddress = Root
            THEN Bases
            ELSE {image + request.baseAddress} \cap 0..UserMax

\* ValidRequest holds of what the client sends and fails nothing here.  The reader
\* is initialized and the offset resolved, or the request ends.
Execute ==
  /\ pc = "execute"
  /\ level' = 0 /\ trail' = <<>>
  /\ \/ /\ \E s \in Refusals : Answer(Failed(s, 0))
        /\ UNCHANGED address
     \/ \E base \in Starts :
          IF Legacy(request) /\ Add(request, base, 0) # "SUCCESS"
            THEN Answer(Failed(Add(request, base, 0), 0)) /\ UNCHANGED address
            ELSE pc' = "walk" /\ address' = base /\ UNCHANGED response
  /\ UNCHANGED <<clientVars, imageVars, request, reads>>

\* One pointer of the chain.  bytesRead does not count pointers.
FollowPointer ==
  /\ pc = "walk" /\ level < Levels(request)
  /\ \E c \in Copy(address, PointerSize(request), Words \cap 0..Limit(request)) :
       LET offset == Offsets(request)[level + 1]
           added  == IF c.status = "SUCCESS" THEN Add(request, c.word, offset) ELSE c.status
       IN /\ trail' = Append(trail, <<address, c.word>>)
          /\ IF added = "SUCCESS"
               THEN /\ address' = (c.word + offset) % (HostMax + 1)
                    /\ level' = level + 1
                    /\ UNCHANGED <<pc, response>>
               ELSE Answer(Failed(added, 0)) /\ UNCHANGED <<address, level>>
  /\ UNCHANGED <<clientVars, imageVars, request, reads>>

\* Where the words of the final read go in the answer.
Bits(q, word, second) ==
  CASE q.reserved = 5 -> [x |-> word % Half, y |-> word \div Half]
    [] q.reserved # 5 /\ q.axis = "X" -> [x |-> word, y |-> 0]
    [] q.reserved # 5 /\ q.axis = "Y" -> [x |-> 0, y |-> word]
    [] OTHER -> [x |-> word, y |-> second]

\* A variant that fills them in after a failure too.
BitsRegardless(q, status, bytes, bits) ==
  [status |-> status, bytesRead |-> bytes, x |-> bits.x, y |-> bits.y]

\* Bits are filled in only when the whole value was read.
Answered(q, status, bytes, bits) ==
  IF status = "SUCCESS"
    THEN [status |-> status, bytesRead |-> bytes, x |-> bits.x, y |-> bits.y]
    ELSE Failed(status, bytes)

\* The last offset leads to the value itself, which may be a pointer to the engine.
\* For Both the reader copies the adjacent words in one read.
ReadValue ==
  /\ pc = "walk" /\ level = Levels(request)
  /\ \E c \in Copy(address, ValueSize(request),
                   IF call.kind = "ownX" THEN Words \cap 0..PointerMax ELSE Values),
        second \in IF ValueSize(request) = 8 THEN Values ELSE {0} :
       LET bits == Bits(request, c.word, second) IN
       /\ Answer(Answered(request, c.status, c.bytes, bits))
       /\ trail' = Append(trail, <<address, c.word>>)
       /\ reads' = IF c.status = "SUCCESS"
                     THEN Append(reads, [axis |-> request.axis, at |-> address,
                                         x |-> bits.x, y |-> bits.y])
                     ELSE reads
  /\ UNCHANGED <<clientVars, imageVars, request, address, level>>

-----------------------------------------------------------------------------
(***************************************************************************)
(* The client.                                                             *)
(***************************************************************************)

\* The request for one axis of the player's coordinates.
Part(q, axis) ==
  [baseAddress |-> q.baseAddress, axis |-> axis, pointerBytes |-> 4, valueType |-> q.valueType,
   reserved |-> IF axis = "X" THEN 3 ELSE 4]

\* ReadPlayerCoordinates asks for X before Y.
PlayerParts(q) ==
  CASE q.axis = "Both"       -> <<Part(q, "X"), Part(q, "Y")>>
    [] q.axis \in {"X", "Y"} -> <<Part(q, q.axis)>>
    [] OTHER                 -> <<>>

\* The offsets with which the engine goes on from one word to the next.
OwnXPath == <<12, 68, 524>>

\* The requests of a call, in order.
Parts(c) ==
  CASE c.kind = "player"  -> PlayerParts(c.request)
    [] c.kind = "ownX"    -> <<Word(Root), Word(OwnXPath[1]), Word(OwnXPath[2]), Word(OwnXPath[3])>>
    [] c.kind = "formats" -> <<Pair(4), Pair(8)>>
    [] OTHER              -> <<c.request>>

Publish(r, success) ==
  /\ pc' = "done"
  /\ result' = r
  /\ ok' = success

\* A call starts with nothing collected.
Empty == Failed("SUCCESS", 0)

\* FindImageBase: the first image of the process named darkeden.exe.
FindImageBase(c) ==
  IF c.kind = "ownX"
    THEN imageBase' \in Images /\ astray' = (imageBase' # image)
    ELSE UNCHANGED <<imageBase, astray>>

Ask(c) ==
  /\ pc = "idle"
  /\ call' = c
  /\ combined' = Empty
  /\ todo' = Parts(c)
  /\ FindImageBase(c)
  /\ IF todo' = <<>> THEN Publish(Nothing, FALSE)
                     ELSE pc' = "send" /\ UNCHANGED <<result, ok>>
  /\ UNCHANGED <<image, readings, driverVars>>

\* The image is not found, the device or the process cannot be opened, the request is
\* not valid, or it is sent.  One binding serves the readings of all formats.
Send ==
  /\ pc = "send"
  /\ \/ readings = <<>> /\ Publish(Nothing, FALSE) /\ UNCHANGED <<todo, request>>
     \/ /\ ValidRequest(Head(todo))
        /\ request' = Head(todo)
        /\ todo' = Tail(todo)
        /\ pc' = "execute"
        /\ UNCHANGED <<result, ok>>
  /\ UNCHANGED <<call, combined, readings, imageVars, address, level, response, trail, reads>>

\* A variant that publishes each half.
PublishAtOnce(more) == TRUE
\* Nothing is published before the last request has been answered.
LastPart(more) == more = <<>>

\* What the client keeps of an answer: all of it, or one half of a pair.
Combine(sofar, r) ==
  IF call.kind = "player"
    THEN [status |-> "SUCCESS", bytesRead |-> sofar.bytesRead + r.bytesRead,
          x |-> IF request.axis = "X" THEN r.x ELSE sofar.x,
          y |-> IF request.axis = "Y" THEN r.y ELSE sofar.y]
    ELSE r

\* A variant that sends the address itself.
Absolute(next) == next
\* ReadDword makes the address relative to the image it has found.
Relative(next) == next - imageBase

\* ReadOwnXFromYPath goes on from the word it was sent.
Onward(word, rest) ==
  IF call.kind = "ownX"
    THEN <<Word(Relative(word + Head(rest).baseAddress))>> \o Tail(rest)
    ELSE rest

\* A null pointer ends the path, and so does an address the request cannot name.
CanGoOn(word, rest) ==
  call.kind = "ownX" =>
    word # 0 /\ word + Head(rest).baseAddress \in (imageBase + 1)..PointerMax

\* The driver has completed the request.
Complete ==
  /\ address' = 0 /\ level' = 0 /\ trail' = <<>> /\ response' = Nothing
  /\ UNCHANGED <<request, reads>>

Receive ==
  /\ pc = "reply" /\ call.kind \notin Kernel
  /\ \/ /\ ~ ValidResponse(request, response)
        /\ Publish(Nothing, FALSE)
        /\ UNCHANGED <<combined, todo>>
     \/ /\ ValidResponse(request, response) /\ response.status # "SUCCESS"
        /\ Publish(IF call.kind = "value" THEN response ELSE Nothing, FALSE)
        /\ UNCHANGED <<combined, todo>>
     \/ /\ ValidResponse(request, response) /\ response.status = "SUCCESS"
        /\ combined' = Combine(combined, response)
        /\ IF LastPart(todo) \/ ~ CanGoOn(response.x, todo)
             THEN Publish(IF LastPart(todo) THEN combined' ELSE Nothing, LastPart(todo))
                  /\ UNCHANGED todo
             ELSE pc' = "send" /\ todo' = Onward(response.x, todo) /\ UNCHANGED <<result, ok>>
  /\ Complete
  /\ UNCHANGED <<call, readings, imageVars>>

-----------------------------------------------------------------------------
(***************************************************************************)
(* Callers in kernel mode, and the game.                                   *)
(***************************************************************************)

\* InterpretAsFloat: the same bits, if there are any.
AsFloat(r) == IF r.status = "SUCCESS" THEN r ELSE Failed(r.status, r.bytesRead)

\* ReadDarkEdenInt32 and ReadDarkEdenCoordinates return the answer;
\* ReadAllDarkEdenCoordinates keeps each with its float view, whatever became of it.
Collect ==
  /\ pc = "reply" /\ call.kind \in Kernel
  /\ IF call.kind = "formats"
       THEN /\ readings' = readings \o <<response, AsFloat(response)>>
            /\ IF LastPart(todo) THEN Publish(Empty, TRUE)
                                 ELSE pc' = "send" /\ UNCHANGED <<result, ok>>
       ELSE Publish(response, response.status = "SUCCESS") /\ UNCHANGED readings
  /\ Complete
  /\ UNCHANGED <<call, todo, combined, imageVars>>

\* Between two requests the game exits and another gets its process id, at another base.
Restart ==
  /\ pc = "send" /\ call.kind = "ownX"
  /\ image' \in Images \ {image}
  /\ astray' = TRUE
  /\ UNCHANGED <<pc, clientVars, imageBase, driverVars>>

\* The caller takes the result; nothing of a call outlives it, and the game goes on.
Take ==
  /\ pc = "done"
  /\ pc' = "idle"
  /\ call' = [kind |-> "value", request |-> Word(Root)] /\ request' = Word(Root)
  /\ todo' = <<>> /\ combined' = Nothing /\ result' = Nothing /\ ok' = FALSE
  /\ reads' = <<>> /\ readings' = <<>> /\ imageBase' = 0 /\ astray' = FALSE
  /\ UNCHANGED <<address, level, response, trail, image>>

-----------------------------------------------------------------------------
Next ==
  \/ \E c \in Calls : Ask(c)
  \/ Send \/ Receive \/ Take
  \/ Execute \/ FollowPointer \/ ReadValue
  \/ Collect \/ Restart

Spec == Init /\ [][Next]_vars

-----------------------------------------------------------------------------
(***************************************************************************)
(* Properties.                                                             *)
(***************************************************************************)

\* Every variable has its type.  In particular an address computed from a pointer of
\* the game never leaves the width of the game's pointers, so no chain wraps round to
\* an unrelated address.
TypeOK ==
  LET Responses == [status : Failures \cup {"SUCCESS"}, bytesRead : 0..8, x : Nat, y : Nat] IN
  /\ pc \in {"idle", "send", "execute", "walk", "reply", "done"}
  /\ call \in Calls /\ request \in Requests /\ todo \in Seq(Requests)
  /\ level \in 0..4 /\ address \in 0..HostMax
  /\ pc = "walk" /\ level > 0 => address \in 1..Limit(request)
  /\ {response, combined, result} \subseteq Responses /\ readings \in Seq(Responses)
  /\ ok \in BOOLEAN
  /\ trail \in Seq(Nat \X Nat)
  /\ reads \in Seq([axis : Axes, at : Nat, x : Nat, y : Nat])
  /\ image \in Images /\ imageBase \in Images \cup {0} /\ astray \in BOOLEAN

\* The two sides of the protocol agree: whatever a valid request meets in the
\* game, the driver's answer is one the client does not reject as malformed.
AnswersAreAccepted == pc = "reply" => ValidResponse(request, response)

\* README.md gives the chain of every request: offsets added to the pointers read.
DocumentedPath(q) ==
  CASE q.reserved = 0 /\ q.pointerBytes = 0 -> <<>>
    [] q.reserved = 0 /\ q.axis = "Y" /\ q.pointerBytes # 0 -> <<12, 68, 536>>
    [] q.reserved = 0 /\ q.axis # "Y" /\ q.pointerBytes # 0 -> <<12, 68, 532>>
    [] q.reserved = 1 -> <<0>>
    [] q.reserved = 2 -> <<4, 2304>>
    [] q.reserved = 3 -> <<4, 168, 524>>
    [] q.reserved = 4 -> <<12, 68, 528>>
    [] q.reserved = 5 -> <<52, 0, 20, 12>>

\* A request that succeeds has read exactly the documented chain, each address
\* being the pointer read just before plus its offset.  The own X is at the end of the
\* chain of four requests: their addresses follow the words though each was sent relative
\* to the image, as long as engine and driver mean the same image.
SuccessFollowedPath ==
  /\ pc = "reply" /\ response.status = "SUCCESS" =>
       LET path == DocumentedPath(request) IN
       /\ Len(trail) = Len(path) + 1
       /\ \A i \in 1..Len(path) :
            trail[i][2] # 0 /\ trail[i + 1][1] = trail[i][2] + path[i]
  /\ pc = "done" /\ ok /\ call.kind = "ownX" /\ ~ astray =>
       /\ Len(reads) = 4 /\ result.x = reads[4].x
       /\ \A i \in 1..3 : reads[i].x # 0 /\ reads[i + 1].at = reads[i].x + <<12, 68, 524>>[i]

\* Among the final reads of the call is one of this axis and value.
WasRead(axis, x, y) ==
  \E i \in DOMAIN reads :
    /\ reads[i].axis \in {axis, "Both"}
    /\ reads[i].x = x \/ axis = "Y"
    /\ reads[i].y = y \/ axis = "X"

\* What is published is all that was asked for, each coordinate one that was read
\* for this call, or no coordinate at all: X read with a failed Y is not shown.  The
\* formats stand each for itself: one reading's failure leaves the other and no bits of
\* its own, and both views of a reading show the same bits.
AllOrNothing ==
  pc = "done" =>
    CASE call.kind = "formats" ->
           \A i \in {1, 3} \cap DOMAIN readings :
             /\ readings[i + 1] = readings[i]
             /\ IF readings[i].status = "SUCCESS"
                  THEN WasRead("Both", readings[i].x, readings[i].y)
                  ELSE readings[i].x = 0 /\ readings[i].y = 0
             /\ ok /\ Len(readings) = 4
      [] call.kind # "formats" /\ ok ->
           /\ \A axis \in {"X", "Y"} :
                call.request.axis \in {axis, "Both"} => WasRead(axis, result.x, result.y)
           /\ result.bytesRead =
                IF call.request.axis = "Both" /\ (call.kind = "player" \/ Legacy(call.request))
                  THEN 8 ELSE 4
      [] OTHER -> result.x = 0 /\ result.y = 0
=============================================================================
