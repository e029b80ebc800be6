------------------------- MODULE CoordinateReadProofs -------------------------
(***************************************************************************)
(* For any image bases, words and values in the game and any limits of the *)
(* widths: the types of CoordinateRead, that the client accepts every      *)
(* answer of the driver, that a request that succeeds followed its path,   *)
(* and that a call publishes all that was asked for or nothing.            *)
(***************************************************************************)
EXTENDS CoordinateRead, SequenceTheorems, TLAPS

Responses == [status : Failures \cup {"SUCCESS"}, bytesRead : 0..8, x : Nat, y : Nat]
Reads     == [axis : Axes, at : Nat, x : Nat, y : Nat]
InFlight  == {"execute", "walk", "reply"}

Types ==
  /\ pc \in {"idle", "send", "done"} \cup InFlight
  /\ call \in Calls /\ request \in Requests /\ todo \in Seq(Requests)
  /\ level \in 0..4 /\ address \in 0..HostMax
  /\ response \in Responses /\ combined \in Responses /\ result \in Responses
  /\ readings \in Seq(Responses) /\ ok \in BOOLEAN
  /\ trail \in Seq(Nat \X Nat) /\ reads \in Seq(Reads)
  /\ image \in Images /\ imageBase \in Images \cup {0} /\ astray \in BOOLEAN

\* The first n pointers of the path were followed, and lead to an address.
Followed(path, n, a) ==
  /\ \A i \in 1..n : trail[i][2] # 0
  /\ \A i \in 1..n - 1 : trail[i + 1][1] = trail[i][2] + path[i]
  /\ n > 0 => a = trail[n][2] + path[n]

\* The answer is the last value read.
LastRead ==
  /\ Len(reads) > 0 /\ reads[Len(reads)].axis = request.axis
  /\ reads[Len(reads)].x = response.x /\ reads[Len(reads)].y = response.y

Driver ==
  /\ pc \in InFlight => ValidRequest(request)
  /\ pc = "walk" => /\ Len(trail) = level /\ level <= Levels(request)
                    /\ level > 0 => address \in 1..Limit(request)
                    /\ Followed(Offsets(request), level, address)
  /\ pc = "reply" => ValidResponse(request, response)
  /\ pc = "reply" /\ response.status = "SUCCESS" => LastRead

\* Calls of one request.
Single == {"value", "int32", "coordinates", "module"}
OnlyPart ==
  call.kind \in Single =>
    /\ pc = "send" => todo = <<call.request>>
    /\ pc \in InFlight => request = call.request /\ todo = <<>>

\* The X of the player is kept while Y is asked for.
XKept == combined.bytesRead = 4 /\ WasRead("X", combined.x, 0)
PlayerCall ==
  call.kind = "player" =>
    LET q == call.request IN
    /\ pc \in {"send"} \cup InFlight => q.axis \in Axes
    /\ pc = "send" =>
         \/ todo = PlayerParts(q) /\ combined = Empty
         \/ q.axis = "Both" /\ todo = <<Part(q, "Y")>> /\ XKept
    /\ pc \in InFlight =>
         \/ q.axis \in {"X", "Y"} /\ request = Part(q, q.axis) /\ todo = <<>> /\ combined = Empty
         \/ q.axis = "Both" /\ request = Part(q, "X") /\ todo = <<Part(q, "Y")>> /\ combined = Empty
         \/ q.axis = "Both" /\ request = Part(q, "Y") /\ todo = <<>> /\ XKept

\* The request after n words of the engine's own path, and the rest of the path.
Onto(n) == IF n = 0 THEN Word(Root) ELSE Word((reads[n].x + OwnXPath[n]) - imageBase)
Rest(n) ==
  CASE n = 0 -> <<Word(OwnXPath[1]), Word(OwnXPath[2]), Word(OwnXPath[3])>>
    [] n = 1 -> <<Word(OwnXPath[2]), Word(OwnXPath[3])>>
    [] n = 2 -> <<Word(OwnXPath[3])>>
    [] n = 3 -> <<>>
\* The next word is to be read at an address.
NextAt(n, a) == n > 0 /\ ~ astray => a = reads[n].x + OwnXPath[n]
Linked(n) ==
  /\ \A i \in 1..n : reads[i].x # 0
  /\ ~ astray => \A i \in 1..n - 1 : reads[i + 1].at = reads[i].x + OwnXPath[i]
  /\ n > 0 => reads[n].x + OwnXPath[n] \in imageBase + 1..PointerMax

OwnCall ==
  call.kind = "ownX" =>
    /\ call.request = Word(Root)
    /\ pc \in {"send"} \cup InFlight => imageBase \in Images /\ (astray \/ imageBase = image)
    /\ pc = "send" => \E n \in 0..3 :
         /\ Len(reads) = n /\ Linked(n)
         /\ todo # <<>> /\ Head(todo) = Onto(n) /\ Tail(todo) = Rest(n)
    /\ pc \in InFlight => \E n \in 0..3 :
         /\ Linked(n) /\ request = Onto(n) /\ todo = Rest(n)
         /\ Len(reads) = IF pc = "reply" /\ response.status = "SUCCESS" THEN n + 1 ELSE n
         /\ pc = "walk" => NextAt(n, address)
         /\ Len(reads) = n + 1 => NextAt(n, reads[n + 1].at)

\* A reading is seen twice, with the bits of a value read or with none.
Kept == \A i \in {1, 3} \cap DOMAIN readings :
  /\ i + 1 \in DOMAIN readings /\ readings[i + 1] = readings[i]
  /\ IF readings[i].status = "SUCCESS" THEN WasRead("Both", readings[i].x, readings[i].y)
                                       ELSE readings[i].x = 0 /\ readings[i].y = 0
AllFormats ==
  call.kind = "formats" =>
    /\ Kept
    /\ pc = "send" => \/ todo = <<Pair(4), Pair(8)>> /\ readings = <<>>
                      \/ todo = <<Pair(8)>> /\ Len(readings) = 2
    /\ pc \in InFlight => \/ request = Pair(4) /\ todo = <<Pair(8)>> /\ readings = <<>>
                          \/ request = Pair(8) /\ todo = <<>> /\ Len(readings) = 2

\* Nothing of a call is left before the next.
Clean == pc = "idle" => reads = <<>> /\ readings = <<>> /\ call.kind = "value"

Calling == OnlyPart /\ PlayerCall /\ OwnCall /\ AllFormats /\ Clean

Invariant == Types /\ Driver /\ Calling /\ SuccessFollowedPath /\ AllOrNothing

-----------------------------------------------------------------------------
(***************************************************************************)
(* Requests, and lists of them.                                            *)
(***************************************************************************)
LEMMA Widths ==
  /\ PointerMax \in Nat /\ UserMax \in Nat /\ HostMax \in Nat
  /\ 2304 <= PointerMax /\ PointerMax <= UserMax /\ UserMax <= HostMax
  BY CoordinateReadAssumption DEF CoordinateReadAssumption

LEMMA CallShape ==
  ASSUME NEW c \in Calls
  PROVE  /\ c.kind \in {"value", "player", "ownX"} \cup Kernel
         /\ c.request \in RequestsAt({Root})
         /\ c.kind \in {"ownX", "int32"} => c.request = Word(Root)
         /\ c.kind \in {"coordinates", "module", "formats"} => c.request = Pair(4)
<1>1. Word(Root) \in RequestsAt({Root}) /\ Pair(4) \in RequestsAt({Root})
  BY DEF Word, Pair, RequestsAt, Axes, ValueTypes
<1> QED
  BY <1>1 DEF Calls, Kernel

LEMMA RequestTypes ==
  /\ \A q \in RequestsAt({Root}) : q \in Requests
  /\ \A a \in 0..PointerMax : Word(a) \in Requests
  /\ \A b \in {4, 8} : Pair(b) \in Requests
  /\ \A q \in RequestsAt({Root}), axis \in {"X", "Y"} : Part(q, axis) \in Requests
<1>1. Root \in 0..PointerMax
  BY Widths DEF Root
<1>2. \A q \in RequestsAt({Root}) : q \in Requests
  BY <1>1 DEF RequestsAt, Requests
<1>3. \A a \in 0..PointerMax : Word(a) \in Requests
  BY DEF Word, RequestsAt, Requests, Axes, ValueTypes
<1>4. \A b \in {4, 8} : Pair(b) \in Requests
  BY <1>1 DEF Pair, RequestsAt, Requests, Axes, ValueTypes
<1>5. \A q \in RequestsAt({Root}), axis \in {"X", "Y"} : Part(q, axis) \in Requests
  BY <1>1 DEF Part, RequestsAt, Requests, Axes
<1> QED
  BY <1>2, <1>3, <1>4, <1>5

LEMMA Lists ==
  ASSUME NEW S, NEW a \in S, NEW b \in S, NEW c \in S, NEW d \in S
  PROVE  /\ <<>> \in Seq(S) /\ <<a>> \in Seq(S) /\ <<a, b>> \in Seq(S)
         /\ <<a, b, c>> \in Seq(S) /\ <<a, b, c, d>> \in Seq(S)
  OBVIOUS

LEMMA Tails ==
  ASSUME NEW a, NEW b, NEW c, NEW d
  PROVE  /\ Head(<<a>>) = a /\ Head(<<a, b>>) = a /\ Head(<<a, b, c>>) = a
         /\ Head(<<a, b, c, d>>) = a
         /\ Tail(<<a>>) = <<>> /\ Tail(<<a, b>>) = <<b>> /\ Tail(<<a, b, c>>) = <<b, c>>
         /\ Tail(<<a, b, c, d>>) = <<b, c, d>>
  OBVIOUS

LEMMA Joins ==
  ASSUME NEW S, NEW a \in S, NEW s \in Seq(S)
  PROVE  /\ <<a>> \o s \in Seq(S) /\ <<a>> \o s # <<>>
         /\ Head(<<a>> \o s) = a /\ Tail(<<a>> \o s) = s
  OBVIOUS

LEMMA NotEmpty ==
  ASSUME NEW a, NEW b, NEW c, NEW d
  PROVE  <<a>> # <<>> /\ <<a, b>> # <<>> /\ <<a, b, c>> # <<>> /\ <<a, b, c, d>> # <<>>
  OBVIOUS

LEMMA ResponseTypes ==
  /\ Nothing \in Responses /\ Empty \in Responses
  /\ \A s \in Failures, b \in 0..8 : Failed(s, b) \in Responses
  BY DEF Nothing, Empty, Failed, Responses, Failures


-----------------------------------------------------------------------------
(***************************************************************************)
(* The paths, and what a request answers.                                  *)
(***************************************************************************)

\* The driver adds the documented offsets, which are small.
LEMMA Paths ==
  ASSUME NEW q \in Requests, ValidRequest(q)
  PROVE  /\ Levels(q) \in 0..4 /\ Len(DocumentedPath(q)) = Levels(q)
         /\ \A i \in 1..Levels(q) : Offsets(q)[i] \in Nat /\ DocumentedPath(q)[i] = Offsets(q)[i]
<1> DEFINE Agree(levels, path, offsets) ==
      /\ levels \in 0..4 /\ Len(path) = levels
      /\ \A i \in 1..levels : offsets[i] \in Nat /\ path[i] = offsets[i]
<1>1. q.reserved \in 0..5
  BY DEF ValidRequest, Requests, RequestsAt
<1>2. CASE q.reserved = 5
  <2>1. Levels(q) = 4
    BY <1>2 DEF Levels, Legacy
  <2>2. DocumentedPath(q) = <<52, 0, 20, 12>>
    BY <1>2 DEF DocumentedPath
  <2>3. Offsets(q) = <<52, 0, 20, 12>>
    BY <1>2 DEF Offsets, Legacy
  <2>4. Agree(4, <<52, 0, 20, 12>>, <<52, 0, 20, 12>>)
    OBVIOUS
  <2> QED
    BY <2>1, <2>2, <2>3, <2>4
<1>3. CASE q.reserved = 4
  <2>1. Levels(q) = 3
    BY <1>3 DEF Levels, Legacy
  <2>2. DocumentedPath(q) = <<12, 68, 528>>
    BY <1>3 DEF DocumentedPath
  <2>3. Offsets(q) = <<12, 68, 528>>
    BY <1>3 DEF Offsets, Legacy
  <2>4. Agree(3, <<12, 68, 528>>, <<12, 68, 528>>)
    OBVIOUS
  <2> QED
    BY <2>1, <2>2, <2>3, <2>4
<1>4. CASE q.reserved = 3
  <2>1. Levels(q) = 3
    BY <1>4 DEF Levels, Legacy
  <2>2. DocumentedPath(q) = <<4, 168, 524>>
    BY <1>4 DEF DocumentedPath
  <2>3. Offsets(q) = <<4, 168, 524>>
    BY <1>4 DEF Offsets, Legacy
  <2>4. Agree(3, <<4, 168, 524>>, <<4, 168, 524>>)
    OBVIOUS
  <2> QED
    BY <2>1, <2>2, <2>3, <2>4
<1>5. CASE q.reserved = 2
  <2>1. Levels(q) = 2
    BY <1>5 DEF Levels, Legacy
  <2>2. DocumentedPath(q) = <<4, 2304>>
    BY <1>5 DEF DocumentedPath
  <2>3. Offsets(q) = <<4, 2304, 524>>
    BY <1>5 DEF Offsets, Legacy
  <2>4. Agree(2, <<4, 2304>>, <<4, 2304, 524>>)
    OBVIOUS
  <2> QED
    BY <2>1, <2>2, <2>3, <2>4
<1>6. CASE q.reserved = 1
  <2>1. Levels(q) = 1
    BY <1>6 DEF Levels, Legacy
  <2>2. DocumentedPath(q) = <<0>>
    BY <1>6 DEF DocumentedPath
  <2>3. Offsets(q) = <<0, 2304, 524>>
    BY <1>6 DEF Offsets, Legacy
  <2>4. Agree(1, <<0>>, <<0, 2304, 524>>)
    OBVIOUS
  <2> QED
    BY <2>1, <2>2, <2>3, <2>4
<1>7. CASE q.reserved = 0 /\ q.pointerBytes = 0
  <2>1. Levels(q) = 0
    BY <1>7 DEF Levels, Legacy
  <2>2. DocumentedPath(q) = <<>>
    BY <1>7 DEF DocumentedPath
  <2>3. Offsets(q) = <<0, 2304, 524>>
    BY <1>7 DEF Offsets, Legacy
  <2>4. Agree(0, <<>>, <<0, 2304, 524>>)
    OBVIOUS
  <2> QED
    BY <2>1, <2>2, <2>3, <2>4
<1>8. CASE q.reserved = 0 /\ q.pointerBytes # 0 /\ q.axis = "Y"
  <2>1. Levels(q) = 3
    BY <1>8 DEF Levels, Legacy
  <2>2. DocumentedPath(q) = <<12, 68, 536>>
    BY <1>8 DEF DocumentedPath
  <2>3. Offsets(q) = <<12, 68, 536>>
    BY <1>8 DEF Offsets, Legacy
  <2>4. Agree(3, <<12, 68, 536>>, <<12, 68, 536>>)
    OBVIOUS
  <2> QED
    BY <2>1, <2>2, <2>3, <2>4
<1>9. CASE q.reserved = 0 /\ q.pointerBytes # 0 /\ q.axis # "Y"
  <2>1. Levels(q) = 3
    BY <1>9 DEF Levels, Legacy
  <2>2. DocumentedPath(q) = <<12, 68, 532>>
    BY <1>9 DEF DocumentedPath
  <2>3. Offsets(q) = <<12, 68, 532>>
    BY <1>9 DEF Offsets, Legacy
  <2>4. Agree(3, <<12, 68, 532>>, <<12, 68, 532>>)
    OBVIOUS
  <2> QED
    BY <2>1, <2>2, <2>3, <2>4
<1> QED
  BY <1>1, <1>2, <1>3, <1>4, <1>5, <1>6, <1>7, <1>8, <1>9

LEMMA Limits == ASSUME NEW q PROVE Limit(q) \in Nat /\ Limit(q) <= HostMax
  BY Widths DEF Limit

\* A sum within the limit of the width does not wrap, and is no null pointer.
LEMMA AddBounds ==
  ASSUME NEW q, NEW pointer \in Nat, NEW offset \in Nat, Add(q, pointer, offset) = "SUCCESS"
  PROVE  /\ pointer # 0 /\ pointer + offset \in 1..Limit(q)
         /\ (pointer + offset) % (HostMax + 1) = pointer + offset
<1>1. pointer # 0 /\ ~ (pointer > Limit(q) \/ offset > Limit(q) - pointer)
  BY DEF Add
<1>2. pointer + offset \in 1..Limit(q) /\ pointer + offset \in 0..HostMax
  <2>1. Limit(q) \in Nat /\ Limit(q) <= HostMax /\ HostMax \in Nat
    BY Limits, Widths
  <2> QED
    BY <1>1, <2>1
<1> QED
  BY <1>1, <1>2, Widths

\* What a copy ends with.
LEMMA Copies ==
  ASSUME NEW a, NEW size \in {4, 8}, NEW words, words \subseteq Nat, NEW c \in Copy(a, size, words)
  PROVE  /\ c.word \in Nat
         /\ \/ c.status = "SUCCESS" /\ c.bytes = size /\ c.word \in words
            \/ c.status \in Failures /\ c.bytes \in 0..size - 1 /\ c.status # "SUCCESS"
<1> DEFINE Fails(statuses, bytes) == [status : statuses, bytes : bytes, word : {0}]
<1>1. CASE c \in Fails({"INVALID_PARAMETER"}, {0})
                \cup Fails({"FAULT", "PARTIAL_COPY"}, {0, size - 1})
  <2>1. /\ c.word = 0 /\ c.bytes \in {0, size - 1}
        /\ c.status \in {"INVALID_PARAMETER", "FAULT", "PARTIAL_COPY"}
    BY <1>1
  <2>2. c.bytes \in 0..size - 1
    BY <2>1
  <2>3. c.status \in Failures /\ c.status # "SUCCESS"
    BY <2>1 DEF Failures
  <2> QED
    BY <2>1, <2>2, <2>3
<1>2. CASE c \in [status : {"SUCCESS"}, bytes : {size}, word : words]
  BY <1>2
<1> QED
  BY <1>1, <1>2 DEF Copy

LEMMA Sizes == ASSUME NEW q PROVE ValueSize(q) \in {4, 8}
  BY DEF ValueSize

LEMMA PointerSizes ==
  ASSUME NEW q \in Requests, ValidRequest(q) PROVE PointerSize(q) \in {4, 8}
  BY DEF PointerSize, ValidRequest, Legacy, Requests, RequestsAt

\* A failure with too few bytes is an answer the client accepts.
LEMMA FailureAccepted ==
  ASSUME NEW q, NEW s \in Failures, NEW b \in 0..ValueSize(q)
  PROVE  ValidResponse(q, Failed(s, b))
<1>1. s # "SUCCESS"
  BY DEF Failures
<1>2. ValueSize(q) = 8 => q.reserved # 5 /\ q.axis = "Both"
  BY DEF ValueSize, Legacy
<1> QED
  BY <1>1, <1>2, Sizes DEF ValidResponse, Failed

\* So is a value, with its bits where the axis has them.
LEMMA ValueAccepted ==
  ASSUME NEW q \in Requests, ValidRequest(q), NEW word \in Nat, NEW second \in Nat,
         ValueSize(q) = 4 => second = 0
  PROVE  LET bits == Bits(q, word, second)
             r    == Answered(q, "SUCCESS", ValueSize(q), bits)
         IN  /\ bits.x \in Nat /\ bits.y \in Nat
             /\ r \in Responses /\ ValidResponse(q, r)
             /\ r.status = "SUCCESS" /\ r.x = bits.x /\ r.y = bits.y
<1> DEFINE bits == Bits(q, word, second)
           r    == Answered(q, "SUCCESS", ValueSize(q), bits)
<1>1. Half \in Nat \ {0}
  BY CoordinateReadAssumption DEF CoordinateReadAssumption
<1>2. word % Half \in Nat /\ word \div Half \in Nat
  BY <1>1
<1>3. bits.x \in Nat /\ bits.y \in Nat
  BY <1>2 DEF Bits
<1>4. /\ q.reserved # 5 /\ q.axis = "X" => bits.y = 0
      /\ q.reserved # 5 /\ q.axis = "Y" => bits.x = 0
  BY DEF Bits
<1>5. r = [status |-> "SUCCESS", bytesRead |-> ValueSize(q), x |-> bits.x, y |-> bits.y]
  BY DEF Answered
<1>6. r \in Responses
  BY <1>3, <1>5, Sizes DEF Responses
<1>7. ValueSize(q) = IF q.reserved = 5 THEN 4 ELSE IF q.axis = "Both" THEN 8 ELSE 4
  BY DEF ValueSize, Legacy, ValidRequest, Requests, RequestsAt
<1>8. q.reserved = 5 => q.axis = "Both"
  BY DEF ValidRequest
<1>9. ValidResponse(q, r)
  <2> HIDE DEF bits
  <2> QED
    BY <1>3, <1>4, <1>5, <1>7, <1>8, Sizes DEF ValidResponse
<1> QED
  BY <1>3, <1>5, <1>6, <1>9

-----------------------------------------------------------------------------
(***************************************************************************)
(* The beginning, the end, and what leaves everything as it was.           *)
(***************************************************************************)
LEMMA PlayerPartsShape ==
  ASSUME NEW q \in RequestsAt({Root})
  PROVE  /\ PlayerParts(q) \in Seq(Requests)
         /\ PlayerParts(q) # <<>> => q.axis \in Axes
         /\ q.axis = "Both" => PlayerParts(q) = <<Part(q, "X"), Part(q, "Y")>>
         /\ q.axis \in {"X", "Y"} => PlayerParts(q) = <<Part(q, q.axis)>>
<1>1. \A axis \in {"X", "Y"} : Part(q, axis) \in Requests
  BY RequestTypes
<1>2. CASE q.axis = "Both"
  BY <1>1, <1>2, Lists DEF PlayerParts, Axes
<1>3. CASE q.axis \in {"X", "Y"}
  BY <1>1, <1>3, Lists DEF PlayerParts, Axes
<1>4. CASE q.axis \notin Axes
  <2>1. PlayerParts(q) = <<>>
    BY <1>4 DEF PlayerParts, Axes
  <2> QED
    BY <1>4, <2>1 DEF Axes
<1> QED
  BY <1>2, <1>3, <1>4 DEF Axes

LEMMA OwnXOffsets ==
  /\ OwnXPath[1] \in 0..PointerMax /\ OwnXPath[2] \in 0..PointerMax /\ OwnXPath[3] \in 0..PointerMax
  /\ Root \in 0..PointerMax
  BY Widths DEF OwnXPath, Root

LEMMA PartsTypes ==
  ASSUME NEW c \in Calls
  PROVE  /\ Parts(c) \in Seq(Requests)
         /\ c.kind # "player" => Parts(c) # <<>>
<1>1. c.request \in RequestsAt({Root}) /\ c.request \in Requests
  BY CallShape, RequestTypes
<1>2. CASE c.kind = "player"
  BY <1>1, <1>2, PlayerPartsShape DEF Parts
<1>3. CASE c.kind = "ownX"
  <2>1. /\ Word(Root) \in Requests /\ Word(OwnXPath[1]) \in Requests
        /\ Word(OwnXPath[2]) \in Requests /\ Word(OwnXPath[3]) \in Requests
    BY OwnXOffsets, RequestTypes
  <2>2. Parts(c) = <<Word(Root), Word(OwnXPath[1]), Word(OwnXPath[2]), Word(OwnXPath[3])>>
    BY <1>3 DEF Parts
  <2> QED
    BY <2>1, <2>2, Lists, NotEmpty
<1>4. CASE c.kind = "formats"
  BY <1>4, RequestTypes, Lists, NotEmpty DEF Parts
<1>5. CASE c.kind \notin {"player", "ownX", "formats"}
  <2>1. Parts(c) = <<c.request>>
    BY <1>5 DEF Parts
  <2> QED
    BY <1>1, <2>1, Lists, NotEmpty
<1> QED
  BY <1>2, <1>3, <1>4, <1>5

\* A call that ends without a result publishes nothing.
LEMMA NothingPublished ==
  ASSUME pc' = "done", ok' = FALSE, result'.x = 0, result'.y = 0,
         call'.kind = "formats" => readings' = <<>>
  PROVE  SuccessFollowedPath' /\ AllOrNothing'
<1>1. SuccessFollowedPath'
  BY DEF SuccessFollowedPath
<1>2. CASE call'.kind = "formats"
  <2>1. {1, 3} \cap DOMAIN readings' = {}
    BY <1>2
  <2> QED
    BY <1>1, <1>2, <2>1 DEF AllOrNothing
<1>3. CASE call'.kind # "formats"
  BY <1>1, <1>3 DEF AllOrNothing
<1> QED
  BY <1>2, <1>3

\* Between the requests of a call there is nothing to say of an answer.
LEMMA StillSending ==
  ASSUME pc' \notin InFlight \cup {"done"}
  PROVE  Driver' /\ SuccessFollowedPath' /\ AllOrNothing'
  BY DEF InFlight, Driver, SuccessFollowedPath, AllOrNothing

LEMMA InitInvariant == Init => Invariant
<1> SUFFICES ASSUME Init PROVE Invariant
  OBVIOUS
<1> USE DEF Init
<1>1. Word(Root) \in RequestsAt({Root})
  BY DEF Word, RequestsAt, Axes, ValueTypes
<1>2. call \in Calls
  BY <1>1 DEF Calls
<1>3. Types
  <2>1. request \in Requests
    BY <1>1, RequestTypes
  <2>2. response \in Responses /\ combined \in Responses /\ result \in Responses
    BY ResponseTypes
  <2>3. 0 \in 0..HostMax
    BY Widths
  <2>4. /\ todo \in Seq(Requests) /\ readings \in Seq(Responses)
        /\ trail \in Seq(Nat \X Nat) /\ reads \in Seq(Reads)
    OBVIOUS
  <2>5. pc \in {"idle", "send", "done"} \cup InFlight /\ ok \in BOOLEAN /\ astray \in BOOLEAN
    OBVIOUS
  <2>6. level \in 0..4 /\ address \in 0..HostMax
    BY <2>3
  <2>7. image \in Images /\ imageBase \in Images \cup {0}
    OBVIOUS
  <2> QED
    BY <1>2, <2>1, <2>2, <2>4, <2>5, <2>6, <2>7 DEF Types
<1>4. Driver /\ SuccessFollowedPath /\ AllOrNothing
  BY DEF InFlight, Driver, SuccessFollowedPath, AllOrNothing
<1>5. Calling
  BY DEF Calling, OnlyPart, Single, PlayerCall, OwnCall, AllFormats, Clean, InFlight
<1> QED
  BY <1>3, <1>4, <1>5 DEF Invariant

LEMMA TakeInvariant == ASSUME Invariant, Take PROVE Invariant'
<1> USE DEF Take
<1>1. Word(Root) \in RequestsAt({Root})
  BY DEF Word, RequestsAt, Axes, ValueTypes
<1>2. call' \in Calls
  BY <1>1 DEF Calls
<1>3. Types'
  <2>1. request' \in Requests
    BY <1>1, RequestTypes
  <2>2. combined' \in Responses /\ result' \in Responses
    BY ResponseTypes
  <2>3. todo' \in Seq(Requests) /\ readings' \in Seq(Responses) /\ reads' \in Seq(Reads)
    OBVIOUS
  <2>4. /\ pc' \in {"idle", "send", "done"} \cup InFlight
        /\ ok' \in BOOLEAN /\ imageBase' \in Images \cup {0} /\ astray' \in BOOLEAN
    OBVIOUS
  <2>5. /\ level' \in 0..4 /\ address' \in 0..HostMax /\ response' \in Responses
        /\ trail' \in Seq(Nat \X Nat) /\ image' \in Images
    BY DEF Invariant, Types
  <2> QED
    BY <1>2, <2>1, <2>2, <2>3, <2>4, <2>5 DEF Types
<1>4. Driver' /\ SuccessFollowedPath' /\ AllOrNothing'
  BY StillSending DEF InFlight
<1>5. Calling'
  BY DEF Calling, OnlyPart, Single, PlayerCall, OwnCall, AllFormats, Clean, InFlight
<1> QED
  BY <1>3, <1>4, <1>5 DEF Invariant

LEMMA RestartInvariant == ASSUME Invariant, Restart PROVE Invariant'
<1> USE DEF Restart, clientVars, driverVars
<1>1. Types'
  BY DEF Invariant, Types
<1>2. Driver' /\ SuccessFollowedPath' /\ AllOrNothing'
  BY StillSending DEF InFlight
<1>3. OwnCall'
  <2>1. call.request = Word(Root) /\ imageBase \in Images
    BY DEF Invariant, Calling, OwnCall
  <2>2. PICK n \in 0..3 : /\ Len(reads) = n /\ Linked(n)
                          /\ todo # <<>> /\ Head(todo) = Onto(n) /\ Tail(todo) = Rest(n)
    BY DEF Invariant, Calling, OwnCall
  <2>3. Linked(n)' /\ Onto(n)' = Onto(n) /\ Rest(n)' = Rest(n)
    BY <2>2 DEF Linked, Onto, Rest
  <2> QED
    BY <2>1, <2>2, <2>3 DEF OwnCall, InFlight
<1>4. OnlyPart' /\ PlayerCall' /\ AllFormats' /\ Clean'
  BY DEF OnlyPart, PlayerCall, AllFormats, Clean, Single, InFlight
<1> QED
  BY <1>1, <1>2, <1>3, <1>4 DEF Invariant, Calling

LEMMA StutterInvariant == ASSUME Invariant, UNCHANGED vars PROVE Invariant'
<1> USE DEF vars, clientVars, imageVars, driverVars
<1>1. Types'
  BY DEF Invariant, Types
<1>2. Driver'
  BY DEF Invariant, Driver, Followed, LastRead
<1>3. OnlyPart' /\ Clean'
  BY DEF Invariant, Calling, OnlyPart, Clean
<1>4. PlayerCall'
  BY DEF Invariant, Calling, PlayerCall, XKept, WasRead
<1>5. OwnCall'
  BY DEF Invariant, Calling, OwnCall, Onto, Rest, NextAt, Linked
<1>6. AllFormats'
  BY DEF Invariant, Calling, AllFormats, Kept, WasRead
<1>7. SuccessFollowedPath'
  BY DEF Invariant, SuccessFollowedPath
<1>8. AllOrNothing'
  BY DEF Invariant, AllOrNothing, WasRead
<1> QED
  BY <1>1, <1>2, <1>3, <1>4, <1>5, <1>6, <1>7, <1>8 DEF Invariant, Calling

-----------------------------------------------------------------------------
(***************************************************************************)
(* The client asks and sends.                                              *)
(***************************************************************************)
LEMMA Kinds ==
  ASSUME NEW c \in Calls
  PROVE  c.kind \in Single \/ c.kind = "player" \/ c.kind = "ownX" \/ c.kind = "formats"
  BY CallShape DEF Single, Kernel

LEMMA AskInvariant == ASSUME Invariant, NEW c \in Calls, Ask(c) PROVE Invariant'
<1> USE DEF Ask, driverVars
<1>1. /\ reads = <<>> /\ readings = <<>> /\ reads' = <<>> /\ readings' = <<>>
      /\ pc' \in {"send", "done"}
  BY DEF Invariant, Calling, Clean, Publish
<1>2. /\ Parts(c) \in Seq(Requests) /\ todo' = Parts(c) /\ call' = c /\ combined' = Empty
      /\ pc' = "done" => Parts(c) = <<>>
  BY PartsTypes
<1>3. Types'
  <2>1. imageBase' \in Images \cup {0} /\ astray' \in BOOLEAN
    BY DEF Invariant, Types, FindImageBase
  <2>2. result' \in Responses /\ ok' \in BOOLEAN
    BY ResponseTypes DEF Invariant, Types, Publish
  <2>3. call' \in Calls /\ todo' \in Seq(Requests) /\ combined' \in Responses
    BY <1>2, ResponseTypes
  <2>4. /\ request' \in Requests /\ level' \in 0..4 /\ address' \in 0..HostMax
        /\ response' \in Responses /\ readings' \in Seq(Responses) /\ trail' \in Seq(Nat \X Nat)
        /\ reads' \in Seq(Reads) /\ image' \in Images
    BY DEF Invariant, Types
  <2>5. pc' \in {"idle", "send", "done"} \cup InFlight
    BY <1>1
  <2> QED
    BY <2>1, <2>2, <2>3, <2>4, <2>5 DEF Types
<1>4. Driver' /\ SuccessFollowedPath' /\ AllOrNothing'
  <2>1. CASE pc' = "send"
    BY <2>1, StillSending DEF InFlight
  <2>2. CASE pc' = "done"
    <3>1. ok' = FALSE /\ result' = Nothing
      BY <2>2 DEF Publish
    <3>2. result'.x = 0 /\ result'.y = 0
      BY <3>1 DEF Nothing, Failed
    <3>3. SuccessFollowedPath' /\ AllOrNothing'
      BY <1>1, <2>2, <3>1, <3>2, NothingPublished
    <3> QED
      BY <2>2, <3>3 DEF Driver, InFlight
  <2> QED
    BY <1>1, <2>1, <2>2
<1>5. OnlyPart'
  <2>1. c.kind \in Single => Parts(c) = <<c.request>>
    BY DEF Parts, Single
  <2> QED
    BY <1>1, <1>2, <2>1 DEF OnlyPart, InFlight
<1>6. PlayerCall'
  <2>1. c.kind = "player" => Parts(c) = PlayerParts(c.request)
    BY DEF Parts
  <2>2. c.kind = "player" /\ pc' = "send" => c.request.axis \in Axes
    <3>1. pc' = "send" => Parts(c) # <<>>
      BY DEF Publish
    <3>2. c.request \in RequestsAt({Root})
      BY CallShape
    <3> QED
      BY <2>1, <3>1, <3>2, PlayerPartsShape
  <2> QED
    BY <1>1, <1>2, <2>1, <2>2 DEF PlayerCall, InFlight
<1>7. OwnCall'
  <2>1. SUFFICES ASSUME c.kind = "ownX" PROVE OwnCall'
    BY <1>2 DEF OwnCall
  <2>2. c.request = Word(Root)
    BY <2>1, CallShape
  <2>3. imageBase' \in Images /\ (astray' \/ imageBase' = image')
    BY <2>1 DEF FindImageBase
  <2>4. todo' = <<Word(Root), Word(OwnXPath[1]), Word(OwnXPath[2]), Word(OwnXPath[3])>>
    BY <1>2, <2>1 DEF Parts
  <2>5. todo' # <<>> /\ Head(todo') = Onto(0)' /\ Tail(todo') = Rest(0)'
    BY <2>4, Tails, NotEmpty DEF Onto, Rest
  <2>6. Len(reads') = 0 /\ Linked(0)'
    BY <1>1 DEF Linked
  <2>7. \E n \in 0..3 : /\ Len(reads') = n /\ Linked(n)'
                        /\ todo' # <<>> /\ Head(todo') = Onto(n)' /\ Tail(todo') = Rest(n)'
    BY <2>5, <2>6
  <2> QED
    BY <1>1, <1>2, <2>2, <2>3, <2>7 DEF OwnCall, InFlight
<1>8. AllFormats'
  <2>1. c.kind = "formats" => Parts(c) = <<Pair(4), Pair(8)>>
    BY DEF Parts
  <2>2. Kept'
    BY <1>1 DEF Kept
  <2> QED
    BY <1>1, <1>2, <2>1, <2>2 DEF AllFormats, InFlight
<1>9. Clean'
  BY <1>1 DEF Clean
<1> QED
  BY <1>3, <1>4, <1>5, <1>6, <1>7, <1>8, <1>9 DEF Invariant, Calling

\* While the client sends there is something to send.
LEMMA ToSend == ASSUME Invariant, pc = "send" PROVE todo # <<>>
<1>1. call \in Calls /\ call.request \in RequestsAt({Root})
  BY CallShape DEF Invariant, Types
<1>2. CASE call.kind \in Single
  BY <1>2, NotEmpty DEF Invariant, Calling, OnlyPart
<1>3. CASE call.kind = "player"
  <2>1. PICK q \in RequestsAt({Root}) : /\ q.axis \in Axes
                                        /\ todo = PlayerParts(q) \/ todo = <<Part(q, "Y")>>
    BY <1>1, <1>3 DEF Invariant, Calling, PlayerCall
  <2>2. PlayerParts(q) # <<>>
    BY <2>1, PlayerPartsShape, NotEmpty DEF Axes
  <2> QED
    BY <2>1, <2>2, NotEmpty
<1>4. CASE call.kind = "ownX"
  BY <1>4 DEF Invariant, Calling, OwnCall
<1>5. CASE call.kind = "formats"
  BY <1>5, NotEmpty DEF Invariant, Calling, AllFormats
<1> QED
  BY <1>1, <1>2, <1>3, <1>4, <1>5, Kinds

LEMMA RefusedInvariant ==
  ASSUME Invariant, Send, readings = <<>>, Publish(Nothing, FALSE), UNCHANGED <<todo, request>>
  PROVE  Invariant'
<1> USE DEF Send, Publish
<1>1. Types'
  BY ResponseTypes DEF Invariant, Types, imageVars
<1>2. result'.x = 0 /\ result'.y = 0
  BY DEF Nothing, Failed
<1>3. SuccessFollowedPath' /\ AllOrNothing'
  BY <1>2, NothingPublished
<1>4. Driver' /\ OnlyPart' /\ PlayerCall' /\ Clean'
  BY DEF Driver, OnlyPart, PlayerCall, Clean, InFlight
<1>5. OwnCall'
  BY DEF Invariant, Calling, OwnCall, InFlight
<1>6. AllFormats'
  BY DEF AllFormats, Kept, InFlight
<1> QED
  BY <1>1, <1>3, <1>4, <1>5, <1>6 DEF Invariant, Calling

LEMMA SentInvariant ==
  ASSUME Invariant, Send, ValidRequest(Head(todo)), request' = Head(todo), todo' = Tail(todo),
         pc' = "execute", UNCHANGED <<result, ok>>
  PROVE  Invariant'
<1> USE DEF Send, imageVars
<1>1. todo # <<>>
  BY ToSend
<1>2. Types'
  <2>1. request' \in Requests /\ todo' \in Seq(Requests)
    BY <1>1 DEF Invariant, Types
  <2> QED
    BY <2>1 DEF Invariant, Types, InFlight
<1>3. Driver' /\ SuccessFollowedPath' /\ AllOrNothing'
  BY DEF Driver, SuccessFollowedPath, AllOrNothing
<1>4. OnlyPart'
  BY Tails DEF Invariant, Calling, OnlyPart, InFlight
<1>5. PlayerCall'
  <2> DEFINE q == call.request
  <2>1. SUFFICES ASSUME call.kind = "player" PROVE PlayerCall'
    BY DEF PlayerCall
  <2>2. /\ q.axis \in Axes /\ q \in RequestsAt({Root})
        /\ \/ todo = PlayerParts(q) /\ combined = Empty
           \/ q.axis = "Both" /\ todo = <<Part(q, "Y")>> /\ XKept
    BY <2>1, CallShape DEF Invariant, Types, Calling, PlayerCall
  <2>3. CASE q.axis = "Both" /\ todo = <<Part(q, "Y")>> /\ XKept
    <3>1. request' = Part(q, "Y") /\ todo' = <<>>
      BY <2>3, Tails
    <3>2. XKept'
      BY <2>3 DEF XKept, WasRead
    <3> QED
      BY <2>2, <2>3, <3>1, <3>2 DEF PlayerCall, InFlight
  <2>4. CASE todo = PlayerParts(q) /\ combined = Empty /\ q.axis = "Both"
    <3>1. request' = Part(q, "X") /\ todo' = <<Part(q, "Y")>>
      <4>1. todo = <<Part(q, "X"), Part(q, "Y")>>
        BY <2>2, <2>4, PlayerPartsShape
      <4> QED
        BY <4>1, Tails
    <3> QED
      BY <2>2, <2>4, <3>1 DEF PlayerCall, InFlight
  <2>5. CASE todo = PlayerParts(q) /\ combined = Empty /\ q.axis \in {"X", "Y"}
    <3>1. request' = Part(q, q.axis) /\ todo' = <<>>
      BY <2>2, <2>5, PlayerPartsShape, Tails
    <3> QED
      BY <2>2, <2>5, <3>1 DEF PlayerCall, InFlight
  <2> QED
    BY <2>2, <2>3, <2>4, <2>5 DEF Axes
<1>6. OwnCall'
  <2>1. SUFFICES ASSUME call.kind = "ownX" PROVE OwnCall'
    BY DEF OwnCall
  <2>2. call.request = Word(Root) /\ imageBase \in Images /\ (astray \/ imageBase = image)
    BY <2>1 DEF Invariant, Calling, OwnCall
  <2>3. PICK n \in 0..3 : /\ Len(reads) = n /\ Linked(n)
                          /\ Head(todo) = Onto(n) /\ Tail(todo) = Rest(n)
    BY <2>1 DEF Invariant, Calling, OwnCall
  <2>4. /\ Linked(n)' /\ request' = Onto(n)' /\ todo' = Rest(n)' /\ Len(reads') = n
    BY <2>3 DEF Linked, Onto, Rest
  <2>5. n # n + 1
    OBVIOUS
  <2> QED
    BY <2>2, <2>4, <2>5 DEF OwnCall, InFlight
<1>7. AllFormats'
  <2>1. Kept => Kept'
    BY DEF Kept, WasRead
  <2>2. SUFFICES ASSUME call.kind = "formats" PROVE AllFormats'
    BY DEF AllFormats
  <2>3. /\ Kept
        /\ \/ todo = <<Pair(4), Pair(8)>> /\ readings = <<>>
           \/ todo = <<Pair(8)>> /\ Len(readings) = 2
    BY <2>2 DEF Invariant, Calling, AllFormats
  <2>4. CASE todo = <<Pair(4), Pair(8)>> /\ readings = <<>>
    <3>1. request' = Pair(4) /\ todo' = <<Pair(8)>>
      BY <2>4, Tails
    <3> QED
      BY <2>1, <2>3, <2>4, <3>1 DEF AllFormats, InFlight
  <2>5. CASE todo = <<Pair(8)>> /\ Len(readings) = 2
    <3>1. request' = Pair(8) /\ todo' = <<>>
      BY <2>5, Tails
    <3> QED
      BY <2>1, <2>3, <2>5, <3>1 DEF AllFormats, InFlight
  <2> QED
    BY <2>3, <2>4, <2>5
<1>8. Clean'
  BY DEF Clean
<1> QED
  BY <1>2, <1>3, <1>4, <1>5, <1>6, <1>7, <1>8 DEF Invariant, Calling

LEMMA SendInvariant == ASSUME Invariant, Send PROVE Invariant'
<1>1. CASE readings = <<>> /\ Publish(Nothing, FALSE) /\ UNCHANGED <<todo, request>>
  BY <1>1, RefusedInvariant
<1>2. CASE /\ ValidRequest(Head(todo)) /\ request' = Head(todo) /\ todo' = Tail(todo)
           /\ pc' = "execute" /\ UNCHANGED <<result, ok>>
  BY <1>2, SentInvariant
<1> QED
  BY <1>1, <1>2 DEF Send

-----------------------------------------------------------------------------
(***************************************************************************)
(* The driver.                                                             *)
(***************************************************************************)
LEMMA Appended ==
  ASSUME NEW S, NEW s \in Seq(S), NEW e \in S
  PROVE  /\ Append(s, e) \in Seq(S) /\ Len(Append(s, e)) = Len(s) + 1
         /\ Append(s, e)[Len(s) + 1] = e
         /\ \A i \in 1..Len(s) : Append(s, e)[i] = s[i]
         /\ \A i \in DOMAIN s : i \in DOMAIN Append(s, e) /\ Append(s, e)[i] = s[i]
  OBVIOUS

\* A read more, of the address the last pointer led to.
LEMMA LongerTrail ==
  ASSUME level \in Nat, address \in Nat, trail \in Seq(Nat \X Nat), Len(trail) = level,
         Followed(Offsets(request), level, address),
         NEW word \in Nat, trail' = Append(trail, <<address, word>>)
  PROVE  /\ trail' \in Seq(Nat \X Nat) /\ Len(trail') = level + 1
         /\ \A i \in 1..level : trail'[i][2] # 0
         /\ \A i \in 1..level : trail'[i + 1][1] = trail'[i][2] + Offsets(request)[i]
         /\ trail'[level + 1][2] = word
<1> DEFINE e == <<address, word>>
<1>1. e \in Nat \X Nat /\ e[1] = address /\ e[2] = word
  OBVIOUS
<1> HIDE DEF e
<1>2. trail' = Append(trail, e)
  BY DEF e
<1>3. /\ trail' \in Seq(Nat \X Nat) /\ Len(trail') = level + 1
      /\ trail'[level + 1] = e /\ \A i \in 1..level : trail'[i] = trail[i]
  BY <1>1, <1>2, Appended
<1>4. \A i \in 1..level : trail'[i][2] # 0
  BY <1>3 DEF Followed
<1>5. ASSUME NEW i \in 1..level PROVE trail'[i + 1][1] = trail'[i][2] + Offsets(request)[i]
  <2>1. CASE i = level
    BY <1>1, <1>3, <2>1 DEF Followed
  <2>2. CASE i \in 1..level - 1
    <3>1. i + 1 \in 1..level
      BY <2>2
    <3> QED
      BY <1>3, <2>2, <3>1 DEF Followed
  <2>3. i = level \/ i \in 1..level - 1
    OBVIOUS
  <2> QED
    BY <2>1, <2>2, <2>3
<1> QED
  BY <1>1, <1>3, <1>4, <1>5

\* A step of the driver on a request of a call.
LEMMA DriverStep ==
  ASSUME Invariant, pc \in InFlight, pc' \in InFlight,
         UNCHANGED <<clientVars, imageVars, request>>,
         \/ reads' = reads
         \/ \E e \in Reads : reads' = Append(reads, e)
  PROVE  OnlyPart' /\ PlayerCall' /\ AllFormats' /\ Clean'
<1> USE DEF clientVars, imageVars
<1>1. reads \in Seq(Reads)
  BY DEF Invariant, Types
<1>2. \A i \in DOMAIN reads : i \in DOMAIN reads' /\ reads'[i] = reads[i]
  BY <1>1, Appended
<1>3. XKept => XKept'
  BY <1>2 DEF XKept, WasRead
<1>4. Kept => Kept'
  <2>1. SUFFICES ASSUME Kept, NEW i \in {1, 3} \cap DOMAIN readings'
                 PROVE  /\ i + 1 \in DOMAIN readings' /\ readings'[i + 1] = readings'[i]
                        /\ IF readings'[i].status = "SUCCESS"
                             THEN WasRead("Both", readings[i].x, readings[i].y)'
                             ELSE readings'[i].x = 0 /\ readings'[i].y = 0
    BY DEF Kept
  <2>2. /\ i + 1 \in DOMAIN readings /\ readings[i + 1] = readings[i]
        /\ IF readings[i].status = "SUCCESS" THEN WasRead("Both", readings[i].x, readings[i].y)
                                             ELSE readings[i].x = 0 /\ readings[i].y = 0
    BY <2>1 DEF Kept
  <2>3. WasRead("Both", readings[i].x, readings[i].y)
          => WasRead("Both", readings[i].x, readings[i].y)'
    BY <1>2 DEF WasRead
  <2> QED
    BY <2>2, <2>3
<1>5. pc # "send" /\ pc' # "send" /\ pc' # "idle"
  BY DEF InFlight
<1>6. OnlyPart'
  BY <1>5 DEF Invariant, Calling, OnlyPart
<1>7. PlayerCall'
  BY <1>3, <1>5 DEF Invariant, Calling, PlayerCall
<1>8. AllFormats'
  BY <1>4, <1>5 DEF Invariant, Calling, AllFormats
<1>9. Clean'
  BY <1>5 DEF Clean
<1> QED
  BY <1>6, <1>7, <1>8, <1>9

\* An answer that reports a failure.
LEMMA FailureAnswered ==
  ASSUME Invariant, pc \in InFlight, NEW s \in Failures, NEW b \in 0..ValueSize(request),
         Answer(Failed(s, b)), UNCHANGED <<clientVars, imageVars, request, reads>>,
         level' \in 0..4, address' \in 0..HostMax, trail' \in Seq(Nat \X Nat),
         pc # "reply"
  PROVE  Invariant'
<1> USE DEF Answer
<1>1. s # "SUCCESS" /\ Failed(s, b).status # "SUCCESS"
  BY DEF Failures, Failed
<1>2. Types'
  <2>1. b \in 0..8
    BY Sizes
  <2>2. response' \in Responses
    BY <2>1, ResponseTypes
  <2> QED
    BY <2>2 DEF Invariant, Types, InFlight, clientVars, imageVars
<1>3. Driver'
  <2>1. ValidRequest(request)
    BY DEF Invariant, Driver
  <2>2. ValidResponse(request, Failed(s, b))
    BY FailureAccepted
  <2> QED
    BY <1>1, <2>1, <2>2 DEF Driver
<1>4. SuccessFollowedPath' /\ AllOrNothing'
  BY <1>1 DEF SuccessFollowedPath, AllOrNothing
<1>5. OnlyPart' /\ PlayerCall' /\ AllFormats' /\ Clean'
  BY DriverStep DEF InFlight
<1>6. OwnCall'
  <2> USE DEF clientVars, imageVars
  <2>1. SUFFICES ASSUME call.kind = "ownX" PROVE OwnCall'
    BY DEF OwnCall
  <2>2. call.request = Word(Root) /\ imageBase \in Images /\ (astray \/ imageBase = image)
    BY <2>1 DEF Invariant, Calling, OwnCall
  <2>3. PICK n \in 0..3 : Linked(n) /\ request = Onto(n) /\ todo = Rest(n) /\ Len(reads) = n
    BY <2>1 DEF Invariant, Calling, OwnCall, InFlight
  <2>4. Linked(n)' /\ request' = Onto(n)' /\ todo' = Rest(n)' /\ Len(reads') = n /\ n # n + 1
    BY <2>3 DEF Linked, Onto, Rest
  <2> QED
    BY <1>1, <2>2, <2>4 DEF OwnCall, InFlight
<1> QED
  BY <1>2, <1>3, <1>4, <1>5, <1>6 DEF Invariant, Calling

\* The engine asks for a word at an address and for no pointer on the way.
LEMMA EngineAsksForWords ==
  ASSUME Invariant, call.kind = "ownX", pc \in InFlight
  PROVE  /\ request.axis = "X" /\ request.pointerBytes = 0 /\ request.reserved = 0
         /\ Levels(request) = 0
<1>1. PICK n \in 0..3 : request = Onto(n)
  BY DEF Invariant, Calling, OwnCall
<1>2. request.axis = "X" /\ request.pointerBytes = 0 /\ request.reserved = 0
  BY <1>1 DEF Onto, Word
<1> QED
  BY <1>2 DEF Levels, Legacy

LEMMA OntoLater ==
  ASSUME NEW n \in 1..3
  PROVE  Onto(n).baseAddress = (reads[n].x + OwnXPath[n]) - imageBase
<1>1. Onto(n) = Word((reads[n].x + OwnXPath[n]) - imageBase)
  BY DEF Onto
<1> QED
  BY <1>1 DEF Word

LEMMA StartedInvariant ==
  ASSUME Invariant, Execute, NEW base \in Starts, pc' = "walk", address' = base, UNCHANGED response
  PROVE  Invariant'
<1> USE DEF clientVars, imageVars
<1>0. /\ pc = "execute" /\ level' = 0 /\ trail' = <<>>
      /\ UNCHANGED <<clientVars, imageVars, request, reads>>
  BY DEF Execute
<1>1. base \in 0..HostMax
  <2>1. Bases \subseteq 1..UserMax
    BY CoordinateReadAssumption DEF CoordinateReadAssumption
  <2> QED
    BY <2>1, Widths DEF Starts
<1>2. Types'
  BY <1>0, <1>1 DEF Invariant, Types, InFlight
<1>3. Driver'
  <2>1. request \in Requests /\ ValidRequest(request)
    BY <1>0 DEF Invariant, Types, Driver, InFlight
  <2>2. Levels(request) \in 0..4
    BY <2>1, Paths
  <2>3. Followed(Offsets(request), 0, address)'
    BY <1>0 DEF Followed
  <2> QED
    BY <1>0, <2>1, <2>2, <2>3 DEF Driver
<1>4. SuccessFollowedPath' /\ AllOrNothing'
  BY DEF SuccessFollowedPath, AllOrNothing
<1>5. OnlyPart' /\ PlayerCall' /\ AllFormats' /\ Clean'
  BY <1>0, DriverStep DEF InFlight
<1>6. OwnCall'
  <2>1. SUFFICES ASSUME call.kind = "ownX" PROVE OwnCall'
    BY <1>0 DEF OwnCall
  <2>2. call.request = Word(Root) /\ imageBase \in Images /\ (astray \/ imageBase = image)
    BY <1>0, <2>1 DEF Invariant, Calling, OwnCall, InFlight
  <2>3. PICK n \in 0..3 : Linked(n) /\ request = Onto(n) /\ todo = Rest(n) /\ Len(reads) = n
    BY <1>0, <2>1 DEF Invariant, Calling, OwnCall, InFlight
  <2>4. Linked(n)' /\ request' = Onto(n)' /\ todo' = Rest(n)' /\ Len(reads') = n /\ n # n + 1
    BY <1>0, <2>3 DEF Linked, Onto, Rest
  <2>5. NextAt(n, address)'
    <3>1. SUFFICES ASSUME n > 0, ~ astray PROVE base = reads[n].x + OwnXPath[n]
      BY <1>0 DEF NextAt
    <3> DEFINE next == reads[n].x + OwnXPath[n]
    <3>2. request.baseAddress = next - imageBase
      <4>1. n \in 1..3
        BY <3>1
      <4>2. request = Onto(n)
        BY <2>3
      <4> QED
        BY <4>1, <4>2, OntoLater
    <3>3. next \in imageBase + 1..PointerMax /\ imageBase \in Nat
      <4>1. next \in imageBase + 1..PointerMax
        BY <2>3, <3>1 DEF Linked
      <4>2. Images \subseteq 1..PointerMax
        BY CoordinateReadAssumption DEF CoordinateReadAssumption
      <4> QED
        BY <2>2, <4>1, <4>2
    <3> HIDE DEF next
    <3>4. next \in Nat /\ request.baseAddress # Root /\ imageBase + request.baseAddress = next
      BY <3>2, <3>3, Widths DEF Root
    <3>5. base = image + request.baseAddress
      BY <3>4 DEF Starts
    <3> QED
      BY <2>2, <3>1, <3>4, <3>5 DEF next
  <2> QED
    BY <1>0, <2>2, <2>4, <2>5 DEF OwnCall, InFlight
<1> QED
  BY <1>2, <1>3, <1>4, <1>5, <1>6 DEF Invariant, Calling

LEMMA ExecuteInvariant == ASSUME Invariant, Execute PROVE Invariant'
<1> USE DEF Execute
<1>1. /\ level' \in 0..4 /\ trail' \in Seq(Nat \X Nat) /\ address \in 0..HostMax
      /\ 0 \in 0..ValueSize(request) /\ pc \in InFlight /\ pc # "reply"
  BY Sizes DEF Invariant, Types, InFlight
<1>2. ASSUME NEW s \in Failures, Answer(Failed(s, 0)), UNCHANGED address PROVE Invariant'
  BY <1>1, <1>2, FailureAnswered
<1>3. CASE (\E s \in Refusals : Answer(Failed(s, 0))) /\ UNCHANGED address
  <2>1. Refusals \subseteq Failures
    BY DEF Refusals, Failures
  <2> QED
    BY <1>2, <1>3, <2>1
<1>4. CASE \E base \in Starts :
             IF Legacy(request) /\ Add(request, base, 0) # "SUCCESS"
               THEN Answer(Failed(Add(request, base, 0), 0)) /\ UNCHANGED address
               ELSE pc' = "walk" /\ address' = base /\ UNCHANGED response
  <2>1. PICK base \in Starts :
             IF Legacy(request) /\ Add(request, base, 0) # "SUCCESS"
               THEN Answer(Failed(Add(request, base, 0), 0)) /\ UNCHANGED address
               ELSE pc' = "walk" /\ address' = base /\ UNCHANGED response
    BY <1>4
  <2>2. Add(request, base, 0) \in Failures \cup {"SUCCESS"}
    BY DEF Add, Failures
  <2>3. CASE Legacy(request) /\ Add(request, base, 0) # "SUCCESS"
    BY <1>2, <2>1, <2>2, <2>3
  <2>4. CASE ~ (Legacy(request) /\ Add(request, base, 0) # "SUCCESS")
    BY <2>1, <2>4, StartedInvariant
  <2> QED
    BY <2>3, <2>4
<1> QED
  BY <1>3, <1>4

LEMMA FollowPointerInvariant == ASSUME Invariant, FollowPointer PROVE Invariant'
<1> DEFINE words  == Words \cap 0..Limit(request)
           offset == Offsets(request)[level + 1]
           Added(c) == IF c.status = "SUCCESS" THEN Add(request, c.word, offset) ELSE c.status
<1>1. PICK c \in Copy(address, PointerSize(request), words) :
        /\ trail' = Append(trail, <<address, c.word>>)
        /\ IF Added(c) = "SUCCESS"
             THEN /\ address' = (c.word + offset) % (HostMax + 1)
                  /\ level' = level + 1 /\ UNCHANGED <<pc, response>>
             ELSE Answer(Failed(Added(c), 0)) /\ UNCHANGED <<address, level>>
  BY DEF FollowPointer
<1>2. /\ pc = "walk" /\ level < Levels(request)
      /\ UNCHANGED <<clientVars, imageVars, request, reads>>
  BY DEF FollowPointer
<1>3. /\ request \in Requests /\ ValidRequest(request) /\ trail \in Seq(Nat \X Nat)
      /\ level \in 0..4 /\ Len(trail) = level /\ address \in 0..HostMax
      /\ Followed(Offsets(request), level, address)
  BY <1>2 DEF Invariant, Types, Driver, InFlight
<1>4. Levels(request) \in 0..4 /\ offset \in Nat
  BY <1>2, <1>3, Paths
<1> HIDE DEF words, offset
<1>5. /\ c.word \in Nat
      /\ c.status = "SUCCESS" \/ (c.status \in Failures /\ c.status # "SUCCESS")
  <2>1. words \subseteq Nat
    BY Limits DEF words
  <2> QED
    BY <1>3, <2>1, Copies, PointerSizes
<1>6. /\ trail' \in Seq(Nat \X Nat) /\ Len(trail') = level + 1
      /\ \A i \in 1..level : trail'[i][2] # 0
      /\ \A i \in 1..level : trail'[i + 1][1] = trail'[i][2] + Offsets(request)[i]
      /\ trail'[level + 1][2] = c.word
  <2>1. address \in Nat /\ level \in Nat
    BY <1>3, Widths
  <2> QED
    BY <1>1, <1>3, <1>5, <2>1, LongerTrail
<1>7. Added(c) \in Failures \cup {"SUCCESS"}
  <2>1. Add(request, c.word, offset) \in Failures \cup {"SUCCESS"}
    BY DEF Add, Failures
  <2> QED
    BY <1>5, <2>1
<1> HIDE DEF Added
<1>8. CASE Added(c) # "SUCCESS"
  <2>1. Answer(Failed(Added(c), 0)) /\ UNCHANGED <<address, level>>
    BY <1>1, <1>8
  <2>2. Added(c) \in Failures /\ 0 \in 0..ValueSize(request) /\ pc \in InFlight /\ pc # "reply"
    BY <1>2, <1>7, <1>8, Sizes DEF InFlight
  <2>3. level' \in 0..4 /\ address' \in 0..HostMax
    BY <1>3, <2>1
  <2> QED
    BY <1>2, <1>6, <2>1, <2>2, <2>3, FailureAnswered
<1>9. CASE Added(c) = "SUCCESS"
  <2>1. /\ address' = (c.word + offset) % (HostMax + 1) /\ level' = level + 1
        /\ pc' = "walk" /\ response' = response
    BY <1>1, <1>2, <1>9
  <2>2. Add(request, c.word, offset) = "SUCCESS"
    BY <1>5, <1>9 DEF Added, Failures
  <2>3. c.word # 0 /\ address' = c.word + offset /\ address' \in 1..Limit(request)
    BY <1>4, <1>5, <2>1, <2>2, AddBounds
  <2>4. level' \in 0..4 /\ level' <= Levels(request) /\ address' \in 0..HostMax
    <3>1. address' \in 0..HostMax
      BY <2>3, Limits, Widths
    <3> QED
      BY <1>2, <1>3, <1>4, <2>1, <3>1
  <2>5. Types'
    BY <1>2, <1>6, <2>1, <2>4 DEF Invariant, Types, InFlight, clientVars, imageVars
  <2>6. Followed(Offsets(request), level, address)'
    <3>1. request' = request
      BY <1>2
    <3>2. \A i \in 1..level + 1 : trail'[i][2] # 0
      <4>1. \A i \in 1..level + 1 : i \in 1..level \/ i = level + 1
        BY <1>3
      <4> QED
        BY <1>6, <2>3, <4>1
    <3>3. \A i \in 1..level : trail'[i + 1][1] = trail'[i][2] + Offsets(request)[i]
      BY <1>6
    <3>4. address' = trail'[level + 1][2] + Offsets(request)[level + 1]
      BY <1>6, <2>3 DEF offset
    <3>5. (level + 1) - 1 = level
      BY <1>3
    <3> QED
      BY <2>1, <3>1, <3>2, <3>3, <3>4, <3>5 DEF Followed
  <2>7. Driver'
    <3>1. (Levels(request))' = Levels(request) /\ (Limit(request))' = Limit(request)
          /\ ValidRequest(request)'
      BY <1>2, <1>3 DEF Levels, Limit, PointerSize, Legacy, ValidRequest
    <3> QED
      BY <1>6, <2>1, <2>3, <2>4, <2>6, <3>1 DEF Driver
  <2>8. SuccessFollowedPath' /\ AllOrNothing'
    BY <2>1, StillSending DEF InFlight, SuccessFollowedPath, AllOrNothing
  <2>9. OnlyPart' /\ PlayerCall' /\ AllFormats' /\ Clean'
    BY <1>2, <2>1, DriverStep DEF InFlight
  <2>10. OwnCall'
    <3>1. call.kind # "ownX"
      BY <1>2, <1>3, EngineAsksForWords DEF InFlight
    <3> QED
      BY <1>2, <3>1 DEF OwnCall, clientVars
  <2> QED
    BY <2>5, <2>7, <2>8, <2>9, <2>10 DEF Invariant, Calling
<1> QED
  BY <1>8, <1>9

\* A value is read, and is the answer.
LEMMA ValueInvariant ==
  ASSUME Invariant, ReadValue, NEW word \in Nat, NEW second \in Nat,
         ValueSize(request) = 4 => second = 0,
         Answer(Answered(request, "SUCCESS", ValueSize(request), Bits(request, word, second))),
         trail' = Append(trail, <<address, word>>),
         reads' = Append(reads, [axis |-> request.axis, at |-> address,
                                 x |-> Bits(request, word, second).x,
                                 y |-> Bits(request, word, second).y])
  PROVE  Invariant'
<1> DEFINE bits == Bits(request, word, second)
           e    == [axis |-> request.axis, at |-> address, x |-> bits.x, y |-> bits.y]
<1>1. /\ pc = "walk" /\ level = Levels(request) /\ pc' = "reply"
      /\ UNCHANGED <<clientVars, imageVars, request, address, level>>
  BY DEF ReadValue, Answer
<1>2. /\ request \in Requests /\ ValidRequest(request) /\ trail \in Seq(Nat \X Nat)
      /\ level \in 0..4 /\ Len(trail) = level /\ address \in 0..HostMax
      /\ Followed(Offsets(request), level, address) /\ reads \in Seq(Reads)
  BY <1>1 DEF Invariant, Types, Driver, InFlight
<1>3. /\ bits.x \in Nat /\ bits.y \in Nat
      /\ response' \in Responses /\ ValidResponse(request, response')
      /\ response'.status = "SUCCESS" /\ response'.x = bits.x /\ response'.y = bits.y
  BY <1>2, ValueAccepted DEF Answer
<1> HIDE DEF bits
<1>4. e \in Reads /\ e.axis = request.axis /\ e.at = address /\ e.x = bits.x /\ e.y = bits.y
  <2>1. request.axis \in Axes /\ address \in Nat
    BY <1>2, Widths DEF ValidRequest
  <2> QED
    BY <1>3, <2>1 DEF Reads
<1>5. reads' = Append(reads, e)
  BY DEF bits
<1> HIDE DEF e
<1>6. /\ reads' \in Seq(Reads) /\ Len(reads') = Len(reads) + 1 /\ reads'[Len(reads) + 1] = e
      /\ \A i \in 1..Len(reads) : reads'[i] = reads[i]
  BY <1>2, <1>4, <1>5, Appended
<1>7. /\ trail' \in Seq(Nat \X Nat) /\ Len(trail') = level + 1
      /\ \A i \in 1..level : trail'[i][2] # 0
      /\ \A i \in 1..level : trail'[i + 1][1] = trail'[i][2] + Offsets(request)[i]
  <2>1. address \in Nat /\ level \in Nat
    BY <1>2, Widths
  <2> QED
    BY <1>2, <2>1, LongerTrail
<1>8. Types'
  BY <1>1, <1>3, <1>6, <1>7 DEF Invariant, Types, InFlight, clientVars, imageVars
<1>9. Driver'
  <2>1. LastRead'
    <3>1. Len(reads) \in Nat
      BY <1>2
    <3>2. Len(reads') > 0 /\ reads'[Len(reads')] = e
      BY <1>6, <3>1
    <3> QED
      BY <1>1, <1>3, <1>4, <3>2 DEF LastRead
  <2>2. ValidRequest(request)' /\ ValidResponse(request, response)'
    BY <1>1, <1>2, <1>3
  <2> QED
    BY <1>1, <2>1, <2>2 DEF Driver
<1>10. SuccessFollowedPath'
  <2>1. /\ Len(DocumentedPath(request)) = level
        /\ \A i \in 1..level : DocumentedPath(request)[i] = Offsets(request)[i]
    BY <1>1, <1>2, Paths
  <2>2. \A i \in 1..level : /\ trail'[i][2] # 0
                            /\ trail'[i + 1][1] = trail'[i][2] + DocumentedPath(request)[i]
    BY <1>7, <2>1
  <2>3. request' = request
    BY <1>1
  <2> QED
    BY <1>1, <1>7, <2>1, <2>2, <2>3 DEF SuccessFollowedPath
<1>11. AllOrNothing'
  BY <1>1 DEF AllOrNothing
<1>12. OnlyPart' /\ PlayerCall' /\ AllFormats' /\ Clean'
  BY <1>1, <1>4, <1>5, DriverStep DEF InFlight
<1>13. OwnCall'
  <2> USE DEF clientVars, imageVars
  <2>1. SUFFICES ASSUME call.kind = "ownX" PROVE OwnCall'
    BY <1>1 DEF OwnCall
  <2>2. call.request = Word(Root) /\ imageBase \in Images /\ (astray \/ imageBase = image)
    BY <1>1, <2>1 DEF Invariant, Calling, OwnCall, InFlight
  <2>3. PICK n \in 0..3 : /\ Linked(n) /\ request = Onto(n) /\ todo = Rest(n)
                          /\ Len(reads) = n /\ NextAt(n, address)
    BY <1>1, <2>1 DEF Invariant, Calling, OwnCall, InFlight
  <2>4. \A i \in 1..n : reads'[i] = reads[i]
    BY <1>6, <2>3
  <2>5. Linked(n)'
    <3>1. \A i \in 1..n : reads'[i].x # 0
      BY <2>3, <2>4 DEF Linked
    <3>2. \A i \in 1..n - 1 : i \in 1..n /\ i + 1 \in 1..n
      OBVIOUS
    <3>3. ~ astray => \A i \in 1..n - 1 : reads'[i + 1].at = reads'[i].x + OwnXPath[i]
      BY <2>3, <2>4, <3>2 DEF Linked
    <3>4. n > 0 => reads'[n].x + OwnXPath[n] \in imageBase + 1..PointerMax
      BY <2>3, <2>4 DEF Linked
    <3> QED
      BY <1>1, <3>1, <3>3, <3>4 DEF Linked
  <2>6. request' = Onto(n)' /\ todo' = Rest(n)'
    <3>1. n # 0 => n \in 1..n
      OBVIOUS
    <3> QED
      BY <1>1, <2>3, <2>4, <3>1 DEF Onto, Rest
  <2>7. Len(reads') = n + 1 /\ NextAt(n, reads[n + 1].at)'
    <3>1. reads'[n + 1].at = address /\ Len(reads') = n + 1
      BY <1>4, <1>6, <2>3
    <3>2. n > 0 => n \in 1..n
      OBVIOUS
    <3> QED
      BY <1>1, <2>3, <2>4, <3>1, <3>2 DEF NextAt
  <2> QED
    BY <1>1, <1>3, <2>1, <2>2, <2>5, <2>6, <2>7 DEF OwnCall, InFlight
<1> QED
  BY <1>8, <1>9, <1>10, <1>11, <1>12, <1>13 DEF Invariant, Calling

LEMMA ReadValueInvariant == ASSUME Invariant, ReadValue PROVE Invariant'
<1> DEFINE words == IF call.kind = "ownX" THEN Words \cap 0..PointerMax ELSE Values
           seconds == IF ValueSize(request) = 8 THEN Values ELSE {0}
<1>1. PICK c \in Copy(address, ValueSize(request), words), second \in seconds :
        LET bits == Bits(request, c.word, second) IN
        /\ Answer(Answered(request, c.status, c.bytes, bits))
        /\ trail' = Append(trail, <<address, c.word>>)
        /\ reads' = IF c.status = "SUCCESS"
                      THEN Append(reads, [axis |-> request.axis, at |-> address,
                                          x |-> bits.x, y |-> bits.y])
                      ELSE reads
  BY DEF ReadValue
<1>2. words \subseteq Nat /\ second \in Nat /\ (ValueSize(request) = 4 => second = 0)
  BY Widths, CoordinateReadAssumption DEF CoordinateReadAssumption
<1> HIDE DEF words, seconds
<1>3. /\ c.word \in Nat
      /\ \/ c.status = "SUCCESS" /\ c.bytes = ValueSize(request)
         \/ c.status \in Failures /\ c.bytes \in 0..ValueSize(request) - 1 /\ c.status # "SUCCESS"
  <2>1. ValueSize(request) \in {4, 8}
    BY Sizes
  <2> QED
    BY <1>2, <2>1, Copies
<1>4. CASE c.status = "SUCCESS"
  BY <1>1, <1>2, <1>3, <1>4, ValueInvariant DEF Failures
<1>5. CASE c.status # "SUCCESS"
  <2>1. /\ pc = "walk" /\ UNCHANGED <<clientVars, imageVars, request, address, level>>
    BY DEF ReadValue
  <2>2. Answer(Failed(c.status, c.bytes)) /\ reads' = reads
    BY <1>1, <1>5 DEF Answered
  <2>3. c.status \in Failures /\ c.bytes \in 0..ValueSize(request)
    BY <1>3, <1>5, Sizes
  <2>4. level' \in 0..4 /\ address' \in 0..HostMax /\ trail' \in Seq(Nat \X Nat)
    <3>1. level \in 0..4 /\ address \in 0..HostMax /\ trail \in Seq(Nat \X Nat)
      BY DEF Invariant, Types
    <3>2. <<address, c.word>> \in Nat \X Nat
      BY <1>3, <3>1, Widths
    <3> QED
      BY <1>1, <2>1, <3>1, <3>2, Appended
  <2> QED
    BY <2>1, <2>2, <2>3, <2>4, FailureAnswered DEF InFlight
<1> QED
  BY <1>4, <1>5

-----------------------------------------------------------------------------
(***************************************************************************)
(* What becomes of an answer.                                              *)
(***************************************************************************)

\* The bytes and the value of an answer that reports success.
LEMMA SuccessBytes ==
  ASSUME Invariant, pc = "reply", response.status = "SUCCESS"
  PROVE  response.bytesRead = IF request.axis = "Both" /\ Legacy(request) THEN 8 ELSE 4
<1>1. request \in Requests /\ ValidRequest(request) /\ ValidResponse(request, response)
  BY DEF Invariant, Types, Driver, InFlight
<1>2. /\ request.reserved = 5 => ~ Legacy(request)
      /\ request.reserved # 5 /\ request.axis = "Both" => Legacy(request)
  BY <1>1 DEF ValidRequest, Legacy
<1> QED
  BY <1>1, <1>2 DEF ValidResponse

LEMMA ValueWasRead ==
  ASSUME Invariant, pc = "reply", response.status = "SUCCESS", NEW axis,
         request.axis \in {axis, "Both"}
  PROVE  \E i \in DOMAIN reads : /\ reads[i].axis \in {axis, "Both"}
                                 /\ reads[i].x = response.x /\ reads[i].y = response.y
<1>1. LastRead /\ reads \in Seq(Reads)
  BY DEF Invariant, Types, Driver
<1>2. Len(reads) \in DOMAIN reads
  BY <1>1 DEF LastRead
<1> QED
  BY <1>1, <1>2 DEF LastRead

LEMMA FailureIsEmpty ==
  ASSUME Invariant, pc = "reply", response.status # "SUCCESS"
  PROVE  response.x = 0 /\ response.y = 0
  BY DEF Invariant, Driver, ValidResponse

\* A completed request leaves the types in order.
LEMMA CompleteTypes ==
  ASSUME Invariant, Complete, UNCHANGED <<call, imageVars>>,
         pc' \in {"send", "done"}, todo' \in Seq(Requests), combined' \in Responses,
         result' \in Responses, ok' \in BOOLEAN, readings' \in Seq(Responses)
  PROVE  Types'
<1>1. level' \in 0..4 /\ address' \in 0..HostMax /\ trail' \in Seq(Nat \X Nat)
  BY Widths DEF Complete
<1>2. response' \in Responses
  BY ResponseTypes DEF Complete
<1> QED
  BY <1>1, <1>2 DEF Invariant, Types, Complete, imageVars

\* A call that ends keeps only what it was and what it published.
LEMMA CallEnds ==
  ASSUME Invariant, call' = call, pc' = "done", call.kind # "formats"
  PROVE  Driver' /\ Calling'
<1>1. Driver'
  BY DEF Driver, InFlight
<1>2. OnlyPart' /\ PlayerCall' /\ AllFormats' /\ Clean'
  BY DEF OnlyPart, PlayerCall, AllFormats, Clean, InFlight
<1>3. OwnCall'
  BY DEF Invariant, Calling, OwnCall, InFlight
<1> QED
  BY <1>1, <1>2, <1>3 DEF Calling

\* A failure, or a path that leads nowhere, ends the call with no value.
LEMMA EndsWithNothing ==
  ASSUME Invariant, Complete, UNCHANGED <<call, todo, readings, imageVars>>,
         combined' \in Responses, NEW r \in Responses, r.x = 0, r.y = 0, Publish(r, FALSE),
         call.kind # "formats"
  PROVE  Invariant'
<1> USE DEF Publish
<1>1. todo' \in Seq(Requests) /\ readings' \in Seq(Responses)
  BY DEF Invariant, Types
<1>2. Types'
  BY <1>1, CompleteTypes
<1>3. SuccessFollowedPath' /\ AllOrNothing'
  BY NothingPublished
<1> QED
  BY <1>2, <1>3, CallEnds DEF Invariant

\* A call of one request publishes the answer.
LEMMA ValuePublished ==
  ASSUME Invariant, Complete, UNCHANGED <<call, todo, readings, imageVars>>, pc = "reply",
         response.status = "SUCCESS", call.kind \in Single,
         combined' \in Responses, Publish(response, TRUE)
  PROVE  Invariant'
<1> USE DEF Publish
<1>1. todo' \in Seq(Requests) /\ readings' \in Seq(Responses) /\ result' \in Responses
  BY DEF Invariant, Types
<1>2. Types'
  BY <1>1, CompleteTypes
<1>3. request = call.request
  BY DEF Invariant, Calling, OnlyPart, InFlight
<1>4. ASSUME NEW axis \in {"X", "Y"}, call.request.axis \in {axis, "Both"}
      PROVE  WasRead(axis, result.x, result.y)'
  <2>1. PICK i \in DOMAIN reads : /\ reads[i].axis \in {axis, "Both"}
                                  /\ reads[i].x = response.x /\ reads[i].y = response.y
    BY <1>3, <1>4, ValueWasRead
  <2>2. reads' = reads /\ result' = response
    BY DEF Complete
  <2> QED
    BY <2>1, <2>2 DEF WasRead
<1>5. result'.bytesRead = IF call.request.axis = "Both" /\ Legacy(call.request) THEN 8 ELSE 4
  BY <1>3, SuccessBytes
<1>6. call.kind # "formats" /\ call.kind # "player" /\ call.kind # "ownX"
  BY DEF Single
<1>7. AllOrNothing'
  BY <1>4, <1>5, <1>6 DEF AllOrNothing
<1>8. SuccessFollowedPath'
  BY <1>6 DEF SuccessFollowedPath
<1> QED
  BY <1>2, <1>6, <1>7, <1>8, CallEnds DEF Invariant

\* The half of a pair that an answer is for.
LEMMA PartAnswer ==
  ASSUME NEW q \in Requests, NEW axis \in {"X", "Y"}, request = Part(q, axis)
  PROVE  request.axis = axis /\ ~ Legacy(request)
  BY DEF Part, Legacy

\* The answers of the player's X and Y are collected before they are published.
LEMMA PlayerReceive ==
  ASSUME Invariant, Receive, call.kind = "player", response.status = "SUCCESS"
  PROVE  Invariant'
<1> DEFINE q == call.request
<1>1. /\ pc = "reply" /\ Complete /\ UNCHANGED <<call, readings, imageVars>>
      /\ combined' = Combine(combined, response)
      /\ IF LastPart(todo)
           THEN Publish(combined', TRUE) /\ todo' = todo
           ELSE pc' = "send" /\ todo' = todo /\ UNCHANGED <<result, ok>>
  BY DEF Receive, CanGoOn, Onward, Invariant, Driver
<1>2. q \in RequestsAt({Root}) /\ q \in Requests /\ combined \in Responses /\ response \in Responses
  BY CallShape, RequestTypes DEF Invariant, Types
<1>3. \/ q.axis \in {"X", "Y"} /\ request = Part(q, q.axis) /\ todo = <<>> /\ combined = Empty
      \/ q.axis = "Both" /\ request = Part(q, "X") /\ todo = <<Part(q, "Y")>> /\ combined = Empty
      \/ q.axis = "Both" /\ request = Part(q, "Y") /\ todo = <<>> /\ XKept
  BY <1>1 DEF Invariant, Calling, PlayerCall, InFlight
<1>4. ~ Legacy(request) /\ request.axis \in {"X", "Y"}
  BY <1>2, <1>3, PartAnswer
<1>5. response.bytesRead = 4
  BY <1>1, <1>4, SuccessBytes
<1>6. combined' = [status |-> "SUCCESS", bytesRead |-> combined.bytesRead + 4,
                   x |-> IF request.axis = "X" THEN response.x ELSE combined.x,
                   y |-> IF request.axis = "Y" THEN response.y ELSE combined.y]
  BY <1>1, <1>5 DEF Combine
<1>7. combined.bytesRead \in {0, 4}
  BY <1>3 DEF Empty, Failed, XKept
<1>8. combined' \in Responses
  <2>1. /\ combined.x \in Nat /\ combined.y \in Nat /\ response.x \in Nat /\ response.y \in Nat
    BY <1>2 DEF Responses
  <2>2. combined.bytesRead + 4 \in 0..8
    BY <1>7
  <2> QED
    BY <1>6, <2>1, <2>2 DEF Responses
<1>9. reads' = reads /\ request' = request
  BY <1>1 DEF Complete
<1>10. PICK i \in DOMAIN reads : /\ reads[i].axis \in {request.axis, "Both"}
                                 /\ reads[i].x = response.x /\ reads[i].y = response.y
  BY <1>1, ValueWasRead
<1>11. Types'
  <2>1. /\ pc' \in {"send", "done"} /\ todo' \in Seq(Requests) /\ readings' \in Seq(Responses)
        /\ result' \in Responses /\ ok' \in BOOLEAN
    BY <1>1, <1>8 DEF Publish, Invariant, Types
  <2> QED
    BY <1>1, <1>8, <2>1, CompleteTypes
<1>12. CASE todo = <<>>
  <2>1. pc' = "done" /\ result' = combined' /\ ok' = TRUE
    BY <1>1, <1>12 DEF Publish, LastPart
  <2>2. q.axis \in {"X", "Y"} => /\ request.axis = q.axis /\ result'.bytesRead = 4
                                 /\ WasRead(q.axis, result.x, result.y)'
    <3>1. SUFFICES ASSUME q.axis \in {"X", "Y"}
                   PROVE  /\ request.axis = q.axis /\ result'.bytesRead = 4
                          /\ WasRead(q.axis, result.x, result.y)'
      OBVIOUS
    <3>2. request = Part(q, q.axis) /\ combined = Empty
      BY <1>3, <3>1
    <3>3. request.axis = q.axis
      BY <1>2, <3>1, <3>2, PartAnswer
    <3>4. combined.bytesRead = 0
      BY <3>2 DEF Empty, Failed
    <3>5. WasRead(q.axis, result.x, result.y)'
      BY <1>1, <1>6, <1>9, <1>10, <2>1, <3>1, <3>3 DEF WasRead
    <3> QED
      BY <1>6, <2>1, <3>3, <3>4, <3>5
  <2>3. q.axis = "Both" => /\ result'.bytesRead = 8
                           /\ WasRead("X", result.x, result.y)' /\ WasRead("Y", result.x, result.y)'
    <3>1. SUFFICES ASSUME q.axis = "Both"
                   PROVE  /\ result'.bytesRead = 8 /\ WasRead("X", result.x, result.y)'
                          /\ WasRead("Y", result.x, result.y)'
      OBVIOUS
    <3>2. request = Part(q, "Y") /\ XKept
      BY <1>3, <1>12, <3>1, NotEmpty
    <3>3. request.axis = "Y"
      BY <1>2, <3>2, PartAnswer
    <3>4. result'.bytesRead = 8 /\ result'.x = combined.x /\ result'.y = response.y
      BY <1>6, <2>1, <3>2, <3>3 DEF XKept
    <3>5. WasRead("X", result.x, result.y)'
      BY <1>9, <3>2, <3>4 DEF XKept, WasRead
    <3>6. WasRead("Y", result.x, result.y)'
      BY <1>9, <1>10, <3>3, <3>4 DEF WasRead
    <3> QED
      BY <3>4, <3>5, <3>6
  <2>4. q.axis \in Axes
    BY <1>3 DEF Axes
  <2>5. AllOrNothing'
    BY <1>1, <2>1, <2>2, <2>3, <2>4 DEF AllOrNothing, Axes
  <2>6. SuccessFollowedPath'
    BY <1>1, <2>1 DEF SuccessFollowedPath
  <2> QED
    BY <1>1, <1>11, <2>1, <2>5, <2>6, CallEnds DEF Invariant
<1>13. CASE todo # <<>>
  <2>1. /\ pc' = "send" /\ todo' = <<Part(q, "Y")>> /\ q.axis = "Both"
        /\ request = Part(q, "X") /\ combined = Empty
    BY <1>1, <1>3, <1>13 DEF LastPart
  <2>2. request.axis = "X"
    BY <1>2, <2>1, PartAnswer
  <2>3. combined'.bytesRead = 4 /\ combined'.x = response.x
    BY <1>6, <2>1, <2>2 DEF Empty, Failed
  <2>4. XKept'
    BY <1>9, <1>10, <2>2, <2>3 DEF XKept, WasRead
  <2>5. PlayerCall'
    BY <1>1, <2>1, <2>4 DEF PlayerCall, InFlight, Axes
  <2>6. OnlyPart' /\ OwnCall' /\ AllFormats' /\ Clean'
    BY <1>1, <2>1 DEF OnlyPart, OwnCall, AllFormats, Clean, Single
  <2>7. Driver' /\ SuccessFollowedPath' /\ AllOrNothing'
    BY <2>1, StillSending DEF InFlight
  <2> QED
    BY <1>11, <2>5, <2>6, <2>7 DEF Invariant, Calling
<1> QED
  BY <1>12, <1>13

\* The rest of the engine's path after a word more.
LEMMA RestOfPath ==
  /\ Rest(3) = <<>>
  /\ \A n \in 0..2 : /\ Rest(n) # <<>> /\ Head(Rest(n)) = Word(OwnXPath[n + 1])
                     /\ Tail(Rest(n)) = Rest(n + 1) /\ Rest(n + 1) \in Seq(Requests)
<1>1. /\ Word(OwnXPath[1]) \in Requests /\ Word(OwnXPath[2]) \in Requests
      /\ Word(OwnXPath[3]) \in Requests
  BY OwnXOffsets, RequestTypes
<1>2. /\ Rest(0) = <<Word(OwnXPath[1]), Word(OwnXPath[2]), Word(OwnXPath[3])>>
      /\ Rest(1) = <<Word(OwnXPath[2]), Word(OwnXPath[3])>>
      /\ Rest(2) = <<Word(OwnXPath[3])>> /\ Rest(3) = <<>>
  BY DEF Rest
<1>3. /\ Rest(0) # <<>> /\ Head(Rest(0)) = Word(OwnXPath[1]) /\ Tail(Rest(0)) = Rest(1)
      /\ Rest(1) \in Seq(Requests)
  <2>1. Rest(1) \in Seq(Requests)
    BY <1>1, <1>2, Lists
  <2>2. Rest(0) # <<>> /\ Head(Rest(0)) = Word(OwnXPath[1])
    BY <1>2, Tails, NotEmpty
  <2>3. Tail(Rest(0)) = Rest(1)
    <3>1. Tail(<<Word(OwnXPath[1]), Word(OwnXPath[2]), Word(OwnXPath[3])>>)
            = <<Word(OwnXPath[2]), Word(OwnXPath[3])>>
      BY Tails
    <3> QED
      BY <1>2, <3>1
  <2> QED
    BY <2>1, <2>2, <2>3
<1>4. /\ Rest(1) # <<>> /\ Head(Rest(1)) = Word(OwnXPath[2]) /\ Tail(Rest(1)) = Rest(2)
      /\ Rest(2) \in Seq(Requests)
  <2>1. Rest(2) \in Seq(Requests)
    BY <1>1, <1>2, Lists
  <2>2. Rest(1) # <<>> /\ Head(Rest(1)) = Word(OwnXPath[2])
    BY <1>2, Tails, NotEmpty
  <2>3. Tail(Rest(1)) = Rest(2)
    <3>1. Tail(<<Word(OwnXPath[2]), Word(OwnXPath[3])>>) = <<Word(OwnXPath[3])>>
      BY Tails
    <3> QED
      BY <1>2, <3>1
  <2> QED
    BY <2>1, <2>2, <2>3
<1>5. /\ Rest(2) # <<>> /\ Head(Rest(2)) = Word(OwnXPath[3]) /\ Tail(Rest(2)) = Rest(3)
      /\ Rest(3) \in Seq(Requests)
  BY <1>1, <1>2, Tails, NotEmpty, Lists
<1> QED
  BY <1>2, <1>3, <1>4, <1>5

\* The engine goes on from word to word, or publishes the last one.
LEMMA OwnReceive ==
  ASSUME Invariant, Receive, call.kind = "ownX", response.status = "SUCCESS"
  PROVE  Invariant'
<1>1. /\ pc = "reply" /\ Complete /\ UNCHANGED <<call, readings, imageVars>>
      /\ combined' = response
      /\ IF LastPart(todo) \/ ~ CanGoOn(response.x, todo)
           THEN Publish(IF LastPart(todo) THEN combined' ELSE Nothing, LastPart(todo))
                /\ UNCHANGED todo
           ELSE pc' = "send" /\ todo' = Onward(response.x, todo) /\ UNCHANGED <<result, ok>>
  BY DEF Receive, Combine, Invariant, Driver
<1>2. call.request = Word(Root) /\ imageBase \in Images /\ (astray \/ imageBase = image)
  BY <1>1 DEF Invariant, Calling, OwnCall, InFlight
<1>3. PICK n \in 0..3 : /\ Linked(n) /\ request = Onto(n) /\ todo = Rest(n)
                        /\ Len(reads) = n + 1 /\ NextAt(n, reads[n + 1].at)
  BY <1>1 DEF Invariant, Calling, OwnCall, InFlight
<1>4. reads[n + 1].x = response.x /\ reads[n + 1].y = response.y
  BY <1>1, <1>3 DEF Invariant, Driver, LastRead
<1>5. request.axis = "X" /\ ~ Legacy(request)
  BY <1>1, EngineAsksForWords DEF InFlight, Legacy
<1>6. /\ response \in Responses /\ combined' \in Responses /\ Nothing \in Responses
      /\ response.x \in Nat /\ response.bytesRead = 4
  BY <1>1, <1>5, SuccessBytes, ResponseTypes DEF Invariant, Types, Responses
<1>7. UNCHANGED <<reads, request, image, imageBase, astray>>
  BY <1>1 DEF Complete, imageVars
<1>8. todo \in Seq(Requests) /\ readings' \in Seq(Responses)
  BY <1>1 DEF Invariant, Types
<1>9. CASE todo = <<>>
  <2>1. pc' = "done" /\ result' = response /\ ok' = TRUE /\ todo' = todo
    BY <1>1, <1>9 DEF Publish, LastPart
  <2>2. n = 3
    <3>1. n \in 0..2 => Rest(n) # <<>>
      BY RestOfPath
    <3> QED
      BY <1>3, <1>9, <3>1
  <2>3. SuccessFollowedPath'
    <3>1. Len(reads') = 4 /\ result'.x = reads'[4].x
      BY <1>3, <1>4, <1>7, <2>1, <2>2
    <3>2. \A i \in 1..3 : reads'[i].x # 0
      BY <1>3, <1>7, <2>2 DEF Linked
    <3>3. ~ astray' => \A i \in 1..3 : reads'[i + 1].at = reads'[i].x + <<12, 68, 524>>[i]
      <4>1. SUFFICES ASSUME ~ astray, NEW i \in 1..3
                     PROVE  reads[i + 1].at = reads[i].x + OwnXPath[i]
        BY <1>7 DEF OwnXPath
      <4>2. CASE i = 3
        BY <1>3, <2>2, <4>1, <4>2 DEF NextAt
      <4>3. CASE i \in 1..2
        BY <1>3, <2>2, <4>1, <4>3 DEF Linked
      <4> QED
        BY <4>2, <4>3
    <3> QED
      BY <2>1, <3>1, <3>2, <3>3 DEF SuccessFollowedPath
  <2>4. AllOrNothing'
    <3>1. call.request.axis = "X" /\ ~ Legacy(call.request)
      BY <1>2 DEF Word, Legacy
    <3>2. WasRead("X", result.x, result.y)'
      <4>1. PICK i \in DOMAIN reads : /\ reads[i].axis \in {"X", "Both"}
                                      /\ reads[i].x = response.x /\ reads[i].y = response.y
        BY <1>1, <1>5, ValueWasRead
      <4> QED
        BY <1>7, <2>1, <4>1 DEF WasRead
    <3> QED
      BY <1>1, <1>6, <2>1, <3>1, <3>2 DEF AllOrNothing
  <2>5. Types'
    BY <1>1, <1>6, <1>8, <2>1, CompleteTypes
  <2> QED
    BY <1>1, <2>1, <2>3, <2>4, <2>5, CallEnds DEF Invariant
<1>10. CASE todo # <<>> /\ ~ CanGoOn(response.x, todo)
  <2>1. Publish(Nothing, FALSE) /\ todo' = todo
    BY <1>1, <1>10 DEF LastPart
  <2>2. Nothing.x = 0 /\ Nothing.y = 0
    BY DEF Nothing, Failed
  <2> QED
    BY <1>1, <1>6, <2>1, <2>2, EndsWithNothing
<1>11. CASE todo # <<>> /\ CanGoOn(response.x, todo)
  <2>1. pc' = "send" /\ todo' = Onward(response.x, todo) /\ UNCHANGED <<result, ok>>
    BY <1>1, <1>11 DEF LastPart
  <2>2. n \in 0..2
    BY <1>3, <1>11, RestOfPath
  <2> DEFINE next == response.x + OwnXPath[n + 1]
  <2>3. Head(todo).baseAddress = OwnXPath[n + 1] /\ Tail(todo) = Rest(n + 1)
    BY <1>3, <2>2, RestOfPath DEF Word
  <2>4. response.x # 0 /\ next \in imageBase + 1..PointerMax
    BY <1>11, <2>3 DEF CanGoOn
  <2>5. todo' = <<Word(next - imageBase)>> \o Rest(n + 1)
    BY <2>1, <2>3 DEF Onward, Relative
  <2>6. Word(next - imageBase) \in Requests
    <3>1. Images \subseteq 1..PointerMax
      BY CoordinateReadAssumption DEF CoordinateReadAssumption
    <3>2. next - imageBase \in 0..PointerMax
      <4> HIDE DEF next
      <4> QED
        BY <1>2, <2>4, <3>1, Widths
    <3> QED
      BY <3>2, RequestTypes
  <2>7. todo' \in Seq(Requests) /\ todo' # <<>> /\ Head(todo') = Word(next - imageBase)
        /\ Tail(todo') = Rest(n + 1)
    BY <2>2, <2>5, <2>6, RestOfPath, Joins
  <2>8. Types'
    <3>1. result' \in Responses /\ ok' \in BOOLEAN
      BY <2>1 DEF Invariant, Types
    <3> QED
      BY <1>1, <1>6, <1>8, <2>1, <2>7, <3>1, CompleteTypes
  <2>9. OwnCall'
    <3>1. Linked(n + 1)'
      <4>1. \A i \in 1..n + 1 : reads[i].x # 0
        <5>1. \A i \in 1..n + 1 : i \in 1..n \/ i = n + 1
          BY <2>2
        <5> QED
          BY <1>3, <1>4, <2>4, <5>1 DEF Linked
      <4>2. ASSUME ~ astray, NEW i \in 1..n
            PROVE  reads[i + 1].at = reads[i].x + OwnXPath[i]
        <5>1. i \in 1..n - 1 \/ i = n
          BY <2>2
        <5> QED
          BY <1>3, <4>2, <5>1 DEF Linked, NextAt
      <4>3. reads[n + 1].x + OwnXPath[n + 1] \in imageBase + 1..PointerMax
        BY <1>4, <2>4
      <4>4. (n + 1) - 1 = n
        BY <2>2
      <4> QED
        BY <1>7, <4>1, <4>2, <4>3, <4>4 DEF Linked
    <3>2. Onto(n + 1)' = Word(next - imageBase)
      <4>1. n + 1 # 0
        BY <2>2
      <4> QED
        BY <1>4, <1>7, <4>1 DEF Onto
    <3>3. Rest(n + 1)' = Rest(n + 1)
      BY DEF Rest
    <3>4. n + 1 \in 0..3 /\ Len(reads') = n + 1
      BY <1>3, <1>7, <2>2
    <3> QED
      BY <1>1, <1>2, <1>7, <2>1, <2>7, <3>1, <3>2, <3>3, <3>4 DEF OwnCall, InFlight
  <2>10. OnlyPart' /\ PlayerCall' /\ AllFormats' /\ Clean'
    BY <1>1, <2>1 DEF OnlyPart, PlayerCall, AllFormats, Clean, Single
  <2>11. Driver' /\ SuccessFollowedPath' /\ AllOrNothing'
    BY <2>1, StillSending DEF InFlight
  <2> QED
    BY <2>8, <2>9, <2>10, <2>11 DEF Invariant, Calling
<1> QED
  BY <1>9, <1>10, <1>11

LEMMA ReceiveInvariant == ASSUME Invariant, Receive PROVE Invariant'
<1>1. /\ pc = "reply" /\ call.kind \notin Kernel /\ Complete
      /\ UNCHANGED <<call, readings, imageVars>> /\ call \in Calls
      /\ ValidResponse(request, response) /\ response \in Responses /\ combined \in Responses
  BY DEF Receive, Invariant, Types, Driver
<1>2. call.kind \in {"value", "player", "ownX"} /\ call.kind # "formats"
  BY <1>1, CallShape DEF Kernel
<1>3. CASE response.status # "SUCCESS"
  <2>1. /\ Publish(IF call.kind = "value" THEN response ELSE Nothing, FALSE)
        /\ UNCHANGED <<combined, todo>>
    BY <1>1, <1>3 DEF Receive
  <2>2. response.x = 0 /\ response.y = 0 /\ Nothing.x = 0 /\ Nothing.y = 0
    BY <1>1, <1>3, FailureIsEmpty DEF Nothing, Failed
  <2> QED
    BY <1>1, <1>2, <2>1, <2>2, ResponseTypes, EndsWithNothing
<1>4. CASE response.status = "SUCCESS" /\ call.kind = "value"
  <2>1. todo = <<>>
    BY <1>1, <1>4 DEF Invariant, Calling, OnlyPart, Single, InFlight
  <2>2. combined' = response /\ Publish(response, TRUE) /\ todo' = todo
    BY <1>1, <1>4, <2>1 DEF Receive, Combine, LastPart
  <2> QED
    BY <1>1, <1>4, <2>2, ValuePublished DEF Single
<1> QED
  BY <1>2, <1>3, <1>4, PlayerReceive, OwnReceive

\* Both views of a reading are added, and show the same bits.
LEMMA TwoMore ==
  ASSUME NEW S, NEW s \in Seq(S), NEW r \in S
  PROVE  /\ s \o <<r, r>> \in Seq(S) /\ Len(s \o <<r, r>>) = Len(s) + 2
         /\ DOMAIN (s \o <<r, r>>) = 1..Len(s) + 2 /\ DOMAIN s = 1..Len(s) /\ Len(s) \in Nat
         /\ \A i \in 1..Len(s) : (s \o <<r, r>>)[i] = s[i]
         /\ (s \o <<r, r>>)[Len(s) + 1] = r /\ (s \o <<r, r>>)[Len(s) + 2] = r
<1>1. <<r, r>> \in Seq(S) /\ Len(<<r, r>>) = 2 /\ <<r, r>>[1] = r /\ <<r, r>>[2] = r
  OBVIOUS
<1> QED
  BY <1>1, ConcatProperties

LEMMA FloatShowsTheBits ==
  ASSUME Invariant, pc = "reply"
  PROVE  AsFloat(response) = response
<1>1. response \in Responses
  BY DEF Invariant, Types
<1>2. response = [status |-> response.status, bytesRead |-> response.bytesRead,
                  x |-> response.x, y |-> response.y]
  BY <1>1 DEF Responses
<1>3. response.status # "SUCCESS" => response.x = 0 /\ response.y = 0
  BY FailureIsEmpty
<1> QED
  BY <1>2, <1>3 DEF AsFloat, Failed

\* A caller in kernel mode that reads all formats collects two readings of each.
LEMMA FormatsCollected ==
  ASSUME Invariant, Collect, call.kind = "formats"
  PROVE  Invariant'
<1>1. /\ pc = "reply" /\ Complete /\ UNCHANGED <<call, todo, combined, imageVars>>
      /\ readings' = readings \o <<response, response>>
      /\ IF LastPart(todo) THEN Publish(Empty, TRUE)
                           ELSE pc' = "send" /\ UNCHANGED <<result, ok>>
  BY FloatShowsTheBits DEF Collect
<1>2. /\ response \in Responses /\ readings \in Seq(Responses) /\ todo \in Seq(Requests)
      /\ combined \in Responses /\ result \in Responses /\ ok \in BOOLEAN
  BY DEF Invariant, Types
<1>3. /\ Kept
      /\ \/ request = Pair(4) /\ todo = <<Pair(8)>> /\ readings = <<>>
         \/ request = Pair(8) /\ todo = <<>> /\ Len(readings) = 2
  BY <1>1 DEF Invariant, Calling, AllFormats, InFlight
<1>4. request.axis = "Both" /\ Len(readings) \in {0, 2}
  BY <1>3 DEF Pair
<1>5. /\ readings' \in Seq(Responses) /\ Len(readings') = Len(readings) + 2
      /\ DOMAIN readings' = 1..Len(readings) + 2 /\ DOMAIN readings = 1..Len(readings)
      /\ \A i \in 1..Len(readings) : readings'[i] = readings[i]
      /\ readings'[Len(readings) + 1] = response /\ readings'[Len(readings) + 2] = response
  BY <1>1, <1>2, TwoMore
<1>6. reads' = reads
  BY <1>1 DEF Complete
<1>7. Types'
  <2>1. pc' \in {"send", "done"} /\ result' \in Responses /\ ok' \in BOOLEAN
    BY <1>1, <1>2, ResponseTypes DEF Publish
  <2> QED
    BY <1>1, <1>2, <1>5, <2>1, CompleteTypes
<1>8. Kept'
  <2>1. SUFFICES ASSUME NEW i \in {1, 3} \cap DOMAIN readings'
                 PROVE  /\ i + 1 \in DOMAIN readings' /\ readings'[i + 1] = readings'[i]
                        /\ IF readings'[i].status = "SUCCESS"
                             THEN WasRead("Both", readings[i].x, readings[i].y)'
                             ELSE readings'[i].x = 0 /\ readings'[i].y = 0
    BY DEF Kept
  <2>2. CASE i = Len(readings) + 1
    <3>1. i + 1 = Len(readings) + 2 /\ i + 1 \in DOMAIN readings'
      BY <1>4, <1>5, <2>2
    <3>2. readings'[i + 1] = response /\ readings'[i] = response
      BY <1>5, <2>2, <3>1
    <3>3. response.status # "SUCCESS" => response.x = 0 /\ response.y = 0
      BY <1>1, FailureIsEmpty
    <3>4. response.status = "SUCCESS" => WasRead("Both", readings[i].x, readings[i].y)'
      <4>1. SUFFICES ASSUME response.status = "SUCCESS"
                     PROVE  WasRead("Both", readings[i].x, readings[i].y)'
        OBVIOUS
      <4>2. PICK k \in DOMAIN reads : /\ reads[k].axis \in {"Both", "Both"}
                                      /\ reads[k].x = response.x /\ reads[k].y = response.y
        BY <1>1, <1>4, <4>1, ValueWasRead
      <4> QED
        BY <1>6, <3>2, <4>2 DEF WasRead
    <3> QED
      BY <3>1, <3>2, <3>3, <3>4
  <2>3. CASE i \in DOMAIN readings
    <3>1. /\ i + 1 \in DOMAIN readings /\ readings[i + 1] = readings[i]
          /\ IF readings[i].status = "SUCCESS" THEN WasRead("Both", readings[i].x, readings[i].y)
                                               ELSE readings[i].x = 0 /\ readings[i].y = 0
      BY <1>3, <2>3 DEF Kept
    <3>2. readings'[i] = readings[i] /\ readings'[i + 1] = readings[i + 1]
      BY <1>5, <2>3, <3>1
    <3>3. i + 1 \in DOMAIN readings'
      BY <1>4, <1>5, <3>1
    <3>4. WasRead("Both", readings[i].x, readings[i].y)
            => WasRead("Both", readings[i].x, readings[i].y)'
      BY <1>6, <3>2 DEF WasRead
    <3> QED
      BY <3>1, <3>2, <3>3, <3>4
  <2>4. i = Len(readings) + 1 \/ i \in DOMAIN readings
    BY <1>4, <1>5
  <2> QED
    BY <2>2, <2>3, <2>4
<1>9. OnlyPart' /\ PlayerCall' /\ OwnCall'
  BY <1>1 DEF OnlyPart, PlayerCall, OwnCall, Single
<1>10. CASE todo = <<>>
  <2>1. pc' = "done" /\ result' = Empty /\ ok' = TRUE
    BY <1>1, <1>10 DEF Publish, LastPart
  <2>2. Len(readings') = 4
    BY <1>3, <1>5, <1>10, NotEmpty
  <2>3. AllOrNothing'
    BY <1>1, <1>8, <2>1, <2>2 DEF AllOrNothing, Kept
  <2>4. Driver' /\ SuccessFollowedPath' /\ AllFormats' /\ Clean'
    BY <1>1, <1>8, <2>1 DEF Driver, SuccessFollowedPath, AllFormats, Clean, InFlight
  <2> QED
    BY <1>7, <1>9, <2>3, <2>4 DEF Invariant, Calling
<1>11. CASE todo # <<>>
  <2>1. pc' = "send" /\ todo' = <<Pair(8)>> /\ readings = <<>>
    BY <1>1, <1>3, <1>11 DEF LastPart
  <2>2. Len(readings') = 2
    BY <1>5, <2>1
  <2>3. AllFormats' /\ Clean'
    BY <1>8, <2>1, <2>2 DEF AllFormats, Clean, InFlight
  <2>4. Driver' /\ SuccessFollowedPath' /\ AllOrNothing'
    BY <2>1, StillSending DEF InFlight
  <2> QED
    BY <1>7, <1>9, <2>3, <2>4 DEF Invariant, Calling
<1> QED
  BY <1>10, <1>11

LEMMA CollectInvariant == ASSUME Invariant, Collect PROVE Invariant'
<1>1. CASE call.kind = "formats"
  BY <1>1, FormatsCollected
<1>2. CASE call.kind # "formats"
  <2>1. /\ pc = "reply" /\ Complete /\ UNCHANGED <<call, todo, readings, combined, imageVars>>
        /\ call.kind \in Kernel /\ Publish(response, response.status = "SUCCESS")
    BY <1>2 DEF Collect
  <2>2. call.kind \in Single
    BY <1>2, <2>1 DEF Kernel, Single
  <2>3. response \in Responses /\ combined' \in Responses
    BY <2>1 DEF Invariant, Types
  <2>4. CASE response.status = "SUCCESS"
    BY <2>1, <2>2, <2>3, <2>4, ValuePublished
  <2>5. CASE response.status # "SUCCESS"
    BY <1>2, <2>1, <2>3, <2>5, FailureIsEmpty, EndsWithNothing
  <2> QED
    BY <2>4, <2>5
<1> QED
  BY <1>1, <1>2

-----------------------------------------------------------------------------
(***************************************************************************)
(* The theorems.                                                           *)
(***************************************************************************)

\* Init, every action and every stutter keep the inductive invariant: what is known of
\* the request in the driver and of the parts a call has left, and the properties.
THEOREM Invariance == Spec => []Invariant
<1>1. Invariant /\ [Next]_vars => Invariant'
  <2>1. SUFFICES ASSUME Invariant, [Next]_vars PROVE Invariant'
    OBVIOUS
  <2>2. CASE UNCHANGED vars
    BY <2>1, <2>2, StutterInvariant
  <2>3. ASSUME NEW c \in Calls, Ask(c) PROVE Invariant'
    BY <2>1, <2>3, AskInvariant
  <2>4. CASE Send \/ Receive \/ Take
    BY <2>1, <2>4, SendInvariant, ReceiveInvariant, TakeInvariant
  <2>5. CASE Execute \/ FollowPointer \/ ReadValue
    BY <2>1, <2>5, ExecuteInvariant, FollowPointerInvariant, ReadValueInvariant
  <2>6. CASE Collect \/ Restart
    BY <2>1, <2>6, CollectInvariant, RestartInvariant
  <2> QED
    BY <2>1, <2>2, <2>3, <2>4, <2>5, <2>6 DEF Next
<1> QED
  BY <1>1, InitInvariant, PTL DEF Spec

\* Every variable has its type, and no address the driver computes from a pointer leaves
\* the width of the target's pointers: CoordinateRequest.h's checked additions suffice.
THEOREM TypeCorrect == Spec => []TypeOK
<1>1. Invariant => TypeOK
  BY DEF Invariant, Types, Driver, TypeOK, Responses, Reads, InFlight
<1> QED
  BY <1>1, Invariance, PTL

\* Whatever a valid request meets in the game, the client accepts the driver's answer.
THEOREM AnswersAccepted == Spec => []AnswersAreAccepted
<1>1. Invariant => AnswersAreAccepted
  BY DEF Invariant, Driver, AnswersAreAccepted
<1> QED
  BY <1>1, Invariance, PTL

\* A request that succeeds has read exactly its documented chain, and the four requests
\* of the engine together the chain to the own X.
THEOREM SuccessFollowsPath == Spec => []SuccessFollowedPath
<1>1. Invariant => SuccessFollowedPath
  BY DEF Invariant
<1> QED
  BY <1>1, Invariance, PTL

\* A call publishes every coordinate asked for, each one read for this call, or none.
THEOREM AllOrNothingPublished == Spec => []AllOrNothing
<1>1. Invariant => AllOrNothing
  BY DEF Invariant
<1> QED
  BY <1>1, Invariance, PTL
===============================================================================
