---------------------------- MODULE TextReadProofs ----------------------------
(***************************************************************************)
(* For any memory, any code pages, any buffer of whole wide characters and *)
(* any number of changes by the game: the types and bounds of TextRead,    *)
(* that a text read in quiet memory is the text that is there, and that a  *)
(* name is what the encodings make of it.                                  *)
(***************************************************************************)
EXTENDS TextRead, SequenceTheorems, TLAPS

Statuses == {"PENDING", "SUCCESS", "FAULT", "INVALID_ADDRESS", "INTEGER_OVERFLOW", "NOT_OPENED"}
Answers  == [status : Statuses, data : Seq(Bytes), textAddress : 0..PointerMax, terminated : {0, 1}]
Texts    == [ok : BOOLEAN, text : Seq(Units)]

Types ==
  /\ mem \in [Addresses -> Bytes] /\ slot \in 0..PointerMax /\ mapped \in BOOLEAN
  /\ changes \in 0..MaxGame
  /\ pc \in {"idle", "pointer", "text", "reply", "done"} /\ task \in Tasks
  /\ width \in {1, 2} /\ address \in 0..PointerMax /\ level \in 0..Len(OtherOffsets)
  /\ index \in 0..Capacity /\ response \in Answers /\ Len(response.data) <= Capacity
  /\ name \in Texts /\ quiet \in BOOLEAN

\* What holds where the call is: the characters taken so far are whole.
Control ==
  /\ pc \in {"idle", "pointer"} => response = NoText /\ index = 0
  /\ pc = "text" => /\ address # 0 /\ response.textAddress = address /\ response.status = "PENDING"
                    /\ response.terminated = 0 /\ Len(response.data) = index
  /\ \E n \in Nat : Len(response.data) = width * n
  /\ task = "nearby" => width = 1

\* The bytes taken are those of n characters of the text, none of which is zero.
Taken(n) ==
  /\ Len(response.data) = width * n
  /\ \A j \in 1..width * n : response.data[j] = mem[response.textAddress + j - 1]
  /\ \A k \in 0..n - 1 : ~ ZeroAt(response.textAddress, width, k)

\* The text ends after n characters, with a zero that memory and the buffer have room
\* for, or the buffer does.
Ended(n) ==
  IF response.terminated = 1
    THEN /\ ZeroAt(response.textAddress, width, n)
         /\ response.textAddress + width * n <= PointerMax /\ width * n + width <= Capacity
    ELSE width * n = Capacity

Exact ==
  /\ pc = "text" /\ quiet => \E n \in Nat : Taken(n)
  /\ pc = "reply" /\ quiet /\ response.status = "SUCCESS" => \E n \in Nat : Taken(n) /\ Ended(n)
  /\ quiet /\ task # "other" /\ (pc = "text" \/ (pc = "reply" /\ response.status = "SUCCESS")) =>
       response.textAddress = slot /\ slot # 0

\* The own name is asked for as UTF-16 only after one narrow character before a zero,
\* which is the name until then.
Second ==
  task = "name" /\ width = 2 /\ pc \in {"pointer", "text", "reply"} /\ quiet =>
    /\ mem[slot] # 0 /\ mem[slot + 1] = 0
    /\ name = [ok |-> TRUE, text |-> Reading(TextAt(slot, 1, 1), FALSE)]

Invariant == Types /\ Control /\ Exact /\ Second /\ QuietNameIsText

-----------------------------------------------------------------------------
LEMMA Bounds == \A b \in Bytes : b \in Nat /\ b <= ByteMax
  BY TextReadAssumption DEF TextReadAssumption, ByteMax

LEMMA Division ==
  ASSUME NEW w \in {1, 2}, NEW n \in Nat
  PROVE  /\ w * n \in Nat /\ (w * n) \div w = n /\ (w * n) % w = 0
         /\ w * (n + 1) = w * n + w
<1>1. CASE w = 1
  BY <1>1
<1>2. CASE w = 2
  BY <1>2
<1> QED
  BY <1>1, <1>2

LEMMA NoTextTyped == NoText \in Answers /\ NoName \in Texts /\ Len(NoText.data) = 0
<1>1. <<>> \in Seq(Bytes) /\ <<>> \in Seq(Units) /\ Len(<<>>) = 0
  OBVIOUS
<1> QED
  BY <1>1, TextReadAssumption DEF TextReadAssumption, NoText, NoName, Answers, Texts, Statuses

\* A call that has not begun, or has been forgotten.
Rest ==
  /\ mem \in [Addresses -> Bytes] /\ slot \in 0..PointerMax /\ mapped \in BOOLEAN
  /\ changes \in 0..MaxGame /\ pc = "idle" /\ task = "own" /\ width = 1 /\ address = 0
  /\ level = 0 /\ index = 0 /\ response = NoText /\ name = NoName /\ quiet = TRUE

LEMMA RestHolds == Rest => Invariant
<1> SUFFICES ASSUME Rest PROVE Invariant
  OBVIOUS
<1> USE TextReadAssumption, NoTextTyped DEF TextReadAssumption, Rest
<1>1. Types
  <2>1. Len(OtherOffsets) \in Nat
    BY LenProperties
  <2>2. level \in 0..Len(OtherOffsets) /\ index \in 0..Capacity /\ address \in 0..PointerMax
    BY <2>1
  <2> QED
    BY <2>2 DEF Types, Tasks
<1>2. Control
  <2>1. Len(response.data) = width * 0
    OBVIOUS
  <2> QED
    BY <2>1 DEF Control
<1>3. Exact /\ Second /\ QuietNameIsText
  BY DEF Exact, Second, QuietNameIsText
<1> QED
  BY <1>1, <1>2, <1>3 DEF Invariant

LEMMA InitHolds == Init => Invariant
<1> SUFFICES ASSUME Init PROVE Invariant
  OBVIOUS
<1>1. mem \in [Addresses -> Bytes] /\ changes \in 0..MaxGame
  BY TextReadAssumption DEF TextReadAssumption, Init
<1> QED
  BY <1>1, RestHolds DEF Init, Rest

\* The game may do anything once a call is quiet no longer.
LEMMA GameStep == ASSUME Invariant, Game PROVE Invariant'
<1>1. UNCHANGED <<pc, task, width, address, level, index, response, name>>
  BY DEF Game
<1>2. quiet' = (pc = "idle")
  BY DEF Game
<1>3. /\ mem' \in [Addresses -> Bytes] /\ slot' \in 0..PointerMax /\ mapped' \in BOOLEAN
      /\ changes' \in 0..MaxGame
  <2>1. changes' \in 0..MaxGame
    BY TextReadAssumption DEF TextReadAssumption, Game, Invariant, Types
  <2>2. CASE \E a \in Addresses, b \in Bytes : mem' = [mem EXCEPT ![a] = b] /\ UNCHANGED <<slot, mapped>>
    BY <2>1, <2>2 DEF Invariant, Types
  <2>3. CASE \E p \in 0..PointerMax : slot' = p /\ UNCHANGED <<mem, mapped>>
    BY <2>1, <2>3 DEF Invariant, Types
  <2>4. CASE mapped' = FALSE /\ UNCHANGED <<mem, slot>>
    BY <2>1, <2>4 DEF Invariant, Types
  <2> QED
    BY <2>2, <2>3, <2>4 DEF Game
<1>4. Types'
  BY <1>1, <1>2, <1>3 DEF Invariant, Types
<1>5. Control'
  BY <1>1 DEF Invariant, Control
<1>6. Exact' /\ Second' /\ QuietNameIsText'
  BY <1>1, <1>2 DEF Exact, Second, QuietNameIsText
<1> QED
  BY <1>4, <1>5, <1>6 DEF Invariant

-----------------------------------------------------------------------------
Frame == UNCHANGED <<mem, slot, mapped, changes, task, width, name, quiet>>

\* A request that fails has no text to answer for.
LEMMA FailHolds ==
  ASSUME Invariant, pc \in {"pointer", "text"}, Frame, pc' = "reply", index' \in 0..Capacity,
         address' \in 0..PointerMax, level' \in 0..Len(OtherOffsets),
         NEW s \in Statuses \ {"SUCCESS"}, response' = [response EXCEPT !.status = s]
  PROVE  Invariant'
<1>1. /\ response' \in Answers /\ response'.data = response.data /\ response'.status = s
  BY DEF Invariant, Types, Answers
<1>2. Types'
  BY <1>1 DEF Invariant, Types, Frame
<1>3. Control'
  BY <1>1 DEF Invariant, Control, Frame
<1>4. Exact' /\ Second' /\ QuietNameIsText'
  BY <1>1 DEF Invariant, Exact, Second, TextAt, QuietNameIsText, Frame
<1> QED
  BY <1>2, <1>3, <1>4 DEF Invariant

\* The text is found, and nothing of it is read yet.
LEMMA BeginHolds ==
  ASSUME Invariant, pc = "pointer", Frame, NEW a \in 0..PointerMax, BeginText(a),
         level' \in 0..Len(OtherOffsets), index' = index, task # "other" => a = slot
  PROVE  Invariant'
<1>1. response = NoText /\ index = 0
  BY DEF Invariant, Control
<1>2. CASE a = 0
  <2>1. address' = a /\ pc' = "reply" /\ response' = [response EXCEPT !.status = "INVALID_ADDRESS"]
    BY <1>2 DEF BeginText, Answer
  <2> QED
    BY <1>1, <2>1, FailHolds DEF Statuses, Invariant, Types
<1>3. CASE a # 0
  <2>1. address' = a /\ pc' = "text" /\ response' = [response EXCEPT !.textAddress = a]
    BY <1>3 DEF BeginText
  <2>2. /\ response' \in Answers /\ Len(response'.data) = 0 /\ response'.textAddress = a
        /\ response'.status = "PENDING" /\ response'.terminated = 0
    BY <1>1, <2>1, NoTextTyped DEF NoText, Answers, Statuses
  <2>3. Types'
    BY <1>1, <2>1, <2>2, TextReadAssumption DEF TextReadAssumption, Invariant, Types, Frame
  <2>4. width' = width /\ width \in {1, 2} /\ (task' = "nearby" => width' = 1)
    BY DEF Invariant, Types, Control, Frame
  <2>5. Control'
    <3>1. Len(response'.data) = width' * 0
      BY <2>2, <2>4
    <3> QED
      BY <1>1, <1>3, <2>1, <2>2, <2>4, <3>1 DEF Control
  <2>6. Exact'
    <3>1. Taken(0)'
      BY <2>2, <2>4 DEF Taken
    <3> QED
      BY <1>3, <2>1, <2>2, <3>1 DEF Exact, Frame
  <2>7. Second' /\ QuietNameIsText'
    BY <2>1 DEF Invariant, Second, TextAt, QuietNameIsText, Frame
  <2> QED
    BY <2>3, <2>5, <2>6, <2>7 DEF Invariant
<1> QED
  BY <1>2, <1>3

LEMMA NotOpenedHolds == ASSUME Invariant, NotOpened PROVE Invariant'
  BY FailHolds DEF NotOpened, Answer, Frame, gameVars, Statuses, Invariant, Types

LEMMA ReadPointerHolds == ASSUME Invariant, ReadPointer PROVE Invariant'
<1>1. pc = "pointer" /\ Frame /\ level' = level /\ index' = index /\ task # "other"
  BY DEF ReadPointer, Frame, gameVars
<1>2. CASE BeginText(slot)
  BY <1>1, <1>2, BeginHolds DEF Invariant, Types
<1>3. CASE Answer([response EXCEPT !.status = "FAULT"]) /\ UNCHANGED address
  BY <1>1, <1>3, FailHolds DEF Answer, Statuses, Invariant, Types
<1> QED
  BY <1>2, <1>3 DEF ReadPointer

LEMMA EndOfChainHolds == ASSUME Invariant, EndOfChain PROVE Invariant'
  BY BeginHolds DEF EndOfChain, Frame, gameVars, Invariant, Types

\* No step of the chain leaves 32 bits.
LEMMA FollowPointerHolds == ASSUME Invariant, FollowPointer PROVE Invariant'
<1>1. pc = "pointer" /\ Frame /\ index' = index /\ level < Len(OtherOffsets)
  BY DEF FollowPointer, Frame, gameVars
<1>2. CASE Answer([response EXCEPT !.status = "FAULT"]) /\ UNCHANGED <<address, level>>
  BY <1>1, <1>2, FailHolds DEF Answer, Statuses, Invariant, Types
<1>3. ASSUME NEW p \in 0..PointerMax, p # 0, Fits(p, OtherOffsets[level + 1]),
             address' = p + OtherOffsets[level + 1], level' = level + 1, UNCHANGED <<pc, response>>
      PROVE  Invariant'
  <2>1. Len(OtherOffsets) \in Nat /\ level \in Nat
    BY LenProperties, TextReadAssumption DEF TextReadAssumption, Invariant, Types
  <2>2. level' \in 0..Len(OtherOffsets) /\ level + 1 \in 1..Len(OtherOffsets)
    BY <1>1, <1>3, <2>1
  <2>3. OtherOffsets[level + 1] \in 0..PointerMax
    BY <2>2, ElementOfSeq, TextReadAssumption DEF TextReadAssumption
  <2>4. address' \in 0..PointerMax
    BY <1>3, <2>3, TextReadAssumption DEF TextReadAssumption, Fits
  <2>5. Types'
    BY <1>1, <1>3, <2>2, <2>4 DEF Invariant, Types, Frame
  <2>6. Control' /\ Exact' /\ Second' /\ QuietNameIsText'
    BY <1>1, <1>3 DEF Invariant, Control, Exact, Second, TextAt, QuietNameIsText, Frame
  <2> QED
    BY <2>5, <2>6 DEF Invariant
<1>4. ASSUME NEW p \in 0..PointerMax, UNCHANGED <<address, level>>,
             Answer([response EXCEPT !.status =
                       IF p = 0 THEN "INVALID_ADDRESS" ELSE "INTEGER_OVERFLOW"])
      PROVE  Invariant'
  <2>1. CASE p = 0
    <3>1. pc' = "reply" /\ response' = [response EXCEPT !.status = "INVALID_ADDRESS"]
      BY <1>4, <2>1 DEF Answer
    <3> QED
      BY <1>1, <1>4, <3>1, FailHolds DEF Statuses, Invariant, Types
  <2>2. CASE p # 0
    <3>1. pc' = "reply" /\ response' = [response EXCEPT !.status = "INTEGER_OVERFLOW"]
      BY <1>4, <2>2 DEF Answer
    <3> QED
      BY <1>1, <1>4, <3>1, FailHolds DEF Statuses, Invariant, Types
  <2> QED
    BY <2>1, <2>2
<1> QED
  BY <1>2, <1>3, <1>4 DEF FollowPointer

-----------------------------------------------------------------------------
\* The text fills the buffer, which holds whole characters.
LEMMA TextFullHolds == ASSUME Invariant, TextFull PROVE Invariant'
<1>1. /\ pc = "text" /\ ~ Room(index) /\ Frame /\ UNCHANGED <<address, level, index>>
      /\ pc' = "reply" /\ response' = [response EXCEPT !.status = "SUCCESS"]
  BY DEF TextFull, Frame, gameVars, Answer
<1>2. /\ response' \in Answers /\ response'.data = response.data
      /\ response'.textAddress = response.textAddress /\ response'.terminated = 0
  BY <1>1 DEF Invariant, Types, Control, Answers, Statuses
<1>3. Types'
  BY <1>1, <1>2 DEF Invariant, Types, Frame
<1>4. Control'
  BY <1>1, <1>2 DEF Invariant, Control, Frame
<1>5. Exact'
  <2>1. SUFFICES ASSUME quiet PROVE \E n \in Nat : Taken(n)' /\ Ended(n)'
    BY <1>1, <1>2 DEF Invariant, Exact, Frame
  <2>2. PICK n \in Nat : Taken(n)
    BY <1>1, <2>1 DEF Invariant, Exact
  <2>3. Taken(n)'
    BY <1>1, <1>2, <2>2 DEF Taken, ZeroAt, CharacterAt, Frame
  <2>4. width * n = Capacity
    <3>1. index = width * n /\ index \in 0..Capacity /\ ~ (index + width <= Capacity) /\ width \in {1, 2}
      BY <1>1, <2>2 DEF Taken, Room, Invariant, Types, Control
    <3>2. CASE width = 1
      BY <3>1, <3>2, TextReadAssumption DEF TextReadAssumption
    <3>3. CASE width = 2
      BY <3>1, <3>3, TextReadAssumption DEF TextReadAssumption
    <3> QED
      BY <3>1, <3>2, <3>3
  <2> QED
    BY <1>1, <1>2, <2>3, <2>4 DEF Ended, Frame
<1>6. Second' /\ QuietNameIsText'
  BY <1>1 DEF Invariant, Second, TextAt, QuietNameIsText, Frame
<1> QED
  BY <1>3, <1>4, <1>5, <1>6 DEF Invariant

\* The character at the index is the next one of the text.
LEMMA NextCharacter ==
  ASSUME Invariant, pc = "text", NEW n \in Nat, Taken(n)
  PROVE  /\ index = width * n /\ address + index = response.textAddress + width * n
         /\ Terminator(Character(address + index)) <=> ZeroAt(response.textAddress, width, n)
<1>1. /\ width \in {1, 2} /\ index = width * n /\ response.textAddress = address
      /\ address \in Nat /\ index \in Nat
  BY TextReadAssumption DEF TextReadAssumption, Invariant, Types, Control, Taken
<1>2. Character(address + index) = CharacterAt(response.textAddress, width, n)
  BY <1>1 DEF Character, CharacterAt
<1> QED
  BY <1>1, <1>2 DEF Terminator, ZeroAt

\* A character of bytes.
LEMMA CharacterBytes ==
  ASSUME Invariant, address + index \in 1..PointerMax
  PROVE  /\ Character(address + index) \in Seq(Bytes) /\ Len(Character(address + index)) = width
         /\ \A k \in 1..width : Character(address + index)[k] = mem[address + index + k - 1]
<1> DEFINE c == Character(address + index)
<1>1. width \in {1, 2} /\ mem \in [Addresses -> Bytes]
  BY DEF Invariant, Types
<1>2. \A k \in 1..width : address + index + k - 1 \in Addresses
  BY <1>1, TextReadAssumption DEF TextReadAssumption, Addresses
<1>3. c \in [1..width -> Bytes] /\ \A k \in 1..width : c[k] = mem[address + index + k - 1]
  BY <1>1, <1>2 DEF Character
<1> HIDE DEF c
<1>4. c \in Seq(Bytes)
  BY <1>1, <1>3, SeqDef
<1>5. Len(c) = width
  <2>1. Len(c) \in Nat /\ 1..Len(c) = 1..width
    BY <1>3, <1>4, LenProperties
  <2> QED
    BY <1>1, <2>1
<1> QED
  BY <1>3, <1>4, <1>5 DEF c

\* One character is tested or taken; it lies below the end of memory and in the buffer.
LEMMA ReadCharacterHolds == ASSUME Invariant, ReadCharacter PROVE Invariant'
<1>1. pc = "text" /\ Room(index) /\ Frame /\ UNCHANGED <<address, level>>
  BY DEF ReadCharacter, Frame, gameVars
<1>2. /\ width \in {1, 2} /\ index \in 0..Capacity /\ address \in 1..PointerMax
      /\ response \in Answers /\ response.data \in Seq(Bytes) /\ Len(response.data) = index
      /\ response.textAddress = address /\ response.status = "PENDING" /\ response.terminated = 0
      /\ Len(response.data) <= Capacity
  BY <1>1, TextReadAssumption DEF TextReadAssumption, Invariant, Types, Control, Answers
<1> DEFINE c == Character(address + index)
<1>3. CASE \/ Answer([response EXCEPT !.status = "INTEGER_OVERFLOW"]) /\ UNCHANGED index
           \/ Answer([response EXCEPT !.status = "FAULT"]) /\ UNCHANGED index
  BY <1>1, <1>3, FailHolds DEF Answer, Statuses, Invariant, Types
<1>4. CASE /\ Fits(address, index) /\ Terminator(c) /\ UNCHANGED index
           /\ Answer([response EXCEPT !.status = "SUCCESS", !.terminated = 1])
  <2>1. pc' = "reply" /\ response' = [response EXCEPT !.status = "SUCCESS", !.terminated = 1]
    BY <1>4 DEF Answer
  <2>2. /\ response' \in Answers /\ response'.data = response.data
        /\ response'.textAddress = response.textAddress /\ response'.terminated = 1
    BY <1>2, <2>1 DEF Answers, Statuses
  <2>3. Types'
    BY <1>1, <1>2, <1>4, <2>1, <2>2 DEF Invariant, Types, Frame
  <2>4. Control'
    BY <1>1, <2>1, <2>2 DEF Invariant, Control, Frame
  <2>5. Exact'
    <3>1. SUFFICES ASSUME quiet PROVE \E n \in Nat : Taken(n)' /\ Ended(n)'
      BY <1>1, <2>1, <2>2 DEF Invariant, Exact, Frame
    <3>2. PICK n \in Nat : Taken(n)
      BY <1>1, <3>1 DEF Invariant, Exact
    <3>3. ZeroAt(response.textAddress, width, n)
      BY <1>1, <1>4, <3>2, NextCharacter
    <3>4. Taken(n)'
      BY <1>1, <2>2, <3>2 DEF Taken, ZeroAt, CharacterAt, Frame
    <3>5. address + width * n <= PointerMax /\ width * n + width <= Capacity
      <4>1. index = width * n /\ address <= PointerMax - index /\ index + width <= Capacity
        BY <1>1, <1>4, <3>2, NextCharacter DEF Room, Fits
      <4> QED
        BY <1>2, <4>1, TextReadAssumption DEF TextReadAssumption
    <3>6. Ended(n)'
      BY <1>1, <1>2, <2>2, <3>3, <3>5 DEF Ended, ZeroAt, CharacterAt, Frame
    <3> QED
      BY <3>4, <3>6
  <2>6. Second' /\ QuietNameIsText'
    BY <1>1, <2>1 DEF Invariant, Second, TextAt, QuietNameIsText, Frame
  <2> QED
    BY <2>3, <2>4, <2>5, <2>6 DEF Invariant
<1>5. CASE /\ Fits(address, index) /\ ~ Terminator(c)
           /\ response' = [response EXCEPT !.data = @ \o c] /\ index' = index + width /\ UNCHANGED pc
  <2>1. address + index \in 1..PointerMax
    BY <1>2, <1>5, TextReadAssumption DEF TextReadAssumption, Fits
  <2>2. /\ c \in Seq(Bytes) /\ Len(c) = width
        /\ \A k \in 1..width : c[k] = mem[address + index + k - 1]
    BY <2>1, CharacterBytes
  <2> HIDE DEF c
  <2>3. /\ response' \in Answers /\ response'.data = response.data \o c
        /\ response'.textAddress = address /\ response'.status = "PENDING"
        /\ response'.terminated = 0
    <3>1. response.data \o c \in Seq(Bytes)
      BY <1>2, <2>2, ConcatProperties
    <3> QED
      BY <1>2, <1>5, <3>1 DEF Answers
  <2>4. /\ Len(response.data \o c) = index + width
        /\ \A i \in 1..index + width :
             (response.data \o c)[i] = IF i <= index THEN response.data[i] ELSE c[i - index]
    BY <1>2, <2>2, ConcatProperties
  <2>5. index + width \in 0..Capacity
    BY <1>1, <1>2, TextReadAssumption DEF TextReadAssumption, Room
  <2>6. Types'
    BY <1>1, <1>5, <2>3, <2>4, <2>5 DEF Invariant, Types, Frame
  <2>7. Control'
    <3>1. PICK n \in Nat : Len(response.data) = width * n
      BY DEF Invariant, Control
    <3>2. width * (n + 1) = width * n + width /\ n + 1 \in Nat
      BY <1>2, Division
    <3>3. Len(response'.data) = width' * (n + 1)
      BY <1>1, <1>2, <2>3, <2>4, <3>1, <3>2 DEF Frame
    <3>4. task' = "nearby" => width' = 1
      BY <1>1 DEF Invariant, Control, Frame
    <3> QED
      BY <1>1, <1>2, <1>5, <2>3, <2>4, <3>2, <3>3, <3>4 DEF Control
  <2>8. Exact'
    <3>1. SUFFICES ASSUME quiet PROVE \E n \in Nat : Taken(n)'
      BY <1>1, <1>2, <1>5, <2>3 DEF Invariant, Exact, Frame
    <3>2. PICK n \in Nat : Taken(n)
      BY <1>1, <3>1 DEF Invariant, Exact
    <3>3. index = width * n /\ ~ ZeroAt(address, width, n)
      BY <1>1, <1>2, <1>5, <3>2, NextCharacter DEF c
    <3>4. width * (n + 1) = index + width
      BY <1>2, <3>3, Division
    <3>5. \A j \in 1..width * (n + 1) : response'.data[j] = mem[address + j - 1]
      <4> SUFFICES ASSUME NEW j \in 1..index + width
                   PROVE  (response.data \o c)[j] = mem[address + j - 1]
        BY <2>3, <3>4
      <4>1. CASE j <= index
        <5>1. j \in 1..width * n
          BY <1>2, <3>3, <4>1
        <5>2. response.data[j] = mem[address + j - 1]
          BY <1>2, <3>2, <5>1 DEF Taken
        <5> QED
          BY <2>4, <4>1, <5>2
      <4>2. CASE ~ (j <= index)
        <5>1. j - index \in 1..width /\ address + index + (j - index) - 1 = address + j - 1
          BY <1>2, <4>2
        <5> QED
          BY <2>2, <2>4, <4>2, <5>1
      <4> QED
        BY <4>1, <4>2
    <3>6. \A k \in 0..n + 1 - 1 : ~ ZeroAt(address, width, k)
      BY <1>2, <3>2, <3>3 DEF Taken
    <3>7. Taken(n + 1)'
      BY <1>1, <2>3, <2>4, <3>4, <3>5, <3>6 DEF Taken, ZeroAt, CharacterAt, Frame
    <3> QED
      BY <3>7
  <2>9. Second' /\ QuietNameIsText'
    BY <1>1, <1>5 DEF Invariant, Second, TextAt, QuietNameIsText, Frame
  <2> QED
    BY <2>6, <2>7, <2>8, <2>9 DEF Invariant
<1> QED
  BY <1>3, <1>4, <1>5 DEF ReadCharacter

-----------------------------------------------------------------------------
\* A zero character, in either width.
LEMMA ZeroNarrow ==
  ASSUME NEW a \in Nat, NEW k \in Nat PROVE ZeroAt(a, 1, k) <=> mem[a + k] = 0
<1>1. CharacterAt(a, 1, k)[1] = mem[a + k]
  BY DEF CharacterAt
<1>2. 1..1 = {1}
  OBVIOUS
<1> QED
  BY <1>1, <1>2 DEF ZeroAt

LEMMA ZeroWide ==
  ASSUME NEW a \in Nat, NEW k \in Nat
  PROVE  ZeroAt(a, 2, k) <=> mem[a + 2 * k] = 0 /\ mem[a + 2 * k + 1] = 0
<1>1. CharacterAt(a, 2, k)[1] = mem[a + 2 * k] /\ CharacterAt(a, 2, k)[2] = mem[a + 2 * k + 1]
  BY DEF CharacterAt
<1>2. 1..2 = {1, 2}
  OBVIOUS
<1> QED
  BY <1>1, <1>2 DEF ZeroAt

LEMMA Halves ==
  ASSUME NEW n \in Nat
  PROVE  n \div 2 \in Nat /\ \A k \in 1..n \div 2 : 2 * k - 1 \in 1..n /\ 2 * k \in 1..n
<1>1. PICK h \in Nat : h = n \div 2
  OBVIOUS
<1>2. 2 * h <= n
  BY <1>1
<1>3. \A k \in 1..h : 2 * k - 1 \in 1..n /\ 2 * k \in 1..n
  BY <1>2
<1> QED
  BY <1>1, <1>3

LEMMA UnitOfBytes == \A low, high \in Bytes : low + 256 * high \in Units
<1> SUFFICES ASSUME NEW low \in Bytes, NEW high \in Bytes PROVE low + 256 * high \in Units
  OBVIOUS
<1>1. low \in Nat /\ low <= 255
  BY Bounds DEF ByteMax
<1>2. high \in Nat /\ high <= 255
  BY Bounds DEF ByteMax
<1>3. low + 256 * high \in Nat /\ low + 256 * high <= 65535
  BY <1>1, <1>2
<1>4. ByteMax + 256 * ByteMax = 65535
  BY DEF ByteMax
<1> QED
  BY <1>3, <1>4 DEF Units

LEMMA JoinedTyped == ASSUME NEW s \in Seq(Bytes) PROVE Joined(s) \in Seq(Units)
<1> DEFINE m == Len(s) \div 2
<1>1. Len(s) \in Nat /\ \A i \in 1..Len(s) : s[i] \in Bytes
  BY LenProperties, ElementOfSeq
<1>2. m \in Nat /\ \A k \in 1..m : 2 * k - 1 \in 1..Len(s) /\ 2 * k \in 1..Len(s)
  BY <1>1, Halves
<1>3. Joined(s) = [k \in 1..m |-> s[2 * k - 1] + 256 * s[2 * k]]
  BY DEF Joined
<1> HIDE DEF m
<1>4. \A k \in 1..m : s[2 * k - 1] + 256 * s[2 * k] \in Units
  BY <1>1, <1>2, UnitOfBytes
<1>5. Joined(s) \in [1..m -> Units]
  BY <1>3, <1>4
<1> QED
  BY <1>2, <1>5, SeqDef

\* What is not empty is read by one of the code pages.
LEMMA ReadingTyped ==
  ASSUME NEW s \in Seq(Bytes), Len(s) # 0, Len(s) <= Capacity, NEW strict \in BOOLEAN
  PROVE  Reading(s, strict) \in Seq(Units)
<1>1. Len(s) \in 1..Capacity /\ s \in [1..Len(s) -> Bytes]
  BY LenProperties, TextReadAssumption DEF TextReadAssumption
<1>2. {Utf8(s), Cp949(s, TRUE), Cp949(s, FALSE)} \subseteq Seq(Units)
  BY <1>1, TextReadAssumption DEF TextReadAssumption
<1>3. Utf8(s) \in Seq(Units) /\ Cp949(s, TRUE) \in Seq(Units) /\ Cp949(s, FALSE) \in Seq(Units)
  BY <1>2
<1>4. CASE strict = TRUE
  BY <1>3, <1>4 DEF Reading
<1>5. CASE strict = FALSE
  BY <1>3, <1>5 DEF Reading
<1> QED
  BY <1>4, <1>5

\* The three cases of the decoder.
LEMMA Decoded ==
  ASSUME NEW r, NEW strict
  PROVE  /\ width = 2 => Decode(r, strict) = Joined(r.data)
         /\ width = 1 /\ Len(r.data) = 0 => Decode(r, strict) = <<>>
         /\ width = 1 /\ Len(r.data) # 0 => Decode(r, strict) = Reading(r.data, strict)
  BY DEF Decode, Reading

LEMMA DecodeTyped ==
  ASSUME Invariant, NEW strict \in BOOLEAN PROVE Decode(response, strict) \in Seq(Units)
<1>1. /\ width \in {1, 2} /\ response.data \in Seq(Bytes) /\ Len(response.data) <= Capacity
  BY DEF Invariant, Types, Answers
<1>2. CASE width = 2
  BY <1>1, <1>2, JoinedTyped, Decoded
<1>3. CASE width = 1 /\ Len(response.data) = 0
  <2>1. <<>> \in Seq(Units)
    OBVIOUS
  <2> QED
    BY <1>3, <2>1, Decoded
<1>4. CASE width = 1 /\ Len(response.data) # 0
  BY <1>1, <1>4, ReadingTyped, Decoded
<1> QED
  BY <1>1, <1>2, <1>3, <1>4

LEMMA TextTyped == ASSUME Invariant PROVE Text(response) \in Seq(Units)
<1>1. <<>> \in Seq(Units) /\ TRUE \in BOOLEAN /\ FALSE \in BOOLEAN
  OBVIOUS
<1>2. Decode(response, TRUE) \in Seq(Units) /\ Decode(response, FALSE) \in Seq(Units)
  BY <1>1, DecodeTyped
<1> QED
  BY <1>1, <1>2 DEF Text

-----------------------------------------------------------------------------
\* What is known of a text read in quiet memory.
Known(n) ==
  /\ n \in Nat /\ Taken(n) /\ Ended(n) /\ response.textAddress = slot
  /\ slot \in Nat /\ response.data \in Seq(Bytes) /\ width \in {1, 2}
  /\ Len(response.data) <= Capacity /\ response.terminated \in {0, 1}

LEMMA QuietAnswer ==
  ASSUME Invariant, pc = "reply", quiet, response.status = "SUCCESS", task # "other"
  PROVE  \E n \in Nat : Known(n)
<1>1. PICK n \in Nat : Taken(n) /\ Ended(n)
  BY DEF Invariant, Exact
<1> QED
  BY <1>1 DEF Invariant, Types, Exact, Known, Answers

\* A narrow answer has the bytes before the first zero, or those that fill the buffer.
LEMMA NarrowKnown ==
  ASSUME NEW m, Known(m), width = 1
  PROVE  /\ m \in Nat /\ m <= Capacity /\ slot \in Nat /\ Len(response.data) = m
         /\ response.data = TextAt(slot, 1, m)
         /\ \A k \in 0..m - 1 : mem[slot + k] # 0
         /\ IF response.terminated = 1 THEN mem[slot + m] = 0 /\ m < Capacity ELSE m = Capacity
<1>1. /\ m \in Nat /\ slot \in Nat /\ Len(response.data) = m /\ response.data \in Seq(Bytes)
      /\ \A j \in 1..m : response.data[j] = mem[slot + j - 1]
      /\ \A k \in 0..m - 1 : ~ ZeroAt(slot, 1, k)
      /\ IF response.terminated = 1 THEN ZeroAt(slot, 1, m) /\ m + 1 <= Capacity ELSE m = Capacity
      /\ m <= Capacity
  BY DEF Known, Taken, Ended
<1>2. ASSUME NEW k \in 0..m - 1 PROVE mem[slot + k] # 0
  <2>1. k \in Nat
    BY <1>1
  <2> QED
    BY <1>1, <2>1, ZeroNarrow
<1>3. IF response.terminated = 1 THEN mem[slot + m] = 0 /\ m < Capacity ELSE m = Capacity
  <2>1. Capacity \in Nat
    BY TextReadAssumption DEF TextReadAssumption
  <2>2. ZeroAt(slot, 1, m) <=> mem[slot + m] = 0
    BY <1>1, ZeroNarrow
  <2> QED
    BY <1>1, <2>1, <2>2
<1>4. response.data = [j \in 1..m |-> response.data[j]]
  BY <1>1, LenProperties
<1>5. response.data = TextAt(slot, 1, m)
  <2>1. 1 * m = m
    BY <1>1
  <2> QED
    BY <1>1, <1>4, <2>1 DEF TextAt
<1> QED
  BY <1>1, <1>2, <1>3, <1>5

\* It is the narrow text at the pointer, whole or cut.
LEMMA NarrowRead ==
  ASSUME NEW m, Known(m), width = 1, NEW n \in 0..Capacity, NarrowText(n)
  PROVE  /\ response.data = TextAt(slot, 1, n) /\ Len(response.data) = n
         /\ response.terminated = 1 <=> n < Capacity
<1>1. /\ n \in Nat /\ n <= Capacity /\ Capacity \in Nat
      /\ \A k \in 0..n - 1 : mem[slot + k] # 0
      /\ n < Capacity => mem[slot + n] = 0
  BY TextReadAssumption DEF TextReadAssumption, NarrowText
<1>2. /\ m \in Nat /\ m <= Capacity
      /\ \A k \in 0..m - 1 : mem[slot + k] # 0
      /\ IF response.terminated = 1 THEN mem[slot + m] = 0 /\ m < Capacity ELSE m = Capacity
  BY NarrowKnown
<1>3. ~ (n < m)
  BY <1>1, <1>2
<1>4. ~ (m < n)
  BY <1>1, <1>2
<1>5. m = n
  BY <1>1, <1>2, <1>3, <1>4
<1>6. response.terminated = 1 <=> n < Capacity
  BY <1>1, <1>2, <1>5
<1> QED
  BY <1>5, <1>6, NarrowKnown

\* One character before a zero looks like half of a wide one.
LEMMA SingleLooksWide ==
  ASSUME NEW m, Known(m), width = 1, NarrowText(1) PROVE LooksWide(response)
<1>1. 1 \in 0..Capacity /\ 1 < Capacity
  BY TextReadAssumption DEF TextReadAssumption
<1> QED
  BY <1>1, NarrowRead DEF LooksWide

\* A wide answer is the wide text that is there, whole and wide enough to be taken.
LEMMA WideRead ==
  ASSUME NEW m, Known(m), width = 2, NEW n \in WideLengths, WideText(n)
  PROVE  /\ WideEnough(response)
         /\ Joined(response.data) = [k \in 1..n |-> mem[slot + 2 * k - 2] + 256 * mem[slot + 2 * k - 1]]
<1>1. /\ m \in Nat /\ slot \in Nat /\ Len(response.data) = 2 * m
      /\ \A j \in 1..2 * m : response.data[j] = mem[slot + j - 1]
      /\ \A k \in 0..m - 1 : ~ ZeroAt(slot, 2, k)
      /\ IF response.terminated = 1 THEN ZeroAt(slot, 2, m) ELSE 2 * m = Capacity
  BY DEF Known, Taken, Ended
<1>2. /\ n \in Nat /\ 2 <= n /\ 2 * n < Capacity /\ Capacity \in Nat
      /\ ZeroAt(slot, 2, n) /\ \A k \in 0..n - 1 : ~ ZeroAt(slot, 2, k)
  BY TextReadAssumption DEF TextReadAssumption, WideText, WideLengths
<1>3. ~ (n < m)
  BY <1>1, <1>2
<1>4. ~ (m < n)
  BY <1>1, <1>2
<1>5. m = n
  BY <1>1, <1>2, <1>3, <1>4
<1>6. response.terminated = 1
  BY <1>1, <1>2, <1>5
<1>7. WideEnough(response)
  BY <1>1, <1>2, <1>5, <1>6 DEF WideEnough
<1>8. Joined(response.data) = [k \in 1..n |-> response.data[2 * k - 1] + 256 * response.data[2 * k]]
  <2>1. Len(response.data) \div 2 = n
    BY <1>1, <1>5, Division
  <2> QED
    BY <2>1 DEF Joined
<1>9. ASSUME NEW k \in 1..n
      PROVE  /\ response.data[2 * k - 1] = mem[slot + 2 * k - 2]
             /\ response.data[2 * k] = mem[slot + 2 * k - 1]
  <2>1. 2 * k - 1 \in 1..2 * m /\ 2 * k \in 1..2 * m
    BY <1>1, <1>2, <1>5
  <2>2. slot + (2 * k - 1) - 1 = slot + 2 * k - 2
    BY <1>1, <1>2
  <2> QED
    BY <1>1, <2>1, <2>2
<1> QED
  BY <1>7, <1>8, <1>9

\* An answer that is taken is a wide text that is there.
LEMMA WideOnly ==
  ASSUME NEW m, Known(m), width = 2, WideEnough(response)
  PROVE  m \in WideLengths /\ WideText(m)
<1>1. /\ m \in Nat /\ slot \in Nat /\ Len(response.data) = 2 * m
      /\ \A k \in 0..m - 1 : ~ ZeroAt(slot, 2, k)
      /\ ZeroAt(slot, 2, m) /\ slot + 2 * m <= PointerMax /\ 2 * m + 2 <= Capacity
  BY DEF Known, Taken, Ended, WideEnough
<1>2. 2 * m >= 4 /\ Capacity \in Nat
  BY <1>1, TextReadAssumption DEF TextReadAssumption, WideEnough
<1>3. m \in WideLengths
  BY <1>1, <1>2 DEF WideLengths
<1> QED
  BY <1>1, <1>3 DEF WideText

-----------------------------------------------------------------------------
\* A call that returns keeps its answer.
LEMMA ReturnHolds ==
  ASSUME Invariant, pc = "reply", pc' = "done", name' \in Texts,
         UNCHANGED <<gameVars, task, width, address, level, index, response, quiet>>,
         QuietNameIsText'
  PROVE  Invariant'
<1>1. Types' /\ Control'
  BY DEF Invariant, Types, Control, gameVars
<1>2. Exact' /\ Second'
  BY DEF Exact, Second
<1> QED
  BY <1>1, <1>2 DEF Invariant

LEMMA GoodAnswer == ASSUME Invariant PROVE Good <=> response.status = "SUCCESS"
<1>1. /\ width \in {1, 2} /\ Len(response.data) <= Capacity /\ response.terminated \in {0, 1}
  BY DEF Invariant, Types, Answers
<1>2. PICK n \in Nat : Len(response.data) = width * n
  BY DEF Invariant, Control
<1> QED
  BY <1>1, <1>2, Division DEF Good, Accepted

\* What a name may be, given what the game holds.
OwnName(text) ==
  /\ mem[slot] = 0 => text = <<>>
  /\ \A n \in 1..Capacity :
       NarrowText(n) /\ ~ (n = 1 /\ \E k \in WideLengths : WideText(k))
       => text = Reading(TextAt(slot, 1, n), FALSE)
  /\ \A n \in WideLengths : NarrowText(1) /\ WideText(n) =>
       text = [k \in 1..n |-> mem[slot + 2 * k - 2] + 256 * mem[slot + 2 * k - 1]]
NearbyName(text) == \A n \in 0..Capacity : NarrowText(n) =>
  text = IF n \in {0, Capacity} THEN <<>> ELSE Reading(TextAt(slot, 1, n), TRUE)

\* How a narrow answer is decoded, for either name.
LEMMA NoneRead ==
  ASSUME NEW m, Known(m), width = 1, mem[slot] = 0 PROVE Decode(response, FALSE) = <<>>
<1>1. /\ m \in Nat /\ slot \in Nat /\ Len(response.data) = m
      /\ \A k \in 0..m - 1 : mem[slot + k] # 0
  BY NarrowKnown
<1>2. m = 0
  <2>1. SUFFICES ASSUME m # 0 PROVE FALSE
    OBVIOUS
  <2>2. 0 \in 0..m - 1 /\ slot + 0 = slot
    BY <1>1, <2>1
  <2> QED
    BY <1>1, <2>2
<1> QED
  BY <1>1, <1>2, Decoded

LEMMA SomeRead ==
  ASSUME NEW m, Known(m), width = 1, NEW n \in 1..Capacity, NarrowText(n)
  PROVE  Decode(response, FALSE) = Reading(TextAt(slot, 1, n), FALSE)
<1>1. n \in 0..Capacity /\ n # 0
  BY TextReadAssumption DEF TextReadAssumption
<1>2. response.data = TextAt(slot, 1, n) /\ Len(response.data) = n
  BY <1>1, NarrowRead
<1>3. Decode(response, FALSE) = Reading(response.data, FALSE)
  BY <1>1, <1>2, Decoded
<1> QED
  BY <1>2, <1>3

LEMMA NearbyRead ==
  ASSUME NEW m, Known(m), width = 1, task = "nearby" PROVE NearbyName(Text(response))
<1>1. ASSUME NEW n \in 0..Capacity, NarrowText(n)
      PROVE  Text(response) = IF n \in {0, Capacity} THEN <<>> ELSE Reading(TextAt(slot, 1, n), TRUE)
  <2>1. /\ response.data = TextAt(slot, 1, n) /\ Len(response.data) = n
        /\ response.terminated = 1 <=> n < Capacity
    BY <1>1, NarrowRead
  <2>2. Text(response) = IF response.terminated = 1 /\ Len(response.data) > 0
                           THEN Decode(response, TRUE) ELSE <<>>
    BY DEF Text
  <2>3. n \in Nat /\ n <= Capacity /\ Capacity \in Nat
    BY TextReadAssumption DEF TextReadAssumption
  <2>4. CASE n \in {0, Capacity}
    <3>1. ~ (response.terminated = 1 /\ Len(response.data) > 0)
      BY <2>1, <2>3, <2>4
    <3> QED
      BY <2>2, <2>4, <3>1
  <2>5. CASE n \notin {0, Capacity}
    <3>1. response.terminated = 1 /\ Len(response.data) > 0 /\ Len(response.data) # 0
      BY <2>1, <2>3, <2>5
    <3>2. Decode(response, TRUE) = Reading(response.data, TRUE)
      BY <3>1, Decoded
    <3> QED
      BY <2>1, <2>2, <2>5, <3>1, <3>2
  <2> QED
    BY <2>4, <2>5
<1> QED
  BY <1>1 DEF NearbyName

\* It is so after a step that does not change the game.
LEMMA NameFrame ==
  ASSUME UNCHANGED gameVars, NEW t, NEW x, task' = t, name'.text = x,
         t = "name" => OwnName(x), t = "nearby" => NearbyName(x)
  PROVE  QuietNameIsText'
<1>1. mem' = mem /\ slot' = slot
  BY DEF gameVars
<1>2. \A n : (NarrowText(n)' <=> NarrowText(n)) /\ TextAt(slot, 1, n)' = TextAt(slot, 1, n)
  BY <1>1 DEF NarrowText, TextAt
<1>3. \A n : WideText(n)' <=> WideText(n)
  BY <1>1 DEF WideText, ZeroAt, CharacterAt
<1>4. t = "name" => OwnName(x)'
  BY <1>1, <1>2, <1>3 DEF OwnName
<1>5. t = "nearby" => NearbyName(x)'
  BY <1>2 DEF NearbyName
<1> QED
  BY <1>4, <1>5 DEF QuietNameIsText, OwnName, NearbyName

\* The first answer is the name, unless it may be half of a wide character; then the
\* text does hold one character before a zero.
LEMMA ReceiveHolds == ASSUME Invariant, Receive PROVE Invariant'
<1>1. /\ pc = "reply" /\ (width = 1 \/ task # "name") /\ UNCHANGED <<gameVars, task, quiet>>
      /\ width \in {1, 2} /\ (task = "nearby" => width = 1)
  BY DEF Receive, Invariant, Types, Control
<1>2. [ok |-> TRUE, text |-> Text(response)] \in Texts
  BY TextTyped DEF Texts
<1>3. CASE /\ Return(NoName) /\ UNCHANGED <<width, address, level, index, response>>
  BY <1>1, <1>3, NoTextTyped, ReturnHolds DEF Return, NoName, QuietNameIsText
<1>4. CASE /\ Good /\ task = "name" /\ LooksWide(response)
           /\ Request(2) /\ name' = [ok |-> TRUE, text |-> Text(response)]
  <2>1. /\ pc' = "pointer" /\ width' = 2 /\ address' = 0 /\ level' = 0 /\ index' = 0
        /\ response' = NoText
    BY <1>4 DEF Request
  <2>2. Types'
    <3>1. Len(OtherOffsets) \in Nat
      BY LenProperties, TextReadAssumption DEF TextReadAssumption
    <3>2. /\ address' \in 0..PointerMax /\ level' \in 0..Len(OtherOffsets) /\ index' \in 0..Capacity
          /\ Len(response'.data) <= Capacity
      BY <2>1, <3>1, NoTextTyped, TextReadAssumption DEF TextReadAssumption
    <3> QED
      BY <1>1, <1>2, <1>4, <2>1, <3>2, NoTextTyped DEF Invariant, Types, gameVars
  <2>3. Control'
    <3>1. Len(response'.data) = width' * 0
      BY <2>1, NoTextTyped
    <3> QED
      BY <1>1, <1>4, <2>1, <3>1 DEF Control
  <2>4. Second'
    <3>1. SUFFICES ASSUME quiet
                   PROVE  /\ mem[slot] # 0 /\ mem[slot + 1] = 0
                          /\ name' = [ok |-> TRUE, text |-> Reading(TextAt(slot, 1, 1), FALSE)]
      BY <1>1 DEF Second, gameVars, TextAt
    <3>2. PICK m \in Nat : Known(m)
      BY <1>1, <1>4, <3>1, GoodAnswer, QuietAnswer
    <3>3. width = 1 /\ Len(response.data) = 1 /\ response.terminated = 1
      BY <1>1, <1>4 DEF LooksWide
    <3>4. m = 1 /\ response.data = TextAt(slot, 1, m) /\ mem[slot + m] = 0 /\ slot \in Nat
      BY <3>2, <3>3, NarrowKnown
    <3>5. \A k \in 0..m - 1 : mem[slot + k] # 0
      BY <3>2, <3>3, NarrowKnown
    <3>6. mem[slot] # 0
      <4>1. 0 \in 0..m - 1 /\ slot + 0 = slot
        BY <3>4
      <4> QED
        BY <3>5, <4>1
    <3>7. Text(response) = Reading(response.data, FALSE)
      <4>1. Text(response) = Decode(response, FALSE)
        BY <1>4 DEF Text
      <4>2. Len(response.data) # 0
        BY <3>3
      <4> QED
        BY <3>3, <4>1, <4>2, Decoded
    <3> QED
      BY <1>4, <3>4, <3>6, <3>7
  <2>5. Exact' /\ QuietNameIsText'
    BY <2>1 DEF Exact, QuietNameIsText
  <2> QED
    BY <2>2, <2>3, <2>4, <2>5 DEF Invariant
<1>5. CASE /\ Good /\ ~ (task = "name" /\ LooksWide(response))
           /\ Return([ok |-> TRUE, text |-> Text(response)])
           /\ UNCHANGED <<width, address, level, index, response>>
  <2>1. pc' = "done" /\ name' = [ok |-> TRUE, text |-> Text(response)]
    BY <1>5 DEF Return
  <2>2. QuietNameIsText'
    <3>1. CASE task \in {"name", "nearby"} /\ quiet
      <4>1. PICK m : Known(m)
        BY <1>1, <1>5, <3>1, GoodAnswer, QuietAnswer
      <4>2. width = 1
        BY <1>1, <3>1
      <4>3. ASSUME task = "name" PROVE OwnName(Text(response))
        <5>1. Text(response) = Decode(response, FALSE)
          BY <4>3 DEF Text
        <5>2. mem[slot] = 0 => Text(response) = <<>>
          BY <4>1, <4>2, <5>1, NoneRead
        <5>3. \A n \in 1..Capacity :
                NarrowText(n) => Text(response) = Reading(TextAt(slot, 1, n), FALSE)
          BY <4>1, <4>2, <5>1, SomeRead
        <5>4. ~ NarrowText(1)
          BY <1>5, <4>1, <4>2, <4>3, SingleLooksWide
        <5> QED
          BY <5>2, <5>3, <5>4 DEF OwnName
      <4>4. ASSUME task = "nearby" PROVE NearbyName(Text(response))
        BY <4>1, <4>2, <4>4, NearbyRead
      <4> QED
        BY <1>1, <2>1, <4>3, <4>4, NameFrame
    <3>2. CASE ~ (task \in {"name", "nearby"} /\ quiet)
      BY <1>1, <3>2 DEF QuietNameIsText
    <3> QED
      BY <3>1, <3>2
  <2> QED
    BY <1>1, <1>2, <1>5, <2>1, <2>2, ReturnHolds
<1> QED
  BY <1>3, <1>4, <1>5 DEF Receive

\* A wide text is taken from the second answer in full; a text that is not wide keeps
\* its one character.
LEMMA ReceiveWideHolds == ASSUME Invariant, ReceiveWide PROVE Invariant'
<1>1. /\ pc = "reply" /\ width = 2 /\ task = "name" /\ pc' = "done"
      /\ UNCHANGED <<gameVars, task, width, address, level, index, response, quiet>>
      /\ name' = IF Good /\ WideEnough(response)
                   THEN [ok |-> TRUE, text |-> Text(response)] ELSE name
  BY DEF ReceiveWide, Return
<1>2. name' \in Texts
  BY <1>1, TextTyped DEF Texts, Invariant, Types
<1>3. QuietNameIsText'
  <2>1. CASE quiet /\ response.status = "SUCCESS"
    <3>1. PICK m : Known(m)
      BY <1>1, <2>1, QuietAnswer
    <3>2. /\ mem[slot] # 0 /\ mem[slot + 1] = 0
          /\ name = [ok |-> TRUE, text |-> Reading(TextAt(slot, 1, 1), FALSE)]
      BY <1>1, <2>1 DEF Invariant, Second
    <3>3. Text(response) = Joined(response.data)
      <4>1. Text(response) = Decode(response, FALSE)
        BY <1>1 DEF Text
      <4> QED
        BY <1>1, <4>1, Decoded
    <3>4. \A n \in 1..Capacity : NarrowText(n) => n = 1
      <4>1. ASSUME NEW n \in 1..Capacity, NarrowText(n), n # 1 PROVE FALSE
        <5>1. 1 \in 0..n - 1
          BY <4>1, TextReadAssumption DEF TextReadAssumption
        <5> QED
          BY <3>2, <4>1, <5>1 DEF NarrowText
      <4> QED
        BY <4>1
    <3>5. ASSUME ~ \E k \in WideLengths : WideText(k)
          PROVE  name'.text = Reading(TextAt(slot, 1, 1), FALSE)
      <4>1. ~ WideEnough(response)
        BY <1>1, <3>1, <3>5, WideOnly
      <4> QED
        BY <1>1, <3>2, <4>1
    <3>6. ASSUME NEW n \in WideLengths, WideText(n)
          PROVE  name'.text = [k \in 1..n |-> mem[slot + 2 * k - 2] + 256 * mem[slot + 2 * k - 1]]
      <4>1. WideEnough(response) /\ Good
        BY <1>1, <2>1, <3>1, <3>6, WideRead, GoodAnswer
      <4>2. name'.text = Joined(response.data)
        BY <1>1, <3>3, <4>1
      <4> QED
        BY <1>1, <3>1, <3>6, <4>2, WideRead
    <3>7. OwnName(name'.text)
      BY <3>2, <3>4, <3>5, <3>6 DEF OwnName
    <3> QED
      BY <1>1, <3>7, NameFrame
  <2>2. CASE ~ (quiet /\ response.status = "SUCCESS")
    BY <1>1, <2>2 DEF QuietNameIsText
  <2> QED
    BY <2>1, <2>2
<1> QED
  BY <1>1, <1>2, <1>3, ReturnHolds

LEMMA CallHolds ==
  ASSUME Invariant, NEW t \in Tasks, NEW w \in {1, 2}, Call(t, w) PROVE Invariant'
<1>1. /\ pc = "idle" /\ task' = t /\ UNCHANGED <<gameVars, name, quiet>>
      /\ pc' = "pointer" /\ width' = w /\ address' = 0 /\ level' = 0 /\ index' = 0
      /\ response' = NoText /\ (t = "name" => w = 1) /\ (t = "nearby" => w = 1)
  BY DEF Call, Request
<1>2. Types'
  <2>1. Len(OtherOffsets) \in Nat
    BY LenProperties, TextReadAssumption DEF TextReadAssumption
  <2>2. /\ address' \in 0..PointerMax /\ level' \in 0..Len(OtherOffsets) /\ index' \in 0..Capacity
        /\ Len(response'.data) <= Capacity
    BY <1>1, <2>1, NoTextTyped, TextReadAssumption DEF TextReadAssumption
  <2> QED
    BY <1>1, <2>2, NoTextTyped DEF Invariant, Types, gameVars
<1>3. Control'
  <2>1. Len(response'.data) = width' * 0
    BY <1>1, NoTextTyped
  <2> QED
    BY <1>1, <2>1 DEF Control
<1>4. Exact' /\ QuietNameIsText'
  BY <1>1 DEF Exact, QuietNameIsText
<1>5. Second'
  BY <1>1 DEF Second
<1> QED
  BY <1>2, <1>3, <1>4, <1>5 DEF Invariant

LEMMA TakeHolds == ASSUME Invariant, Take PROVE Invariant'
<1>1. /\ mem' \in [Addresses -> Bytes] /\ slot' \in 0..PointerMax /\ mapped' \in BOOLEAN
      /\ changes' \in 0..MaxGame
  BY DEF Take, gameVars, Invariant, Types
<1>2. Rest'
  BY <1>1 DEF Take, Rest
<1>3. Rest' => Invariant'
  BY RestHolds, PTL
<1> QED
  BY <1>2, <1>3

\* The invariant holds in every state, whatever the game does between two reads.
THEOREM Invariance == Spec => []Invariant
<1>1. Invariant /\ [Next]_vars => Invariant'
  <2> SUFFICES ASSUME Invariant, [Next]_vars PROVE Invariant'
    OBVIOUS
  <2>1. CASE Game
    BY <2>1, GameStep
  <2>2. CASE NotOpened \/ ReadPointer \/ FollowPointer \/ EndOfChain
    BY <2>2, NotOpenedHolds, ReadPointerHolds, FollowPointerHolds, EndOfChainHolds
  <2>3. CASE TextFull \/ ReadCharacter
    BY <2>3, TextFullHolds, ReadCharacterHolds
  <2>4. CASE Receive \/ ReceiveWide
    BY <2>4, ReceiveHolds, ReceiveWideHolds
  <2>5. CASE Take
    BY <2>5, TakeHolds
  <2>6. CASE \E t \in Tasks, w \in {1, 2} : Call(t, w)
    BY <2>6, CallHolds
  <2>7. CASE UNCHANGED vars
    <3>1. Types' /\ Control'
      BY <2>7 DEF Invariant, Types, Control, vars
    <3>2. Exact'
      BY <2>7 DEF Invariant, Exact, Taken, Ended, ZeroAt, CharacterAt, vars
    <3>3. Second'
      BY <2>7 DEF Invariant, Second, TextAt, vars
    <3>4. QuietNameIsText'
      <4>1. /\ UNCHANGED gameVars /\ task' = task /\ name' = name
            /\ UNCHANGED <<pc, quiet, response>>
        BY <2>7 DEF vars, gameVars
      <4>2. CASE pc = "done" /\ quiet /\ name.ok /\ response.status = "SUCCESS"
        <5>1. task = "name" => OwnName(name.text)
          BY <4>2 DEF Invariant, QuietNameIsText, OwnName
        <5>2. task = "nearby" => NearbyName(name.text)
          BY <4>2 DEF Invariant, QuietNameIsText, NearbyName
        <5> QED
          BY <4>1, <5>1, <5>2, NameFrame
      <4>3. CASE ~ (pc = "done" /\ quiet /\ name.ok /\ response.status = "SUCCESS")
        BY <4>1, <4>3 DEF QuietNameIsText
      <4> QED
        BY <4>2, <4>3
    <3> QED
      BY <3>1, <3>2, <3>3, <3>4 DEF Invariant
  <2> QED
    BY <2>1, <2>2, <2>3, <2>4, <2>5, <2>6, <2>7 DEF Next, Step
<1> QED
  BY <1>1, InitHolds, PTL DEF Spec

\* Every variable keeps its type: no character is read whose address does not fit 32
\* bits or stored outside the buffer, however long the text and the chain to it are.
THEOREM TypeCorrect == Spec => []TypeOK
<1>1. Invariant => TypeOK
  BY DEF Invariant, Types, TypeOK, Answers, Texts, Statuses
<1> QED
  BY <1>1, Invariance, PTL

\* A successful answer about memory that has not changed is the text that is there, up
\* to its first zero character, and says whether it was cut.
THEOREM TextIsExact == Spec => []QuietTextIsExact
<1>1. Invariant => QuietTextIsExact
  <2> SUFFICES ASSUME Invariant, pc = "reply", quiet, response.status = "SUCCESS"
               PROVE  LET n == Len(response.data) \div width
                          a == response.textAddress IN
                      /\ response.data = TextAt(a, width, n)
                      /\ \A k \in 0..n - 1 : ~ ZeroAt(a, width, k)
                      /\ IF response.terminated = 1 THEN ZeroAt(a, width, n)
                                                    ELSE width * n = Capacity
    BY DEF QuietTextIsExact
  <2>1. PICK n \in Nat : Taken(n) /\ Ended(n)
    BY DEF Invariant, Exact
  <2>2. width \in {1, 2} /\ response.data \in Seq(Bytes)
    BY DEF Invariant, Types, Answers
  <2>3. Len(response.data) = width * n /\ Len(response.data) \div width = n
    BY <2>1, <2>2, Division DEF Taken
  <2>4. response.data = [j \in 1..width * n |-> response.data[j]]
    BY <2>2, <2>3, LenProperties
  <2>5. response.data = TextAt(response.textAddress, width, n)
    BY <2>1, <2>4 DEF Taken, TextAt
  <2> QED
    BY <2>1, <2>3, <2>5 DEF Taken, Ended
<1> QED
  BY <1>1, Invariance, PTL

\* A name is what the encodings make of the bytes that quiet memory holds, for any bytes
\* and any two code pages; the second request brings a complete wide text or nothing.
THEOREM NameIsText == Spec => []QuietNameIsText
<1>1. Invariant => QuietNameIsText
  BY DEF Invariant
<1> QED
  BY <1>1, Invariance, PTL

==============================================================================
