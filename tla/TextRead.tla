------------------------------ MODULE TextRead ------------------------------
(***************************************************************************)
(* Reading a string of the game: the driver (TextRequest.h, behind         *)
(* ExecuteDarkEdenTextRequest) finds the text through a pointer and copies *)
(* it one character per read into a buffer of fixed size; the client       *)
(* (ReadText of DriverClient.h) checks the answer; the engine decodes it;  *)
(* and DE_ReadValue asks for the own name a second time, as UTF-16, when   *)
(* the first answer looks like one half of a wide character.               *)
(*                                                                         *)
(* The game may change the pointer or a byte of the text, or unmap the     *)
(* text, between any two reads.  The code pages of Windows are external:   *)
(* Utf8 and Cp949 are any two conversions that may fail.                   *)
(***************************************************************************)
EXTENDS Integers, Sequences

CONSTANTS
  PointerMax,    \* the largest 32-bit address (0xFFFFFFFF)
  Capacity,      \* sizeof(response.data), 256 in the code
  OtherOffsets,  \* 0x34, 0, 0x14, 0x544, 0: the chain to another character's name
  Bytes,         \* the bytes memory is made of, 0..255
  Utf8(_),       \* a narrow text read as UTF-8, <<>> if it is none
  Cp949(_, _),   \* a narrow text read as code page 949, strictly or not; <<>> if it has no reading
  Memories,      \* texts the game may hold: bytes at 1..PointerMax + 1
  Changing,      \* those of them that the game goes on changing
  MaxGame        \* bound on the changes it makes in those

Addresses == 1..PointerMax + 1
ByteMax   == 255
Units     == 0..ByteMax + 256 * ByteMax  \* code units of UTF-16

ASSUME TextReadAssumption ==
  /\ PointerMax \in Nat \ {0} /\ MaxGame \in Nat
  /\ Capacity \in Nat /\ Capacity > 0 /\ Capacity % 2 = 0
  /\ OtherOffsets \in Seq(0..PointerMax)
  /\ Bytes \subseteq 0..ByteMax
  /\ Memories \subseteq [Addresses -> Bytes]
  /\ \A n \in 1..Capacity : \A s \in [1..n -> Bytes] :
       {Utf8(s), Cp949(s, TRUE), Cp949(s, FALSE)} \subseteq Seq(Units)

VARIABLES
  mem, slot,  \* the bytes of the game; the pointer to the name asked for
  mapped,     \* whether the text can be read
  changes,    \* changes the game has made
  pc,         \* where the call is
  task,       \* what the text is for
  width,      \* request.characterBytes
  address,    \* the address of the next pointer or of the text
  level,      \* pointers of the chain followed
  index,      \* offset of the next character in the text
  response,   \* the driver's answer
  name,       \* what the engine makes of it
  quiet       \* the game has changed nothing since the call (history)

gameVars == <<mem, slot, mapped, changes>>
vars == <<mem, slot, mapped, changes, pc, task, width, address, level, index,
          response, name, quiet>>

\* DE_ReadValue and the list ask for the own name, the list for a nearby one; "other" is
\* the driver's chain of pointers, whose answer no caller decodes.
Tasks == {"name", "own", "nearby", "other"}
NoText == [status |-> "PENDING", data |-> <<>>, textAddress |-> 0, terminated |-> 0]
NoName == [ok |-> FALSE, text |-> <<>>]

Init ==
  /\ mem \in Memories /\ slot \in 0..PointerMax /\ mapped = TRUE
  /\ changes = IF mem \in Changing THEN 0 ELSE MaxGame
  /\ pc = "idle" /\ task = "own" /\ width = 1
  /\ address = 0 /\ level = 0 /\ index = 0
  /\ response = NoText /\ name = NoName /\ quiet = TRUE

-----------------------------------------------------------------------------
Game ==
  /\ changes < MaxGame
  /\ changes' = changes + 1
  /\ \/ \E a \in Addresses, b \in Bytes : mem' = [mem EXCEPT ![a] = b]
        /\ UNCHANGED <<slot, mapped>>
     \/ \E p \in 0..PointerMax : slot' = p /\ UNCHANGED <<mem, mapped>>
     \/ mapped' = FALSE /\ UNCHANGED <<mem, slot>>
  /\ quiet' = (pc = "idle")
  /\ UNCHANGED <<pc, task, width, address, level, index, response, name>>

-----------------------------------------------------------------------------
(***************************************************************************)
(* The driver.                                                             *)
(***************************************************************************)

Answer(r) == pc' = "reply" /\ response' = r

\* The reader cannot be initialized, or the offset resolved.
NotOpened ==
  /\ pc = "pointer" /\ level = 0
  /\ Answer([response EXCEPT !.status = "NOT_OPENED"])
  /\ UNCHANGED <<gameVars, task, width, address, level, index, name, quiet>>

\* ReadTextAtAddress, before its loop.
BeginText(a) ==
  /\ address' = a
  /\ IF a = 0
       THEN Answer([response EXCEPT !.status = "INVALID_ADDRESS"])
       ELSE pc' = "text" /\ response' = [response EXCEPT !.textAddress = a]

\* ReadPointedText: one pointer, at the slot.
ReadPointer ==
  /\ pc = "pointer" /\ task # "other"
  /\ \/ BeginText(slot)
     \/ Answer([response EXCEPT !.status = "FAULT"]) /\ UNCHANGED address
  /\ UNCHANGED <<gameVars, task, width, level, index, name, quiet>>

\* A variant without the check.
Unchecked(p, offset) == TRUE
\* pointer + offset does not leave 32 bits.
Fits(p, offset) == p <= PointerMax - offset

\* ReadOtherCharacterText: the pointers of the chain are any words of the game.
FollowPointer ==
  /\ pc = "pointer" /\ task = "other" /\ level < Len(OtherOffsets)
  /\ \/ Answer([response EXCEPT !.status = "FAULT"]) /\ UNCHANGED <<address, level>>
     \/ \E p \in 0..PointerMax :
          LET offset == OtherOffsets[level + 1] IN
          IF p # 0 /\ Fits(p, offset)
            THEN /\ address' = p + offset
                 /\ level' = level + 1
                 /\ UNCHANGED <<pc, response>>
            ELSE /\ Answer([response EXCEPT !.status =
                              IF p = 0 THEN "INVALID_ADDRESS" ELSE "INTEGER_OVERFLOW"])
                 /\ UNCHANGED <<address, level>>
  /\ UNCHANGED <<gameVars, task, width, index, name, quiet>>

EndOfChain ==
  /\ pc = "pointer" /\ task = "other" /\ level = Len(OtherOffsets)
  /\ BeginText(address)
  /\ UNCHANGED <<gameVars, task, width, level, index, name, quiet>>

\* The whole character fits the buffer.
Room(i) == i + width <= Capacity

Character(a) == [k \in 1..width |-> mem[a + k - 1]]
\* A character that ends the text; the variant looks at one byte.
ZeroByte(c)   == c[1] = 0
Terminator(c) == \A k \in 1..width : c[k] = 0

TextFull ==
  /\ pc = "text" /\ ~ Room(index)
  /\ Answer([response EXCEPT !.status = "SUCCESS"])
  /\ UNCHANGED <<gameVars, task, width, address, level, index, name, quiet>>

\* One turn of the loop.
ReadCharacter ==
  /\ pc = "text" /\ Room(index)
  /\ IF ~ Fits(address, index)
       THEN Answer([response EXCEPT !.status = "INTEGER_OVERFLOW"]) /\ UNCHANGED index
       ELSE IF ~ mapped
       THEN Answer([response EXCEPT !.status = "FAULT"]) /\ UNCHANGED index
       ELSE LET c == Character(address + index) IN
            IF Terminator(c)
              THEN /\ Answer([response EXCEPT !.status = "SUCCESS", !.terminated = 1])
                   /\ UNCHANGED index
              ELSE /\ response' = [response EXCEPT !.data = @ \o c]
                   /\ index' = index + width
                   /\ UNCHANGED pc
  /\ UNCHANGED <<gameVars, task, width, address, level, name, quiet>>

-----------------------------------------------------------------------------
(***************************************************************************)
(* The client and the engine.                                              *)
(***************************************************************************)

\* The check of ReadText on an answer.
Accepted(r) ==
  /\ Len(r.data) <= Capacity
  /\ Len(r.data) % width = 0
  /\ r.terminated \in {0, 1}

\* The code units of UTF-16: two bytes each, the low one first.
Joined(s) == [k \in 1..Len(s) \div 2 |-> s[2 * k - 1] + 256 * s[2 * k]]

\* A variant that tries the Korean code page first.
DecodeKorean(r, strict) ==
  IF width = 2 THEN Joined(r.data)
  ELSE IF Len(r.data) = 0 THEN <<>>
  ELSE IF Cp949(r.data, strict) # <<>> THEN Cp949(r.data, strict) ELSE Utf8(r.data)
\* DecodeText.  UTF-8 is read strictly, so that another text gets to code page 949;
\* what neither can read becomes the empty text.
Decode(r, strict) ==
  IF width = 2 THEN Joined(r.data)
  ELSE IF Len(r.data) = 0 THEN <<>>
  ELSE IF Utf8(r.data) # <<>> THEN Utf8(r.data) ELSE Cp949(r.data, strict)

\* What the caller makes of a good answer: the list takes a nearby name only if it is
\* complete, and reads it strictly.
Text(r) ==
  IF task = "other" THEN <<>>
  ELSE IF task # "nearby" THEN Decode(r, FALSE)
  ELSE IF r.terminated = 1 /\ Len(r.data) > 0 THEN Decode(r, TRUE) ELSE <<>>

Request(w) ==
  /\ pc' = "pointer"
  /\ width' = w
  /\ address' = 0 /\ level' = 0 /\ index' = 0
  /\ response' = NoText

Call(t, w) ==
  /\ pc = "idle"
  /\ t \in {"name", "nearby"} => w = 1
  /\ task' = t
  /\ Request(w)
  /\ UNCHANGED <<gameVars, name, quiet>>

Return(n) == pc' = "done" /\ name' = n

\* A variant with the length of a whole wide character.
TwoBytes(r) == Len(r.data) = 2 /\ r.terminated = 1
\* A single narrow character can be the first byte of UTF-16LE text.
LooksWide(r) == Len(r.data) = 1 /\ r.terminated = 1

\* The second answer is taken only if it is a complete text of two characters.
WideEnough(r) == r.terminated = 1 /\ Len(r.data) >= 4

Good == Accepted(response) /\ response.status = "SUCCESS"

\* The first answer, or the only one.
Receive ==
  /\ pc = "reply" /\ (width = 1 \/ task # "name")
  /\ IF ~ Good
       THEN Return(NoName) /\ UNCHANGED <<width, address, level, index, response>>
     ELSE IF task = "name" /\ LooksWide(response)
       THEN Request(2) /\ name' = [ok |-> TRUE, text |-> Text(response)]
     ELSE /\ Return([ok |-> TRUE, text |-> Text(response)])
          /\ UNCHANGED <<width, address, level, index, response>>
  /\ UNCHANGED <<gameVars, task, quiet>>

\* The second answer replaces the name, or is ignored.
ReceiveWide ==
  /\ pc = "reply" /\ width = 2 /\ task = "name"
  /\ Return(IF Good /\ WideEnough(response)
              THEN [ok |-> TRUE, text |-> Text(response)] ELSE name)
  /\ UNCHANGED <<gameVars, task, width, address, level, index, response, quiet>>

Take ==
  /\ pc = "done"
  /\ pc' = "idle" /\ task' = "own" /\ width' = 1
  /\ address' = 0 /\ level' = 0 /\ index' = 0
  /\ response' = NoText /\ name' = NoName /\ quiet' = TRUE
  /\ UNCHANGED gameVars

-----------------------------------------------------------------------------
Step ==
  \/ NotOpened \/ ReadPointer \/ FollowPointer \/ EndOfChain
  \/ TextFull \/ ReadCharacter
  \/ Receive \/ ReceiveWide

Next ==
  \/ Game
  \/ Step \/ Take
  \/ \E t \in Tasks, w \in {1, 2} : Call(t, w)

Spec == Init /\ [][Next]_vars

-----------------------------------------------------------------------------
(***************************************************************************)
(* Properties.                                                             *)
(***************************************************************************)

\* Every variable has its type, and no character is read whose address is not a
\* 32-bit one or stored outside the buffer.
TypeOK ==
  /\ mem \in [Addresses -> Bytes] /\ slot \in 0..PointerMax /\ mapped \in BOOLEAN
  /\ changes \in 0..MaxGame
  /\ pc \in {"idle", "pointer", "text", "reply", "done"} /\ task \in Tasks
  /\ width \in {1, 2}
  /\ address \in 0..PointerMax /\ level \in 0..Len(OtherOffsets)
  /\ index \in 0..Capacity
  /\ response.status \in {"PENDING", "SUCCESS", "FAULT", "INVALID_ADDRESS",
                          "INTEGER_OVERFLOW", "NOT_OPENED"}
  /\ response.data \in Seq(Bytes) /\ Len(response.data) <= Capacity
  /\ response.terminated \in {0, 1}
  /\ name.ok \in BOOLEAN /\ name.text \in Seq(Units) /\ quiet \in BOOLEAN

\* What the text at an address is: its characters of width w up to the first that
\* is zero, cut at the size of the buffer.
CharacterAt(a, w, k) == [j \in 1..w |-> mem[a + w * k + j - 1]]
ZeroAt(a, w, k) == \A j \in 1..w : CharacterAt(a, w, k)[j] = 0
TextAt(a, w, n) == [j \in 1..w * n |-> mem[a + j - 1]]

\* A successful answer about memory that has not changed is the text that is
\* there: it stops at the first zero character, not at a zero byte inside one, and
\* says it is terminated exactly if it was not cut at the size of the buffer.
QuietTextIsExact ==
  pc = "reply" /\ quiet /\ response.status = "SUCCESS" =>
    LET n == Len(response.data) \div width
        a == response.textAddress IN
    /\ response.data = TextAt(a, width, n)
    /\ \A k \in 0..n - 1 : ~ ZeroAt(a, width, k)
    /\ IF response.terminated = 1 THEN ZeroAt(a, width, n) ELSE width * n = Capacity

\* The narrow text at the pointer has n bytes; it is cut if they fill the buffer.
NarrowText(n) ==
  /\ slot + n <= PointerMax + 1
  /\ \A k \in 0..n - 1 : mem[slot + k] # 0
  /\ n < Capacity => slot + n <= PointerMax /\ mem[slot + n] = 0
\* The wide text at the pointer has n characters.
WideText(n) ==
  /\ slot + 2 * n <= PointerMax
  /\ \A k \in 0..n - 1 : ~ ZeroAt(slot, 2, k)
  /\ ZeroAt(slot, 2, n)
\* Wide texts that the second request can bring.
WideLengths == 2..Capacity \div 2 - 1
\* What a narrow text says (README.md): UTF-8 if it is that, else CP949.
Reading(s, strict) == IF Utf8(s) # <<>> THEN Utf8(s) ELSE Cp949(s, strict)

\* A name is what the game holds.  The own name is read as UTF-8 or CP949, as far as the
\* buffer goes; only one character before a zero is in doubt, and it is taken for half
\* of a wide character if, and only if, the bytes from there on are a complete wide text
\* of two characters or more, which is then returned in full.  (If the second request
\* fails, the first character is.)  A nearby name is never a piece of one.
QuietNameIsText ==
  pc = "done" /\ quiet /\ name.ok /\ response.status = "SUCCESS" =>
    /\ task = "name" =>
         /\ mem[slot] = 0 => name.text = <<>>
         /\ \A n \in 1..Capacity :
              NarrowText(n) /\ ~ (n = 1 /\ \E k \in WideLengths : WideText(k))
              => name.text = Reading(TextAt(slot, 1, n), FALSE)
         /\ \A n \in WideLengths : NarrowText(1) /\ WideText(n) =>
              name.text = [k \in 1..n |-> mem[slot + 2 * k - 2] + 256 * mem[slot + 2 * k - 1]]
    /\ task = "nearby" => \A n \in 0..Capacity : NarrowText(n) =>
         name.text = IF n \in {0, Capacity} THEN <<>> ELSE Reading(TextAt(slot, 1, n), TRUE)
=============================================================================
