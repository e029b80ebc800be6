----------------------------- MODULE MCTextRead -----------------------------
EXTENDS TextRead
S == INSTANCE SequencesExt

\* The ends of the ASCII range that occur, and two bytes that are a character of
\* UTF-8 in one order and only one of code page 949 in the other.
MCBytes == {0, 65, 169, 195}

\* Decoders of these bytes, one byte at a time: a byte may stay open for the next.
Start == [units |-> <<>>, open |-> 0, bad |-> FALSE]
Emit(d, unit) == [d EXCEPT !.units = Append(@, unit), !.open = 0]
Bad(d) == [d EXCEPT !.bad = TRUE]

Utf8Byte(d, b) ==
  IF b < 128 THEN IF d.open = 0 THEN Emit(d, b) ELSE Bad(d)
  ELSE IF b >= 192 THEN IF d.open = 0 THEN [d EXCEPT !.open = b] ELSE Bad(d)
  ELSE IF d.open = 0 THEN Bad(d) ELSE Emit(d, 64 * (d.open - 192) + b - 128)
MCUtf8(s) ==
  LET d == S!FoldLeft(Utf8Byte, Start, s) IN
  IF d.bad \/ d.open # 0 THEN <<>> ELSE d.units

\* Two bytes of 949 stand for themselves, joined.  A lead byte at the end is left out, or
\* is an error if the text is read strictly.
Cp949Byte(d, b) ==
  IF d.open # 0 THEN Emit(d, 256 * d.open + b)
  ELSE IF b < 128 THEN Emit(d, b) ELSE [d EXCEPT !.open = b]
MCCp949(s, strict) ==
  LET d == S!FoldLeft(Cp949Byte, Start, s) IN
  IF strict /\ d.open # 0 THEN <<>> ELSE d.units

\* Every text over a zero byte and one letter, at the top of memory; and every beginning
\* of four bytes before zeros.
MCMemories ==
  [Addresses -> {0, 65}] \cup
  {[a \in Addresses |-> IF a \in 1..4 THEN t[a] ELSE 0] : t \in [1..4 -> MCBytes]}
\* Texts that are about to change: narrow, wide and mixed.
MCChangingMemories ==
  {[a \in Addresses |-> IF a \in nonzero THEN 65 ELSE 0] :
     nonzero \in {1..3, 1..PointerMax, {1, 3}, {1, 3, 4}}}
MCOtherOffsets == <<1, 0, 2, 3, 0>>
=============================================================================
