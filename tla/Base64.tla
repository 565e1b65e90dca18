-------------------------------- MODULE Base64 --------------------------------
(***************************************************************************)
(* text/Base64.cpp: encodeBase64(), decodeBase64().  Bytes are numbers of  *)
(* 0..255; the text behind the result is the C string in its buffer (the   *)
(* code never sets the length of the string).                              *)
(***************************************************************************)
EXTENDS Ascii

\* s_tableBase64, s_inversBase64: '=' counts as a digit with the value 0.
Letter64(n) ==
  CASE n < 26 -> 65 + n
    [] n \in 26..51 -> 97 + n - 26
    [] n \in 52..61 -> 48 + n - 52
    [] n = 62 -> Plus
    [] OTHER -> Slash
Valid64 == {Letter64(n) : n \in 0..63} \cup {Assign}
Value64(c) == IF c = Assign THEN 0 ELSE CHOOSE n \in 0..63 : Letter64(n) = c

\* The digits of a group of one to three bytes.
Group(bytes) ==
  LET b(k) == IF k <= Len(bytes) THEN bytes[k] ELSE 0
      digits == << Letter64(b(1) \div 4),
                   Letter64((b(1) % 4) * 16 + b(2) \div 16),
                   Letter64((b(2) % 16) * 4 + b(3) \div 64),
                   Letter64(b(3) % 64) >>
  IN [k \in 1..4 |-> IF k <= Len(bytes) + 1 THEN digits[k] ELSE Assign]

\* A line feed follows each whole group that fills the line. lineSize 0 (no
\* lines wanted) is filled by each, and no room was reserved for these line
\* feeds; lineSize 1..3 divides by 0.
EncodeBase64(bytes, lineSize) ==
  LET bound == (lineSize \div 4) * 4
      Coded[k \in 0..Len(bytes) \div 3] ==
        IF k = 0 THEN [text |-> <<>>, length |-> 0]
        ELSE LET before == Coded[k - 1]
                 isFull == before.length + 4 >= bound
             IN [text |-> before.text \o Group(SubSeq(bytes, 3 * k - 2, 3 * k))
                            \o IF isFull THEN <<LF>> ELSE <<>>,
                 length |-> IF isFull THEN 0 ELSE before.length + 4]
      rest == From(bytes, 3 * (Len(bytes) \div 3) + 1)
  IN Coded[Len(bytes) \div 3].text \o IF rest = <<>> THEN <<>> ELSE Group(rest)

\* Other characters are skipped; a group with padding is the last one.
Failed == [ok |-> FALSE, bytes |-> <<>>]
\* Mutant: the padding is not taken off the last group.
PaddingKept(text) ==
  LET valid == SelectSeq(text, LAMBDA c : c \in Valid64)
      Bytes(k) ==
        LET v == [j \in 1..4 |-> Value64(valid[4 * k - 4 + j])]
        IN << v[1] * 4 + v[2] \div 16, (v[2] % 16) * 16 + v[3] \div 4, (v[3] % 4) * 64 + v[4] >>
  IN IF valid = <<>> \/ Len(valid) % 4 # 0 THEN Failed
     ELSE [ok |-> TRUE, bytes |-> FlattenSeq([k \in 1..Len(valid) \div 4 |-> Bytes(k)])]

DecodeBase64(text) ==
  LET valid == SelectSeq(text, LAMBDA c : c \in Valid64)
      Block(k) == SubSeq(valid, 4 * k - 3, 4 * k)
      Padding(k) == Len(SelectSeq(Block(k), LAMBDA c : c = Assign))
      Bytes(k) ==
        LET v == [j \in 1..4 |-> Value64(Block(k)[j])]
        IN Upto(<< v[1] * 4 + v[2] \div 16, (v[2] % 16) * 16 + v[3] \div 4, (v[3] % 4) * 64 + v[4] >>,
                3 - Padding(k))
      padded == {k \in 1..Len(valid) \div 4 : Padding(k) > 0}
      last == IF padded = {} THEN Len(valid) \div 4 ELSE CHOOSE k \in padded : \A j \in padded : k <= j
  IN IF valid = <<>> \/ Len(valid) % 4 # 0 \/ Padding(last) > 2 THEN Failed
     ELSE [ok |-> TRUE, bytes |-> FlattenSeq([k \in 1..last |-> Bytes(k)])]

--------------------------------------------------------------------------------
\* Reference: the digits, read as one number with six bits each, are the bytes
\* filled up with zeros; decoding returns the bytes, whatever stands between;
\* with a lineSize every line but the last has as many digits as whole groups
\* fit into it.
Weighed(values, base) == FoldLeft(LAMBDA n, v : base * n + v, 0, values)
Base64Agrees(bytes, lineSize) ==
  LET text == EncodeBase64(bytes, lineSize)
      digits == SelectSeq(text, LAMBDA c : c # LF)
      filled == bytes \o [k \in 1..(3 - (Len(bytes) % 3)) % 3 |-> 0]
  IN /\ \A k \in 0..Len(filled) \div 3 - 1 :
          Weighed(SubSeq(filled, 3 * k + 1, 3 * k + 3), 256)
            = Weighed([j \in 1..4 |-> Value64(digits[4 * k + j])], 64)
     /\ Len(digits) = 4 * (Len(filled) \div 3)
     /\ DecodeBase64(text) = IF bytes = <<>> THEN Failed ELSE [ok |-> TRUE, bytes |-> bytes]
     /\ DecodeBase64(<<LF>> \o text \o <<Minus, LF>>) = DecodeBase64(text)
     /\ \A k \in DOMAIN text : (text[k] = LF) = (k % (4 * (lineSize \div 4) + 1) = 0)
==============================================================================
