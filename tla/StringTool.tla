------------------------------ MODULE StringTool ------------------------------
(***************************************************************************)
(* The string functions of basic/StringTool.cpp.  Where a function takes   *)
(* the length of a text, -1 means all of it: here that is the caller's     *)
(* business.  Positions count from 0 as in the code where they are         *)
(* results, -1 is "not found".                                             *)
(***************************************************************************)
EXTENDS Ascii

Nibble(c) ==
  CASE c \in Digits -> c - 48
    [] c \in 65..70 -> c - 55
    [] c \in 97..102 -> c - 87
    [] OTHER -> -1

\* The escape sequences with a letter of their own.
Escaped == (LF :> SmallLetter(14)) @@ (CR :> SmallLetter(18)) @@ (TAB :> SmallLetter(20))
             @@ (VT :> SmallLetter(22)) @@ (FF :> SmallLetter(6))
MeaningOf(c) ==
  IF \E m \in DOMAIN Escaped : Escaped[m] = c
  THEN CHOOSE m \in DOMAIN Escaped : Escaped[m] = c ELSE c

\* A control character gets two digits; behind 9 the code goes on with k.
HexDigit(n) == IF n < 10 THEN 48 + n ELSE 97 + n
EscapeChar(c) ==
  CASE c \in {Quote, Backslash} -> <<Backslash, c>>
    [] c \in DOMAIN Escaped -> <<Backslash, Escaped[c]>>
    [] c \notin DOMAIN Escaped /\ c < Blank ->
         <<Backslash, SmallLetter(24), HexDigit(c \div 16), HexDigit(c % 16)>>
    [] OTHER -> <<c>>

EscapeMetaCharacters(s) == FlattenSeq([k \in DOMAIN s |-> EscapeChar(s[k])])
EscapeCount(s) ==
  LET Extra(c) == CASE c \in {Quote, Backslash} \cup DOMAIN Escaped -> 1
                    [] c \notin DOMAIN Escaped /\ c < Blank -> 3
                    [] OTHER -> 0
  IN FoldLeft(LAMBDA n, c : n + Extra(c), 0, s)

\* A sequence \x without a hex digit stays as it is, another unknown one loses
\* the backslash, one hex digit is enough.
RECURSIVE UnEscapeMetaCharacters(_)
UnEscapeMetaCharacters(s) ==
  LET Digit(k) == IF k <= Len(s) THEN Nibble(s[k]) ELSE -1 IN
  CASE Len(s) < 2 -> s
    [] Len(s) >= 2 /\ s[1] # Backslash -> <<s[1]>> \o UnEscapeMetaCharacters(From(s, 2))
    [] Len(s) >= 2 /\ s[1] = Backslash /\ s[2] # SmallLetter(24) ->
         <<MeaningOf(s[2])>> \o UnEscapeMetaCharacters(From(s, 3))
    [] OTHER ->
         CASE Digit(3) < 0 -> <<Backslash, s[2]>> \o UnEscapeMetaCharacters(From(s, 3))
           [] Digit(3) >= 0 /\ Digit(4) < 0 -> <<Digit(3)>> \o UnEscapeMetaCharacters(From(s, 4))
           [] OTHER -> <<16 * Digit(3) + Digit(4)>> \o UnEscapeMetaCharacters(From(s, 5))

--------------------------------------------------------------------------------
\* Heads, tails, parts.

StartsWith(s, head, ignoreCase) ==
  /\ Len(s) >= Len(head)
  /\ IF ignoreCase THEN LowerCase(Upto(s, Len(head))) = LowerCase(head)
                   ELSE Upto(s, Len(head)) = head
EndsWith(s, tail, ignoreCase) ==
  LET end == From(s, Len(s) - Len(tail) + 1) IN
  /\ Len(s) >= Len(tail)
  /\ IF ignoreCase THEN LowerCase(end) = LowerCase(tail) ELSE end = tail

IndexOf(s, part, start, ignoreCase) ==
  LET hits == {k \in start..Len(s) - Len(part) : StartsWith(From(s, k + 1), part, ignoreCase)}
  IN IF hits = {} THEN -1 ELSE CHOOSE k \in hits : \A j \in hits : k <= j

\* strstr(): the position of a part, Len(s) + 1 if there is none.
Found(s, part) == LET k == IndexOf(s, part, 0, FALSE) IN IF k < 0 THEN Len(s) + 1 ELSE k + 1

IndexOfElement(list, element) ==
  LET hits == {k \in DOMAIN list : list[k] = element}
  IN IF hits = {} THEN -1 ELSE (CHOOSE k \in hits : \A j \in hits : k <= j) - 1
\* With isSorted: lower_bound(), the first element that does not precede.
IndexOfSorted(list, element) ==
  LET places == {k \in DOMAIN list : ~Precedes(list[k], element)}
      lower == CHOOSE k \in places : \A j \in places : k <= j
  IN IF places # {} /\ list[lower] = element THEN lower - 1 ELSE -1

CountChar(s, c) == Len(SelectSeq(s, LAMBDA d : d = c))
RECURSIVE CountCString(_, _)
CountCString(s, part) ==
  IF part = <<>> \/ Found(s, part) > Len(s) THEN 0
  ELSE 1 + CountCString(From(s, Found(s, part) + Len(part)), part)

\* count < 0: all of them.
RECURSIVE ReplaceString(_, _, _, _)
ReplaceString(s, what, to, count) ==
  IF what = <<>> \/ count = 0 \/ Found(s, what) > Len(s) THEN s
  ELSE Upto(s, Found(s, what) - 1) \o to
         \o ReplaceString(From(s, Found(s, what) + Len(what)), what, to, count - 1)

\* maxCount <= 0: no limit; the last part keeps the delimiters behind it.
RECURSIVE SplitCString(_, _, _)
SplitCString(s, delimiter, maxCount) ==
  IF maxCount = 1 \/ Found(s, delimiter) > Len(s) THEN <<s>>
  ELSE <<Upto(s, Found(s, delimiter) - 1)>>
         \o SplitCString(From(s, Found(s, delimiter) + Len(delimiter)), delimiter, maxCount - 1)

\* No separator is written while the result is empty.
JoinVector(list, separator) ==
  FoldLeft(LAMBDA s, item : IF s = <<>> THEN item ELSE s \o separator \o item, <<>>, list)
Thrown == <<-1>>   \* an exception
JoinCStrings(list, bufferSize) ==
  IF Len(FlattenSeq(list)) >= bufferSize THEN Thrown ELSE FlattenSeq(list)

AppendCString(buffer, bufferSize, tail) ==
  IF Len(buffer) < bufferSize THEN buffer \o Upto(tail, bufferSize - Len(buffer) - 1) ELSE buffer
CopyNCString(targetSize, s) == Upto(s, targetSize - 1)
TruncateCString(s, length) == Upto(s, length)

\* Of a text of trimmed characters only the end must not be trimmed alone: the
\* code then runs out of it in front.
TrimString(s, top, end, chars) ==
  LET rest == IF top THEN From(s, Span(s, chars) + 1) ELSE s
  IN IF end THEN Upto(rest, Len(rest) - Span(Reverse(rest), chars)) ELSE rest

--------------------------------------------------------------------------------
\* Comparing without case: the sign; a shorter text counts as greater.

StrNICmp(s, t, n) ==
  LET longest == IF Len(s) < Len(t) THEN Len(s) ELSE Len(t)
      differs == {k \in 1..longest : k <= n /\ Low(s[k]) # Low(t[k])}
      first == CHOOSE k \in differs : \A j \in differs : k <= j
  IN CASE differs # {} -> IF Low(s[first]) < Low(t[first]) THEN -1 ELSE 1
       [] differs = {} /\ (longest >= n \/ Len(s) = Len(t)) -> 0
       [] OTHER -> IF Len(s) < Len(t) THEN 1 ELSE -1
StrICmp(s, t) == StrNICmp(s, t, Len(s) + Len(t) + 1)

--------------------------------------------------------------------------------
\* Is the text a value?  A number may have several signs, a boolean may be cut,
\* what atoi() makes of the text is its value.

True == <<116, 114, 117, 101>>
False == <<102, 97, 108, 115, 101>>
IsBool(s) == StartsWith(True, s, TRUE) \/ StartsWith(False, s, TRUE)
BoolOf(s) == StartsWith(True, s, TRUE)

IsNat(s) == s # <<>> /\ Span(Upto(s, 127), Digits) = Len(Upto(s, 127))
IsInt(s) == LET t == Upto(s, 127) IN IsNat(From(t, Span(t, {Plus, Minus}) + 1))
IntOf(s) ==
  CASE s # <<>> /\ s[1] = Minus -> -NumberOf(From(s, 2))
    [] s # <<>> /\ s[1] = Plus -> NumberOf(From(s, 2))
    [] OTHER -> NumberOf(s)

\* strtod(): how many characters belong to the number (decimal notation).
NumberLength(s) ==
  LET sign == Span(Upto(s, 1), {Minus, Plus})
      whole == Span(From(s, sign + 1), Digits)
      behind == From(s, sign + whole + 1)
      part == IF behind # <<>> /\ behind[1] = Dot THEN 1 + Span(Tail(behind), Digits) ELSE 0
      rest == From(s, sign + whole + part + 1)
      exponentSign == IF Len(rest) > 1 THEN Span(<<rest[2]>>, {Minus, Plus}) ELSE 0
      exponent == Span(From(rest, 2 + exponentSign), Digits)
  IN CASE whole + part - (IF part > 0 THEN 1 ELSE 0) = 0 -> 0
       [] rest # <<>> /\ Low(rest[1]) = SmallLetter(5) /\ exponent > 0 ->
            sign + whole + part + 1 + exponentSign + exponent
       [] OTHER -> sign + whole + part
IsFloat(s) == s # <<>> /\ NumberLength(Upto(s, 127)) = Len(Upto(s, 127))

\* The units: a letter, then byte, ibyte, ibibyte or i in any case.
Byte == <<98, 121, 116, 101>>
BinaryUnits == {<<105>>, <<105>> \o Byte, <<105, 98, 105>> \o Byte}
UnitLetters == <<SmallLetter(11), SmallLetter(13), SmallLetter(7), SmallLetter(20)>>
IsUnit(u) ==
  \/ u = <<>>
  \/ LowerCase(u) \in {<<98>>, Byte}
  \/ /\ Low(u[1]) \in ToSet(UnitLetters)
     /\ LowerCase(Tail(u)) \in {<<>>, Byte} \cup BinaryUnits
FactorOf(u) ==
  IF u = <<>> \/ Low(u[1]) = 98 THEN 1
  ELSE (IF LowerCase(Tail(u)) \in BinaryUnits THEN 1024 ELSE 1000)
         ^ (IndexOfElement(UnitLetters, Low(u[1])) + 1)

SizeStart(s, mayBeNegative) ==
  Span(s, {Plus}) + 1 + IF mayBeNegative /\ s # <<>> /\ s[1] = Minus THEN 1 ELSE 0
IsSize(s, mayBeNegative) ==
  LET number == From(Upto(s, 127), SizeStart(s, mayBeNegative))
  IN Span(number, Digits) > 0 /\ IsUnit(From(number, Span(number, Digits) + 1))
SizeOf(s, mayBeNegative) ==
  LET number == From(Upto(s, 127), SizeStart(s, mayBeNegative))
      size == NumberOf(number) * FactorOf(From(number, Span(number, Digits) + 1))
  IN IF mayBeNegative /\ s[1] = Minus THEN -size ELSE size

--------------------------------------------------------------------------------
\* Patterns as regular expressions.  Inside [...] nothing is escaped, a
\* question mark is lost; * is one character of the class.

GlobToRegularExpression(glob) ==
  LET Out(state, c) ==
        CASE c = LeftBracket -> [regex |-> Append(state.regex, c), inClass |-> TRUE]
          [] c = RightBracket -> [regex |-> Append(state.regex, c), inClass |-> FALSE]
          [] c \in {LeftParen, RightParen, LeftBrace, RightBrace, Backslash, Dot} ->
               [state EXCEPT !.regex = @ \o IF state.inClass THEN <<c>> ELSE <<Backslash, c>>]
          [] c = Star -> [state EXCEPT !.regex = @ \o IF state.inClass THEN <<c>> ELSE <<Dot, c>>]
          [] c = Question -> [state EXCEPT !.regex = @ \o IF state.inClass THEN <<>> ELSE <<Dot>>]
          [] OTHER -> [state EXCEPT !.regex = Append(@, c)]
  IN FoldLeft(Out, [regex |-> <<>>, inClass |-> FALSE], glob).regex

MetaCharacters == {Backslash, Dot, Caret, Dollar, Minus, Plus, LeftParen, RightParen, LeftBracket,
                   RightBracket, LeftBrace, RightBrace, Bar, Question, Star}
StringToRegularExpression(s) ==
  FlattenSeq([k \in DOMAIN s |-> IF s[k] \in MetaCharacters THEN <<Backslash, s[k]>> ELSE <<s[k]>>])

--------------------------------------------------------------------------------
\* References.

\* The escape sequence of a character means it, but for the control characters
\* that get a letter behind f.
HasEscape(c) == c >= Blank \/ c \in DOMAIN Escaped \/ c % 16 < 10
EscapingAgrees(s) ==
  /\ Len(EscapeMetaCharacters(s)) = Len(s) + EscapeCount(s)
  /\ (\A k \in DOMAIN s : HasEscape(s[k])) => UnEscapeMetaCharacters(EscapeMetaCharacters(s)) = s

\* Splitting, counting, replacing and joining see the same parts; heads and
\* tails are what is found at the ends.
PartsAgree(s, t, u) ==
  LET Rejoined(parts, glue) ==
        Head(parts) \o FlattenSeq([k \in 1..Len(parts) - 1 |-> glue \o parts[k + 1]])
      parts == SplitCString(s, t, 0)
  IN /\ Len(parts) = CountCString(s, t) + 1
     /\ \A n \in 0..3 : /\ Rejoined(SplitCString(s, t, n), t) = s
                        /\ n > 0 => Len(SplitCString(s, t, n)) <= n
                        /\ ReplaceString(s, t, u, n) = Rejoined(SplitCString(s, t, n + 1), u)
     /\ ReplaceString(s, t, u, -1) = Rejoined(parts, u)
     /\ Head(parts) # <<>> => JoinVector(parts, t) = s
     /\ \A ignoreCase \in BOOLEAN :
          /\ StartsWith(s, t, ignoreCase) = (IndexOf(s, t, 0, ignoreCase) = 0)
          /\ EndsWith(s, t, ignoreCase) = StartsWith(Reverse(s), Reverse(t), ignoreCase)

\* Comparing without case is an order; equal is what has the same small letters.
OrderAgrees(s, t, u) ==
  /\ StrICmp(s, t) = -StrICmp(t, s)
  /\ (StrICmp(s, t) = 0) = (LowerCase(s) = LowerCase(t))
  /\ (StrICmp(s, t) < 0 /\ StrICmp(t, u) < 0) => StrICmp(s, u) < 0

\* A search in a sorted list is one in any list; trimming takes the ends only.
ListsAgree(list, element) ==
  (\A j, k \in DOMAIN list : j < k => Precedes(list[j], list[k])) =>
    IndexOfSorted(list, element) = IndexOfElement(list, element)
TrimAgrees(s, chars) ==
  LET t == TrimString(s, TRUE, TRUE, chars) IN
  /\ TrimString(t, TRUE, TRUE, chars) = t
  /\ \E n \in 0..Len(s) : /\ SubSeq(s, n + 1, n + Len(t)) = t
                          /\ ToSet(Upto(s, n) \o From(s, n + Len(t) + 1)) \subseteq chars
  /\ t # <<>> => {Head(t), Last(t)} \cap chars = {}

\* A natural number is one for all readers.
NumbersAgree(s) ==
  IsNat(s) => /\ IsInt(s) /\ IsFloat(s) /\ IsSize(s, FALSE) /\ IsSize(<<Minus>> \o s, TRUE)
              /\ {IntOf(s), SizeOf(s, FALSE)} = {NumberOf(s)}
              /\ {IntOf(<<Minus>> \o s), SizeOf(<<Minus>> \o s, TRUE)} = {-NumberOf(s)}
==============================================================================
