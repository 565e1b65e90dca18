-------------------------------- MODULE Ascii ---------------------------------
(***************************************************************************)
(* Texts of the C++ code: sequences of character codes.                    *)
(***************************************************************************)
EXTENDS Integers, Sequences, SequencesExt

NUL == 0
TAB == 9
LF == 10
VT == 11
FF == 12
CR == 13
Blank == 32
Quote == 34
Dollar == 36
Percent == 37
Apostrophe == 39
LeftParen == 40
RightParen == 41
Star == 42
Plus == 43
Comma == 44
Minus == 45
Dot == 46
Slash == 47
Colon == 58
Semicolon == 59
Assign == 61
Question == 63
LeftBracket == 91
Backslash == 92
RightBracket == 93
Caret == 94
Underscore == 95
LeftBrace == 123
Bar == 124
RightBrace == 125

Digits == 48..57
Uppers == 65..90
Lowers == 97..122
SmallLetter(n) == 96 + n   \* the n-th letter: SmallLetter(24) is x

Low(c) == IF c \in Uppers THEN c + 32 ELSE c
High(c) == IF c \in Lowers THEN c - 32 ELSE c
LowerCase(s) == [k \in DOMAIN s |-> Low(s[k])]

\* The text from position k on; its first n characters.
From(s, k) == SubSeq(s, k, Len(s))
Upto(s, n) == SubSeq(s, 1, IF n < Len(s) THEN n ELSE Len(s))

\* strspn(): how many characters at the top are members of a set.
Span(s, set) ==
  CHOOSE n \in 0..Len(s) :
    /\ \A k \in 1..n : s[k] \in set
    /\ n < Len(s) => s[n + 1] \notin set

\* A C string ends before its first NUL.
CString(s) == SubSeq(s, 1, Span(s, 1..255))

\* strcmp() < 0: the order of texts.
Precedes(s, t) ==
  \E n \in 0..Len(t) - 1 :
    /\ n <= Len(s)
    /\ SubSeq(s, 1, n) = SubSeq(t, 1, n)
    /\ n = Len(s) \/ s[n + 1] < t[n + 1]

\* The value of a text of digits: atoi() on it.
NumberOf(s) == FoldLeft(LAMBDA n, c : 10 * n + c - 48, 0, SubSeq(s, 1, Span(s, Digits)))

==============================================================================
