------------------------------ MODULE TextLines -------------------------------
(***************************************************************************)
(* The lines of a text: a line ends behind each LF, the last one at the    *)
(* end of the text.                                                        *)
(***************************************************************************)
EXTENDS Naturals, Sequences, SequencesExt

CONSTANTS CR, LF, NUL,  \* the characters that mean something to a reader
          Letters       \* the other ones

Chars == {CR, LF, NUL} \cup Letters

ASSUME CharsAssumption == Cardinality({CR, LF, NUL}) = 3 /\ {CR, LF, NUL} \cap Letters = {}

\* The positions of the line ends in a text.
Ends(text) == {k \in DOMAIN text : text[k] = LF}

\* The position of the end of line n, 0 for n = 0.
EndOfLine(text, n) ==
  IF n = 0 THEN 0
  ELSE IF \E k \in Ends(text) : Cardinality({j \in Ends(text) : j <= k}) = n
       THEN CHOOSE k \in Ends(text) : Cardinality({j \in Ends(text) : j <= k}) = n
       ELSE Len(text)

NthLine(text, n) == SubSeq(text, EndOfLine(text, n - 1) + 1, EndOfLine(text, n))
AfterLines(text, n) == SubSeq(text, EndOfLine(text, n) + 1, Len(text))

FirstLine(text) == NthLine(text, 1)
AfterLine(text) == AfterLines(text, 1)

CountLines(text) ==
  Cardinality(Ends(text)) + IF text # <<>> /\ Last(text) # LF THEN 1 ELSE 0

\* A line without its end: LF or CR LF, for the last line also CR.
Strip(line, remove) ==
  LET Cut(s, c) == IF s # <<>> /\ Last(s) = c THEN Front(s) ELSE s
  IN IF remove THEN Cut(Cut(line, LF), CR) ELSE line

\* Texts the reader is made for: CR stands only before LF or at the end.
IsText(s) ==
  \A k \in DOMAIN s : s[k] # NUL /\ (s[k] = CR /\ k < Len(s) => s[k + 1] = LF)

==============================================================================
