---------------------------- MODULE MCLineReader ----------------------------
EXTENDS LineReader

CONSTANT MaxLength

\* Every text of up to MaxLength characters.
Texts ==
  {s \in UNION {[1 .. n -> Chars \ {NUL}] : n \in 0 .. MaxLength} : IsText(s)}

\* A file that cannot be opened counts as empty.
Reopened == {<<>>, <<LF, CR, LF>>}
==============================================================================
