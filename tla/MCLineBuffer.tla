----------------------------- MODULE MCLineBuffer ------------------------------
EXTENDS LineBuffer

CONSTANTS FirstFiles,  \* the lines of the files
          MaxFile      \* the lines of a file, at most

Texts == {f \in UNION {[1 .. n -> FirstFiles] : n \in 0 .. MaxFile} : Len(Flat(f)) <= MaxText}

To(line, isRelative, column, columnIsRelative) ==
  [line |-> line, lineIsRelative |-> isRelative, hasColumn |-> TRUE,
   column |-> column, columnIsRelative |-> columnIsRelative]

\* move 1:1, +0:+1, -1:-1, +1:3 and +1
Steps ==
  {To(1, FALSE, 1, FALSE), To(0, FALSE, 1, TRUE), To(-1, FALSE, -1, FALSE),
   To(1, TRUE, 3, FALSE),
   [line |-> 1, lineIsRelative |-> TRUE, hasColumn |-> FALSE, column |-> -1,
    columnIsRelative |-> FALSE]}

Form(start, inline, keep, isCondition) ==
  [start |-> start, inline |-> inline, keep |-> keep, isCondition |-> isCondition]

SearchForms ==
  {Form(start, FALSE, FALSE, TRUE) : start \in {"here", "<", ">", "^", "$"}}
  \cup {Form("here", TRUE, FALSE, TRUE), Form("^", TRUE, FALSE, FALSE),
         Form("here", FALSE, TRUE, FALSE), Form("here", FALSE, FALSE, FALSE)}

InsertedTexts == {<<>>, <<<<"a">>>>, <<<<"b">>, <<>>>>}
LineKinds == {<<>>, <<"a">>, <<"a", "b">>}
SearchedWords == {<<"a">>, <<"a", "b">>}
Replacing == {<<>>, <<"b">>}
================================================================================
