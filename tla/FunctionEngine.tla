---------------------------- MODULE FunctionEngine ----------------------------
(***************************************************************************)
(* The functions of the script language (text/FunctionEngine.cpp): on the  *)
(* lines of buffers, on directories, on texts.  One action is one call     *)
(* behind its test: while a statement is only tested (testOnly) a function *)
(* parses its arguments and changes nothing.                               *)
(***************************************************************************)
EXTENDS StringTool, FiniteSets

CONSTANTS LineTexts,      \* the lines buffers start with
          Separators,
          Lists,          \* the texts given as lists
          Directories,    \* the directories the scripts know
          Entries,        \* what a directory holds: sequences of [name, kind]
          RandomValues,   \* what rand() returns
          MaxCalls        \* bound: the calls of a script

VARIABLES lines, other,   \* two buffers
          present,        \* the directories that exist
          cwd,            \* the current one
          directories,    \* _directories, for popd
          returned,       \* what the last call returned
          calls,
          drained         \* history: lines since the buffer was set as a whole,
                          \* and the texts taken from its two ends

vars == <<lines, other, present, cwd, directories, returned, calls, drained>>

None == [name |-> "none", rc |-> 0]
Number(name, n) == [name |-> name, rc |-> n]
Text(name, s) == [name |-> name, text |-> s]
Failed(name) == [name |-> name, thrown |-> TRUE]

Untouched(list) == [whole |-> list, shifted |-> <<>>, popped |-> <<>>]

InitWith(buffer1, buffer2, directory) ==
  /\ lines = buffer1
  /\ other = buffer2
  /\ present = Directories
  /\ cwd = directory
  /\ directories = <<>>
  /\ returned = None
  /\ calls = 0
  /\ drained = Untouched(lines)

Init ==
  \E buffer1, buffer2 \in LineTexts, directory \in Directories :
    InitWith(buffer1, buffer2, directory)

Call == calls < MaxCalls /\ calls' = calls + 1
SetLines(list) == lines' = list /\ drained' = Untouched(list)
OnlyReturns(result) ==
  Call /\ returned' = result /\ UNCHANGED <<lines, other, present, cwd, directories, drained>>
OnBuffers == Call /\ UNCHANGED <<other, present, cwd, directories>>
OnDirectories == Call /\ UNCHANGED <<lines, other, drained>>

--------------------------------------------------------------------------------
\* buffer.shift and buffer.pop take the next line that is not empty, with the
\* empty ones before it; the last one even if it is empty.
NonEmpty(list) == SelectSeq(list, LAMBDA line : line # <<>>)
FirstFilled(list) ==
  LET filled == {k \in DOMAIN list : list[k] # <<>>}
  IN IF filled = {} THEN Len(list) ELSE CHOOSE k \in filled : \A j \in filled : k <= j

TakenAny(list) == IF list = <<>> THEN <<>> ELSE list[1]   \* a mutant: the next line in any case
Taken(list) == IF list = <<>> THEN <<>> ELSE list[FirstFilled(list)]
Behind(list) == From(list, FirstFilled(list) + 1)

BufferShift ==
  /\ OnBuffers
  /\ returned' = Text("buffer.shift", Taken(lines))
  /\ lines' = Behind(lines)
  /\ drained' = [drained EXCEPT !.shifted = Append(@, Taken(lines))]

BufferPop ==
  /\ OnBuffers
  /\ returned' = Text("buffer.pop", Taken(Reverse(lines)))
  /\ lines' = Reverse(Behind(Reverse(lines)))
  /\ drained' = [drained EXCEPT !.popped = Append(@, Taken(Reverse(lines)))]

BufferSort ==
  /\ OnBuffers
  /\ SetLines(SortSeq(lines, Precedes))
  /\ returned' = Number("buffer.sort", Len(lines))

BufferSplit(text, separator) ==
  /\ OnBuffers
  /\ SetLines(SplitCString(text, separator, 0))
  /\ returned' = Number("buffer.split", Len(SplitCString(text, separator, 0)))

BufferJoin(separator) == OnlyReturns(Text("buffer.join", JoinVector(lines, separator)))

\* The first line in which the buffers differ; when the second one goes on
\* behind it the line after that is named instead.
Difference(list1, list2) ==
  LET places == {k \in DOMAIN list1 : k > Len(list2) \/ list1[k] # list2[k]}
      first == CHOOSE k \in places : \A j \in places : k <= j
      lineNo == IF places = {} THEN Len(list1) ELSE first
  IN CASE lineNo < Len(list2) -> lineNo + 1
       [] lineNo >= Len(list2) -> IF places = {} THEN 0 ELSE first

BufferDifference == OnlyReturns(Number("buffer.difference", Difference(lines, other)))

--------------------------------------------------------------------------------
\* The current directory and the stack of pushd and popd.
\* chdir() works for a directory that exists; os.cd returns where it came from.
OsCd(path) ==
  /\ OnDirectories
  /\ cwd' = IF path \in present THEN path ELSE cwd
  /\ returned' = [name |-> "os.cd", left |-> IF path \in present THEN cwd ELSE "nowhere"]
  /\ UNCHANGED <<present, directories>>

OsPushd(path) ==
  /\ OnDirectories
  /\ IF path \in present
       THEN /\ directories' = Append(directories, cwd)
            /\ cwd' = path
            /\ returned' = Number("os.pushd", 1)
       ELSE /\ returned' = Failed("os.pushd")
            /\ UNCHANGED <<directories, cwd>>
  /\ UNCHANGED present

\* A directory that has gone is taken from the stack before that is seen.
OsPopd ==
  /\ OnDirectories
  /\ IF directories = <<>>
       THEN returned' = Number("os.popd", 0) /\ UNCHANGED <<directories, cwd>>
       ELSE /\ directories' = Front(directories)
            /\ IF Last(directories) \in present
                 THEN cwd' = Last(directories) /\ returned' = Number("os.popd", 1)
                 ELSE returned' = Failed("os.popd") /\ UNCHANGED cwd
  /\ UNCHANGED present

OsMkdir(path) ==
  /\ OnDirectories
  /\ present' = present \cup {path}
  /\ returned' = Number("os.mkdir", 1)
  /\ UNCHANGED <<cwd, directories>>

\* os.isdir asks what os.exists asks.
OsExists(path) == OnlyReturns(Number("os.exists", IF path \in present THEN 1 ELSE 0))
OsPwd == OnlyReturns([name |-> "os.pwd", left |-> cwd])

\* Somebody else removes a directory nobody is in.
Removed(path) ==
  /\ OnDirectories
  /\ path \in present \ {cwd}
  /\ present' = present \ {path}
  /\ returned' = None
  /\ UNCHANGED <<cwd, directories>>

\* os.listfiles: a selection leaves out directories unless it names both files
\* and directories, and links unless it names them; files are never left out.
Selected(entry, selection) ==
  selection # {} =>
    /\ entry.kind = "directory" => {"files", "dirs"} \subseteq selection
    /\ entry.kind = "link" => "links" \in selection
OsListfiles(entries, selection, included, excluded) ==
  LET wanted == SelectSeq(entries, LAMBDA entry :
                  /\ included # {} => entry.name \in included
                  /\ entry.name \notin excluded
                  /\ Selected(entry, selection))
  IN /\ OnBuffers
     /\ SetLines([k \in DOMAIN wanted |-> wanted[k].name])
     /\ returned' = Number("os.listfiles", Len(wanted))

--------------------------------------------------------------------------------
\* Texts.
MathRandom(maximum, minimum) ==
  LET low == IF maximum < minimum THEN maximum ELSE minimum
      high == maximum + minimum - low
  IN \E r \in RandomValues :
       OnlyReturns([name |-> "math.random", rc |-> low + (r % (high - low + 1)),
                    low |-> low, high |-> high])

\* A list has two separators at least.
Index(element, list, separator) ==
  IndexOfElement(SplitCString(list, separator, 0), element)
IsList(list, separator) == CountCString(list, separator) >= 2
Piece(index, list, separator) ==
  LET list2 == SplitCString(list, separator, 0)
  IN IF index < Len(list2) THEN list2[index + 1] ELSE <<>>

StringIndex(element, list, separator) ==
  OnlyReturns(IF IsList(list, separator)
                THEN Number("string.index", Index(element, list, separator))
                ELSE Failed("string.index"))
StringPiece(index, list, separator) == OnlyReturns(Text("string.piece", Piece(index, list, separator)))
StringLength(text) == OnlyReturns(Number("string.length", Len(text)))
StringReplace(text, pattern, replacement, count) ==
  OnlyReturns(Text("string.replace", ReplaceString(text, pattern, replacement, count)))

\* Columns count from 1; the last one is no start, from 0 on substr() throws, an
\* end before the start is none.
Substring(text, start, end) ==
  LET last == IF end < Len(text) + 1 THEN end ELSE Len(text) + 1
  IN CASE start >= Len(text) \/ start < 0 -> <<>>
       [] start = 0 /\ start < Len(text) -> <<-1>>
       [] OTHER -> IF last < start THEN From(text, start) ELSE SubSeq(text, start, last - 1)
\* from/behind and excluding/including/count
StartOf(mode, n) == IF mode = "behind" THEN n + 1 ELSE n
EndOf(mode, n, start) ==
  CASE mode = "excluding" -> n [] mode = "including" -> n + 1 [] mode = "count" -> start + n
StringSubstring(text, startMode, n, endMode, m) ==
  LET start == StartOf(startMode, n)
      part == Substring(text, start, EndOf(endMode, m, start))
  IN OnlyReturns(IF part = <<-1>> THEN Failed("string.substring") ELSE Text("string.substring", part))

Next ==
  \/ BufferShift \/ BufferPop \/ BufferSort \/ BufferDifference
  \/ \E separator \in Separators :
       \/ BufferJoin(separator)
       \/ \E text \in Lists : BufferSplit(text, separator) \/ StringPiece(1, text, separator)
                              \/ StringIndex(Piece(1, text, separator), text, separator)
                              \/ StringReplace(text, separator, <<Comma>>, 2)
  \/ \E path \in Directories : OsCd(path) \/ OsPushd(path) \/ OsMkdir(path) \/ OsExists(path)
                               \/ Removed(path)
  \/ OsPopd \/ OsPwd
  \/ \E entries \in Entries, selection \in SUBSET {"files", "dirs", "links"} :
       OsListfiles(entries, selection, {}, {Head(entries).name})
  \/ \E low, high \in {-1, 2} : MathRandom(high, low)
  \/ \E text \in Lists, mode \in {"from", "behind"}, end \in {"excluding", "including", "count"} :
       StringLength(text) \/ \E n \in 0 .. 2 : StringSubstring(text, mode, n, end, 2)

Spec == Init /\ [][Next]_vars

--------------------------------------------------------------------------------
JoinsBack(separator) ==
  (/\ lines # <<>> /\ Head(lines) # <<>> /\ separator # <<>>
   /\ \A k \in DOMAIN lines : Found(lines[k] \o separator, separator) = Len(lines[k]) + 1) =>
     SplitCString(JoinVector(lines, separator), separator, 0) = lines

\* Line k is the first one the two buffers do not share.
DiffersFirst(k) ==
  /\ SubSeq(lines, 1, k - 1) = Upto(other, k - 1)
  /\ \/ (k \in DOMAIN lines) # (k \in DOMAIN other)
     \/ k \in DOMAIN lines \cap DOMAIN other /\ lines[k] # other[k]

\* What holds for the functions on texts in every state.
TextsKeep ==
  /\ \A list \in Lists, separator \in Separators, i \in 0 .. 3 :
       separator # <<>> /\ IsList(list, separator) /\ Index(Piece(i, list, separator), list, separator) >= 0 =>
         Piece(Index(Piece(i, list, separator), list, separator), list, separator)
           = Piece(i, list, separator)
  /\ \A text \in Lists : \A k \in 1 .. Len(text) - 1 :
       Substring(text, 1, k) \o Substring(text, k, Len(text) + 1) = text

(***************************************************************************)
(* The functions keep what they are given: shift and pop together hand out *)
(* every filled line of a buffer once and in its order, whatever is called *)
(* between them (text/FunctionEngine.cpp:208); what join has put together  *)
(* split takes apart (:195, :257) unless a line holds the separator or the *)
(* first one is empty; difference is 0 for equal buffers only, and names   *)
(* the first line that differs where the second buffer ends with that line *)
(* or before, or is only longer (:167; elsewhere the code names the line   *)
(* behind it, which doc/scripting/functions.md:51 does not say); a piece   *)
(* found by its index is the element (:512, :544); a random number lies    *)
(* between the limits in either order (:272); excluding and from cut a     *)
(* text in two (:606); one enters existing directories only (:456).        *)
(***************************************************************************)
FunctionsKeep ==
  /\ NonEmpty(drained.shifted) \o NonEmpty(lines) \o Reverse(NonEmpty(drained.popped))
       = NonEmpty(drained.whole)
  /\ \A separator \in Separators : JoinsBack(separator)
  /\ (Difference(lines, other) = 0) = (lines = other)
  /\ \A k \in 1 .. Len(lines) + 1 :
       DiffersFirst(k) /\ (k > Len(lines) \/ k >= Len(other)) => Difference(lines, other) = k
  /\ returned.name = "math.random" => returned.rc \in returned.low .. returned.high
  /\ cwd \in present
  /\ calls = 0 => TextsKeep
==============================================================================
