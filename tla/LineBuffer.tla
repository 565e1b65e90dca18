------------------------------ MODULE LineBuffer -------------------------------
(***************************************************************************)
(* A text buffer (class LineList) under the statements of a script: load,  *)
(* move, mark, searches forward and backward, delete, insert, copy and     *)
(* replace.  The statements take their places from the position, the mark  *)
(* and the last hit, which stay where they are when the text changes.      *)
(***************************************************************************)
EXTENDS Integers, Sequences, SequencesExt, FiniteSetsExt

CONSTANTS Letters,       \* the characters of the lines
          NL,            \* ends each line
          Files,         \* the texts a load can read: sequences of lines
          Inserted,      \* the texts an insert can get
          Words,         \* what is searched for, without anchors
          NewWords,      \* what a word is replaced with
          Moves,         \* the forms of move: see MoveTo
          Searches,      \* the forms of a search: where it starts, and its flags
          Counts,        \* the counts of delete and replace
          MaxText,       \* bound: the characters of a buffer, line ends included
          MaxStatements  \* bound: the statements of a script

------------------------------------------------------------------------------
(* A text as one sequence of characters, and what it means to cut, put and *)
(* find something in it.  A buffer keeps the same text as a sequence of    *)
(* lines; a place in it is a line and a column, both counted from 0.       *)

Left(s, n) == SubSeq(s, 1, n)
Right(s, n) == SubSeq(s, n + 1, Len(s))

Min2(m, n) == IF m <= n THEN m ELSE n
Max2(m, n) == IF m >= n THEN m ELSE n

Place(line, column) == [line |-> line, column |-> column]
LineAt(lines, p) == lines[p.line + 1]

Flat(lines) == FlattenSeq([k \in DOMAIN lines |-> Append(lines[k], NL)])

\* The place is in a line, at one of its characters or at its end.
InText(lines, p) == p.line < Len(lines) /\ p.column <= Len(LineAt(lines, p))

\* The number of characters before a place; a column behind its line is the line's end.
Offset(lines, p) ==
  IF p.line >= Len(lines) THEN Len(Flat(lines))
  ELSE Len(Flat(Left(lines, p.line))) + Min2(p.column, Len(LineAt(lines, p)))

Before(p, q) == p.line < q.line \/ (p.line = q.line /\ p.column < q.column)

Piece(text, i, j) == SubSeq(text, i + 1, j)
Cut(text, i, j) == Left(text, i) \o Right(text, j)
Put(text, i, s) == Left(text, i) \o s \o Right(text, i)

\* The offsets at which a word stands in a text.
Hits(word, text) ==
  {k \in 0 .. Len(text) - Len(word) : Piece(text, k, k + Len(word)) = word}

\* The text with the first n occurrences of a word replaced, found from left to right.
ReplaceFirst(text, word, new, n) ==
  LET After[k \in 0 .. Len(text)] ==
        [m \in 0 .. n |->
           IF m = 0 \/ k = Len(text) THEN Right(text, k)
           ELSE IF k \in Hits(word, text) THEN new \o After[k + Len(word)][m - 1]
           ELSE <<text[k + 1]>> \o After[k + 1][m]]
  IN After[0][n]

------------------------------------------------------------------------------
(* The buffer and the script *)

VARIABLES lines,         \* _lines
          position,      \* _position
          mark,          \* _mark
          startLastHit,  \* _startLastHit
          lastHit,       \* _lastHit
          outcome,       \* "ok", "exception" or "undefined": what the statement came to
          executed,      \* the number of statements executed
          statement      \* the statement executed last, as a trace shows it

vars == <<lines, position, mark, startLastHit, lastHit, outcome, executed, statement>>

\* What the further run depends on.
view == <<lines, position, mark, startLastHit, lastHit, outcome, executed>>

\* END_OF_LINE, END_OF_FILE and a size_t below 0: behind everything.
Far == 2147483647

Fits(ls) == Len(Flat(ls)) <= MaxText

Places == [line : Nat, column : Nat]
Lines == Seq(Seq(Letters))

ASSUME LineBufferAssumption ==
  /\ NL \notin Letters
  /\ Words \subseteq Seq(Letters) \ {<<>>}
  /\ NewWords \subseteq Seq(Letters)
  /\ Files \cup Inserted \subseteq Lines
  /\ \A f \in Files : Fits(f)
  /\ Moves \subseteq [line : Int, lineIsRelative : BOOLEAN, hasColumn : BOOLEAN,
                     column : Int, columnIsRelative : BOOLEAN]
  /\ \A f \in Searches : {f.inline, f.keep, f.isCondition} \subseteq BOOLEAN
  /\ Counts \subseteq Nat
  /\ MaxText \in 0 .. Far

\* The places in a text and its end.
PlacesOf(ls) ==
  {p \in [line : 0 .. Len(ls) - 1, column : 0 .. MaxText] : InText(ls, p)}
  \cup {Place(Len(ls), 0)}

\* The script has loaded a text and set the position and the mark.
Init ==
  /\ lines \in Files
  /\ position \in PlacesOf(lines)
  /\ mark \in PlacesOf(lines)
  /\ startLastHit = Place(0, 0)
  /\ lastHit = <<>>
  /\ outcome = "ok"
  /\ executed = 0
  /\ statement = [name |-> "none"]

\* A script stops at an exception.
Proceeds ==
  /\ outcome = "ok"
  /\ executed < MaxStatements
  /\ executed' = executed + 1

(***************************************************************************)
(* The places.                                                             *)
(***************************************************************************)

\* Mutant: the sign of a column is not looked at.
SetPositionSigned(line, column) ==
  LET l == IF line >= 0 THEN Min2(Len(lines), line) ELSE position.line
  IN Place(l, IF l >= Len(lines) THEN 0 ELSE Min2(Len(lines[l + 1]), column))

\* A negative line or column stays as it is.
SetPosition(line, column) ==
  LET l == IF line >= 0 THEN Min2(Len(lines), line) ELSE position.line
      c == IF l >= Len(lines) THEN 0
           ELSE IF column >= 0 THEN Min2(Len(lines[l + 1]), column)
           ELSE position.column
  IN Place(l, c)

SetMark(p) ==
  IF p.line >= Len(lines) THEN Place(Len(lines), 0)
  ELSE Place(p.line, Min2(p.column, Len(LineAt(lines, p))))

\* $(__end)
EndLastHit == Place(startLastHit.line, startLastHit.column + Len(lastHit))

\* The places a script has names for.
Named == {position, mark, startLastHit, EndLastHit}

Load(file) ==
  /\ Proceeds
  /\ statement' = [name |-> "load", file |-> file]
  /\ lines' = file
  /\ position' = Place(0, 0)
  /\ UNCHANGED <<mark, startLastHit, lastHit, outcome>>

\* move <line>[:<column>]; a sign makes a number relative.
MoveTo(m) ==
  LET line == IF m.lineIsRelative \/ m.line <= 0 THEN position.line + m.line
              ELSE Max2(0, m.column - 1)
      column == IF ~m.hasColumn THEN position.column
                ELSE IF m.columnIsRelative \/ m.column <= 0 THEN position.column + m.column
                ELSE Max2(0, m.column - 1)
  IN /\ Proceeds
     /\ statement' = [name |-> "move", to |-> m]
     /\ position' = SetPosition(line, column)
     /\ UNCHANGED <<lines, mark, startLastHit, lastHit, outcome>>

\* mark set, mark set search and mark set <position>
MarkSet(p) ==
  /\ Proceeds
  /\ statement' = [name |-> "mark set", place |-> p]
  /\ mark' = SetMark(p)
  /\ UNCHANGED <<lines, position, startLastHit, lastHit, outcome>>

MarkExchange ==
  /\ Proceeds
  /\ statement' = [name |-> "mark exchange"]
  /\ position' = SetPosition(mark.line, mark.column)
  /\ mark' = SetMark(position)
  /\ UNCHANGED <<lines, startLastHit, lastHit, outcome>>

(***************************************************************************)
(* Searches: q names the word, where to start, and the flags L (inline)    *)
(* and T (keep).  They are the condition of an if or a while, or a move.   *)
(***************************************************************************)

Found(line, column) == [found |-> TRUE, defined |-> TRUE, place |-> Place(line, column)]
NotFound == [found |-> FALSE, defined |-> TRUE, place |-> Place(0, 0)]
Lost == [found |-> FALSE, defined |-> FALSE, place |-> Place(0, 0)]

ForwardStart(q) ==
  CASE q.start = "<" -> Place(0, 0)
    [] q.start = ">" -> Place(Len(lines), 0)
    [] q.start = "^" -> Place(position.line, 0)
    [] q.start = "$" -> Place(position.line, Far)
    [] OTHER -> position

\* The start is inside a line: only the rest of the line is searched.
IsPartial(s) == s.line < Len(lines) /\ 0 < s.column /\ s.column < Len(LineAt(lines, s))

HitsInRest(q) ==
  LET s == ForwardStart(q)
  IN IF IsPartial(s) THEN Hits(q.word, Right(LineAt(lines, s), s.column)) ELSE {}

Forward(q) ==
  LET s == ForwardStart(q)
      first == IF s.column > 0 THEN s.line + 1 ELSE s.line
      last == IF q.inline THEN Min2(first, Len(lines) - 1) ELSE Len(lines) - 1
      hitLines == {k \in first .. last : Hits(q.word, lines[k + 1]) # {}}
  IN IF HitsInRest(q) # {} THEN Found(0, s.column + Min(HitsInRest(q)) - 1)
     ELSE IF hitLines # {}
     THEN Found(Min(hitLines), Min(Hits(q.word, lines[Min(hitLines) + 1])))
     ELSE NotFound

\* Mutant: the length of the hit is forgotten.
ForwardPositionAtHit(q, hit) ==
  IF hit.found /\ ~q.keep THEN SetPosition(hit.place.line, hit.place.column) ELSE position

\* Without a hit in the rest of the line an inline search goes to the end of the line.
ForwardPosition(q, hit) ==
  LET s == ForwardStart(q)
  IN IF hit.found /\ ~q.keep
     THEN SetPosition(hit.place.line, hit.place.column + Len(q.word))
     ELSE IF q.inline /\ IsPartial(s) /\ HitsInRest(q) = {}
     THEN SetPosition(s.line, Far)
     ELSE position

BackwardStart(q) ==
  CASE q.start = "<" -> Place(0, 0)
    [] q.start = ">" -> Place(Len(lines) - 1, Far)
    [] q.start = "^" -> Place(Min2(position.line, Len(lines) - 1), 0)
    [] q.start = "$" -> Place(Min2(position.line, Len(lines) - 1), Far)
    [] OTHER -> Place(Min2(position.line, Len(lines) - 1), position.column)

\* The line index is unsigned: from the first line the search goes on below 0.
Backward(q) ==
  LET s == BackwardStart(q)
      here == {h \in Hits(q.word, LineAt(lines, s)) : h + Len(q.word) <= s.column}
      above == {k \in 0 .. s.line - 1 : Hits(q.word, lines[k + 1]) # {}}
  IN IF lines = <<>> \/ s = Place(0, 0) THEN NotFound
     ELSE IF here # {} THEN Found(s.line, Max(here))
     ELSE IF q.inline \/ s.line = 0 THEN NotFound
     ELSE IF above = {} THEN Lost
     ELSE Found(Max(above), Max(Hits(q.word, lines[Max(above) + 1])))

\* Mutant: behind the hit, as after a search forward.
BackwardPositionBehind(q, hit) ==
  IF hit.found THEN SetPosition(hit.place.line, hit.place.column + Len(q.word))
  ELSE position

\* On the last character of the hit.
BackwardPosition(q, hit) ==
  IF hit.found THEN SetPosition(hit.place.line, hit.place.column + Len(q.word) - 1)
  ELSE position

\* The hit is read again from the text: a column behind its line is an exception; the
\* condition of an if or a while copies the characters from there without a look at the line.
HitOutcome(q, hit) ==
  LET line == LineAt(lines, hit.place)
  IN IF ~hit.defined THEN "undefined"
     ELSE IF ~hit.found THEN "ok"
     ELSE IF hit.place.column > Len(line) THEN "exception"
     ELSE IF q.isCondition /\ hit.place.column + Len(q.word) > Len(line) + 1
     THEN "undefined"
     ELSE "ok"

Search(q, hit, newPosition) ==
  /\ Proceeds
  /\ position' = newPosition
  /\ outcome' = HitOutcome(q, hit)
  /\ IF hit.found /\ outcome' = "ok"
     THEN LET line == LineAt(lines, hit.place)
          IN /\ startLastHit' = hit.place
             /\ lastHit' = Piece(line, hit.place.column,
                                 Min2(Len(line), hit.place.column + Len(q.word)))
     ELSE UNCHANGED <<startLastHit, lastHit>>
  /\ UNCHANGED <<lines, mark>>

SearchForward(q) ==
  /\ statement' = [name |-> "search forward", query |-> q]
  /\ Search(q, Forward(q), ForwardPosition(q, Forward(q)))

SearchBackward(q) ==
  /\ statement' = [name |-> "search backward", query |-> q]
  /\ Search(q, Backward(q), BackwardPosition(q, Backward(q)))

(***************************************************************************)
(* The statements on ranges.  Each works out the new lines and whether the *)
(* code gets there.                                                        *)
(***************************************************************************)

Done(ls) == [lines |-> ls, outcome |-> "ok"]
Fails(how) == [lines |-> lines, outcome |-> how]

Edit(what, result) ==
  /\ Proceeds
  /\ Fits(result.lines)
  /\ statement' = what
  /\ lines' = result.lines
  /\ outcome' = result.outcome
  /\ UNCHANGED <<position, mark, startLastHit, lastHit>>

DeleteInLine(s, e) ==
  IF s.column >= Len(lines) THEN Done(lines)
  ELSE IF s.line >= Len(lines) THEN Fails("undefined")
  ELSE IF s.column > Len(LineAt(lines, s)) THEN Fails("exception")
  ELSE Done([lines EXCEPT ![s.line + 1] = Cut(@, s.column, e.column)])

\* Mutant: the rests of the first and the last line stay lines of their own.
NotJoined(top, rest) == <<top, rest>>

\* The rest of the first line and the rest of the last one become one line.
Joined(top, rest) == <<top \o rest>>

DeleteLines(s, e) ==
  LET first == IF s.column > 0 THEN s.line + 1 ELSE s.line
      top == Left(LineAt(lines, s), s.column)
      rest == Right(LineAt(lines, e), e.column)
  IN IF s.column > 0 /\ s.line >= Len(lines) THEN Fails("undefined")
     ELSE IF s.column > 0 /\ s.column > Len(LineAt(lines, s)) THEN Fails("exception")
     ELSE IF first < e.line /\ e.line > Len(lines) THEN Fails("undefined")
     ELSE IF e.line >= Len(lines) /\ (s.column > 0 \/ e.column > 0) THEN Fails("undefined")
     ELSE Done(IF e.line >= Len(lines) THEN Left(lines, s.line)
               ELSE Left(lines, s.line)
                    \o (IF s.column > 0 THEN Joined(top, rest) ELSE <<rest>>)
                    \o Right(lines, e.line + 1))

\* The last column is cut down to its line's length.
InLine(p) ==
  IF p.line < Len(lines) THEN Place(p.line, Min2(p.column, Len(LineAt(lines, p)))) ELSE p

DeleteRange(from, to) ==
  LET s == IF Before(to, from) THEN to ELSE from
      e == InLine(IF Before(to, from) THEN from ELSE to)
  IN IF s.line = e.line THEN DeleteInLine(s, e) ELSE DeleteLines(s, e)

\* delete {from | behind} <start> {excluding | including} <end> | count <count>
DeleteStart(d) == IF d.behind THEN Place(d.start.line, d.start.column + 1) ELSE d.start
DeleteEnd(d) ==
  CASE d.mode = "count" -> Place(DeleteStart(d).line, DeleteStart(d).column + d.count)
    [] d.mode = "including" /\ d.end.column > 0 -> Place(d.end.line, d.end.column - 1)
    [] OTHER -> d.end

Delete(d) == Edit([name |-> "delete", range |-> d], DeleteRange(DeleteStart(d), DeleteEnd(d)))

\* Mutant: the column is forgotten.
InsertTextAtLine(p, text) ==
  Done(Left(lines, Min2(p.line, Len(lines))) \o text \o Right(lines, p.line))

\* A single line goes into its line, several ones end with a line of their own.
InsertText(p, text) ==
  LET line == LineAt(lines, p)
      tail == IF p.column = 0 THEN <<>> ELSE Right(line, p.column)
      below == Right(lines, p.line + 1)
  IN IF p.line >= Len(lines) THEN Done(lines \o text)
     ELSE IF text = <<>> THEN IF p.column = 0 THEN Done(lines) ELSE Fails("undefined")
     ELSE IF Len(text) = 1
     THEN Done(Left(lines, p.line) \o <<Left(line, Min2(p.column, Len(line))) \o text[1] \o tail>>
               \o below)
     ELSE IF p.column = 0 THEN Done(Left(lines, p.line) \o text \o Right(lines, p.line))
     ELSE Done(Left(lines, p.line)
               \o <<Left(line, Min2(p.column, Len(line))) \o text[1]>> \o Right(text, 1)
               \o (IF tail = <<>> THEN <<>> ELSE <<tail>>) \o below)

Insert(p, text) == Edit([name |-> "insert", place |-> p, text |-> text], InsertText(p, text))

\* Mutant: one character too few.
PartOfLineTooShort(line, i, j) == Piece(line, i, j - 1)

\* An end before its start in one line counts as the end of the line.
PartOfLine(line, i, j) == Piece(line, i, IF j < i THEN Len(line) ELSE j)

\* The lines of a range; with including the column of the end belongs to it.
CopyRange(s, e, including) ==
  LET endLine == Min2(e.line, Len(lines))
      behind == e.column + (IF including THEN 1 ELSE 0)
      top == IF s.column = 0 \/ s.column >= Len(LineAt(lines, s)) THEN <<>>
             ELSE IF e.column # 0 /\ s.line = endLine
             THEN <<PartOfLine(LineAt(lines, s), s.column,
                               Min2(Len(LineAt(lines, s)), behind))>>
             ELSE <<Right(LineAt(lines, s), s.column)>>
      first == IF s.column > 0 THEN s.line + 1 ELSE s.line
      last == IF first <= endLine /\ e.column # 0
              THEN <<Left(lines[endLine + 1], Min2(Len(lines[endLine + 1]), behind))>>
              ELSE <<>>
  IN IF s.line > endLine + 1 THEN [lines |-> <<>>, outcome |-> "exception"]
     ELSE IF \/ s.column > 0 /\ s.line >= Len(lines)
             \/ first <= endLine /\ e.column # 0 /\ endLine >= Len(lines)
     THEN [lines |-> <<>>, outcome |-> "undefined"]
     ELSE [lines |-> top \o SubSeq(lines, first + 1, endLine) \o last, outcome |-> "ok"]

\* copy from <buffer> [starting <start>] [{including | excluding} <end>] [append], with
\* the buffer as its own target; without a start the copy starts at the second column.
Copy(c) ==
  LET copied == CopyRange(c.start, c.end, c.mode # "excluding")
  IN Edit([name |-> "copy", range |-> c],
          IF copied.outcome # "ok" THEN Fails(copied.outcome)
          ELSE Done(IF c.append THEN lines \o copied.lines ELSE copied.lines))

\* A range that reaches the end of its last line ends with the line.
ReplaceEnd(r) ==
  IF r.inline THEN Place(position.line + 1, 0)
  ELSE IF r.end.line < Len(lines) /\ Len(LineAt(lines, r.end)) <= r.end.column
  THEN Place(r.end.line + 1, 0)
  ELSE r.end

\* Mutant: the columns are forgotten.
ReplaceInWholeLine(r, k) ==
  LET line == lines[k + 1]
  IN IF Hits(r.filter, line) = {} \/ k < r.start.line \/ k > r.end.line THEN line
     ELSE ReplaceFirst(line, r.word, r.new, Min2(r.count, Len(line)))

\* What becomes of line k.  The count is one for each line or part of a line.
ReplaceIn(r, k) ==
  LET s == r.start
      e == ReplaceEnd(r)
      line == lines[k + 1]
      count(part) == Min2(Max2(r.count, 1), Len(part))
      New(part) == ReplaceFirst(part, r.word, r.new, count(part))
      end == IF e.line = k /\ e.column < Len(line) THEN e.column ELSE Len(line)
  IN IF Hits(r.filter, line) = {} \/ k < s.line THEN line
     ELSE IF k = s.line /\ s.column > 0
     THEN IF Hits(r.word, PartOfLine(line, s.column, end)) = {} THEN line
          ELSE Left(line, s.column) \o New(PartOfLine(line, s.column, end)) \o Right(line, end)
     ELSE IF k < e.line THEN New(line)
     ELSE IF k = e.line /\ e.column > 0
     THEN New(Left(line, e.column)) \o Right(line, e.column)
     ELSE line

\* replace <word> <new> [from <start>] [excluding <end>] [count <count>] [if <filter>]
Replace(r) ==
  Edit([name |-> "replace", query |-> r],
       IF InText(lines, Place(r.start.line, 0)) /\ Hits(r.filter, LineAt(lines, r.start)) # {}
          /\ r.start.column > Len(LineAt(lines, r.start))
       THEN Fails("exception")
       ELSE Done([k \in DOMAIN lines |-> ReplaceIn(r, k - 1)]))

(***************************************************************************)
(* The statements a script can go on with.                                 *)
(***************************************************************************)

Queries ==
  {[word |-> w, start |-> f.start, inline |-> f.inline, keep |-> f.keep,
    isCondition |-> f.isCondition] : w \in Words, f \in Searches}

Deletions ==
  [start : {position, mark}, behind : BOOLEAN, mode : {"excluding", "including"},
   end : {position, mark}, count : {0}]
  \cup [start : {position, mark}, behind : BOOLEAN, mode : {"count"}, end : {mark},
        count : Counts]

Copies ==
  [start : {position, mark, Place(0, 1)}, mode : {"including", "excluding"},
   end : {position, mark}, append : BOOLEAN]
  \cup [start : {position, mark, Place(0, 1)}, mode : {"none"}, end : {Place(Far, 0)},
        append : BOOLEAN]

Replacements ==
  [word : Words, new : NewWords, start : {position, mark}, end : {position, mark},
   inline : BOOLEAN, count : Counts, filter : Words \cup {<<>>}]

Next ==
  \/ \E file \in Files : Load(file)
  \/ \E m \in Moves : MoveTo(m)
  \/ \E p \in Named : MarkSet(p)
  \/ MarkExchange
  \/ \E q \in Queries : SearchForward(q)
  \/ \E q \in Queries : SearchBackward(q)
  \/ \E d \in Deletions : Delete(d)
  \/ \E p \in {position, mark}, text \in Inserted : Insert(p, text)
  \/ \E c \in Copies : Copy(c)
  \/ \E r \in Replacements : Replace(r)

Spec == Init /\ [][Next]_vars

(***************************************************************************)
(* What the statements promise, said of the text as one sequence.          *)
(***************************************************************************)

\* The lines hold letters only, no place of the buffer ever gets negative, and the last hit
\* is no longer than a word.
TypeOK ==
  /\ lines \in Lines /\ Fits(lines)
  /\ {position, mark, startLastHit} \subseteq Places
  /\ lastHit \in Seq(Letters) /\ \E w \in Words \cup {<<>>} : Len(lastHit) <= Len(w)
  /\ outcome \in {"ok", "exception", "undefined"}

Text == Flat(lines)

\* The range from s to e lies in the text, which may end it.
IsRange(s, e) ==
  /\ ~Before(e, s)
  /\ InText(lines, s)
  /\ e.line < Len(lines) \/ (e = Place(Len(lines), 0) /\ s.column = 0)

\* delete cuts exactly the range between its ends, in any order, out of the text and joins
\* what remains (LineList::deleteRange), except for a range inside one line that starts at
\* a column not below the number of lines.
CutsRange ==
  statement'.name = "delete" =>
     LET d == statement'.range
         s == IF Before(DeleteEnd(d), DeleteStart(d)) THEN DeleteEnd(d) ELSE DeleteStart(d)
         e == IF Before(DeleteEnd(d), DeleteStart(d)) THEN DeleteStart(d) ELSE DeleteEnd(d)
     IN IsRange(s, e) /\ ~(s.line = e.line /\ s.column >= Len(lines)) =>
          outcome' = "ok" /\ Flat(lines') = Cut(Text, Offset(lines, s), Offset(lines, e))

\* Every step of a script that deletes keeps to it (LineList::deleteRange).
DeleteCuts == [][CutsRange]_vars

\* insert puts the text before the character at the place and loses nothing around it
\* (LineList::insert); several lines bring their last line end unless the line ended there.
\* Left out: a single line at column 0 of a line that is not empty, and a text of no lines.
PutsText ==
  statement'.name = "insert" =>
     LET p == statement'.place
         text == statement'.text
         isIn == p.line < Len(lines)
         atEnd == isIn /\ p.column > 0 /\ p.column >= Len(LineAt(lines, p))
         isPart == isIn /\ (Len(text) = 1 \/ atEnd)
     IN text # <<>> /\ (isIn /\ Len(text) = 1 /\ p.column = 0 => LineAt(lines, p) = <<>>) =>
          /\ outcome' = "ok"
          /\ Flat(lines') = Put(Text, Offset(lines, p),
                                IF isPart THEN Front(Flat(text)) ELSE Flat(text))

\* Every step of a script that inserts keeps to it (LineList::insert).
InsertPuts == [][PutsText]_vars

\* copy takes exactly the characters from the start to the end, as whole lines
\* (LineList::copyRange), for a start that has a character behind it in its line.
TakesRange ==
  statement'.name = "copy" =>
     LET c == statement'.range
         s == c.start
         e == IF c.mode = "none" THEN Place(Len(lines), 0) ELSE c.end
         to == IF c.mode = "including" /\ e.column # 0 THEN Place(e.line, e.column + 1) ELSE e
         isLine == e.column # 0
     IN /\ InText(lines, s) /\ (s.column > 0 => s.column < Len(LineAt(lines, s)))
        /\ ~Before(e, s)
        /\ e.line < Len(lines) \/ e = Place(Len(lines), 0)
        => /\ outcome' = "ok"
           /\ Flat(lines') = (IF c.append THEN Text ELSE <<>>)
                              \o Piece(Text, Offset(lines, s), Offset(lines, to))
                              \o (IF isLine THEN <<NL>> ELSE <<>>)

\* Every step of a script that copies keeps to it (LineList::copyRange).
CopyTakes == [][TakesRange]_vars

\* replace leaves everything before and behind its range alone; without a limit and a
\* filter it leaves inside the range what replacing in the text as a whole would
\* (LineList::replace works line by line and in parts of the first and the last line).
KeepsToRange ==
  statement'.name = "replace" =>
     LET r == statement'.query
         s == r.start
         i == Offset(lines, s)
         j == Offset(lines, ReplaceEnd(r))
         inside == Piece(Text, i, j)
         tail == Right(Text, j)
     IN InText(lines, s) /\ ~Before(ReplaceEnd(r), s) =>
          /\ outcome' = "ok" /\ Len(lines') = Len(lines)
          /\ IsPrefix(Left(Text, i), Flat(lines')) /\ IsSuffix(tail, Flat(lines'))
          /\ r.filter = <<>> /\ r.count >= MaxText =>
               Flat(lines') = Left(Text, i) \o ReplaceFirst(inside, r.word, r.new, MaxText)
                              \o tail

\* Every step of a script that replaces keeps to it (LineList::replace).
ReplaceKeepsToRange == [][KeepsToRange]_vars

\* A search forward finds the first occurrence at or behind its start and sets the position
\* behind it, and without one it leaves the position (LineList::searchRegExpr): so it is
\* unless the first hit is in the rest of the line the search starts in.
FindsNext ==
  statement'.name = "search forward" =>
     LET q == statement'.query
         hits == {h \in Hits(q.word, Text) : h >= Offset(lines, ForwardStart(q))}
     IN ~q.inline /\ HitsInRest(q) = {} =>
          /\ outcome' = "ok"
          /\ IF hits = {} THEN position' = position
             ELSE /\ Offset(lines, startLastHit') = Min(hits) /\ lastHit' = q.word
                  /\ IF q.keep THEN position' = position
                     ELSE Offset(lines, position') = Min(hits) + Len(q.word)

\* Every step of a script that searches forward keeps to it (LineList::searchRegExpr).
SearchFindsNext == [][FindsNext]_vars

\* A search backward finds the last occurrence that ends at or before its start and sets the
\* position onto its last character (LineList::searchBackwardsRegExpr), for a start that is
\* not behind the last line.
FindsLast ==
  statement'.name = "search backward" =>
     LET q == statement'.query
         s == BackwardStart(q)
         hits == {h \in Hits(q.word, Text) : h + Len(q.word) <= Offset(lines, s)}
         reached == IF q.inline THEN {h \in hits : h >= Offset(lines, Place(s.line, 0))}
                    ELSE hits
     IN position.line < Len(lines) /\ reached # {} =>
          /\ outcome' = "ok"
          /\ Offset(lines, startLastHit') = Max(reached) /\ lastHit' = q.word
          /\ Offset(lines, position') = Max(reached) + Len(q.word) - 1

\* Every step of a script that searches backward keeps to it
\* (LineList::searchBackwardsRegExpr).
SearchFindsLast == [][FindsLast]_vars

\* "the current position after a search is behind the hit": when a search forward moves the
\* position, the word stands before it.
HitBehind ==
  [][statement'.name = "search forward" =>
       LET q == statement'.query
           o == Offset(lines, position')
       IN ~q.inline /\ position' # position => o - Len(q.word) \in Hits(q.word, Text)]_vars

================================================================================
