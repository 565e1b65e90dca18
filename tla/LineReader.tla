------------------------------ MODULE LineReader ------------------------------
(***************************************************************************)
(* The reader of text files (text/LineReader.cpp) and the stream built on  *)
(* it (text/LinesStream.cpp): it reads blocks, puts lines together that    *)
(* span several of them, and keeps a queue of lines that were looked at.   *)
(***************************************************************************)
EXTENDS TextLines

CONSTANTS Files,      \* the contents of the files considered
          LaterFiles, \* those of them that are opened later
          BlockSizes, \* values of _blockSize
          MaxAhead    \* bound: lines of one lookahead()

ASSUME FilesAssumption == Files \subseteq Seq(Chars) /\ LaterFiles \subseteq Files
ASSUME SizesAssumption == BlockSizes \subseteq Nat \ {0} /\ MaxAhead \in Nat

VARIABLES
  file,       \* the contents of the open file, <<>> if open() failed
  pos,        \* the position of the file handle
  block,      \* _nextBlock
  cursor,     \* _cursorNextBlock: its position in block, 0 for nullptr
  blockSize,  \* _blockSize
  remove,     \* _removeNewline
  ahead,      \* _lookAheadLines
  line,       \* _currentLine
  binary,     \* _hasBinaryData, not initialised
  ended,      \* FileLinesStream::_endOfInput
  endReached  \* what endOfFile() or fetch() said last

buffer == <<pos, block, cursor>>
vars == <<file, buffer, blockSize, remove, ahead, line, binary, ended, endReached>>

Smaller(a, b) == IF a < b THEN a ELSE b

\* What read() delivers at offset p.
BlockAt(p) == SubSeq(file, p + 1, Smaller(p + blockSize, Len(file)))

(***************************************************************************)
(* The state of the reading: pos, block, cursor and the line read last.    *)
(***************************************************************************)
Reading == [pos |-> pos, block |-> block, cursor |-> cursor, line |-> line]

\* readBlock()
AfterReadBlock(r) ==
  LET b == BlockAt(r.pos)
  IN [r EXCEPT !.pos = @ + Len(b), !.block = b, !.cursor = IF b = <<>> THEN 0 ELSE 1]

Filled(r) == IF r.cursor = 0 THEN AfterReadBlock(r) ELSE r

\* strchr(): the line ends it finds from position c on, it stops at NUL.
Visible(b, c) == {k \in c .. Len(b) : b[k] = LF /\ \A j \in c .. k : b[j] # NUL}

Least(S) == CHOOSE k \in S : \A j \in S : k <= j

\* Mutant: a carriage return at the end of a block stays.
Kept(part) == part

\* The part of a line that reaches to the end of its block.
Chopped(part) ==
  IF remove /\ part # <<>> /\ Last(part) = CR THEN Front(part) ELSE part

\* Mutant: the cursor is not reset at the end of the block.
CursorBehind(b, end) == end + 1

CursorAfter(b, end) == IF end = Len(b) THEN 0 ELSE end + 1

\* readLine() in the block b from position c on, which shows the line's end; the
\* parts before it are done.
Completed(r, done, p, b, c) ==
  LET end == Least(Visible(b, c))
  IN [pos    |-> p,
      block  |-> b,
      cursor |-> CursorAfter(b, end),
      line   |-> done \o Strip(SubSeq(b, c, end), remove)]

\* The offsets at which readLine() reads blocks, until one shows a line end.
Offsets(p) == {q \in p .. (Len(file) - 1) : (q - p) % blockSize = 0}
Stops(p)   == {q \in Offsets(p) : Visible(BlockAt(q), 1) # {}}

\* The blocks between the offsets p and q, each without its carriage return.
Between(p, q) ==
  LET n == Cardinality({x \in Offsets(p) : x < q})
  IN FlattenSeq([i \in 1 .. n |-> Chopped(BlockAt(p + (i - 1) * blockSize))])

\* readLine()
AfterReadLine(r) ==
  LET part == Chopped(SubSeq(r.block, r.cursor, Len(r.block)))
      first == IF r.cursor = 0 THEN <<>> ELSE part
      stop == Least(Stops(r.pos))
  IN IF r.cursor # 0 /\ Visible(r.block, r.cursor) # {}
     THEN Completed(r, <<>>, r.pos, r.block, r.cursor)
     ELSE IF Stops(r.pos) # {}
     THEN Completed(r, first \o Between(r.pos, stop), stop + Len(BlockAt(stop)),
                    BlockAt(stop), 1)
     ELSE [pos    |-> Len(file),
           block  |-> <<>>,
           cursor |-> 0,
           line   |-> first \o Between(r.pos, Len(file))]

Set(r) ==
  /\ pos' = r.pos
  /\ block' = r.block
  /\ cursor' = r.cursor
  /\ line' = r.line

------------------------------------------------------------------------------
Init ==
  /\ file \in Files
  /\ blockSize \in BlockSizes
  /\ remove \in BOOLEAN
  /\ binary \in BOOLEAN
  /\ line = <<>>
  /\ block = BlockAt(0)
  /\ pos = Len(block)
  /\ cursor = IF block = <<>> THEN 0 ELSE 1
  /\ ahead = <<>>
  /\ ended = FALSE
  /\ endReached = FALSE

\* The queue is served first.
NextLine ==
  /\ IF ahead # <<>>
     THEN /\ line' = Head(ahead)
          /\ ahead' = Tail(ahead)
          /\ UNCHANGED buffer
     ELSE /\ Set(AfterReadLine(Reading))
          /\ UNCHANGED ahead
  /\ UNCHANGED <<file, blockSize, remove, binary, ended, endReached>>

\* Asking for the end reads a block if there is no rest of one.
EndOfFile ==
  /\ Set(Filled(Reading))
  /\ endReached' = (cursor' = 0 /\ ahead = <<>>)
  /\ UNCHANGED <<file, blockSize, remove, ahead, binary, ended>>

(***************************************************************************)
(* lookahead(n): the queue is emptied, then up to n lines are put into it. *)
(* The first of them makes endOfFile() false: behind the end of the file   *)
(* the others become empty lines.                                          *)
(***************************************************************************)
Lookahead(n) ==
  LET read[i \in 0 .. n] ==
        IF i = 0 THEN Filled(Reading) ELSE AfterReadLine(Filled(read[i - 1]))
  IN /\ IF read[0].cursor = 0
        THEN /\ ahead' = <<>>
             /\ Set(read[0])
        ELSE /\ ahead' = [i \in 1 .. n |-> read[i].line]
             /\ Set(read[n])
     /\ UNCHANGED <<file, blockSize, remove, binary, ended, endReached>>

Unread == (IF cursor = 0 THEN <<>> ELSE SubSeq(block, cursor, Len(block)))
            \o SubSeq(file, pos + 1, Len(file))

\* No line is queued, and n lines are left, or none at all.
LooksCarefully(n) ==
  /\ ahead = <<>>
  /\ Unread = <<>> \/ n <= CountLines(Unread)

Look == \E n \in 1 .. MaxAhead : LooksCarefully(n) /\ Lookahead(n)

\* FileLinesStream::fetch()
Fetch ==
  LET r == Filled(Reading)
      end == r.cursor = 0 /\ ahead = <<>>
  IN /\ endReached' = end
     /\ ended' = (ended \/ end)
     /\ IF ahead # <<>>
        THEN /\ ahead' = Tail(ahead)
             /\ Set([r EXCEPT !.line = Head(ahead)])
        ELSE /\ UNCHANGED ahead
             /\ Set(IF end THEN r ELSE AfterReadLine(r))
     /\ UNCHANGED <<file, blockSize, remove, binary>>

\* The line count is estimated, and a separator of columns detected, in a block.
EstimateLineCount ==
  /\ Set(Filled(Reading))
  /\ UNCHANGED <<file, blockSize, remove, ahead, binary, ended, endReached>>

\* Control characters, here NUL, and the digit "0" count as binary data.
HasBinaryData ==
  /\ \E localOnly \in BOOLEAN :
       IF ~localOnly /\ binary
       THEN UNCHANGED <<buffer, line, binary>>
       ELSE /\ Set(Filled(Reading))
            /\ binary' = (binary \/ \E k \in DOMAIN block' : block'[k] \in {NUL, "0"})
  /\ UNCHANGED <<file, blockSize, remove, ahead, ended, endReached>>

\* Mutant: the rest of the block is kept.
ResetKeepsBlock ==
  /\ pos' = 0
  /\ ahead' = <<>>
  /\ line' = <<>>
  /\ ended' = FALSE
  /\ UNCHANGED <<file, block, cursor, blockSize, remove, binary, endReached>>

\* FileLinesStream::reset()
Reset ==
  /\ pos' = 0
  /\ block' = <<>>
  /\ cursor' = 0
  /\ ahead' = <<>>
  /\ line' = <<>>
  /\ ended' = FALSE
  /\ UNCHANGED <<file, blockSize, remove, binary, endReached>>

\* The block of the file before stays in the buffer, without a cursor.
OpenFile ==
  /\ file' \in LaterFiles
  /\ pos' = 0
  /\ cursor' = 0
  /\ ahead' = <<>>
  /\ line' = <<>>
  /\ UNCHANGED <<block, blockSize, remove, binary, ended, endReached>>

\* A larger buffer may be moved: clients change the size when the cursor is null.
SetBufferSize ==
  /\ cursor = 0
  /\ blockSize' \in BlockSizes
  /\ UNCHANGED <<file, buffer, remove, ahead, line, binary, ended, endReached>>

SetRemoveNewline ==
  /\ remove' \in BOOLEAN
  /\ UNCHANGED <<file, buffer, blockSize, ahead, line, binary, ended, endReached>>

Next ==
  \/ NextLine \/ EndOfFile \/ Look \/ Fetch
  \/ EstimateLineCount \/ HasBinaryData
  \/ Reset \/ OpenFile \/ SetBufferSize \/ SetRemoveNewline

Spec == Init /\ [][Next]_vars

------------------------------------------------------------------------------
(* Properties *)

\* Type invariant: the cursor is null or stands on a byte of the block.
TypeOK ==
  /\ file \in Files
  /\ pos \in 0 .. Len(file)
  /\ block \in Seq(Chars)
  /\ cursor \in 0 .. Len(block)
  /\ blockSize \in BlockSizes
  /\ ahead \in Seq(Seq(Chars))
  /\ line \in Seq(Chars)
  /\ {remove, binary, ended, endReached} \subseteq BOOLEAN

\* A rest that is still read from is the part of the file right before the position
\* of its handle: no byte between them is lost or read twice (LineReader.cpp:158).
BlockFollowsFile ==
  cursor # 0 => /\ Len(block) <= pos
                /\ block = SubSeq(file, pos - Len(block) + 1, pos)

Source == INSTANCE LineSource WITH rest <- Unread

\* For every file, block size and order of the calls the reader delivers the lines of
\* the file: where a block ends does not show, not in the lines, not in endOfFile().
DeliversLines == Source!LSpec
==============================================================================
