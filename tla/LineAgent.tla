------------------------------- MODULE LineAgent -------------------------------
(***************************************************************************)
(* LineAgent (os/LineAgent.cpp): the lines of a file over two buffers that *)
(* take turns.  The bytes of the buffers are modelled one by one, also     *)
(* those nobody has written yet: nextLine() may get there.  One step of a  *)
(* call is one turn of the loop in nextLine().                             *)
(***************************************************************************)
EXTENDS TextLines, Integers, FiniteSetsExt

CONSTANTS Zero,        \* the letter '0'
          Contents,    \* the contents of files
          BufferSize,  \* _bufferSize
          CheckSize,   \* what openFile() reads to test for binary data: 1 .. BufferSize
          MaxFiles     \* bound: the files one agent opens

VARIABLES
  file, checked,  \* the open file; was it opened with checkBinary?
  opened,         \* how many files were opened
  position,       \* how much of it has been read
  buffers,        \* of the agent: bytes, _endOfBuffer, _nextLine, _restLength,
                  \* _filePosition as offsets
  current,        \* which of them is _currentBuffer
  eofReached, hasBinaryData,
  rc,             \* in nextLine(): the offset of the line, Null outside
  lines           \* history: the lines of this file, each with its offset

vars == <<file, checked, opened, position, buffers, current, eofReached, hasBinaryData, rc, lines>>

Null == -1
Done == [text |-> <<>>, offset |-> Null]   \* nextLine() returned nullptr

Offsets == 0 .. BufferSize
NewBuffer(byte) ==
  [bytes |-> [i \in Offsets |-> IF i = BufferSize THEN NUL ELSE byte],
   end |-> BufferSize, next |-> 0, rest |-> 0, position |-> 0]

InitWith(byte) ==
  /\ file = <<>>
  /\ checked = FALSE
  /\ opened = 0
  /\ position = 0
  /\ buffers = [i \in 1 .. 2 |-> NewBuffer(byte)]
  /\ current = 1
  /\ eofReached = TRUE
  /\ hasBinaryData = FALSE
  /\ rc = Null
  /\ lines = <<Done>>

\* What new char[] holds is open.
Init == \E byte \in Chars \ {CR} : InitWith(byte)

buffer == buffers[current]
IsComplete == lines # <<>> /\ Last(lines) = Done

\* read() of at most n bytes, put behind the first ones of a buffer.
BytesRead(text, from, n) == SubSeq(text, from + 1, Min({from + n, Len(text)}))
Written(bytes, at, s) ==
  [i \in Offsets |-> IF i \in at .. at + Len(s) - 1 THEN s[i - at + 1] ELSE bytes[i]]
WithByte(bytes, at, byte) == [bytes EXCEPT ![at] = byte]

--------------------------------------------------------------------------------
\* openFile(): the buffers start anew, their bytes and _filePosition stay.
Reset(b) == [b EXCEPT !.end = BufferSize, !.bytes = WithByte(b.bytes, BufferSize, NUL),
                      !.next = 0, !.rest = 0]

OpenFile ==
  /\ rc = Null
  /\ IsComplete
  /\ opened < MaxFiles
  /\ \E content \in Contents, check \in BOOLEAN :
       LET s == BytesRead(content, 0, CheckSize)
           fresh == [i \in 1 .. 2 |-> Reset(buffers[i])]
           b == fresh[current]
       IN /\ file' = content
          /\ checked' = check
          /\ check => content # <<>>
          /\ position' = IF check THEN Len(s) ELSE 0
          /\ buffers' = IF check
               THEN [fresh EXCEPT ![current] =
                       [b EXCEPT !.bytes = Written(b.bytes, 0, s), !.rest = Len(s)]]
               ELSE fresh
          /\ eofReached' = (check /\ Len(s) < CheckSize)
  /\ hasBinaryData' = FALSE
  /\ lines' = <<>>
  /\ opened' = opened + 1
  /\ UNCHANGED <<current, rc>>

--------------------------------------------------------------------------------
\* fillBuffer(): the other buffer takes the rest of this one and reads on.
KeptAtPlace(b, other, offset) ==   \* a mutant: the first bytes instead of the rest
  [i \in Offsets |-> IF i < b.rest THEN b.bytes[i] ELSE other.bytes[i]]
Kept(b, other, offset) ==
  [i \in Offsets |-> IF i < b.rest THEN b.bytes[offset + i] ELSE other.bytes[i]]

Filled(b, offset) ==
  LET other == buffers[3 - current]
      requested == b.end - b.rest
      s == BytesRead(file, position, requested)
      have == b.rest + Len(s)
      bytes == Written(Kept(b, other, offset), b.rest, s)
      isShort == have < BufferSize
  IN [bytes |-> IF isShort THEN WithByte(bytes, have, NUL) ELSE bytes,
      end |-> IF isShort THEN have ELSE b.end,
      next |-> 0, rest |-> have, position |-> b.position + b.next]

FillBuffer(b, offset) ==
  LET new == Filled(b, offset)
      requested == b.end - b.rest
  IN /\ requested > 0
     /\ current' = 3 - current
     /\ buffers' = [buffers EXCEPT ![current] = b, ![3 - current] = new]
     /\ position' = Min({position + requested, Len(file)})
     /\ eofReached' = (Len(file) - position < requested)

\* The start of nextLine().
NextLine ==
  /\ rc = Null
  /\ ~IsComplete
  /\ IF ~eofReached /\ buffer.rest = 0
       THEN FillBuffer(buffer, 0) /\ rc' = 0
       ELSE /\ rc' = IF buffer.rest = 0 THEN 0 ELSE buffer.next
            /\ UNCHANGED <<buffers, current, position, eofReached>>
  /\ UNCHANGED <<file, checked, opened, hasBinaryData, lines>>

--------------------------------------------------------------------------------
LineEnds == {k \in buffer.next .. buffer.next + buffer.rest - 1 : buffer.bytes[k] = LF}

\* Every turn of the test for binary data looks at the first byte.
LooksBinary(text) == text # <<>> /\ Head(text) = Zero

Text(from, length) == [i \in 1 .. length |-> buffer.bytes[from + i - 1]]

Return(text, b) ==
  /\ lines' = Append(lines, [text |-> text, offset |-> b.position + rc])
  /\ buffers' = [buffers EXCEPT ![current] = b]
  /\ hasBinaryData' = (hasBinaryData \/ LooksBinary(text))
  /\ rc' = Null
  /\ UNCHANGED <<file, checked, opened, position, current, eofReached>>

\* What the buffer still holds behind a line: at the end of the file what is
\* left of it, before everything up to the end of the buffer.
RestBehind(next, length) ==
  IF eofReached THEN buffer.rest - (length + 1) ELSE buffer.end - next

LineInBuffer ==
  /\ rc # Null
  /\ buffer.rest > 0 /\ LineEnds # {}
  /\ LET k == Min(LineEnds)
         next == Min({k + 1, buffer.end})
     IN Return(Text(rc, k - rc),
               [buffer EXCEPT !.bytes = WithByte(@, k, NUL), !.next = next,
                              !.rest = RestBehind(next, k - rc)])

NoLineEnd == rc # Null /\ (buffer.rest <= 0 \/ LineEnds = {})

NoMoreLines ==
  /\ NoLineEnd
  /\ eofReached
  /\ buffer.rest <= 0
  /\ lines' = Append(lines, Done)
  /\ rc' = Null
  /\ UNCHANGED <<file, checked, opened, position, buffers, current, eofReached, hasBinaryData>>

\* The last line goes up to the next zero byte.
LastLine ==
  /\ NoLineEnd
  /\ eofReached
  /\ buffer.rest > 0
  /\ LET length == Min({k \in rc .. BufferSize : buffer.bytes[k] = NUL}) - rc
     IN Return(Text(rc, length), [buffer EXCEPT !.next = rc + length, !.rest = 0])

FullBuffer ==
  /\ NoLineEnd
  /\ ~eofReached
  /\ buffer.rest = BufferSize
  /\ Return(Text(rc, buffer.rest), [buffer EXCEPT !.rest = 0, !.next = 0])

ReadOn ==
  /\ NoLineEnd
  /\ ~eofReached
  /\ buffer.rest # BufferSize
  /\ FillBuffer([buffer EXCEPT !.next = rc], rc)
  /\ rc' = 0
  /\ UNCHANGED <<file, checked, opened, hasBinaryData, lines>>

Next ==
  \/ OpenFile \/ NextLine
  \/ LineInBuffer \/ NoMoreLines \/ LastLine \/ FullBuffer \/ ReadOn

Spec == Init /\ [][Next]_vars

--------------------------------------------------------------------------------
\* The lines of a text without their ends.
WithoutEnd(line) == IF Last(line) = LF THEN Front(line) ELSE line
LinesOf(text) == [n \in 1 .. CountLines(text) |-> WithoutEnd(NthLine(text, n))]
Returned == [i \in 1 .. Len(lines) - 1 |-> lines[i].text]

\* LineAgent.hpp:78 promises whole lines of any length; the agent cuts those that
\* fill its buffer.
LinesFit == \A n \in 1 .. CountLines(file) : Len(LinesOf(file)[n]) < BufferSize

\* What openFile(checkBinary = true) is good for: it has read a full buffer, or
\* the whole file and no byte behind it counts.
CheckHarmless ==
  checked => \/ Len(file) < CheckSize /\ Last(file) = LF
             \/ Len(file) >= CheckSize /\ CheckSize = BufferSize

\* The lines that end in the bytes openFile() has looked at.
LinesChecked == Cardinality({n \in 1 .. CountLines(file) :
                              EndOfLine(file, n) <= CheckSize /\ file[EndOfLine(file, n)] = LF})

(***************************************************************************)
(* nextLine() returns the lines of the file one after the other, whatever  *)
(* an earlier file has left in the buffers and however the lines lie       *)
(* across them, and nullptr behind the last one; no character is lost or   *)
(* doubled in a line too long for the buffer.  The offset of a line is its *)
(* place in the first file an agent reads.  Of a file that openFile() has  *)
(* looked into, as the tools ask for, this holds if it is short and ends   *)
(* with a line end; of any other one, of the lines in the bytes looked at  *)
(* (os/LineAgent.cpp:147, 220, 267).                                       *)
(***************************************************************************)
LinesOfFile ==
  /\ CheckHarmless /\ IsComplete /\ opened > 0 =>
       /\ FlattenSeq(Returned) = FlattenSeq(LinesOf(file))
       /\ LinesFit => Returned = LinesOf(file)
  /\ CheckHarmless /\ LinesFit /\ opened = 1 =>
       \A i \in DOMAIN lines : lines[i] # Done => lines[i].offset = EndOfLine(file, i - 1)
  /\ checked =>
       /\ \A i \in DOMAIN lines : i <= LinesChecked => lines[i].text = LinesOf(file)[i]
       /\ IsComplete => Len(lines) > LinesChecked
================================================================================
