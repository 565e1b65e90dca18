------------------------------ MODULE LineSource ------------------------------
(***************************************************************************)
(* What a reader of a text file promises (text/LineReader.hpp): the lines  *)
(* of the file one after the other, the end exactly behind the last one,   *)
(* and a look at the lines to come that takes none of them away.  There    *)
(* are no blocks here.                                                     *)
(***************************************************************************)
EXTENDS TextLines

VARIABLES file,    \* the text that is read
          rest,    \* what has not been read yet
          ahead,   \* lines that were looked at and not yet returned
          remove,  \* shall the line ends be removed?
          line,    \* the line returned last
          endReached  \* what the reader said about the end last

lvars == <<file, rest, ahead, remove, line, endReached>>

Init ==
  /\ rest = file
  /\ ahead = <<>>
  /\ line = <<>>

Next ==
  /\ IF ahead # <<>> THEN /\ line' = Head(ahead)
                          /\ ahead' = Tail(ahead)
                          /\ UNCHANGED rest
                     ELSE /\ line' = Strip(FirstLine(rest), remove)
                          /\ rest' = AfterLine(rest)
                          /\ UNCHANGED ahead
  /\ UNCHANGED <<file, remove>>
  /\ UNCHANGED endReached \/ endReached' = FALSE

AtEnd == rest = <<>> /\ ahead = <<>>

EndOfFile ==
  /\ endReached' = AtEnd
  /\ UNCHANGED <<file, rest, ahead, remove, line>>

\* n lines are taken from rest and kept for Next.
Look ==
  \E n \in 0 .. Len(rest) :
    /\ ahead = <<>>
    /\ n <= CountLines(rest)
    /\ ahead' = [i \in 1 .. n |-> Strip(NthLine(rest, i), remove)]
    /\ rest' = AfterLines(rest, n)
    /\ line' = IF n = 0 THEN line ELSE Last(ahead')
    /\ UNCHANGED <<file, remove, endReached>>

Rewind ==
  /\ rest' = file
  /\ ahead' = <<>>
  /\ line' = <<>>
  /\ UNCHANGED <<file, remove, endReached>>

Open ==
  /\ rest' = file'
  /\ ahead' = <<>>
  /\ line' = <<>>
  /\ UNCHANGED remove

SetRemove == UNCHANGED <<file, rest, ahead, line, endReached>>

LSpec == Init /\ [][Next \/ EndOfFile \/ Look \/ Rewind \/ Open \/ SetRemove]_lvars

==============================================================================
