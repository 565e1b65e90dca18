------------------------------ MODULE BlockScan ------------------------------
(***************************************************************************)
(* The scans of text/Script.cpp over the raw lines of a script.  A line is *)
(* a record with the field op: the keyword the parser finds at the start   *)
(* of the line ("plain" for a line that starts with none of the keywords   *)
(* the scans look at).  Lines are numbered from 1, as SearchParser counts  *)
(* them: the code's 0-based index n is the line n + 1.                     *)
(***************************************************************************)
EXTENDS Naturals, Sequences, FiniteSets

\* How many of the lines a..b start with one of the keywords in ops.
Count(lines, ops, a, b) ==
  Cardinality({k \in a .. b : lines[k].op \in ops})

\* The least element of a non-empty set of line numbers.
First(S) == CHOOSE q \in S : \A r \in S : q <= r

\* Mutant: a mid keyword of any depth ends the scan.
BreaksAtAnyMid(lines, open, mid, close, a, q) ==
  \/ /\ lines[q].op = close
     /\ Count(lines, {close}, a, q) = Count(lines, {open}, a, q) + 1
  \/ lines[q].op = mid /\ mid # close

(***************************************************************************)
(* Script::findEndOfBlock starting at line a with nesting = 1: the lines   *)
(* at which its loop breaks, were it to go on.  At line q the counter is   *)
(* 1 + (open keywords) - (close keywords) seen in a..q.  It breaks at a    *)
(* close that brings the counter to 0 or at a mid keyword while it is 1.   *)
(* The branch of idEnd1 comes after the one of idEnd2, so a mid that is    *)
(* the close itself (how endif and endwhile are looked up) is never taken. *)
(***************************************************************************)
BreaksAt(lines, open, mid, close, a, q) ==
  \/ /\ lines[q].op = close
     /\ Count(lines, {close}, a, q) = Count(lines, {open}, a, q) + 1
  \/ /\ lines[q].op = mid
     /\ mid # close
     /\ Count(lines, {close}, a, q) = Count(lines, {open}, a, q)

\* findEndOfBlock throws "missing block end" exactly when this set is empty,
\* otherwise it returns the first line of it.
BlockEnds(lines, a, open, mid, close) ==
  {q \in a .. Len(lines) : BreaksAt(lines, open, mid, close, a, q)}

Closers == {"endif", "endwhile"}

(***************************************************************************)
(* The scan of Script::leave from line a: it counts the lines that end a   *)
(* block, and none of the lines that begin one.                            *)
(***************************************************************************)
LeaveEnds(lines, a, count) ==
  {q \in a .. Len(lines) : /\ lines[q].op \in Closers
                           /\ Count(lines, Closers, a, q) = count}

==============================================================================
