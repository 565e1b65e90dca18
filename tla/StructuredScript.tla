-------------------------- MODULE StructuredScript --------------------------
(***************************************************************************)
(* What the script language promises (doc/scripting/basic_statements.md):  *)
(* a script runs if and only if it is well formed, and then the statements *)
(* follow each other as its blocks say.  There are no jump tables here.    *)
(***************************************************************************)
EXTENDS ScriptStructure

VARIABLES lines,   \* the script
          status,  \* is it accepted, rejected, running?
          pc       \* the line executed next, 0 while the script does not run

svars == <<lines, status, pc>>

Init == status = "ready" /\ pc = 0

Accept ==
  /\ status = "ready"
  /\ WellFormed(lines)
  /\ status' = "running"
  /\ pc' = 1
  /\ UNCHANGED lines

Reject ==
  /\ status = "ready"
  /\ ~WellFormed(lines)
  /\ status' = "rejected"
  /\ UNCHANGED <<lines, pc>>

\* The if that an else or the while that an endwhile belongs to.
Opener(k) == CHOOSE i \in 1 .. k : lines[i].op \in Openers /\ EndOf(lines, i) >= k
                /\ \A j \in (i + 1) .. k : lines[j].op \in Openers => EndOf(lines, j) < k

\* The lines that may be executed after line k.
Successors(k) ==
  LET op == lines[k].op
      leave == EndLeft(lines, k, lines[k].arg) + 1
      false == IF ElsesOf(lines, k) = {} THEN EndOf(lines, k) + 1
               ELSE First(ElsesOf(lines, k)) + 1
  IN CASE op = "if"       -> {k + 1, false}
       [] op = "while"    -> {k + 1, EndOf(lines, k) + 1}
       [] op = "else"     -> {EndOf(lines, Opener(k)) + 1}
       [] op = "endwhile" -> {Opener(k)}
       [] op = "leave"    -> {leave}
       [] op = "leaveif"  -> {k + 1, leave}
       [] op = "exit"     -> {Len(lines) + 1}
       [] OTHER           -> {After(lines, k)}

Step ==
  /\ status = "running"
  /\ pc <= Len(lines)
  /\ pc' \in Successors(pc)
  /\ UNCHANGED <<lines, status>>

MayFail == {"plain", "abort", "exit", "if", "while", "leave", "leaveif", "here"}

\* The last line is behind us, or a statement stops the script.
Finish ==
  /\ status = "running"
  /\ pc > Len(lines) \/ lines[pc].op \in MayFail
  /\ status' = "finished"
  /\ pc' = 0
  /\ UNCHANGED lines

Again ==
  /\ status = "finished"
  /\ status' = "running"
  /\ pc' = 1
  /\ UNCHANGED lines

Next == Accept \/ Reject \/ Step \/ Finish \/ Again

Spec == Init /\ [][Next]_svars

==============================================================================
