----------------------------- MODULE CallReturn ------------------------------
(***************************************************************************)
(* What a call of a script promises (doc/scripting/basic_statements.md,    *)
(* call): every activation has a place of its own, the callee begins with  *)
(* its first statement, and behind it the caller goes on with the statement*)
(* after the call, unless the callee failed.                               *)
(***************************************************************************)
EXTENDS Naturals, Sequences, SequencesExt

VARIABLES text,   \* the statements of the scripts
          calls   \* the activations, the innermost last: [script, line]

cvars == <<text, calls>>

Init == calls = <<>>

Inner == calls[Len(calls)]
Lines == Len(text[Inner.script])
Statement == text[Inner.script][Inner.line + 1]

\* The activations left when the innermost ends, its caller at the line given.
Left(line) ==
  IF Len(calls) = 1 THEN <<>>
  ELSE [Front(calls) EXCEPT ![Len(calls) - 1].line = line]

CallerLine  == IF Len(calls) = 1 THEN 0 ELSE calls[Len(calls) - 1].line
CallerEnd   == IF Len(calls) = 1 THEN 0 ELSE Len(text[calls[Len(calls) - 1].script])

Enter ==
  /\ calls = <<>>
  /\ \E s \in DOMAIN text : calls' = <<[script |-> s, line |-> 0]>>

Advance ==
  /\ calls # <<>>
  /\ Inner.line < Lines
  /\ Statement.op \in {"plain", "declare", "set"}
  /\ calls' = [calls EXCEPT ![Len(calls)].line = @ + 1]

Call ==
  /\ calls # <<>>
  /\ Inner.line < Lines
  /\ Statement.op \in {"call", "callfile"}
  /\ \E s \in DOMAIN text :
       calls' = Append([calls EXCEPT ![Len(calls)].line = @ + 1], [script |-> s, line |-> 0])

Exit ==
  /\ calls # <<>>
  /\ Inner.line < Lines
  /\ Statement.op = "exit"
  /\ calls' = [calls EXCEPT ![Len(calls)].line = Lines]

\* The script ends, or it gives up with exit 0 global: its caller goes on.
Return ==
  /\ calls # <<>>
  /\ \/ Inner.line = Lines
     \/ Statement.op = "exitglobal" /\ Statement.value = 0
  /\ calls' = Left(CallerLine)

\* The script is rejected or fails: nothing else of its caller is executed.
Fail ==
  /\ calls # <<>>
  /\ Inner.line < Lines
  /\ calls' = Left(CallerEnd)

Next == (Enter \/ Advance \/ Call \/ Exit \/ Return \/ Fail) /\ UNCHANGED text

Spec == Init /\ [][Next]_cvars

==============================================================================
