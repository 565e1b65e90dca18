------------------------------ MODULE ScriptFlow ------------------------------
(***************************************************************************)
(* One Script of the search engine (text/Script.cpp): the test pass check()*)
(* that builds the jump tables _ifData and _singleEndData and verifies the *)
(* blocks with the stack _openBlocks, and the pass run() that executes the *)
(* statements and follows the tables.  Statements that only work on        *)
(* buffers and variables are "plain"; the value of a condition, and        *)
(* whether such a statement fails, is left open.                           *)
(***************************************************************************)
EXTENDS ScriptStructure

CONSTANTS Scripts,  \* the scripts considered: sequences of statements
          MaxOpen,  \* bound: run() pushes on _openBlocks up to this length
          Retry     \* may a script be started again after a failed check?

Blocks   == {"if", "else", "endif", "while", "endwhile"}
Leaves   == {"leave", "leaveif"}    \* without and with a condition
Bodies   == {"script", "endscript", "here", "marker"}
Stops    == {"exit", "abort"}       \* exit; exit global and stop
Ops      == Blocks \cup Leaves \cup Bodies \cup Stops \cup {"plain", "bad"}

\* arg: the count of a leave, the name of an inner script, otherwise 0.
Statement == [op : Ops, arg : Nat]

ASSUME ScriptsAssumption == Scripts \subseteq Seq(Statement)
ASSUME BoundsAssumption  == MaxOpen \in Nat /\ Retry \in BOOLEAN

VARIABLES
  lines,       \* _lines, the text of the script
  phase,       \* where testAndRun() is with this script
  index,       \* _indexNextStatement: as many lines are behind us
  ifData,      \* _ifData: line of an if -> lines of its else (or 0) and endif
  singleEnd,   \* _singleEndData: line of another jump -> new index
  openBlocks,  \* _openBlocks
  tested,      \* _alreadyTested
  known,       \* the names in SearchEngine::_scripts
  resumed      \* history: the current check goes on after one that failed

vars == <<lines, phase, index, ifData, singleEnd, openBlocks, tested, known,
          resumed>>

tables == <<ifData, singleEnd>>

Phases == {"idle", "check", "run", "failed", "done", "undefined"}
BlockTypes == {"then", "else", "while"}   \* BT_IF_THEN, BT_IF_ELSE, BT_WHILE

Put(f, k, v) == [x \in DOMAIN f \cup {k} |-> IF x = k THEN v ELSE f[x]]

Entry(type, line) == [type |-> type, line |-> line]

Init ==
  /\ lines \in Scripts
  /\ phase = "idle"
  /\ index = 0
  /\ ifData = <<>>
  /\ singleEnd = <<>>
  /\ openBlocks = <<>>
  /\ tested = FALSE
  /\ known = {}
  /\ resumed = FALSE

------------------------------------------------------------------------------
\* oneStatement() takes the line after the index and increments the index
\* first: a handler sees its own line number in _indexNextStatement.
At(ph, ops) ==
  /\ phase = ph
  /\ index < Len(lines)
  /\ lines[index + 1].op \in ops

Line == index + 1

\* The first access of an undefined element: std::vector::back() of an empty
\* vector, the value of std::map::end(), a line behind the last one.
Undefined ==
  /\ phase' = "undefined"
  /\ UNCHANGED <<lines, index, ifData, singleEnd, openBlocks, tested, known, resumed>>

------------------------------------------------------------------------------
(* testAndRun(): check() and then, unless it throws, run(). *)

\* check() goes on where _indexNextStatement is: it is not reset.
StartCheck ==
  /\ ~tested
  /\ phase = "idle" \/ (phase = "failed" /\ Retry)
  /\ phase' = "check"
  /\ resumed' = (phase = "failed")
  /\ UNCHANGED <<lines, index, tables, openBlocks, tested, known>>

EndCheck ==
  /\ phase = "check"
  /\ index >= Len(lines)
  /\ openBlocks = <<>>
  /\ tested' = TRUE
  /\ phase' = "run"
  /\ index' = 0
  /\ UNCHANGED <<lines, tables, openBlocks, known, resumed>>

EndCheckOpen ==
  /\ phase = "check"
  /\ index >= Len(lines)
  /\ openBlocks # <<>>
  /\ phase' = "failed"
  /\ UNCHANGED <<lines, index, tables, openBlocks, tested, known, resumed>>

\* A tested script is run again by the next call.
StartRun ==
  /\ tested
  /\ phase = "done"
  /\ phase' = "run"
  /\ index' = 0
  /\ UNCHANGED <<lines, tables, openBlocks, tested, known, resumed>>

EndRun ==
  /\ phase = "run"
  /\ index >= Len(lines)
  /\ phase' = "done"
  /\ UNCHANGED <<lines, index, tables, openBlocks, tested, known, resumed>>

------------------------------------------------------------------------------
(* oneStatement(true): one action per statement handler, testOnly. *)

CheckPlain ==
  /\ At("check", Stops \cup {"plain", "endscript"})
  /\ index' = Line
  /\ UNCHANGED <<lines, phase, tables, openBlocks, tested, known, resumed>>

\* A syntax error, or a word that is no statement.
CheckBad ==
  /\ At("check", {"bad", "marker"})
  /\ index' = Line
  /\ phase' = "failed"
  /\ UNCHANGED <<lines, tables, openBlocks, tested, known, resumed>>

IfEnds == BlockEnds(lines, Line + 1, "if", "else", "endif")
ElseEnds(k) == BlockEnds(lines, k + 1, "if", "endif", "endif")
WhileEnds == BlockEnds(lines, Line + 1, "while", "endwhile", "endwhile")

CheckIf ==
  /\ At("check", {"if"})
  /\ index' = Line
  /\ openBlocks' = Append(openBlocks, Entry("then", Line))
  /\ IfEnds # {}
  /\ lines[First(IfEnds)].op = "endif"
  /\ ifData' = Put(ifData, Line, [elseLine |-> 0, endLine |-> First(IfEnds)])
  /\ UNCHANGED <<lines, phase, singleEnd, tested, known, resumed>>

\* Mutant: the jump from else to endif is forgotten.
ElseWithoutJump ==
  /\ At("check", {"if"})
  /\ index' = Line
  /\ openBlocks' = Append(openBlocks, Entry("then", Line))
  /\ IfEnds # {}
  /\ lines[First(IfEnds)].op = "else"
  /\ LET else == First(IfEnds)
         end  == First(ElseEnds(else))
     IN /\ ElseEnds(else) # {}
        /\ ifData' = Put(ifData, Line, [elseLine |-> else, endLine |-> end])
  /\ UNCHANGED <<lines, phase, singleEnd, tested, known, resumed>>

CheckIfWithElse ==
  /\ At("check", {"if"})
  /\ index' = Line
  /\ openBlocks' = Append(openBlocks, Entry("then", Line))
  /\ IfEnds # {}
  /\ lines[First(IfEnds)].op = "else"
  /\ LET else == First(IfEnds)
         end  == First(ElseEnds(else))
     IN /\ ElseEnds(else) # {}
        /\ ifData' = Put(ifData, Line, [elseLine |-> else, endLine |-> end])
        /\ singleEnd' = Put(singleEnd, else, end)
  /\ UNCHANGED <<lines, phase, tested, known, resumed>>

\* The entry is pushed before findEndOfBlock() throws and stays there.
CheckIfWithoutEnd ==
  /\ At("check", {"if"})
  /\ index' = Line
  /\ openBlocks' = Append(openBlocks, Entry("then", Line))
  /\ \/ IfEnds = {}
     \/ /\ IfEnds # {}
        /\ lines[First(IfEnds)].op = "else"
        /\ ElseEnds(First(IfEnds)) = {}
  /\ phase' = "failed"
  /\ UNCHANGED <<lines, tables, tested, known, resumed>>

\* Mutant: the jump back from endwhile is forgotten.
WhileWithoutJumpBack ==
  /\ At("check", {"while"})
  /\ index' = Line
  /\ openBlocks' = Append(openBlocks, Entry("while", Line))
  /\ WhileEnds # {}
  /\ singleEnd' = Put(singleEnd, Line, First(WhileEnds))
  /\ UNCHANGED <<lines, phase, ifData, tested, known, resumed>>

CheckWhile ==
  /\ At("check", {"while"})
  /\ index' = Line
  /\ openBlocks' = Append(openBlocks, Entry("while", Line))
  /\ WhileEnds # {}
  /\ LET end == First(WhileEnds)
     IN singleEnd' = Put(Put(singleEnd, Line, end), end, Line - 1)
  /\ UNCHANGED <<lines, phase, ifData, tested, known, resumed>>

CheckWhileWithoutEnd ==
  /\ At("check", {"while"})
  /\ index' = Line
  /\ openBlocks' = Append(openBlocks, Entry("while", Line))
  /\ WhileEnds = {}
  /\ phase' = "failed"
  /\ UNCHANGED <<lines, tables, tested, known, resumed>>

Top == openBlocks[Len(openBlocks)]
Pop(s) == SubSeq(s, 1, Len(s) - 1)

\* What else, endif and endwhile expect on top of the stack.
Expected(op) ==
  CASE op = "else"     -> {"then"}
    [] op = "endif"    -> {"then", "else"}
    [] op = "endwhile" -> {"while"}

CheckElse ==
  /\ At("check", {"else"})
  /\ openBlocks # <<>>
  /\ Top.type \in Expected("else")
  /\ index' = Line
  /\ openBlocks' = [openBlocks EXCEPT ![Len(openBlocks)] = Entry("else", Line)]
  /\ UNCHANGED <<lines, phase, tables, tested, known, resumed>>

CheckEnd ==
  /\ At("check", Closers)
  /\ openBlocks # <<>>
  /\ Top.type \in Expected(lines[Line].op)
  /\ index' = Line
  /\ openBlocks' = Pop(openBlocks)
  /\ UNCHANGED <<lines, phase, tables, tested, known, resumed>>

\* "else without if", "endif without if", "endwhile without while"
CheckMisplaced ==
  /\ At("check", Closers \cup {"else"})
  /\ openBlocks # <<>>
  /\ Top.type \notin Expected(lines[Line].op)
  /\ index' = Line
  /\ phase' = "failed"
  /\ UNCHANGED <<lines, tables, openBlocks, tested, known, resumed>>

\* The top of the stack is read without asking whether there is one.
CheckStray ==
  /\ At("check", Closers \cup {"else"})
  /\ openBlocks = <<>>
  /\ Undefined

\* Mutant: the scan of leave begins with the script.
TargetsFromStart == LeaveEnds(lines, 1, lines[Line].arg)

Targets == LeaveEnds(lines, Line + 1, lines[Line].arg)

CheckLeave ==
  /\ At("check", Leaves)
  /\ index' = Line
  /\ Targets # {}
  /\ singleEnd' = Put(singleEnd, Line, First(Targets))
  /\ UNCHANGED <<lines, phase, ifData, openBlocks, tested, known, resumed>>

\* nesting counts down from arg and is compared with 0 after the loop, so
\* leave 0 passes when no block end follows, and no target is stored.
CheckLeaveWithoutEnd ==
  /\ At("check", Leaves)
  /\ index' = Line
  /\ Targets = {}
  /\ phase' = IF lines[Line].arg = Count(lines, Closers, Line + 1, Len(lines))
              THEN phase ELSE "failed"
  /\ UNCHANGED <<lines, tables, openBlocks, tested, known, resumed>>

\* script <name>: the lines up to "endscript" are copied to a new script.  The
\* loop takes the first line of the body before it looks for "endscript".
EndScripts ==
  {q \in (Line + 2) .. Len(lines) : lines[q].op = "endscript"}

\* Mutant: the line after endscript is skipped, too.
ScriptSkipsOneMore ==
  /\ At("check", {"script"})
  /\ lines[Line].arg \notin known
  /\ EndScripts # {}
  /\ known' = known \cup {lines[Line].arg}
  /\ index' = First(EndScripts) + 1
  /\ singleEnd' = Put(singleEnd, Line, First(EndScripts))
  /\ UNCHANGED <<lines, phase, ifData, openBlocks, tested, resumed>>

CheckScript ==
  /\ At("check", {"script"})
  /\ lines[Line].arg \notin known
  /\ EndScripts # {}
  /\ known' = known \cup {lines[Line].arg}
  /\ index' = First(EndScripts)
  /\ singleEnd' = Put(singleEnd, Line, First(EndScripts))
  /\ UNCHANGED <<lines, phase, ifData, openBlocks, tested, resumed>>

CheckScriptWithoutEnd ==
  /\ At("check", {"script"})
  /\ lines[Line].arg \notin known
  /\ EndScripts = {}
  /\ Line < Len(lines)
  /\ known' = known \cup {lines[Line].arg}
  /\ index' = Len(lines)
  /\ phase' = "failed"
  /\ UNCHANGED <<lines, tables, openBlocks, tested, resumed>>

CheckScriptTwice ==
  /\ At("check", {"script"})
  /\ lines[Line].arg \in known
  /\ index' = Line
  /\ phase' = "failed"
  /\ UNCHANGED <<lines, tables, openBlocks, tested, known, resumed>>

CheckScriptLast ==
  /\ At("check", {"script"})
  /\ lines[Line].arg \notin known
  /\ Line = Len(lines)
  /\ Undefined

\* getText() with a here document, in both passes: the text is skipped.  In the
\* run pass the statement may throw after it.
Markers == {q \in (Line + 1) .. Len(lines) : lines[q].op = "marker"}

\* Mutant: the index stays at the statement, its text is not skipped.
TextNotSkipped ==
  /\ At("check", {"here"}) \/ At("run", {"here"})
  /\ Markers # {}
  /\ UNCHANGED vars

HereDocument ==
  /\ At("check", {"here"}) \/ At("run", {"here"})
  /\ Markers # {}
  /\ index' = First(Markers)
  /\ phase' \in IF phase = "run" THEN {"run", "done"} ELSE {phase}
  /\ UNCHANGED <<lines, tables, openBlocks, tested, known, resumed>>

HereDocumentWithoutMarker ==
  /\ At("check", {"here"}) \/ At("run", {"here"})
  /\ Markers = {}
  /\ index' = Line
  /\ phase' = IF phase = "check" THEN "failed" ELSE "done"
  /\ UNCHANGED <<lines, tables, openBlocks, tested, known, resumed>>

CheckStatement ==
  \/ CheckPlain \/ CheckBad
  \/ CheckIf \/ CheckIfWithElse \/ CheckIfWithoutEnd
  \/ CheckWhile \/ CheckWhileWithoutEnd
  \/ CheckElse \/ CheckEnd \/ CheckMisplaced \/ CheckStray
  \/ CheckLeave \/ CheckLeaveWithoutEnd
  \/ CheckScript \/ CheckScriptWithoutEnd \/ CheckScriptTwice \/ CheckScriptLast

------------------------------------------------------------------------------
(* oneStatement(false) *)

RunPlain ==
  /\ At("run", {"plain", "endscript", "endif"})
  /\ index' = Line
  /\ UNCHANGED <<lines, phase, tables, openBlocks, tested, known, resumed>>

\* The statement throws (an unknown variable, a condition without a value), or it
\* is a call that returns an exit code # 0.
RunFails ==
  /\ At("run", {"plain", "bad", "marker", "if", "while"} \cup Leaves \cup Stops)
  /\ index' = Line
  /\ phase' = "done"
  /\ UNCHANGED <<lines, tables, openBlocks, tested, known, resumed>>

RunExit ==
  /\ At("run", {"exit"})
  /\ index' = Len(lines)
  /\ UNCHANGED <<lines, phase, tables, openBlocks, tested, known, resumed>>

\* if and while push an entry in this pass, too: nothing pops it.
PushAtRun(type) ==
  openBlocks' = IF Len(openBlocks) < MaxOpen
                THEN Append(openBlocks, Entry(type, Line)) ELSE openBlocks

RunIf ==
  /\ At("run", {"if"})
  /\ Line \in DOMAIN ifData
  /\ PushAtRun("then")
  /\ index' \in {Line, IF ifData[Line].elseLine = 0 THEN ifData[Line].endLine
                                                   ELSE ifData[Line].elseLine}
  /\ UNCHANGED <<lines, phase, tables, tested, known, resumed>>

RunWhile ==
  /\ At("run", {"while"})
  /\ Line \in DOMAIN singleEnd
  /\ PushAtRun("while")
  /\ index' \in {Line, singleEnd[Line]}
  /\ UNCHANGED <<lines, phase, tables, tested, known, resumed>>

\* A while whose condition holds does not look into the table.
RunWhileEnter ==
  /\ At("run", {"while"})
  /\ Line \notin DOMAIN singleEnd
  /\ PushAtRun("while")
  /\ index' = Line
  /\ UNCHANGED <<lines, phase, tables, tested, known, resumed>>

RunJump ==
  /\ At("run", {"else", "leave", "script"})
  /\ Line \in DOMAIN singleEnd
  /\ index' = singleEnd[Line]
  /\ UNCHANGED <<lines, phase, tables, openBlocks, tested, known, resumed>>

RunLeaveIf ==
  /\ At("run", {"leaveif"})
  /\ Line \in DOMAIN singleEnd
  /\ index' \in {Line, singleEnd[Line]}
  /\ UNCHANGED <<lines, phase, tables, openBlocks, tested, known, resumed>>

RunLeaveIfStay ==
  /\ At("run", {"leaveif"})
  /\ Line \notin DOMAIN singleEnd
  /\ index' = Line
  /\ UNCHANGED <<lines, phase, tables, openBlocks, tested, known, resumed>>

RunEndWhile ==
  /\ At("run", {"endwhile"})
  /\ Line \in DOMAIN singleEnd
  /\ index' = singleEnd[Line]
  /\ UNCHANGED <<lines, phase, tables, openBlocks, tested, known, resumed>>

\* operator[] of the map inserts a missing entry with the value 0.
RunEndWhileWithoutEntry ==
  /\ At("run", {"endwhile"})
  /\ Line \notin DOMAIN singleEnd
  /\ index' = 0
  /\ singleEnd' = Put(singleEnd, Line, 0)
  /\ UNCHANGED <<lines, phase, ifData, openBlocks, tested, known, resumed>>

RunWithoutEntry ==
  /\ \/ At("run", {"while", "else", "script"} \cup Leaves)
        /\ Line \notin DOMAIN singleEnd
     \/ At("run", {"if"}) /\ Line \notin DOMAIN ifData
  /\ Undefined

RunStatement ==
  \/ RunPlain \/ RunFails \/ RunExit
  \/ RunIf \/ RunWhile \/ RunWhileEnter \/ RunEndWhile \/ RunEndWhileWithoutEntry
  \/ RunJump \/ RunLeaveIf \/ RunLeaveIfStay \/ RunWithoutEntry

Next ==
  \/ StartCheck \/ EndCheck \/ EndCheckOpen \/ StartRun \/ EndRun
  \/ CheckStatement \/ RunStatement
  \/ HereDocument \/ HereDocumentWithoutMarker

Spec == Init /\ [][Next]_vars

------------------------------------------------------------------------------
(* Properties *)

IfJump == [elseLine : 0 .. Len(lines), endLine : 0 .. Len(lines)]
BlockEntry == [type : BlockTypes, line : DOMAIN lines]

\* A jump table that leads from some lines to values in V.
IsTable(f, V) == DOMAIN f \subseteq DOMAIN lines /\ \A k \in DOMAIN f : f[k] \in V

\* Type invariant.  _indexNextStatement never passes the end of the script, and
\* every entry of the jump tables leads into it (Script.cpp:1509).
TypeOK ==
  /\ lines \in Seq(Statement)
  /\ phase \in Phases
  /\ index \in 0 .. Len(lines)
  /\ IsTable(ifData, IfJump)
  /\ IsTable(singleEnd, 0 .. Len(lines))
  /\ openBlocks \in Seq(BlockEntry)
  /\ tested \in BOOLEAN
  /\ known \subseteq Nat
  /\ resumed \in BOOLEAN

\* The run pass never looks up a jump that the test pass did not store, and
\* the test pass never asks an empty stack for its top, provided the script is
\* Sound and was tested in one go: what check() accepts run() can execute.
DefinedIfSound == phase = "undefined" /\ Sound(lines) => resumed

\* The tables belong to the test pass: run() of a Sound script only reads them,
\* although endwhile uses the inserting operator[] (Script.cpp:628).
RunOnlyReads == [][tested /\ Sound(lines) /\ ~resumed => UNCHANGED tables]_vars

\* Statements are executed one after the other by one thread.
FairSpec == Spec /\ WF_vars(Next)

\* check() ends for every script: each statement moves the index forwards, also
\* those that swallow lines.
CheckEnds == phase = "check" ~> phase # "check"

\* A Sound script without while is executed to its end: all jumps but the one of
\* endwhile lead forwards.
LoopFreeRunEnds ==
  phase = "run" /\ Sound(lines) /\ ~resumed /\ Count(lines, {"while"}, 1, Len(lines)) = 0
    ~> phase = "done"

------------------------------------------------------------------------------
(* What the language promises, StructuredScript, as this script keeps it. *)

Status ==
  CASE phase \in {"idle", "check"} -> "ready"
    [] phase = "run" -> "running"
    [] phase = "done" -> "finished"
    [] phase = "failed" -> "rejected"
    [] phase = "undefined" -> "undefined"

Structure == INSTANCE StructuredScript
  WITH status <- Status, pc <- IF phase = "run" THEN index + 1 ELSE 0

FollowsStructure == Structure!Spec

------------------------------------------------------------------------------
(* What the documentation and the comments say, violated by the code. *)

\* "Tests the syntax of the script and run it" (text/SearchEngine.hpp:143): a
\* script is reported or it is executed, nothing else happens.
NoUndefinedBehaviour == phase # "undefined"

\* leave stops the blocks it stands in (doc/scripting/basic_statements.md:211).
LeaveLeavesItsBlocks ==
  tested => \A k \in DOMAIN singleEnd :
    lines[k].op \in Leaves => singleEnd[k] = EndLeft(lines, k, lines[k].arg)

==============================================================================
