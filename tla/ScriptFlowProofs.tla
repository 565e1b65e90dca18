--------------------------- MODULE ScriptFlowProofs ---------------------------
(***************************************************************************)
(* Proofs about ScriptFlow: for every set of scripts, of any length.       *)
(***************************************************************************)
EXTENDS ScriptFlow, SequenceLemmas

------------------------------------------------------------------------------
(* The scans of BlockScan, for scripts of any length. *)

\* First returns the least element of every non-empty set of line numbers: the
\* loops of Script.cpp stop at the first line that ends them.
LEMMA FirstIsLeast ==
  ASSUME NEW S, S \subseteq Nat, S # {}
  PROVE  First(S) \in S /\ \A r \in S : First(S) <= r
BY HasLeast DEF First

LEMMA FirstIsALine ==
  ASSUME NEW a \in Nat, NEW b \in Nat, NEW S, S \subseteq a .. b, S # {}
  PROVE  /\ First(S) \in S
         /\ First(S) \in a .. b
         /\ \A r \in S : First(S) <= r
<1>1. S \subseteq Nat
  OBVIOUS
<1> QED
  BY <1>1, FirstIsLeast


------------------------------------------------------------------------------
(* Count *)

LEMMA CountIsNat ==
  ASSUME NEW s, NEW ops, NEW a \in Nat, NEW b \in Nat
  PROVE  /\ IsFiniteSet({k \in a .. b : s[k].op \in ops})
         /\ Count(s, ops, a, b) \in Nat
<1>1. IsFiniteSet(a .. b)
  BY FS_Interval
<1>2. IsFiniteSet({k \in a .. b : s[k].op \in ops})
  BY <1>1, FS_Subset
<1> QED
  BY <1>2, FS_CardinalityType DEF Count

LEMMA CountNothing ==
  ASSUME NEW s, NEW ops, NEW a \in Nat, NEW b \in Nat,
         \A k \in a .. b : s[k].op \notin ops
  PROVE  Count(s, ops, a, b) = 0
<1>1. {k \in a .. b : s[k].op \in ops} = {}
  OBVIOUS
<1> QED
  BY <1>1, FS_EmptySet DEF Count

\* One line more.
LEMMA CountNext ==
  ASSUME NEW s, NEW ops, NEW a \in Nat, NEW b \in Nat, a <= b + 1
  PROVE  Count(s, ops, a, b + 1) =
           Count(s, ops, a, b) + (IF s[b + 1].op \in ops THEN 1 ELSE 0)
<1> DEFINE A == {k \in a .. b : s[k].op \in ops}
           B == {k \in a .. (b + 1) : s[k].op \in ops}
<1>1. IsFiniteSet(A) /\ Cardinality(A) \in Nat
  BY CountIsNat DEF Count
<1>2. CASE s[b + 1].op \in ops
  <2>1. B = A \cup {b + 1} /\ b + 1 \notin A
    BY <1>2
  <2>2. Cardinality(B) = Cardinality(A) + 1
    BY <1>1, <2>1, FS_AddElement
  <2> QED
    BY <1>2, <2>2 DEF Count
<1>3. CASE s[b + 1].op \notin ops
  <2>1. B = A
    BY <1>3
  <2>2. Count(s, ops, a, b + 1) = Count(s, ops, a, b) /\ Count(s, ops, a, b) \in Nat
    BY <1>1, <2>1 DEF Count
  <2> QED
    BY <1>3, <2>2
<1> QED
  BY <1>2, <1>3

\* Lines that are not counted.
LEMMA CountGap ==
  ASSUME NEW s, NEW ops, NEW a \in Nat, NEW b \in Nat, NEW c \in Nat, b <= c,
         \A k \in (b + 1) .. c : s[k].op \notin ops
  PROVE  Count(s, ops, a, c) = Count(s, ops, a, b)
<1>1. {k \in a .. c : s[k].op \in ops} = {k \in a .. b : s[k].op \in ops}
  OBVIOUS
<1> QED
  BY <1>1 DEF Count

\* Only what the lines in the range begin with matters.
LEMMA CountSame ==
  ASSUME NEW s, NEW t, NEW ops, NEW a \in Nat, NEW b \in Nat,
         \A k \in a .. b : s[k].op \in ops <=> t[k].op \in ops
  PROVE  Count(s, ops, a, b) = Count(t, ops, a, b)
<1>1. {k \in a .. b : s[k].op \in ops} = {k \in a .. b : t[k].op \in ops}
  OBVIOUS
<1> QED
  BY <1>1 DEF Count

LEMMA CountSomething ==
  ASSUME NEW s, NEW ops, NEW a \in Nat, NEW b \in Nat, NEW q \in a .. b, s[q].op \in ops
  PROVE  Count(s, ops, a, b) >= 1
<1> DEFINE A == {k \in a .. b : s[k].op \in ops}
<1>1. IsFiniteSet(A) /\ Cardinality(A) \in Nat
  BY CountIsNat DEF Count
<1>2. A # {}
  OBVIOUS
<1>3. Cardinality(A) # 0
  BY <1>1, <1>2, FS_EmptySet
<1> QED
  BY <1>1, <1>3 DEF Count

\* The last counted line has the full count.
LEMMA CountLast ==
  ASSUME NEW s, NEW ops, NEW a \in Nat, NEW b \in Nat, Count(s, ops, a, b) # 0
  PROVE  \E q \in a .. b : s[q].op \in ops /\ Count(s, ops, a, q) = Count(s, ops, a, b)
<1> DEFINE A == {k \in a .. b : s[k].op \in ops}
           D == {b - k : k \in A}
<1>1. A # {}
  BY FS_EmptySet DEF Count
<1>2. D \subseteq Nat /\ D # {}
  BY <1>1
<1>3. First(D) \in D /\ \A r \in D : First(D) <= r
  BY <1>2, FirstIsLeast
<1>4. PICK q \in A : First(D) = b - q
  BY <1>3
<1>5. \A k \in A : k <= q
  <2> TAKE k \in A
  <2>1. b - q <= b - k
    BY <1>3, <1>4
  <2> QED
    BY <2>1
<1>6. \A k \in (q + 1) .. b : s[k].op \notin ops
  BY <1>5
<1>7. Count(s, ops, a, b) = Count(s, ops, a, q)
  BY <1>6, CountGap
<1> QED
  BY <1>7

USE ScriptsAssumption, BoundsAssumption

------------------------------------------------------------------------------
(* The ends the scans find are lines of the script. *)

LEMMA EndsAreLines ==
  ASSUME lines \in Seq(Statement), index \in Nat
  PROVE  /\ Len(lines) \in Nat /\ DOMAIN lines = 1 .. Len(lines)
         /\ IfEnds \subseteq Nat /\ IfEnds \subseteq (Line + 1) .. Len(lines)
         /\ WhileEnds \subseteq Nat /\ WhileEnds \subseteq (Line + 1) .. Len(lines)
         /\ \A k \in Nat : /\ ElseEnds(k) \subseteq Nat
                           /\ ElseEnds(k) \subseteq (k + 1) .. Len(lines)
         /\ Targets \subseteq Nat /\ Targets \subseteq (Line + 1) .. Len(lines)
         /\ EndScripts \subseteq Nat /\ EndScripts \subseteq (Line + 2) .. Len(lines)
         /\ Markers \subseteq Nat /\ Markers \subseteq (Line + 1) .. Len(lines)
BY LenProperties DEF IfEnds, WhileEnds, ElseEnds, Targets, EndScripts, Markers,
                     Line, BlockEnds, LeaveEnds

\* Adding an entry to a jump table keeps its type.
LEMMA PutType ==
  ASSUME NEW f, NEW V, NEW k \in DOMAIN lines, NEW v \in V, IsTable(f, V)
  PROVE  /\ IsTable(Put(f, k, v), V)
         /\ DOMAIN Put(f, k, v) = DOMAIN f \cup {k}
         /\ Put(f, k, v)[k] = v
         /\ \A x \in DOMAIN f \ {k} : Put(f, k, v)[x] = f[x]
BY DEF Put, IsTable

LEMMA StackType ==
  ASSUME openBlocks \in Seq(BlockEntry), NEW e \in BlockEntry
  PROVE  /\ Append(openBlocks, e) \in Seq(BlockEntry)
         /\ openBlocks # <<>> => /\ Pop(openBlocks) \in Seq(BlockEntry)
                                 /\ [openBlocks EXCEPT ![Len(openBlocks)] = e] \in Seq(BlockEntry)
                                 /\ Len(openBlocks) \in 1 .. Len(openBlocks)
<1>1. Append(openBlocks, e) \in Seq(BlockEntry)
  OBVIOUS
<1>2. ASSUME openBlocks # <<>>
      PROVE  /\ Pop(openBlocks) \in Seq(BlockEntry)
             /\ [openBlocks EXCEPT ![Len(openBlocks)] = e] \in Seq(BlockEntry)
             /\ Len(openBlocks) \in 1 .. Len(openBlocks)
  <2>1. Len(openBlocks) \in 1 .. Len(openBlocks)
    BY <1>2, EmptySeq
  <2>2. Pop(openBlocks) \in Seq(BlockEntry)
    <3>1. \A i \in 1 .. Len(openBlocks) - 1 : openBlocks[i] \in BlockEntry
      BY <2>1, ElementOfSeq
    <3> QED
      BY <2>1, <3>1, SubSeqProperties DEF Pop
  <2>3. [openBlocks EXCEPT ![Len(openBlocks)] = e] \in Seq(BlockEntry)
    BY <2>1, ExceptSeq
  <2> QED
    BY <2>1, <2>2, <2>3
<1> QED
  BY <1>1, <1>2

------------------------------------------------------------------------------
(* Type correctness *)

LEMMA TypeInit == Init => TypeOK
<1> SUFFICES ASSUME Init PROVE TypeOK
  OBVIOUS
<1>1. lines \in Seq(Statement) /\ Len(lines) \in Nat
  BY LenProperties DEF Init
<1>2. IsTable(ifData, IfJump) /\ IsTable(singleEnd, 0 .. Len(lines))
  BY DEF Init, IsTable
<1>3. openBlocks \in Seq(BlockEntry)
  BY EmptySeq DEF Init
<1>4. phase \in Phases /\ index \in 0 .. Len(lines) /\ known \subseteq Nat
  BY <1>1 DEF Init, Phases
<1>5. tested \in BOOLEAN /\ resumed \in BOOLEAN
  BY DEF Init
<1> QED
  BY <1>1, <1>2, <1>3, <1>4, <1>5 DEF TypeOK

\* What a statement handler changes at most, and within which bounds.
LEMMA TypeStep ==
  ASSUME TypeOK, UNCHANGED lines,
         tested' \in BOOLEAN, resumed' \in BOOLEAN,
         phase' \in Phases, index' \in 0 .. Len(lines),
         IsTable(ifData', IfJump), IsTable(singleEnd', 0 .. Len(lines)),
         openBlocks' \in Seq(BlockEntry), known' \subseteq Nat
  PROVE  TypeOK'
BY DEF TypeOK, BlockEntry, IsTable, IfJump

\* What the typing of a state says about the line executed next.
LEMMA TypeFacts ==
  ASSUME TypeOK
  PROVE  /\ Len(lines) \in Nat /\ DOMAIN lines = 1 .. Len(lines) /\ index \in Nat
         /\ index \in 0 .. Len(lines) /\ lines \in Seq(Statement) /\ phase \in Phases
         /\ openBlocks \in Seq(BlockEntry) /\ known \subseteq Nat
         /\ IsTable(ifData, IfJump) /\ IsTable(singleEnd, 0 .. Len(lines))
         /\ index < Len(lines) =>
              /\ Line \in DOMAIN lines /\ Line \in 0 .. Len(lines)
              /\ lines[Line].arg \in Nat
              /\ \A t \in BlockTypes : Entry(t, Line) \in BlockEntry
<1>1. /\ Len(lines) \in Nat /\ DOMAIN lines = 1 .. Len(lines) /\ index \in Nat
      /\ index \in 0 .. Len(lines) /\ lines \in Seq(Statement) /\ phase \in Phases
      /\ openBlocks \in Seq(BlockEntry) /\ known \subseteq Nat
      /\ IsTable(ifData, IfJump) /\ IsTable(singleEnd, 0 .. Len(lines))
  BY LenProperties DEF TypeOK
<1>2. ASSUME index < Len(lines)
      PROVE  /\ Line \in DOMAIN lines /\ Line \in 0 .. Len(lines)
             /\ lines[Line].arg \in Nat
             /\ \A t \in BlockTypes : Entry(t, Line) \in BlockEntry
  <2>1. Line \in DOMAIN lines /\ Line \in 0 .. Len(lines)
    BY <1>1, <1>2 DEF Line
  <2>2. lines[Line] \in Statement
    BY <1>1, <2>1, ElementOfSeq
  <2> QED
    BY <2>1, <2>2 DEF Statement, Entry, BlockEntry
<1> QED
  BY <1>1, <1>2

\* testAndRun() itself only moves between the phases.
LEMMA TypeStart ==
  TypeOK /\ (StartCheck \/ EndCheck \/ EndCheckOpen \/ StartRun \/ EndRun) => TypeOK'
<1> SUFFICES ASSUME TypeOK, StartCheck \/ EndCheck \/ EndCheckOpen \/ StartRun \/ EndRun
             PROVE  TypeOK'
  OBVIOUS
<1>1. phase' \in Phases /\ index' \in 0 .. Len(lines)
  BY TypeFacts DEF StartCheck, EndCheck, EndCheckOpen, StartRun, EndRun, Phases
<1>2. tested' \in BOOLEAN /\ resumed' \in BOOLEAN
  BY DEF TypeOK, StartCheck, EndCheck, EndCheckOpen, StartRun, EndRun
<1> QED
  BY <1>1, <1>2, TypeFacts, TypeStep
     DEF StartCheck, EndCheck, EndCheckOpen, StartRun, EndRun, tables

LEMMA TypeCheck == TypeOK /\ CheckStatement => TypeOK'
<1> SUFFICES ASSUME TypeOK, CheckStatement
             PROVE  TypeOK'
  OBVIOUS
<1> DEFINE Flags == tested' \in BOOLEAN /\ resumed' \in BOOLEAN
<1>1. index < Len(lines) /\ UNCHANGED <<lines, tested, resumed>>
  BY DEF CheckStatement, CheckPlain, CheckBad, CheckIf, CheckIfWithElse,
         CheckIfWithoutEnd, CheckWhile, CheckWhileWithoutEnd, CheckElse, CheckEnd,
         CheckMisplaced, CheckStray, CheckLeave, CheckLeaveWithoutEnd, CheckScript,
         CheckScriptWithoutEnd, CheckScriptTwice, CheckScriptLast, At, Undefined
<1>2. Flags
  BY <1>1 DEF TypeOK
<1>3. "then" \in BlockTypes /\ "else" \in BlockTypes /\ "while" \in BlockTypes
      /\ "failed" \in Phases /\ "undefined" \in Phases
  BY DEF BlockTypes, Phases
<1> USE TypeFacts, TypeStep, <1>1, <1>2, <1>3 DEF tables
<1>4. CASE CheckPlain \/ CheckBad
  BY <1>4 DEF CheckPlain, CheckBad
<1>5. CASE CheckIf
  <2>1. First(IfEnds) \in 0 .. Len(lines)
    BY <1>5, EndsAreLines, FirstIsALine DEF CheckIf, Line
  <2>2. [elseLine |-> 0, endLine |-> First(IfEnds)] \in IfJump
    BY <2>1 DEF IfJump
  <2>3. IsTable(ifData', IfJump)
    BY <1>5, <2>2, PutType DEF CheckIf
  <2> QED
    BY <1>5, <2>3, StackType DEF CheckIf
<1>6. CASE CheckIfWithElse
  <2> DEFINE else == First(IfEnds)
             end == First(ElseEnds(else))
  <2>1. else \in (Line + 1) .. Len(lines)
    BY <1>6, EndsAreLines, FirstIsALine DEF CheckIfWithElse, Line
  <2>2. else \in DOMAIN lines /\ else \in 0 .. Len(lines) /\ else \in Nat
    BY <2>1 DEF Line
  <2>3. ElseEnds(else) # {} /\ ElseEnds(else) \subseteq (else + 1) .. Len(lines)
    BY <1>6, <2>2, EndsAreLines DEF CheckIfWithElse
  <2>4. end \in 0 .. Len(lines)
    BY <2>2, <2>3, FirstIsALine, SMTT(60)
  <2>5. [elseLine |-> else, endLine |-> end] \in IfJump
    BY <2>2, <2>4 DEF IfJump
  <2>6. IsTable(ifData', IfJump)
    BY <1>6, <2>5, PutType DEF CheckIfWithElse
  <2>7. IsTable(singleEnd', 0 .. Len(lines))
    BY <1>6, <2>2, <2>4, PutType DEF CheckIfWithElse
  <2> QED
    BY <1>6, <2>6, <2>7, StackType DEF CheckIfWithElse
<1>7. CASE CheckIfWithoutEnd \/ CheckWhileWithoutEnd
  BY <1>7, StackType DEF CheckIfWithoutEnd, CheckWhileWithoutEnd
<1>8. CASE CheckWhile
  <2>1. First(WhileEnds) \in DOMAIN lines /\ First(WhileEnds) \in 0 .. Len(lines)
    BY <1>8, EndsAreLines, FirstIsALine, SMTT(60) DEF CheckWhile, Line
  <2>2. Line - 1 \in 0 .. Len(lines)
    BY DEF Line
  <2>3. IsTable(singleEnd', 0 .. Len(lines))
    BY <1>8, <2>1, <2>2, PutType DEF CheckWhile
  <2> QED
    BY <1>8, <2>3, StackType DEF CheckWhile
<1>9. CASE CheckElse \/ CheckEnd
  BY <1>9, StackType DEF CheckElse, CheckEnd
<1>10. CASE CheckMisplaced \/ CheckStray \/ CheckLeaveWithoutEnd
            \/ CheckScriptTwice \/ CheckScriptLast
  BY <1>10 DEF CheckMisplaced, CheckStray, CheckLeaveWithoutEnd, CheckScriptTwice,
               CheckScriptLast, Undefined
<1>11. CASE CheckLeave
  <2>1. First(Targets) \in 0 .. Len(lines)
    BY <1>11, EndsAreLines, FirstIsALine DEF CheckLeave, Line
  <2>2. IsTable(singleEnd', 0 .. Len(lines))
    BY <1>11, <2>1, PutType DEF CheckLeave
  <2> QED
    BY <1>11, <2>2 DEF CheckLeave
<1>12. CASE CheckScript
  <2>1. First(EndScripts) \in 0 .. Len(lines)
    BY <1>12, EndsAreLines, FirstIsALine DEF CheckScript, Line
  <2>2. IsTable(singleEnd', 0 .. Len(lines))
    BY <1>12, <2>1, PutType DEF CheckScript
  <2> QED
    BY <1>12, <2>1, <2>2 DEF CheckScript
<1>13. CASE CheckScriptWithoutEnd
  BY <1>13 DEF CheckScriptWithoutEnd
<1> QED
  BY <1>4, <1>5, <1>6, <1>7, <1>8, <1>9, <1>10, <1>11, <1>12, <1>13 DEF CheckStatement

LEMMA TypeRun ==
  TypeOK /\ (RunStatement \/ HereDocument \/ HereDocumentWithoutMarker) => TypeOK'
<1> SUFFICES ASSUME TypeOK, RunStatement \/ HereDocument \/ HereDocumentWithoutMarker
             PROVE  TypeOK'
  OBVIOUS
<1>1. index < Len(lines) /\ UNCHANGED <<lines, ifData, tested, known, resumed>>
  BY DEF RunStatement, RunPlain, RunFails, RunExit, RunIf, RunWhile, RunWhileEnter,
         RunJump, RunLeaveIf, RunLeaveIfStay, RunEndWhile, RunEndWhileWithoutEntry,
         RunWithoutEntry, HereDocument, HereDocumentWithoutMarker, At, Undefined, tables
<1>2. tested' \in BOOLEAN /\ resumed' \in BOOLEAN
  BY <1>1 DEF TypeOK
<1>3. /\ "then" \in BlockTypes /\ "while" \in BlockTypes
      /\ "failed" \in Phases /\ "undefined" \in Phases /\ "done" \in Phases
  BY DEF BlockTypes, Phases
<1> USE TypeFacts, TypeStep, <1>1, <1>2, <1>3 DEF tables
<1>4. ASSUME NEW type \in BlockTypes, PushAtRun(type)
      PROVE  openBlocks' \in Seq(BlockEntry)
  BY <1>4, StackType DEF PushAtRun
<1>5. CASE RunPlain \/ RunFails \/ RunExit \/ RunLeaveIfStay \/ RunWithoutEntry
           \/ HereDocumentWithoutMarker
  BY <1>5 DEF RunPlain, RunFails, RunExit, RunLeaveIfStay, RunWithoutEntry,
              HereDocumentWithoutMarker, Undefined
<1>6. CASE RunIf
  <2>1. ifData[Line] \in IfJump
    BY <1>6 DEF RunIf, IsTable
  <2>2. index' \in 0 .. Len(lines)
    BY <1>6, <2>1 DEF RunIf, IfJump
  <2> QED
    BY <1>4, <1>6, <2>2 DEF RunIf
<1>7. CASE RunWhile \/ RunWhileEnter
  <2>1. index' \in 0 .. Len(lines)
    BY <1>7 DEF RunWhile, RunWhileEnter, IsTable
  <2> QED
    BY <1>4, <1>7, <2>1 DEF RunWhile, RunWhileEnter
<1>8. CASE RunJump \/ RunLeaveIf \/ RunEndWhile
  BY <1>8 DEF RunJump, RunLeaveIf, RunEndWhile, IsTable
<1>9. CASE RunEndWhileWithoutEntry
  <2>1. 0 \in 0 .. Len(lines)
    OBVIOUS
  <2>2. IsTable(singleEnd', 0 .. Len(lines))
    BY <1>9, <2>1, PutType DEF RunEndWhileWithoutEntry
  <2> QED
    BY <1>9, <2>2 DEF RunEndWhileWithoutEntry
<1>10. CASE HereDocument
  <2>1. First(Markers) \in 0 .. Len(lines)
    BY <1>10, EndsAreLines, FirstIsALine DEF HereDocument, Line
  <2> QED
    BY <1>10, <2>1 DEF HereDocument, Phases
<1> QED
  BY <1>5, <1>6, <1>7, <1>8, <1>9, <1>10 DEF RunStatement

\* In no state reached from any script does the index leave the script, nor does
\* a jump table hold a line behind it (Script::check, run and oneStatement).
THEOREM TypeCorrect == Spec => []TypeOK
<1>1. Init => TypeOK
  BY TypeInit
<1>2. TypeOK /\ [Next]_vars => TypeOK'
  <2>1. CASE UNCHANGED vars
    BY <2>1 DEF vars, TypeOK, IsTable, IfJump, BlockEntry
  <2>2. CASE Next
    BY <2>2, TypeStart, TypeCheck, TypeRun DEF Next
  <2> QED
    BY <2>1, <2>2
<1> QED
  BY <1>1, <1>2, PTL DEF Spec


------------------------------------------------------------------------------
(* The inductive invariant behind DefinedIfSound and RunOnlyReads. *)

\* What run() looks up for line k is in the tables.
Stored(k) ==
  /\ lines[k].op = "if" => k \in DOMAIN ifData
  /\ lines[k].op \in {"while", "else", "endwhile", "script"} \cup Leaves =>
       k \in DOMAIN singleEnd

\* Each block that was opened and not ended is on the stack of blocks.
Balanced ==
  Count(lines, Openers, 1, index) = Len(openBlocks) + Count(lines, Closers, 1, index)

\* The types on the stack, and how many entries above the j-th have one in T.
Kinds == [i \in 1 .. Len(openBlocks) |-> [op |-> openBlocks[i].type]]
Above(j, T) == Count(Kinds, T, j + 1, Len(openBlocks))

\* The scan findEndOfBlock() made from line l passes every line behind us with the
\* counter above + 1, and the jump of its result is stored.
StillOpen(l, open, mid, close, above) ==
  LET ends == BlockEnds(lines, l + 1, open, mid, close)
  IN /\ ends # {}
     /\ \A q \in (l + 1) .. index : ~ BreaksAt(lines, open, mid, close, l + 1, q)
     /\ Count(lines, {open}, l + 1, index) = Count(lines, {close}, l + 1, index) + above
     /\ lines[First(ends)].op # "endif" => First(ends) \in DOMAIN singleEnd

EntryInv(j) ==
  /\ openBlocks[j].line <= index
  /\ openBlocks[j].type = "then" =>
       StillOpen(openBlocks[j].line, "if", "else", "endif", Above(j, {"then", "else"}))
  /\ openBlocks[j].type = "while" =>
       StillOpen(openBlocks[j].line, "while", "endwhile", "endwhile", Above(j, {"while"}))

\* The two passes of testAndRun().
PassInv ==
  /\ phase \in {"run", "done"} => tested
  /\ phase \in {"idle", "check", "failed"} => ~tested
  /\ phase = "idle" => index = 0 /\ openBlocks = <<>> /\ ~resumed

\* The test pass: behind the index every jump is stored, and the stack of blocks
\* agrees with the scans.
Tracks ==
  /\ Balanced
  /\ \A k \in 1 .. index : Stored(k)
  /\ \A j \in 1 .. Len(openBlocks) : EntryInv(j)

RunInv == tested => \A k \in DOMAIN lines : Stored(k)

FlowInv ==
  /\ TypeOK
  /\ PassInv
  /\ Sound(lines) /\ ~resumed => /\ phase # "undefined"
                                 /\ phase = "check" => Tracks
                                 /\ RunInv

------------------------------------------------------------------------------
(* The scans of findEndOfBlock() and the lines the test pass goes over. *)

\* The line after the index ends the scan exactly when the counter is 1 and the line
\* begins with one of the words looked for.
LEMMA BreakIff ==
  ASSUME TypeOK, index < Len(lines), NEW l \in 1 .. index, NEW open, NEW mid, NEW close,
         open # mid, open # close, NEW n \in Nat, StillOpen(l, open, mid, close, n)
  PROVE  BreaksAt(lines, open, mid, close, l + 1, Line) <=>
           n = 0 /\ lines[Line].op \in {mid, close}
<1>1. index \in Nat /\ l + 1 \in Nat /\ l + 1 <= index + 1 /\ Line = index + 1
  BY TypeFacts DEF Line
<1> DEFINE O == Count(lines, {open}, l + 1, index)
           C == Count(lines, {close}, l + 1, index)
           O1 == Count(lines, {open}, l + 1, Line)
           C1 == Count(lines, {close}, l + 1, Line)
<1>2. O \in Nat /\ C \in Nat /\ O = C + n
  BY <1>1, CountIsNat DEF StillOpen
<1>3. O1 = O + (IF lines[Line].op \in {open} THEN 1 ELSE 0)
  BY <1>1, CountNext, SMTT(60)
<1>4. C1 = C + (IF lines[Line].op \in {close} THEN 1 ELSE 0)
  BY <1>1, CountNext, SMTT(60)
<1>5. BreaksAt(lines, open, mid, close, l + 1, Line) <=>
        \/ lines[Line].op = close /\ C1 = O1 + 1
        \/ lines[Line].op = mid /\ mid # close /\ C1 = O1
  BY DEF BreaksAt
<1> HIDE DEF O, C, O1, C1
<1>6. CASE lines[Line].op = close
  BY <1>2, <1>3, <1>4, <1>5, <1>6
<1>7. CASE lines[Line].op # close /\ lines[Line].op = mid
  BY <1>2, <1>3, <1>4, <1>5, <1>7
<1>8. CASE lines[Line].op # close /\ lines[Line].op # mid
  BY <1>5, <1>8
<1> QED
  BY <1>6, <1>7, <1>8

\* A block stays open over a line that does not end it.
LEMMA OpenOverLine ==
  ASSUME TypeOK, index < Len(lines), NEW l \in 1 .. index, NEW open, NEW mid, NEW close,
         open # mid, open # close, NEW n \in Nat, StillOpen(l, open, mid, close, n),
         lines[Line].op \in {mid, close} => n # 0,
         lines' = lines, index' = Line, DOMAIN singleEnd \subseteq DOMAIN singleEnd',
         NEW m \in Nat,
         m = IF lines[Line].op = open THEN n + 1
             ELSE IF lines[Line].op = close THEN n - 1 ELSE n
  PROVE  StillOpen(l, open, mid, close, m)'
<1>0. ~ BreaksAt(lines, open, mid, close, l + 1, Line)
  <2>1. BreaksAt(lines, open, mid, close, l + 1, Line) <=>
          n = 0 /\ lines[Line].op \in {mid, close}
    BY BreakIff
  <2> QED
    BY <2>1
<1>1. index \in Nat /\ l + 1 \in Nat /\ l + 1 <= index + 1 /\ Line = index + 1
  BY TypeFacts DEF Line
<1> DEFINE O == Count(lines, {open}, l + 1, index)
           C == Count(lines, {close}, l + 1, index)
           O1 == Count(lines, {open}, l + 1, Line)
           C1 == Count(lines, {close}, l + 1, Line)
           ends == BlockEnds(lines, l + 1, open, mid, close)
<1>2. O \in Nat /\ C \in Nat /\ O = C + n
  BY <1>1, CountIsNat DEF StillOpen
<1>3. O1 = O + (IF lines[Line].op \in {open} THEN 1 ELSE 0)
  BY <1>1, CountNext, SMTT(60)
<1>4. C1 = C + (IF lines[Line].op \in {close} THEN 1 ELSE 0)
  BY <1>1, CountNext, SMTT(60)
<1>5. O1 = C1 + m
  <2> HIDE DEF O, C, O1, C1
  <2>1. CASE lines[Line].op = open
    BY <1>2, <1>3, <1>4, <2>1
  <2>2. CASE lines[Line].op = close
    BY <1>2, <1>3, <1>4, <2>2
  <2>3. CASE lines[Line].op # open /\ lines[Line].op # close
    BY <1>2, <1>3, <1>4, <2>3
  <2> QED
    BY <2>1, <2>2, <2>3
<1>6. \A q \in (l + 1) .. Line : ~ BreaksAt(lines, open, mid, close, l + 1, q)
  <2>1. \A q \in (l + 1) .. Line : q = Line \/ q \in (l + 1) .. index
    BY <1>1
  <2> QED
    BY <1>0, <2>1 DEF StillOpen
<1>7. ends # {} /\ (lines[First(ends)].op # "endif" => First(ends) \in DOMAIN singleEnd')
  BY DEF StillOpen
<1> QED
  BY <1>5, <1>6, <1>7 DEF StillOpen

\* It stays open over lines that begin with none of the words looked for.
LEMMA OpenOverGap ==
  ASSUME TypeOK, NEW l \in 1 .. index, NEW open, NEW mid, NEW close, NEW n \in Nat,
         StillOpen(l, open, mid, close, n),
         lines' = lines, index' \in Nat, index <= index',
         \A k \in (index + 1) .. index' : lines[k].op \notin {open, mid, close},
         DOMAIN singleEnd \subseteq DOMAIN singleEnd'
  PROVE  StillOpen(l, open, mid, close, n)'
<1>1. index \in Nat /\ l + 1 \in Nat
  BY TypeFacts
<1>2. Count(lines, {open}, l + 1, index') = Count(lines, {open}, l + 1, index)
  <2>1. \A k \in (index + 1) .. index' : lines[k].op \notin {open}
    OBVIOUS
  <2> QED
    BY <1>1, <2>1, CountGap
<1>3. Count(lines, {close}, l + 1, index') = Count(lines, {close}, l + 1, index)
  <2>1. \A k \in (index + 1) .. index' : lines[k].op \notin {close}
    OBVIOUS
  <2> QED
    BY <1>1, <2>1, CountGap
<1>4. \A q \in (l + 1) .. index' : ~ BreaksAt(lines, open, mid, close, l + 1, q)
  <2>1. \A q \in (index + 1) .. index' : ~ BreaksAt(lines, open, mid, close, l + 1, q)
    BY DEF BreaksAt
  <2>2. \A q \in (l + 1) .. index' : q \in (index + 1) .. index' \/ q \in (l + 1) .. index
    BY <1>1
  <2> QED
    BY <2>1, <2>2 DEF StillOpen
<1> DEFINE ends == BlockEnds(lines, l + 1, open, mid, close)
<1>5. ends # {} /\ (lines[First(ends)].op # "endif" => First(ends) \in DOMAIN singleEnd')
  BY DEF StillOpen
<1>6. Count(lines, {open}, l + 1, index') = Count(lines, {close}, l + 1, index') + n
  BY <1>2, <1>3 DEF StillOpen
<1> QED
  BY <1>4, <1>5, <1>6 DEF StillOpen

\* The line that ends the scan is the line findEndOfBlock() returned, and its jump is
\* stored when it is no endif.
LEMMA EndIsStored ==
  ASSUME TypeOK, index < Len(lines), NEW l \in 1 .. index, NEW open, NEW mid, NEW close,
         open # mid, open # close, StillOpen(l, open, mid, close, 0),
         lines[Line].op \in {mid, close}, lines[Line].op # "endif"
  PROVE  Line \in DOMAIN singleEnd
<1> DEFINE ends == BlockEnds(lines, l + 1, open, mid, close)
<1>1. /\ index \in Nat /\ l + 1 \in Nat /\ l + 1 <= index + 1 /\ Line = index + 1
      /\ Len(lines) \in Nat
  BY TypeFacts DEF Line
<1>2. BreaksAt(lines, open, mid, close, l + 1, Line)
  BY BreakIff
<1>3. Line \in ends /\ ends \subseteq Nat
  BY <1>1, <1>2 DEF BlockEnds
<1>4. First(ends) \in ends /\ First(ends) <= Line
  BY <1>3, FirstIsLeast
<1>5. /\ First(ends) \in (l + 1) .. Len(lines)
      /\ BreaksAt(lines, open, mid, close, l + 1, First(ends))
  BY <1>4 DEF BlockEnds
<1>6. First(ends) \notin (l + 1) .. index
  BY <1>5 DEF StillOpen
<1>7. First(ends) = Line
  BY <1>1, <1>4, <1>5, <1>6
<1> QED
  BY <1>7 DEF StillOpen

------------------------------------------------------------------------------
(* The stack of blocks. *)

LEMMA AboveIsNat ==
  ASSUME TypeOK, NEW j \in 1 .. Len(openBlocks), NEW T
  PROVE  Len(openBlocks) \in Nat /\ Above(j, T) \in Nat
<1>1. Len(openBlocks) \in Nat /\ j + 1 \in Nat
  BY LenProperties DEF TypeOK
<1> QED
  BY <1>1, CountIsNat DEF Above

LEMMA AboveTop ==
  ASSUME TypeOK, openBlocks # <<>>, NEW T
  PROVE  Above(Len(openBlocks), T) = 0
<1>1. Len(openBlocks) \in Nat
  BY LenProperties DEF TypeOK
<1>2. \A k \in (Len(openBlocks) + 1) .. Len(openBlocks) : Kinds[k].op \notin T
  BY <1>1
<1> QED
  BY <1>1, <1>2, CountNothing DEF Above

\* The entries below the top, when the stack of s entries has the types of s'.
LEMMA AbovePushed ==
  ASSUME TypeOK, NEW e \in BlockEntry, openBlocks' = Append(openBlocks, e),
         NEW j \in 1 .. Len(openBlocks), NEW T
  PROVE  Above(j, T)' = Above(j, T) + (IF e.type \in T THEN 1 ELSE 0)
<1>1. PICK n \in Nat : n = Len(openBlocks)
  BY LenProperties DEF TypeOK
<1>2. /\ Len(openBlocks') = n + 1 /\ openBlocks'[n + 1] = e
      /\ \A i \in 1 .. n : openBlocks'[i] = openBlocks[i]
  BY <1>1, AppendProperties DEF TypeOK
<1>3. Kinds'[n + 1].op = e.type /\ \A i \in 1 .. n : Kinds'[i].op = Kinds[i].op
  BY <1>1, <1>2 DEF Kinds
<1>4. j + 1 \in Nat /\ j + 1 <= n + 1
  BY <1>1
<1>5. Count(Kinds', T, j + 1, n + 1) =
        Count(Kinds', T, j + 1, n) + (IF Kinds'[n + 1].op \in T THEN 1 ELSE 0)
  BY <1>4, CountNext, SMTT(60)
<1>6. Count(Kinds', T, j + 1, n) = Count(Kinds, T, j + 1, n)
  <2>1. \A k \in (j + 1) .. n : Kinds'[k].op \in T <=> Kinds[k].op \in T
    BY <1>3
  <2> QED
    BY <1>4, <2>1, CountSame
<1> QED
  BY <1>1, <1>2, <1>3, <1>5, <1>6 DEF Above

LEMMA AbovePopped ==
  ASSUME TypeOK, openBlocks # <<>>, openBlocks' = Pop(openBlocks),
         NEW j \in 1 .. Len(openBlocks'), NEW T
  PROVE  /\ Above(j, T)' + (IF Top.type \in T THEN 1 ELSE 0) = Above(j, T)
         /\ openBlocks'[j] = openBlocks[j] /\ j \in 1 .. Len(openBlocks)
         /\ j # Len(openBlocks)
<1>1. PICK n \in Nat : Len(openBlocks) = n + 1
  <2>1. Len(openBlocks) \in Nat /\ Len(openBlocks) # 0
    BY EmptySeq, LenProperties DEF TypeOK
  <2>2. Len(openBlocks) - 1 \in Nat /\ Len(openBlocks) = Len(openBlocks) - 1 + 1
    BY <2>1
  <2> QED
    BY <2>2
<1>2. Len(openBlocks') = n /\ \A i \in 1 .. n : openBlocks'[i] = openBlocks[i]
  <2>1. Len(openBlocks) - 1 = n
    BY <1>1
  <2>2. \A i \in 1 .. n : openBlocks[i] \in BlockEntry
    BY <1>1, ElementOfSeq DEF TypeOK
  <2>3. /\ Len(SubSeq(openBlocks, 1, n)) = n
        /\ \A i \in 1 .. n : SubSeq(openBlocks, 1, n)[i] = openBlocks[i]
    <3>1. /\ Len(SubSeq(openBlocks, 1, n)) = IF 1 <= n THEN n - 1 + 1 ELSE 0
          /\ \A i \in 1 .. n - 1 + 1 : SubSeq(openBlocks, 1, n)[i] = openBlocks[1 + i - 1]
      BY <2>2, SubSeqProperties
    <3> QED
      BY <3>1
  <2> QED
    BY <2>1, <2>3 DEF Pop
<1>3. Kinds[n + 1].op = Top.type /\ \A i \in 1 .. n : Kinds'[i].op = Kinds[i].op
  <2>1. n + 1 \in 1 .. Len(openBlocks) /\ \A i \in 1 .. n : i \in 1 .. Len(openBlocks)
    BY <1>1
  <2> QED
    BY <1>1, <1>2, <2>1 DEF Kinds, Top
<1>4. j \in 1 .. n /\ j + 1 \in Nat /\ j + 1 <= n + 1
  BY <1>2
<1>5. Count(Kinds, T, j + 1, n + 1) =
        Count(Kinds, T, j + 1, n) + (IF Kinds[n + 1].op \in T THEN 1 ELSE 0)
  BY <1>4, CountNext
<1>6. Count(Kinds', T, j + 1, n) = Count(Kinds, T, j + 1, n)
  <2>1. \A k \in (j + 1) .. n : Kinds'[k].op \in T <=> Kinds[k].op \in T
    BY <1>3
  <2> QED
    BY <1>4, <2>1, CountSame
<1>7. Above(j, T)' + (IF Top.type \in T THEN 1 ELSE 0) = Above(j, T)
  BY <1>1, <1>2, <1>3, <1>5, <1>6 DEF Above
<1>8. openBlocks'[j] = openBlocks[j] /\ j \in 1 .. Len(openBlocks) /\ j # Len(openBlocks)
  BY <1>1, <1>2, <1>4
<1> QED
  BY <1>7, <1>8


------------------------------------------------------------------------------
(* The statements of the test pass keep what it tracks. *)

\* The jump tables only grow.
Grow ==
  DOMAIN ifData \subseteq DOMAIN ifData' /\ DOMAIN singleEnd \subseteq DOMAIN singleEnd'

LEMMA StoredKept ==
  ASSUME Grow, lines' = lines, NEW k, Stored(k)
  PROVE  Stored(k)'
BY DEF Grow, Stored

LEMMA EntryFacts ==
  ASSUME TypeOK, NEW j \in 1 .. Len(openBlocks), EntryInv(j)
  PROVE  openBlocks[j].line \in 1 .. index /\ openBlocks[j].type \in BlockTypes
<1>1. openBlocks[j] \in BlockEntry
  BY ElementOfSeq DEF TypeOK
<1>2. openBlocks[j].line \in 1 .. Len(lines) /\ openBlocks[j].type \in BlockTypes
  BY <1>1, TypeFacts DEF BlockEntry
<1> QED
  BY <1>2, TypeFacts DEF EntryInv

\* Statements that are no part of a block, and the lines they swallow.
LEMMA GapKeeps ==
  ASSUME TypeOK, Tracks, Grow, UNCHANGED <<lines, openBlocks>>,
         index' \in Nat, index <= index',
         \A k \in (index + 1) .. index' : lines[k].op \notin Blocks /\ Stored(k)'
  PROVE  Tracks'
<1>1. index \in Nat
  BY TypeFacts
<1>2. Balanced'
  <2>1. \A k \in (index + 1) .. index' : lines[k].op \notin Openers /\ lines[k].op \notin Closers
    BY DEF Blocks, Openers, Closers
  <2>2. /\ Count(lines, Openers, 1, index') = Count(lines, Openers, 1, index)
        /\ Count(lines, Closers, 1, index') = Count(lines, Closers, 1, index)
    BY <1>1, <2>1, CountGap
  <2> QED
    BY <2>2 DEF Tracks, Balanced
<1>3. \A k \in 1 .. index' : Stored(k)'
  <2>1. \A k \in 1 .. index' : k \in 1 .. index \/ k \in (index + 1) .. index'
    BY <1>1
  <2> QED
    BY <2>1, StoredKept DEF Tracks
<1>4. ASSUME NEW j \in 1 .. Len(openBlocks)
      PROVE  EntryInv(j)'
  <2>1. EntryInv(j)
    BY DEF Tracks
  <2>2. openBlocks[j].line \in 1 .. index
    BY <2>1, EntryFacts
  <2>3. \A T : Above(j, T)' = Above(j, T) /\ Above(j, T) \in Nat
    BY AboveIsNat DEF Above, Kinds
  <2>4. openBlocks[j].line <= index'
    BY <1>1, <2>2
  <2>5. DOMAIN singleEnd \subseteq DOMAIN singleEnd'
    BY DEF Grow
  <2>6. ASSUME openBlocks[j].type = "then"
        PROVE  StillOpen(openBlocks[j].line, "if", "else", "endif", Above(j, {"then", "else"}))'
    <3>1. StillOpen(openBlocks[j].line, "if", "else", "endif", Above(j, {"then", "else"}))
      BY <2>1, <2>6 DEF EntryInv
    <3>2. \A k \in (index + 1) .. index' : lines[k].op \notin {"if", "else", "endif"}
      BY DEF Blocks
    <3> QED
      BY <2>2, <2>3, <2>5, <3>1, <3>2, OpenOverGap
  <2>7. ASSUME openBlocks[j].type = "while"
        PROVE  StillOpen(openBlocks[j].line, "while", "endwhile", "endwhile", Above(j, {"while"}))'
    <3>1. StillOpen(openBlocks[j].line, "while", "endwhile", "endwhile", Above(j, {"while"}))
      BY <2>1, <2>7 DEF EntryInv
    <3>2. \A k \in (index + 1) .. index' : lines[k].op \notin {"while", "endwhile", "endwhile"}
      BY DEF Blocks
    <3> QED
      BY <2>2, <2>3, <2>5, <3>1, <3>2, OpenOverGap
  <2> QED
    BY <2>4, <2>6, <2>7 DEF EntryInv
<1> QED
  BY <1>2, <1>3, <1>4 DEF Tracks

\* An entry over which one line is tested: it has one entry more above it, or one
\* less, or as many as before.
LEMMA EntryKept ==
  ASSUME TypeOK, index < Len(lines), Grow, lines' = lines, index' = Line,
         NEW j \in 1 .. Len(openBlocks), EntryInv(j), openBlocks'[j] = openBlocks[j],
         \A T : Above(j, T)' \in Nat,
         Above(j, {"then", "else"})' + (IF lines[Line].op = "endif" THEN 1 ELSE 0) =
           Above(j, {"then", "else"}) + (IF lines[Line].op = "if" THEN 1 ELSE 0),
         Above(j, {"while"})' + (IF lines[Line].op = "endwhile" THEN 1 ELSE 0) =
           Above(j, {"while"}) + (IF lines[Line].op = "while" THEN 1 ELSE 0),
         openBlocks[j].type = "then" /\ lines[Line].op \in {"else", "endif"} =>
           Above(j, {"then", "else"}) # 0,
         openBlocks[j].type = "while" /\ lines[Line].op = "endwhile" =>
           Above(j, {"while"}) # 0
  PROVE  EntryInv(j)'
<1>1. PICK l \in 1 .. index : l = openBlocks[j].line
  BY EntryFacts
<1>2. DOMAIN singleEnd \subseteq DOMAIN singleEnd' /\ l <= index'
  BY <1>1, TypeFacts DEF Grow, Line
<1>3. ASSUME openBlocks[j].type = "then"
      PROVE  StillOpen(openBlocks[j].line, "if", "else", "endif", Above(j, {"then", "else"}))'
  <2>1. PICK n \in Nat : n = Above(j, {"then", "else"})
    BY AboveIsNat
  <2>2. PICK m \in Nat : m = Above(j, {"then", "else"})'
    OBVIOUS
  <2>3. StillOpen(l, "if", "else", "endif", n)
    BY <1>1, <1>3, <2>1 DEF EntryInv
  <2>4. m = IF lines[Line].op = "if" THEN n + 1
            ELSE IF lines[Line].op = "endif" THEN n - 1 ELSE n
    BY <2>1, <2>2
  <2>5. lines[Line].op \in {"else", "endif"} => n # 0
    BY <1>3, <2>1
  <2>6. StillOpen(l, "if", "else", "endif", m)'
    BY <1>2, <2>3, <2>4, <2>5, OpenOverLine
  <2> QED
    BY <1>1, <2>2, <2>6
<1>4. ASSUME openBlocks[j].type = "while"
      PROVE  StillOpen(openBlocks[j].line, "while", "endwhile", "endwhile", Above(j, {"while"}))'
  <2>1. PICK n \in Nat : n = Above(j, {"while"})
    BY AboveIsNat
  <2>2. PICK m \in Nat : m = Above(j, {"while"})'
    OBVIOUS
  <2>3. StillOpen(l, "while", "endwhile", "endwhile", n)
    BY <1>1, <1>4, <2>1 DEF EntryInv
  <2>4. m = IF lines[Line].op = "while" THEN n + 1
            ELSE IF lines[Line].op = "endwhile" THEN n - 1 ELSE n
    BY <2>1, <2>2
  <2>5. lines[Line].op \in {"endwhile", "endwhile"} => n # 0
    BY <1>4, <2>1
  <2>6. StillOpen(l, "while", "endwhile", "endwhile", m)'
    BY <1>2, <2>3, <2>4, <2>5, OpenOverLine
  <2> QED
    BY <1>1, <2>2, <2>6
<1> QED
  BY <1>1, <1>2, <1>3, <1>4 DEF EntryInv

LEMMA AboveNext ==
  ASSUME Len(openBlocks') \in Nat, NEW j \in Nat
  PROVE  \A T : Above(j, T)' \in Nat
<1>1. j + 1 \in Nat
  OBVIOUS
<1>2. \A T : Count(Kinds', T, j + 1, Len(openBlocks')) \in Nat
  BY <1>1, CountIsNat
<1> QED
  BY <1>2 DEF Above

\* One line is tested: what it says about the counters.
LEMMA LineCounts ==
  ASSUME TypeOK, index < Len(lines)
  PROVE  /\ index \in Nat /\ Line = index + 1 /\ Line \in Nat /\ Line <= Len(lines)
         /\ Count(lines, Openers, 1, Line) =
              Count(lines, Openers, 1, index) + (IF lines[Line].op \in Openers THEN 1 ELSE 0)
         /\ Count(lines, Closers, 1, Line) =
              Count(lines, Closers, 1, index) + (IF lines[Line].op \in Closers THEN 1 ELSE 0)
         /\ Count(lines, Openers, 1, index) \in Nat /\ Count(lines, Closers, 1, index) \in Nat
<1>1. index \in Nat /\ Line = index + 1 /\ Line \in Nat /\ Line <= Len(lines) /\ 1 <= index + 1
  BY TypeFacts DEF Line
<1>2. \A ops : Count(lines, ops, 1, index + 1) =
                 Count(lines, ops, 1, index) + (IF lines[index + 1].op \in ops THEN 1 ELSE 0)
  BY <1>1, CountNext
<1>3. \A ops : Count(lines, ops, 1, index) \in Nat
  BY <1>1, CountIsNat
<1> QED
  BY <1>1, <1>2, <1>3

\* if and while: findEndOfBlock() has found an end.
LEMMA PushKeeps ==
  ASSUME TypeOK, Tracks, Grow, index < Len(lines), lines' = lines, index' = Line,
         NEW type \in {"then", "while"},
         lines[Line].op = IF type = "then" THEN "if" ELSE "while",
         openBlocks' = Append(openBlocks, Entry(type, Line)),
         \A k \in {Line} : Stored(k)',
         type = "then" =>
           /\ IfEnds # {}
           /\ lines[First(IfEnds)].op # "endif" => First(IfEnds) \in DOMAIN singleEnd',
         type = "while" => WhileEnds # {} /\ First(WhileEnds) \in DOMAIN singleEnd'
  PROVE  Tracks'
<1>1. /\ index \in Nat /\ Line = index + 1 /\ Line \in Nat
      /\ Entry(type, Line) \in BlockEntry /\ openBlocks \in Seq(BlockEntry)
  BY LineCounts, TypeFacts DEF BlockTypes
<1>2. PICK n \in Nat : n = Len(openBlocks)
  BY <1>1, LenProperties
<1>3. /\ Len(openBlocks') = n + 1 /\ openBlocks'[n + 1] = Entry(type, Line)
      /\ \A j \in 1 .. n : openBlocks'[j] = openBlocks[j]
  BY <1>1, <1>2, AppendProperties
<1>4. Balanced'
  <2>1. lines[Line].op \in Openers /\ lines[Line].op \notin Closers
    BY DEF Openers, Closers
  <2>2. /\ Count(lines, Openers, 1, Line) = Count(lines, Openers, 1, index) + 1
        /\ Count(lines, Closers, 1, Line) = Count(lines, Closers, 1, index)
        /\ Count(lines, Openers, 1, index) \in Nat /\ Count(lines, Closers, 1, index) \in Nat
    BY <2>1, LineCounts
  <2>3. Count(lines, Openers, 1, index) = n + Count(lines, Closers, 1, index)
    BY <1>2 DEF Tracks, Balanced
  <2>4. Count(lines, Openers, 1, Line) = n + 1 + Count(lines, Closers, 1, Line)
    BY <2>2, <2>3
  <2> QED
    BY <1>3, <2>4 DEF Balanced
<1>5. \A k \in 1 .. index' : Stored(k)'
  <2>1. \A k \in 1 .. index' : k \in 1 .. index \/ k \in {Line}
    BY <1>1
  <2> QED
    BY <2>1, StoredKept DEF Tracks
<1>6. ASSUME NEW j \in 1 .. n
      PROVE  EntryInv(j)'
  <2>1. EntryInv(j) /\ j \in 1 .. Len(openBlocks) /\ openBlocks'[j] = openBlocks[j]
    BY <1>2, <1>3 DEF Tracks
  <2>2. Entry(type, Line).type = type
    BY DEF Entry
  <2>3. /\ Above(j, {"then", "else"})' =
             Above(j, {"then", "else"}) + (IF type \in {"then", "else"} THEN 1 ELSE 0)
        /\ Above(j, {"while"})' = Above(j, {"while"}) + (IF type \in {"while"} THEN 1 ELSE 0)
    BY <1>1, <2>1, <2>2, AbovePushed
  <2>4. \A T : Above(j, T)' \in Nat
    BY <1>3, AboveNext
  <2>5. \A T : Above(j, T) \in Nat
    BY <2>1, AboveIsNat
  <2>6. CASE type = "then"
    BY <2>1, <2>3, <2>4, <2>5, <2>6, EntryKept
  <2>7. CASE type = "while"
    BY <2>1, <2>3, <2>4, <2>5, <2>7, EntryKept
  <2> QED
    BY <2>6, <2>7
<1>7. ASSUME NEW p \in Nat, p = n + 1
      PROVE  EntryInv(p)'
  <2>1. openBlocks'[p].line = Line /\ openBlocks'[p].type = type /\ Line <= index'
    BY <1>1, <1>3, <1>7 DEF Entry
  <2>2. \A T : Above(p, T)' = 0
    <3>1. \A T : \A k \in (p + 1) .. Len(openBlocks') : Kinds'[k].op \notin T
      BY <1>3, <1>7
    <3> QED
      BY <1>3, <3>1, CountNothing DEF Above
  <2>3. \A q \in (Line + 1) .. index' : FALSE
    BY <1>1
  <2>4. \A ops : Count(lines, ops, Line + 1, index') = 0
    BY <1>1, <2>3, CountNothing
  <2>5. CASE type = "then"
    BY <2>1, <2>2, <2>3, <2>4, <2>5 DEF EntryInv, StillOpen, IfEnds
  <2>6. CASE type = "while"
    BY <2>1, <2>2, <2>3, <2>4, <2>6 DEF EntryInv, StillOpen, WhileEnds
  <2> QED
    BY <2>5, <2>6
<1>8. \A j \in 1 .. Len(openBlocks') : j \in 1 .. n \/ (j \in Nat /\ j = n + 1)
  BY <1>3
<1>9. \A j \in 1 .. Len(openBlocks') : EntryInv(j)'
  BY <1>6, <1>7, <1>8
<1> QED
  BY <1>4, <1>5, <1>9 DEF Tracks


\* The block on top of the stack is the one that else, endif or endwhile belongs to
\* for the scan that was made from its line, too.
LEMMA TopEnds ==
  ASSUME TypeOK, Tracks, index < Len(lines), openBlocks # <<>>,
         lines[Line].op \in Closers \cup {"else"}, Top.type \in Expected(lines[Line].op),
         lines[Line].op # "endif"
  PROVE  Line \in DOMAIN singleEnd
<1> DEFINE n == Len(openBlocks)
<1>1. n \in 1 .. n /\ n \in 1 .. Len(openBlocks)
  BY EmptySeq DEF TypeOK
<1>2. EntryInv(n) /\ openBlocks[n] = Top
  BY <1>1 DEF Tracks, Top
<1>3. PICK l \in 1 .. index : l = Top.line
  BY <1>1, <1>2, EntryFacts
<1>4. \A T : Above(n, T) = 0
  BY AboveTop
<1> HIDE DEF n
<1>5. CASE lines[Line].op = "else"
  <2>1. Top.type = "then"
    BY <1>5 DEF Expected
  <2>2. StillOpen(l, "if", "else", "endif", 0)
    BY <1>2, <1>3, <1>4, <2>1 DEF EntryInv
  <2> QED
    BY <1>5, <2>2, EndIsStored
<1>6. CASE lines[Line].op = "endwhile"
  <2>1. Top.type = "while"
    BY <1>6 DEF Expected
  <2>2. StillOpen(l, "while", "endwhile", "endwhile", 0)
    BY <1>2, <1>3, <1>4, <2>1 DEF EntryInv
  <2> QED
    BY <1>6, <2>2, EndIsStored
<1> QED
  BY <1>5, <1>6 DEF Closers

\* endif and endwhile.
LEMMA PopKeeps ==
  ASSUME TypeOK, Tracks, UNCHANGED <<lines, tables>>, index < Len(lines), index' = Line,
         openBlocks # <<>>, lines[Line].op \in Closers,
         Top.type \in Expected(lines[Line].op), openBlocks' = Pop(openBlocks)
  PROVE  Tracks'
<1>1. index \in Nat /\ Line = index + 1 /\ Line \in Nat
  BY LineCounts
<1>2. PICK n \in Nat : Len(openBlocks) = n + 1 /\ Len(openBlocks') = n
  <2>1. Len(openBlocks) \in Nat /\ Len(openBlocks) # 0
    BY EmptySeq, LenProperties DEF TypeOK
  <2>2. PICK n \in Nat : n = Len(openBlocks) - 1
    <3>1. Len(openBlocks) - 1 \in Nat
      BY <2>1
    <3> QED
      BY <3>1
  <2>3. Len(openBlocks) = n + 1
    BY <2>1, <2>2
  <2>4. \A i \in 1 .. n : openBlocks[i] \in BlockEntry
    BY <2>3, ElementOfSeq DEF TypeOK
  <2>5. Len(SubSeq(openBlocks, 1, n)) = IF 1 <= n THEN n - 1 + 1 ELSE 0
    BY <2>4, SubSeqProperties
  <2>6. Len(SubSeq(openBlocks, 1, n)) = n
    BY <2>5
  <2> QED
    BY <2>2, <2>3, <2>6 DEF Pop
<1>3. Balanced'
  <2>1. lines[Line].op \notin Openers
    BY DEF Openers, Closers
  <2>2. /\ Count(lines, Openers, 1, Line) = Count(lines, Openers, 1, index)
        /\ Count(lines, Closers, 1, Line) = Count(lines, Closers, 1, index) + 1
        /\ Count(lines, Openers, 1, index) \in Nat /\ Count(lines, Closers, 1, index) \in Nat
    BY <2>1, LineCounts
  <2>3. Count(lines, Openers, 1, index) = n + 1 + Count(lines, Closers, 1, index)
    BY <1>2 DEF Tracks, Balanced
  <2>4. Count(lines, Openers, 1, Line) = n + Count(lines, Closers, 1, Line)
    BY <2>2, <2>3
  <2> QED
    BY <1>2, <2>4 DEF Balanced
<1>4. Grow
  BY DEF tables, Grow
<1>5. \A k \in 1 .. index' : Stored(k)'
  <2>1. \A k \in 1 .. index' : k \in 1 .. index \/ k = Line
    BY <1>1
  <2>2. lines[Line].op # "endif" => Line \in DOMAIN singleEnd
    BY TopEnds
  <2>3. \A k \in {Line} : Stored(k)
    BY <2>2 DEF Stored, Closers, Leaves
  <2> QED
    BY <1>4, <2>1, <2>3, StoredKept DEF Tracks
<1>6. ASSUME NEW j \in 1 .. Len(openBlocks')
      PROVE  EntryInv(j)'
  <2>1. /\ \A T : Above(j, T)' + (IF Top.type \in T THEN 1 ELSE 0) = Above(j, T)
        /\ openBlocks'[j] = openBlocks[j] /\ j \in 1 .. Len(openBlocks)
    BY AbovePopped
  <2>2. EntryInv(j)
    BY <2>1 DEF Tracks
  <2>3. \A T : Above(j, T)' \in Nat
    BY <1>2, AboveNext
  <2>4. \A T : Above(j, T) \in Nat
    BY <2>1, AboveIsNat
  <2>5. CASE lines[Line].op = "endif"
    <3>1. Top.type \in {"then", "else"} /\ Top.type \notin {"while"}
      BY <2>5 DEF Expected
    <3>2. /\ Above(j, {"then", "else"})' + 1 = Above(j, {"then", "else"})
          /\ Above(j, {"while"})' = Above(j, {"while"})
      BY <2>1, <2>3, <2>4, <3>1
    <3>3. Above(j, {"then", "else"}) # 0
      BY <2>3, <3>2
    <3> QED
      BY <1>4, <2>1, <2>2, <2>3, <2>4, <2>5, <3>2, <3>3, EntryKept
  <2>6. CASE lines[Line].op = "endwhile"
    <3>1. Top.type \in {"while"} /\ Top.type \notin {"then", "else"}
      BY <2>6 DEF Expected
    <3>2. /\ Above(j, {"then", "else"})' = Above(j, {"then", "else"})
          /\ Above(j, {"while"})' + 1 = Above(j, {"while"})
      BY <2>1, <2>3, <2>4, <3>1
    <3>3. Above(j, {"while"}) # 0
      BY <2>3, <3>2
    <3> QED
      BY <1>4, <2>1, <2>2, <2>3, <2>4, <2>6, <3>2, <3>3, EntryKept
  <2> QED
    BY <2>5, <2>6 DEF Closers
<1> QED
  BY <1>3, <1>5, <1>6 DEF Tracks

\* else replaces the entry of its if.
LEMMA ElseKeeps ==
  ASSUME TypeOK, Tracks, UNCHANGED <<lines, tables>>, index < Len(lines), index' = Line,
         openBlocks # <<>>, lines[Line].op = "else", Top.type = "then",
         openBlocks' = [openBlocks EXCEPT ![Len(openBlocks)] = Entry("else", Line)]
  PROVE  Tracks'
<1>1. index \in Nat /\ Line = index + 1 /\ Line \in Nat /\ Entry("else", Line) \in BlockEntry
  BY LineCounts, TypeFacts DEF BlockTypes
<1>2. PICK n \in Nat : Len(openBlocks) = n /\ n \in 1 .. Len(openBlocks)
  BY EmptySeq DEF TypeOK
<1>3. /\ Len(openBlocks') = n
      /\ \A i \in 1 .. n : openBlocks'[i] = IF i = n THEN Entry("else", Line) ELSE openBlocks[i]
  BY <1>1, <1>2, ExceptSeq DEF TypeOK
<1>4. Balanced'
  <2>1. lines[Line].op \notin Openers /\ lines[Line].op \notin Closers
    BY DEF Openers, Closers
  <2>2. /\ Count(lines, Openers, 1, Line) = Count(lines, Openers, 1, index)
        /\ Count(lines, Closers, 1, Line) = Count(lines, Closers, 1, index)
    BY <2>1, LineCounts
  <2> QED
    BY <1>2, <1>3, <2>2 DEF Balanced, Tracks
<1>5. Grow
  BY DEF tables, Grow
<1>6. \A k \in 1 .. index' : Stored(k)'
  <2>1. \A k \in 1 .. index' : k \in 1 .. index \/ k = Line
    BY <1>1
  <2>2. Line \in DOMAIN singleEnd
    BY TopEnds DEF Expected
  <2>3. \A k \in {Line} : Stored(k)
    BY <2>2 DEF Stored
  <2> QED
    BY <1>5, <2>1, <2>3, StoredKept DEF Tracks
<1>7. Kinds'[n].op = "else" /\ Kinds[n].op = "then" /\ \A i \in 1 .. n : i # n => Kinds'[i].op = Kinds[i].op
  BY <1>2, <1>3 DEF Kinds, Entry, Top
<1>8. ASSUME NEW j \in 1 .. n, j # n
      PROVE  EntryInv(j)'
  <2>1. EntryInv(j) /\ j \in 1 .. Len(openBlocks) /\ openBlocks'[j] = openBlocks[j] /\ j + 1 \in Nat
    BY <1>2, <1>3, <1>8 DEF Tracks
  <2>2. \A T : Above(j, T)' \in Nat
    BY <1>3, AboveNext
  <2>3. \A T : Above(j, T) \in Nat
    BY <2>1, AboveIsNat
  <2>4. Above(j, {"then", "else"})' = Above(j, {"then", "else"})
    <3>1. \A k \in (j + 1) .. n :
            Kinds'[k].op \in {"then", "else"} <=> Kinds[k].op \in {"then", "else"}
      BY <1>7
    <3>2. Count(Kinds', {"then", "else"}, j + 1, n) = Count(Kinds, {"then", "else"}, j + 1, n)
      BY <2>1, <3>1, CountSame
    <3> QED
      BY <1>2, <1>3, <3>2 DEF Above
  <2>5. Above(j, {"while"})' = Above(j, {"while"})
    <3>1. \A k \in (j + 1) .. n : Kinds'[k].op \in {"while"} <=> Kinds[k].op \in {"while"}
      BY <1>7
    <3>2. Count(Kinds', {"while"}, j + 1, n) = Count(Kinds, {"while"}, j + 1, n)
      BY <2>1, <3>1, CountSame
    <3> QED
      BY <1>2, <1>3, <3>2 DEF Above
  <2>6. Above(j, {"then", "else"}) # 0
    <3>1. n \in (j + 1) .. n /\ Kinds[n].op \in {"then", "else"}
      BY <1>2, <1>7, <1>8
    <3>2. Count(Kinds, {"then", "else"}, j + 1, n) >= 1
      BY <2>1, <3>1, CountSomething
    <3> QED
      BY <1>2, <3>2 DEF Above
  <2> QED
    BY <1>5, <2>1, <2>2, <2>3, <2>4, <2>5, <2>6, EntryKept
<1>9. EntryInv(n)'
  BY <1>1, <1>2, <1>3 DEF EntryInv, Entry
<1> QED
  BY <1>3, <1>4, <1>6, <1>8, <1>9 DEF Tracks


------------------------------------------------------------------------------
(* The steps of testAndRun() for Sound scripts. *)

\* The lines up to the end of an inner script or here document: no keyword in them.
LEMMA ScriptBody ==
  ASSUME TypeOK, BodiesPlain(lines), index < Len(lines), lines[Line].op = "script",
         EndScripts # {}
  PROVE  /\ First(EndScripts) \in (Line + 2) .. Len(lines) /\ Line \in Nat
         /\ \A k \in (Line + 1) .. First(EndScripts) : lines[k].op \in {"plain", "endscript"}
<1>1. Line \in Nat /\ Line \in DOMAIN lines /\ DOMAIN lines = 1 .. Len(lines) /\ Len(lines) \in Nat
  BY TypeFacts DEF Line
<1>2. /\ First(EndScripts) \in EndScripts /\ EndScripts \subseteq (Line + 2) .. Len(lines)
      /\ \A r \in EndScripts : First(EndScripts) <= r
  BY EndsAreLines, FirstIsLeast, TypeFacts
<1>3. lines[First(EndScripts)].op = "endscript" /\ First(EndScripts) \in (Line + 2) .. Len(lines)
  BY <1>2 DEF EndScripts
<1>4. lines[Line + 1].op # "endscript"
  BY <1>1 DEF BodiesPlain
<1>5. \A k \in (Line + 1) .. First(EndScripts) - 1 : lines[k].op # "endscript"
  <2> TAKE k \in (Line + 1) .. First(EndScripts) - 1
  <2>1. CASE k = Line + 1
    BY <1>4, <2>1
  <2>2. CASE k # Line + 1
    <3>1. k \in (Line + 2) .. Len(lines) /\ ~ (First(EndScripts) <= k)
      BY <1>1, <1>3, <2>2
    <3>2. k \notin EndScripts
      BY <1>2, <3>1
    <3> QED
      BY <3>1, <3>2 DEF EndScripts
  <2> QED
    BY <2>1, <2>2
<1>6. ASSUME NEW k \in (Line + 1) .. First(EndScripts), k # First(EndScripts)
      PROVE  lines[k].op = "plain"
  <2>1. k \in DOMAIN lines /\ Line < k
    BY <1>1, <1>3
  <2>2. \A m \in (Line + 1) .. k : m \in (Line + 1) .. First(EndScripts) - 1
    BY <1>1, <1>3, <1>6
  <2>3. InScript(lines, Line, k)
    BY <1>5, <2>1, <2>2 DEF InScript
  <2> QED
    BY <1>1, <2>1, <2>3 DEF BodiesPlain
<1> QED
  BY <1>1, <1>3, <1>6

LEMMA TextBody ==
  ASSUME TypeOK, BodiesPlain(lines), index < Len(lines), lines[Line].op = "here",
         Markers # {}
  PROVE  /\ First(Markers) \in (Line + 1) .. Len(lines) /\ Line \in Nat
         /\ \A k \in (Line + 1) .. First(Markers) : lines[k].op \in {"plain", "marker"}
<1>1. Line \in Nat /\ Line \in DOMAIN lines /\ DOMAIN lines = 1 .. Len(lines) /\ Len(lines) \in Nat
  BY TypeFacts DEF Line
<1>2. /\ First(Markers) \in Markers /\ Markers \subseteq (Line + 1) .. Len(lines)
      /\ \A r \in Markers : First(Markers) <= r
  BY EndsAreLines, FirstIsLeast, TypeFacts
<1>3. lines[First(Markers)].op = "marker" /\ First(Markers) \in (Line + 1) .. Len(lines)
  BY <1>2 DEF Markers
<1>4. \A k \in (Line + 1) .. First(Markers) - 1 : lines[k].op # "marker"
  <2> TAKE k \in (Line + 1) .. First(Markers) - 1
  <2>1. k \in (Line + 1) .. Len(lines) /\ ~ (First(Markers) <= k)
    BY <1>1, <1>3
  <2>2. k \notin Markers
    BY <1>2, <2>1
  <2> QED
    BY <2>1, <2>2 DEF Markers
<1>5. ASSUME NEW k \in (Line + 1) .. First(Markers), k # First(Markers)
      PROVE  lines[k].op = "plain"
  <2>1. k \in DOMAIN lines /\ Line < k
    BY <1>1, <1>3
  <2>2. \A m \in (Line + 1) .. k : m \in (Line + 1) .. First(Markers) - 1
    BY <1>1, <1>3, <1>5
  <2>3. InText(lines, Line, k)
    BY <1>4, <2>1, <2>2 DEF InText
  <2> QED
    BY <1>1, <2>1, <2>3 DEF BodiesPlain
<1> QED
  BY <1>1, <1>3, <1>5

\* A leave that is accepted has found a block end: the count that is left is 0 only
\* when there is none.
LEMMA LeaveFindsEnd ==
  ASSUME TypeOK, LeavesSomething(lines), index < Len(lines), lines[Line].op \in Leaves,
         lines[Line].arg = Count(lines, Closers, Line + 1, Len(lines))
  PROVE  Targets # {}
<1>1. /\ Line \in DOMAIN lines /\ Line + 1 \in Nat /\ Len(lines) \in Nat
      /\ lines[Line].arg \in Nat
  BY TypeFacts DEF Line
<1>2. lines[Line].arg >= 1
  BY <1>1 DEF LeavesSomething, Leaves
<1>3. Count(lines, Closers, Line + 1, Len(lines)) # 0
  BY <1>1, <1>2
<1>4. PICK q \in (Line + 1) .. Len(lines) :
        lines[q].op \in Closers /\ Count(lines, Closers, Line + 1, q) = lines[Line].arg
  BY <1>1, <1>3, CountLast
<1> QED
  BY <1>4 DEF Targets, LeaveEnds

\* The test pass does not ask an empty stack for its top.
LEMMA NoStray ==
  ASSUME TypeOK, Tracks, NoStrayEnd(lines), index < Len(lines),
         lines[Line].op \in Closers \cup {"else"}
  PROVE  openBlocks # <<>>
<1> SUFFICES ASSUME openBlocks = <<>> PROVE FALSE
  OBVIOUS
<1>1. Count(lines, Openers, 1, index) = Count(lines, Closers, 1, index)
  <2>1. /\ Count(lines, Openers, 1, index) = Len(openBlocks) + Count(lines, Closers, 1, index)
        /\ Len(openBlocks) = 0 /\ Count(lines, Closers, 1, index) \in Nat
    BY LineCounts DEF Tracks, Balanced
  <2> QED
    BY <2>1
<1>2. Line \in DOMAIN lines
  BY TypeFacts
<1>3. /\ Count(lines, Closers, 1, Line) <= Count(lines, Openers, 1, Line)
      /\ lines[Line].op = "else" => Count(lines, Closers, 1, Line) < Count(lines, Openers, 1, Line)
  BY <1>2 DEF NoStrayEnd
<1>4. lines[Line].op \notin Openers
  BY DEF Openers, Closers
<1>5. /\ Count(lines, Openers, 1, Line) = Count(lines, Openers, 1, index)
      /\ Count(lines, Openers, 1, index) \in Nat
      /\ Count(lines, Closers, 1, Line) =
           Count(lines, Closers, 1, index) + (IF lines[Line].op \in Closers THEN 1 ELSE 0)
  BY <1>4, LineCounts
<1>6. CASE lines[Line].op \in Closers
  BY <1>1, <1>3, <1>5, <1>6
<1>7. CASE lines[Line].op = "else"
  <2>1. lines[Line].op \notin Closers
    BY <1>7 DEF Closers
  <2> QED
    BY <1>1, <1>3, <1>5, <1>7, <2>1
<1> QED
  BY <1>6, <1>7


\* One statement that is no part of a block: plain, leave, script, here.
LEMMA LineKeeps ==
  ASSUME TypeOK, Tracks, Grow, UNCHANGED <<lines, openBlocks>>, index < Len(lines),
         NEW e \in Line .. Len(lines), index' = e, lines[Line].op \notin Blocks,
         \A k \in {Line} : Stored(k)',
         \A k \in (Line + 1) .. e : lines[k].op \in {"plain", "endscript", "marker"}
  PROVE  Tracks'
<1>1. /\ index \in Nat /\ Line = index + 1 /\ Len(lines) \in Nat /\ index' \in Nat
      /\ index <= index'
  BY LineCounts, TypeFacts
<1>2. \A k \in (index + 1) .. index' : k = Line \/ k \in (Line + 1) .. e
  BY <1>1
<1>3. \A k \in (Line + 1) .. e : lines[k].op \notin Blocks /\ Stored(k)'
  BY DEF Blocks, Stored, Leaves
<1> QED
  BY <1>1, <1>2, <1>3, GapKeeps

LEMMA PutGrows ==
  ASSUME NEW f, NEW k, NEW v
  PROVE  DOMAIN Put(f, k, v) = DOMAIN f \cup {k}
BY DEF Put

LEMMA CheckTracks ==
  ASSUME TypeOK, Sound(lines), phase = "check", Tracks, CheckStatement
  PROVE  phase' # "undefined" /\ (phase' = "check" => Tracks')
<1>1. index < Len(lines)
  BY DEF CheckStatement, CheckPlain, CheckBad, CheckIf, CheckIfWithElse,
         CheckIfWithoutEnd, CheckWhile, CheckWhileWithoutEnd, CheckElse, CheckEnd,
         CheckMisplaced, CheckStray, CheckLeave, CheckLeaveWithoutEnd, CheckScript,
         CheckScriptWithoutEnd, CheckScriptTwice, CheckScriptLast, At
<1>2. /\ Line \in Nat /\ Line \in Line .. Len(lines) /\ Line = index + 1
      /\ lines[index + 1].op = lines[Line].op
      /\ \A k \in (Line + 1) .. Line : FALSE /\ Len(lines) \in Nat /\ Line \in DOMAIN lines
  BY <1>1, LineCounts, TypeFacts
<1>3. BodiesPlain(lines) /\ NoStrayEnd(lines) /\ LeavesSomething(lines)
  BY DEF Sound
<1>4. CASE CheckPlain
  <2>1. lines[Line].op \in Stops \cup {"plain", "endscript"} /\ index' = Line
        /\ UNCHANGED <<lines, phase, tables, openBlocks>>
    BY <1>2, <1>4 DEF CheckPlain, At
  <2>2. lines[Line].op \notin Blocks /\ \A k \in {Line} : Stored(k)'
    BY <2>1 DEF Stops, Blocks, Stored, Leaves
  <2>3. Tracks'
    BY <1>1, <1>2, <2>1, <2>2, LineKeeps DEF tables, Grow
  <2> QED
    BY <2>1, <2>3
<1>5. CASE \/ CheckBad \/ CheckIfWithoutEnd \/ CheckWhileWithoutEnd \/ CheckMisplaced
           \/ CheckScriptWithoutEnd \/ CheckScriptTwice
  BY <1>5 DEF CheckBad, CheckIfWithoutEnd, CheckWhileWithoutEnd, CheckMisplaced,
              CheckScriptWithoutEnd, CheckScriptTwice
<1>6. CASE CheckIf
  <2>1. /\ lines[Line].op = "if" /\ index' = Line /\ IfEnds # {}
        /\ openBlocks' = Append(openBlocks, Entry("then", Line))
        /\ lines[First(IfEnds)].op = "endif"
        /\ DOMAIN ifData' = DOMAIN ifData \cup {Line}
        /\ UNCHANGED <<lines, phase, singleEnd>>
    BY <1>2, <1>6, PutGrows DEF CheckIf, At
  <2>2. Grow /\ \A k \in {Line} : Stored(k)'
    BY <2>1 DEF Grow, Stored, Leaves
  <2>3. Tracks'
    BY <1>1, <2>1, <2>2, PushKeeps
  <2> QED
    BY <2>1, <2>3
<1>7. CASE CheckIfWithElse
  <2>1. /\ lines[Line].op = "if" /\ index' = Line /\ IfEnds # {}
        /\ openBlocks' = Append(openBlocks, Entry("then", Line))
        /\ DOMAIN ifData' = DOMAIN ifData \cup {Line}
        /\ DOMAIN singleEnd' = DOMAIN singleEnd \cup {First(IfEnds)}
        /\ UNCHANGED <<lines, phase>>
    BY <1>2, <1>7, PutGrows DEF CheckIfWithElse, At
  <2>2. Grow /\ \A k \in {Line} : Stored(k)'
    BY <2>1 DEF Grow, Stored, Leaves
  <2>3. Tracks'
    BY <1>1, <2>1, <2>2, PushKeeps
  <2> QED
    BY <2>1, <2>3
<1>8. CASE CheckWhile
  <2>1. /\ lines[Line].op = "while" /\ index' = Line /\ WhileEnds # {}
        /\ openBlocks' = Append(openBlocks, Entry("while", Line))
        /\ DOMAIN singleEnd' = DOMAIN singleEnd \cup {Line} \cup {First(WhileEnds)}
        /\ UNCHANGED <<lines, phase, ifData>>
    <3>1. singleEnd' = Put(Put(singleEnd, Line, First(WhileEnds)), First(WhileEnds), Line - 1)
      BY <1>8 DEF CheckWhile
    <3>2. PICK f : f = Put(singleEnd, Line, First(WhileEnds))
      OBVIOUS
    <3>3. DOMAIN f = DOMAIN singleEnd \cup {Line}
      BY <3>2, PutGrows
    <3>4. DOMAIN singleEnd' = DOMAIN f \cup {First(WhileEnds)}
      BY <3>1, <3>2, PutGrows
    <3> QED
      BY <1>2, <1>8, <3>3, <3>4 DEF CheckWhile, At
  <2>2. Grow /\ \A k \in {Line} : Stored(k)'
    BY <2>1 DEF Grow, Stored, Leaves
  <2>3. Tracks'
    BY <1>1, <2>1, <2>2, PushKeeps
  <2> QED
    BY <2>1, <2>3
<1>9. CASE CheckElse
  <2>1. /\ lines[Line].op = "else" /\ index' = Line /\ openBlocks # <<>>
        /\ Top.type \in Expected("else")
        /\ openBlocks' = [openBlocks EXCEPT ![Len(openBlocks)] = Entry("else", Line)]
        /\ UNCHANGED <<lines, phase, tables>>
    BY <1>2, <1>9 DEF CheckElse, At
  <2>2. Top.type = "then"
    BY <2>1 DEF Expected
  <2>3. Tracks'
    BY <1>1, <2>1, <2>2, ElseKeeps
  <2> QED
    BY <2>1, <2>3
<1>10. CASE CheckEnd
  <2>1. /\ lines[Line].op \in Closers /\ index' = Line /\ openBlocks # <<>>
        /\ Top.type \in Expected(lines[Line].op)
        /\ openBlocks' = Pop(openBlocks)
        /\ UNCHANGED <<lines, phase, tables>>
    BY <1>2, <1>10 DEF CheckEnd, At
  <2>2. Tracks'
    BY <1>1, <2>1, PopKeeps
  <2> QED
    BY <2>1, <2>2
<1>11. CASE CheckStray
  <2>1. lines[Line].op \in Closers \cup {"else"} /\ openBlocks = <<>>
    BY <1>2, <1>11 DEF CheckStray, At
  <2> QED
    BY <1>1, <1>3, <2>1, NoStray
<1>12. CASE CheckScriptLast
  <2>1. lines[Line].op = "script" /\ Line = Len(lines)
    BY <1>2, <1>12 DEF CheckScriptLast, At
  <2>2. Line \in DOMAIN lines /\ Len(lines) \in Nat
    BY <1>1, TypeFacts
  <2>3. Line < Len(lines)
    BY <1>3, <2>1, <2>2 DEF BodiesPlain
  <2> QED
    BY <2>1, <2>2, <2>3
<1>13. CASE CheckLeave
  <2>1. /\ lines[Line].op \in Leaves /\ index' = Line
        /\ DOMAIN singleEnd' = DOMAIN singleEnd \cup {Line}
        /\ UNCHANGED <<lines, phase, ifData, openBlocks>>
    BY <1>2, <1>13, PutGrows DEF CheckLeave, At
  <2>2. lines[Line].op \notin Blocks /\ Grow /\ \A k \in {Line} : Stored(k)'
    BY <2>1 DEF Blocks, Grow, Stored, Leaves
  <2>3. Tracks'
    BY <1>1, <1>2, <2>1, <2>2, LineKeeps
  <2> QED
    BY <2>1, <2>3
<1>14. CASE CheckLeaveWithoutEnd
  <2>1. /\ lines[Line].op \in Leaves /\ Targets = {}
        /\ phase' = IF lines[Line].arg = Count(lines, Closers, Line + 1, Len(lines))
                    THEN phase ELSE "failed"
    BY <1>2, <1>14 DEF CheckLeaveWithoutEnd, At
  <2>2. lines[Line].arg # Count(lines, Closers, Line + 1, Len(lines))
    BY <1>1, <1>3, <2>1, LeaveFindsEnd
  <2> QED
    BY <2>1, <2>2
<1>15. CASE CheckScript
  <2>1. /\ lines[Line].op = "script" /\ EndScripts # {} /\ index' = First(EndScripts)
        /\ DOMAIN singleEnd' = DOMAIN singleEnd \cup {Line}
        /\ UNCHANGED <<lines, phase, ifData, openBlocks>>
    BY <1>2, <1>15, PutGrows DEF CheckScript, At
  <2>2. lines[Line].op \notin Blocks /\ Grow /\ \A k \in {Line} : Stored(k)'
    BY <2>1 DEF Blocks, Grow, Stored, Leaves
  <2>3. /\ First(EndScripts) \in (Line + 2) .. Len(lines) /\ Line \in Nat
        /\ \A k \in (Line + 1) .. First(EndScripts) : lines[k].op \in {"plain", "endscript"}
    BY <1>1, <1>3, <2>1, ScriptBody
  <2>4. First(EndScripts) \in Line .. Len(lines)
    BY <2>3
  <2>5. PICK e \in Line .. Len(lines) : e = First(EndScripts)
    BY <2>4
  <2>6. Tracks'
    BY <1>1, <2>1, <2>2, <2>3, <2>5, LineKeeps
  <2> QED
    BY <2>1, <2>6
<1> QED
  BY <1>4, <1>5, <1>6, <1>7, <1>8, <1>9, <1>10, <1>11, <1>12, <1>13, <1>14, <1>15
     DEF CheckStatement

\* A here document is skipped in both passes.
LEMMA TextTracks ==
  ASSUME TypeOK, Sound(lines), phase = "check", Tracks,
         HereDocument \/ HereDocumentWithoutMarker
  PROVE  phase' # "undefined" /\ (phase' = "check" => Tracks')
<1>1. /\ index < Len(lines) /\ lines[index + 1].op = "here"
      /\ UNCHANGED <<lines, tables, openBlocks>>
  BY DEF HereDocument, HereDocumentWithoutMarker, At
<1>2. Line = index + 1 /\ Line \in Nat
  BY <1>1, LineCounts
<1>3. CASE HereDocumentWithoutMarker
  BY <1>3 DEF HereDocumentWithoutMarker
<1>4. CASE HereDocument
  <2>1. lines[Line].op = "here" /\ Markers # {} /\ index' = First(Markers) /\ phase' = phase
    BY <1>1, <1>2, <1>4 DEF HereDocument
  <2>2. lines[Line].op \notin Blocks /\ Grow /\ \A k \in {Line} : Stored(k)'
    BY <1>1, <2>1 DEF Blocks, Grow, Stored, Leaves, tables
  <2>3. /\ First(Markers) \in (Line + 1) .. Len(lines)
        /\ \A k \in (Line + 1) .. First(Markers) : lines[k].op \in {"plain", "marker"}
    BY <1>1, <2>1, TextBody DEF Sound
  <2>4. First(Markers) \in Line .. Len(lines)
    BY <1>2, <2>3
  <2>5. PICK e \in Line .. Len(lines) : e = First(Markers)
    BY <2>4
  <2>6. Tracks'
    BY <1>1, <2>1, <2>2, <2>3, <2>5, LineKeeps
  <2> QED
    BY <2>1, <2>6
<1> QED
  BY <1>3, <1>4


\* run() finds every jump it looks up: it leaves the tables alone.
LEMMA RunTracks ==
  ASSUME TypeOK, phase = "run", RunInv, tested,
         RunStatement \/ HereDocument \/ HereDocumentWithoutMarker
  PROVE  phase' # "undefined" /\ UNCHANGED <<lines, tables, tested>>
<1>1. index < Len(lines) /\ lines[index + 1] = lines[Line] /\ UNCHANGED <<lines, tested>>
  BY DEF RunStatement, RunPlain, RunFails, RunExit, RunIf, RunWhile, RunWhileEnter,
         RunJump, RunLeaveIf, RunLeaveIfStay, RunEndWhile, RunEndWhileWithoutEntry,
         RunWithoutEntry, HereDocument, HereDocumentWithoutMarker, At, Undefined, Line
<1>2. Stored(Line)
  BY <1>1, TypeFacts DEF RunInv
<1>3. CASE RunWithoutEntry \/ RunEndWhileWithoutEntry
  BY <1>1, <1>2, <1>3 DEF RunWithoutEntry, RunEndWhileWithoutEntry, Stored, At
<1>4. CASE \/ RunPlain \/ RunFails \/ RunExit \/ RunIf \/ RunWhile \/ RunWhileEnter
           \/ RunJump \/ RunLeaveIf \/ RunLeaveIfStay \/ RunEndWhile
           \/ HereDocument \/ HereDocumentWithoutMarker
  BY <1>1, <1>4 DEF RunPlain, RunFails, RunExit, RunIf, RunWhile, RunWhileEnter,
         RunJump, RunLeaveIf, RunLeaveIfStay, RunEndWhile, HereDocument,
         HereDocumentWithoutMarker, tables
<1> QED
  BY <1>3, <1>4 DEF RunStatement

\* In which phase each step is taken.
LEMMA StepPhases ==
  /\ CheckStatement => phase = "check" /\ UNCHANGED <<lines, tested, resumed>>
                       /\ phase' \in {"check", "failed", "undefined"}
  /\ RunStatement => phase = "run" /\ UNCHANGED <<lines, tested, resumed>>
                     /\ phase' \in {"run", "done", "undefined"}
  /\ HereDocument \/ HereDocumentWithoutMarker =>
       /\ UNCHANGED <<lines, tested, resumed>>
       /\ \/ phase = "check" /\ phase' \in {"check", "failed"}
          \/ phase = "run" /\ phase' \in {"run", "done"}
<1>1. CheckStatement => phase = "check" /\ UNCHANGED <<lines, tested, resumed>>
                        /\ phase' \in {"check", "failed", "undefined"}
  BY DEF CheckStatement, CheckPlain, CheckBad, CheckIf, CheckIfWithElse,
         CheckIfWithoutEnd, CheckWhile, CheckWhileWithoutEnd, CheckElse, CheckEnd,
         CheckMisplaced, CheckStray, CheckLeave, CheckLeaveWithoutEnd, CheckScript,
         CheckScriptWithoutEnd, CheckScriptTwice, CheckScriptLast, At, Undefined
<1>2. RunStatement => phase = "run" /\ UNCHANGED <<lines, tested, resumed>>
                      /\ phase' \in {"run", "done", "undefined"}
  BY DEF RunStatement, RunPlain, RunFails, RunExit, RunIf, RunWhile, RunWhileEnter,
         RunJump, RunLeaveIf, RunLeaveIfStay, RunEndWhile, RunEndWhileWithoutEntry,
         RunWithoutEntry, At, Undefined
<1>3. HereDocument \/ HereDocumentWithoutMarker =>
        /\ UNCHANGED <<lines, tested, resumed>>
        /\ \/ phase = "check" /\ phase' \in {"check", "failed"}
           \/ phase = "run" /\ phase' \in {"run", "done"}
  BY DEF HereDocument, HereDocumentWithoutMarker, At
<1> QED
  BY <1>1, <1>2, <1>3

LEMMA FlowInit == Init => FlowInv
<1> SUFFICES ASSUME Init PROVE FlowInv
  OBVIOUS
<1>1. TypeOK
  BY TypeInit
<1>2. phase = "idle" /\ ~tested /\ index = 0 /\ openBlocks = <<>> /\ ~resumed
  BY DEF Init
<1> QED
  BY <1>1, <1>2 DEF FlowInv, PassInv, RunInv

LEMMA FlowNext == FlowInv /\ [Next]_vars => FlowInv'
<1> SUFFICES ASSUME FlowInv, [Next]_vars PROVE FlowInv'
  OBVIOUS
<1>1. TypeOK /\ PassInv
  BY DEF FlowInv
<1>2. TypeOK'
  <2>1. CASE UNCHANGED vars
    BY <1>1, <2>1 DEF vars, TypeOK, IsTable, IfJump, BlockEntry
  <2>2. CASE Next
    BY <1>1, <2>2, TypeStart, TypeCheck, TypeRun DEF Next
  <2> QED
    BY <2>1, <2>2
<1>3. ASSUME Sound(lines), ~resumed
      PROVE  phase # "undefined" /\ (phase = "check" => Tracks) /\ RunInv
  BY <1>3 DEF FlowInv
<1>4. CASE StartCheck
  <2>1. /\ ~tested /\ phase' = "check" /\ resumed' = (phase = "failed")
        /\ phase = "idle" \/ phase = "failed"
        /\ UNCHANGED <<lines, index, tables, openBlocks, tested>>
    BY <1>4 DEF StartCheck
  <2>2. PassInv' /\ RunInv'
    BY <2>1 DEF PassInv, RunInv
  <2>3. ASSUME ~resumed' PROVE Tracks'
    <3>1. phase = "idle" /\ index' = 0 /\ openBlocks' = <<>>
      BY <1>1, <2>1, <2>3 DEF PassInv
    <3>2. \A ops : Count(lines', ops, 1, index') = 0
      <4>1. \A k \in 1 .. 0 : FALSE
        OBVIOUS
      <4> QED
        BY <3>1, <4>1, CountNothing
    <3> QED
      BY <3>1, <3>2 DEF Tracks, Balanced
  <2> QED
    BY <1>2, <2>1, <2>2, <2>3 DEF FlowInv
<1>5. CASE EndCheck
  <2>1. /\ phase = "check" /\ index >= Len(lines) /\ tested' = TRUE /\ phase' = "run"
        /\ UNCHANGED <<lines, tables, resumed>>
    BY <1>5 DEF EndCheck
  <2>2. PassInv'
    BY <2>1 DEF PassInv
  <2>3. ASSUME Sound(lines), ~resumed PROVE RunInv'
    <3>1. \A k \in DOMAIN lines : k \in 1 .. index
      BY <1>1, <2>1, TypeFacts
    <3>2. \A k \in DOMAIN lines : Stored(k)
      BY <1>3, <2>1, <2>3, <3>1 DEF Tracks
    <3> QED
      BY <2>1, <3>2 DEF RunInv, Stored, tables
  <2> QED
    BY <1>2, <2>1, <2>2, <2>3 DEF FlowInv
<1>6. CASE EndCheckOpen \/ StartRun \/ EndRun
  <2>1. /\ UNCHANGED <<lines, tables, tested, resumed>>
        /\ \/ phase = "check" /\ phase' = "failed"
           \/ tested /\ phase' = "run"
           \/ phase = "run" /\ phase' = "done"
    BY <1>6 DEF EndCheckOpen, StartRun, EndRun
  <2>2. PassInv'
    BY <1>1, <2>1 DEF PassInv
  <2>3. RunInv => RunInv'
    BY <2>1 DEF RunInv, Stored, tables
  <2> QED
    BY <1>2, <1>3, <2>1, <2>2, <2>3 DEF FlowInv
<1>7. CASE CheckStatement \/ ((HereDocument \/ HereDocumentWithoutMarker) /\ phase = "check")
  <2>1. /\ phase = "check" /\ UNCHANGED <<lines, tested, resumed>>
        /\ phase' \in {"check", "failed", "undefined"} /\ ~tested
    BY <1>1, <1>7, StepPhases DEF PassInv
  <2>2. PassInv' /\ RunInv'
    BY <2>1 DEF PassInv, RunInv
  <2>3. ASSUME Sound(lines), ~resumed
        PROVE  phase' # "undefined" /\ (phase' = "check" => Tracks')
    BY <1>1, <1>3, <1>7, <2>1, <2>3, CheckTracks, TextTracks
  <2> QED
    BY <1>2, <2>1, <2>2, <2>3 DEF FlowInv
<1>8. CASE RunStatement \/ ((HereDocument \/ HereDocumentWithoutMarker) /\ phase = "run")
  <2>1. /\ phase = "run" /\ UNCHANGED <<lines, tested, resumed>>
        /\ phase' \in {"run", "done", "undefined"} /\ tested
    BY <1>1, <1>8, StepPhases DEF PassInv
  <2>2. PassInv'
    BY <2>1 DEF PassInv
  <2>3. ASSUME Sound(lines), ~resumed
        PROVE  phase' # "undefined" /\ RunInv'
    <3>1. phase' # "undefined" /\ UNCHANGED <<lines, tables, tested>> /\ RunInv
      BY <1>1, <1>3, <1>8, <2>1, <2>3, RunTracks
    <3> QED
      BY <3>1 DEF RunInv, Stored, tables
  <2> QED
    BY <1>2, <2>1, <2>2, <2>3 DEF FlowInv
<1>9. CASE UNCHANGED vars
  <2>1. /\ lines' = lines /\ phase' = phase /\ index' = index /\ ifData' = ifData
        /\ singleEnd' = singleEnd /\ openBlocks' = openBlocks /\ tested' = tested
        /\ resumed' = resumed
    BY <1>9 DEF vars
  <2>2. PassInv' /\ (RunInv => RunInv')
    BY <1>1, <2>1 DEF PassInv, RunInv, Stored
  <2>3. Tracks => Tracks'
    BY <2>1 DEF Tracks, Balanced, Stored, EntryInv, StillOpen, Above, Kinds
  <2> QED
    BY <1>2, <1>3, <2>1, <2>2, <2>3 DEF FlowInv
<1>10. HereDocument \/ HereDocumentWithoutMarker => phase = "check" \/ phase = "run"
  BY StepPhases
<1> QED
  BY <1>4, <1>5, <1>6, <1>7, <1>8, <1>9, <1>10 DEF Next

LEMMA FlowInvariant == Spec => []FlowInv
BY FlowInit, FlowNext, PTL DEF Spec

------------------------------------------------------------------------------

\* What check() accepts run() can execute: in a Sound script no jump is looked up that
\* was not stored, and the stack of blocks is never asked for the top it has not
\* (Script::check, the handlers of else, endif, endwhile, leave and script).
THEOREM SpecDefinedIfSound == Spec => []DefinedIfSound
<1>1. FlowInv => DefinedIfSound
  BY DEF FlowInv, DefinedIfSound
<1> QED
  BY <1>1, FlowInvariant, PTL

\* run() does not change the jump tables of a Sound script: the inserting operator[]
\* of endwhile always finds its entry (Script.cpp:628).
THEOREM SpecRunOnlyReads == Spec => RunOnlyReads
<1>1. FlowInv /\ [Next]_vars => [tested /\ Sound(lines) /\ ~resumed => UNCHANGED tables]_vars
  <2> SUFFICES ASSUME FlowInv, Next, tested, Sound(lines), ~resumed
               PROVE  UNCHANGED tables
    OBVIOUS
  <2>1. TypeOK /\ PassInv /\ phase # "undefined" /\ RunInv
    BY DEF FlowInv
  <2>2. CASE RunStatement \/ HereDocument \/ HereDocumentWithoutMarker
    <3>1. phase = "run"
      BY <2>1, <2>2, StepPhases DEF PassInv
    <3> QED
      BY <2>1, <2>2, <3>1, RunTracks
  <2>3. CASE StartCheck \/ EndCheck \/ EndCheckOpen \/ StartRun \/ EndRun
    BY <2>3 DEF StartCheck, EndCheck, EndCheckOpen, StartRun, EndRun
  <2>4. CASE CheckStatement
    BY <2>1, <2>4, StepPhases DEF PassInv
  <2> QED
    BY <2>2, <2>3, <2>4 DEF Next
<1> QED
  BY <1>1, FlowInvariant, PTL DEF Spec, RunOnlyReads

==============================================================================
