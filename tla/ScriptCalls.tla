----------------------------- MODULE ScriptCalls -----------------------------
(***************************************************************************)
(* The calls between scripts: SearchEngine::testAndRun (text/SearchEngine. *)
(* cpp) and Script::call, check and run (text/Script.cpp).  A script is one*)
(* object for all its calls: its index is shared by them, and the engine   *)
(* keeps a stack of script names and of the callers' indexes to restore it.*)
(* The flow inside a script is the subject of ScriptFlow: here a script is *)
(* a list of statements that follow each other.                            *)
(***************************************************************************)
EXTENDS Naturals, Sequences, SequencesExt

CONSTANTS Objects,    \* the scripts: loaded, declared inside another, files
          Names,      \* their names: identifiers and base names of files
          NameOf,     \* the name of each script
          Main,       \* the script the client loads
          Values,     \* values of the global variable, exit codes
          Programs,   \* the texts considered: from scripts to statements
          MaxDepth,   \* bound: nested calls
          MaxStarts   \* bound: calls of testAndRun() by the client

Ops == {"plain", "set", "call", "callfile", "declare", "exit", "exitglobal",
        "stop", "bad"}

\* value: what set assigns, the code of an exit; callee: the script that is
\* called (by its name or as a file) or declared by script ... endscript.
Statement == [op : Ops, value : Values, callee : Objects]

ASSUME NamesAssumption  == NameOf \in [Objects -> Names] /\ Main \in Objects
ASSUME ValuesAssumption == Values \subseteq Nat /\ {0, 1} \subseteq Values
ASSUME TextsAssumption  == Programs \subseteq [Objects -> Seq(Statement)]
ASSUME DepthAssumption  == MaxDepth \in Nat /\ MaxStarts \in Nat

VARIABLES
  text,        \* Script::_lines of each script
  index,       \* Script::_indexNextStatement of each script
  tested,      \* Script::_alreadyTested of each script
  registered,  \* SearchEngine::_scripts: name -> script
  stack,       \* SearchEngine::_scriptStack, names
  returns,     \* SearchEngine::_lineNoStack
  current,     \* SearchEngine::_currentScript
  globals,     \* SearchEngine::_globalVariables: the value of one variable
  frames,      \* the active calls of testAndRun(), the innermost last
  result,      \* what the last testAndRun() of the client returned
  starts,      \* how often the client called it
  accepted,    \* history: the statements that passed the test, for each script
  rejected,    \* history: has a test failed?
  assigned,    \* history: the value the last executed set assigned
  stopping     \* history: has exit global been executed in this testAndRun()?

engine == <<registered, stack, returns, current>>
history == <<accepted, rejected, assigned, stopping>>
vars == <<text, index, tested, engine, globals, frames, result, starts, history>>

\* One activation of testAndRun(): script is the this of check() and run(),
\* safe its globalSafe, rc the loop variable of run().
Frame(script) == [script |-> script, pass |-> "check", safe |-> globals, rc |-> 0]

Init ==
  /\ text \in Programs
  /\ index = [o \in Objects |-> 0]
  /\ tested = [o \in Objects |-> FALSE]
  /\ registered = [n \in {NameOf[Main]} |-> Main]
  /\ stack = <<NameOf[Main]>>
  /\ returns = <<0>>
  /\ current = Main
  /\ globals = 0
  /\ frames = <<>>
  /\ result = 0
  /\ starts = 0
  /\ accepted = [o \in Objects |-> {}]
  /\ rejected = FALSE
  /\ assigned = 0
  /\ stopping = FALSE

------------------------------------------------------------------------------
Top  == frames[Len(frames)]
This == Top.script

\* oneStatement() takes the line after the index and increments the index first.
Line == index[This] + 1
It   == text[This][Line]
Advance == index' = [index EXCEPT ![This] = Line]

\* check() looks at the next statement of an untested script, run() executes it.
At(pass, ops) ==
  /\ frames # <<>>
  /\ Top.pass = pass
  /\ IF pass = "check" THEN ~tested[This] ELSE Top.rc = 0
  /\ index[This] < Len(text[This])
  /\ It.op \in ops

\* Mutant: popScript() does not set the index of the caller.
ReturnWithoutIndex(rc, idx) ==
  IF Len(frames) = 1
  THEN /\ frames' = <<>>
       /\ result' = rc
       /\ index' = idx
       /\ UNCHANGED engine
  ELSE /\ frames' = [Front(frames) EXCEPT ![Len(frames) - 1].rc = rc]
       /\ stack' = Front(stack)
       /\ returns' = Front(returns)
       /\ current' = registered[stack[Len(stack) - 1]]
       /\ index' = idx
       /\ UNCHANGED <<registered, result>>

\* Mutant: the name is read before it is popped.
ReturnToCallee(rc, idx) ==
  IF Len(frames) = 1
  THEN /\ frames' = <<>>
       /\ result' = rc
       /\ index' = idx
       /\ UNCHANGED engine
  ELSE LET caller == registered[stack[Len(stack)]]
       IN /\ frames' = [Front(frames) EXCEPT ![Len(frames) - 1].rc = rc]
          /\ stack' = Front(stack)
          /\ returns' = Front(returns)
          /\ current' = caller
          /\ index' = [idx EXCEPT ![caller] = Last(returns)]
          /\ UNCHANGED <<registered, result>>

(***************************************************************************)
(* testAndRun() returns rc, with the indexes idx.  It catches every        *)
(* exception, so rc is all its caller sees.  call() then restores the      *)
(* caller by popScript() and hands rc to the loop of the caller's run().   *)
(***************************************************************************)
Return(rc, idx) ==
  IF Len(frames) = 1
  THEN /\ frames' = <<>>
       /\ result' = rc
       /\ index' = idx
       /\ UNCHANGED engine
  ELSE LET caller == registered[stack[Len(stack) - 1]]
       IN /\ frames' = [Front(frames) EXCEPT ![Len(frames) - 1].rc = rc]
          /\ stack' = Front(stack)
          /\ returns' = Front(returns)
          /\ current' = caller
          /\ index' = [idx EXCEPT ![caller] = Last(returns)]
          /\ UNCHANGED <<registered, result>>

\* SearchEngine::_scripts with one more script, under its name.
Registered(script) ==
  [n \in DOMAIN registered \cup {NameOf[script]} |->
     IF n = NameOf[script] THEN script ELSE registered[n]]

Throw(rc) == Return(rc, [index EXCEPT ![This] = Line])

------------------------------------------------------------------------------
(* The client: it has loaded and selected Main. *)

Started ==
  /\ frames = <<>>
  /\ starts < MaxStarts
  /\ starts' = starts + 1
  /\ frames' = <<Frame(current)>>
  /\ stopping' = FALSE
  /\ UNCHANGED <<text, index, tested, registered, current, globals, result,
                 accepted, rejected, assigned>>

\* testAndRun(nullptr) and testAndRun(name), which selects the script once more.
Start == Started /\ UNCHANGED <<stack, returns>>

StartByName ==
  /\ Started
  /\ stack' = Append(stack, NameOf[Main])
  /\ returns' = Append(returns, index[Main])

------------------------------------------------------------------------------
(* check() *)

Accept == accepted' = [accepted EXCEPT ![This] = @ \cup {Line}]

CheckPlain ==
  /\ At("check", {"plain", "callfile", "exit", "exitglobal", "stop"})
  /\ Advance
  /\ Accept
  /\ UNCHANGED <<text, tested, engine, globals, frames, result, starts,
                 rejected, assigned, stopping>>

\* An assignment is done in this pass, too.
CheckSet ==
  /\ At("check", {"set"})
  /\ Advance
  /\ Accept
  /\ globals' = It.value
  /\ UNCHANGED <<text, tested, engine, frames, result, starts, rejected, assigned,
                 stopping>>

CheckCall ==
  /\ At("check", {"call"})
  /\ NameOf[It.callee] \in DOMAIN registered
  /\ Advance
  /\ Accept
  /\ UNCHANGED <<text, tested, engine, globals, frames, result, starts,
                 rejected, assigned, stopping>>

CheckDeclare ==
  /\ At("check", {"declare"})
  /\ NameOf[It.callee] \notin DOMAIN registered
  /\ Advance
  /\ Accept
  /\ registered' = Registered(It.callee)
  /\ UNCHANGED <<text, tested, stack, returns, current, globals, frames, result,
                 starts, rejected, assigned, stopping>>

\* A syntax error, an unknown script, a script that already exists: globalSafe is
\* not restored.
CheckFails ==
  /\ \/ At("check", {"bad"})
     \/ At("check", {"call"}) /\ NameOf[It.callee] \notin DOMAIN registered
     \/ At("check", {"declare"}) /\ NameOf[It.callee] \in DOMAIN registered
  /\ Throw(1)
  /\ rejected' = TRUE
  /\ UNCHANGED <<text, tested, globals, starts, accepted, assigned, stopping>>

\* Mutant: the loop of check() ends one line too early.
EndCheckEarly ==
  /\ frames # <<>>
  /\ Top.pass = "check"
  /\ tested[This] \/ index[This] + 1 >= Len(text[This])
  /\ tested' = [tested EXCEPT ![This] = TRUE]
  /\ globals' = Top.safe
  /\ frames' = [frames EXCEPT ![Len(frames)].pass = "run"]
  /\ index' = [index EXCEPT ![This] = 0]
  /\ UNCHANGED <<text, engine, result, starts, history>>

\* Mutant: the globals are not restored.
EndCheckWithoutSafe ==
  /\ frames # <<>>
  /\ Top.pass = "check"
  /\ tested[This] \/ index[This] >= Len(text[This])
  /\ tested' = [tested EXCEPT ![This] = TRUE]
  /\ frames' = [frames EXCEPT ![Len(frames)].pass = "run"]
  /\ index' = [index EXCEPT ![This] = 0]
  /\ UNCHANGED <<text, engine, globals, result, starts, history>>

\* check() returns, globalSafe is restored, run() begins.
EndCheck ==
  /\ frames # <<>>
  /\ Top.pass = "check"
  /\ tested[This] \/ index[This] >= Len(text[This])
  /\ tested' = [tested EXCEPT ![This] = TRUE]
  /\ globals' = Top.safe
  /\ frames' = [frames EXCEPT ![Len(frames)].pass = "run"]
  /\ index' = [index EXCEPT ![This] = 0]
  /\ UNCHANGED <<text, engine, result, starts, history>>

------------------------------------------------------------------------------
(* run() *)

RunPlain ==
  /\ At("run", {"plain", "declare"})
  /\ Advance
  /\ UNCHANGED <<text, tested, engine, globals, frames, result, starts, history>>

RunSet ==
  /\ At("run", {"set"})
  /\ Advance
  /\ globals' = It.value
  /\ assigned' = It.value
  /\ UNCHANGED <<text, tested, engine, frames, result, starts, accepted, rejected,
                 stopping>>

\* The script a call finds: by its name, or for a file by the base name first.
Found == IF NameOf[It.callee] \in DOMAIN registered THEN registered[NameOf[It.callee]]
                                                    ELSE It.callee

Call ==
  /\ At("run", {"call", "callfile"})
  /\ It.op = "call" => NameOf[It.callee] \in DOMAIN registered
  /\ Len(frames) < MaxDepth
  /\ Advance
  /\ registered' = Registered(Found)
  /\ stack' = Append(stack, NameOf[Found])
  /\ returns' = Append(returns, Line)
  /\ current' = Found
  /\ frames' = Append(frames, Frame(Found))
  /\ UNCHANGED <<text, tested, globals, result, starts, history>>

\* Mutant: the index is set behind the end.
ExitBehindEnd ==
  /\ At("run", {"exit"})
  /\ index' = [index EXCEPT ![This] = Len(text[This]) + 1]
  /\ UNCHANGED <<text, tested, engine, globals, frames, result, starts, history>>

\* exit without global: its code is not used.
Exit ==
  /\ At("run", {"exit"})
  /\ index' = [index EXCEPT ![This] = Len(text[This])]
  /\ UNCHANGED <<text, tested, engine, globals, frames, result, starts, history>>

ExitGlobal ==
  /\ At("run", {"exitglobal"})
  /\ Throw(It.value)
  /\ stopping' = TRUE
  /\ UNCHANGED <<text, tested, globals, starts, accepted, rejected, assigned>>

Stop ==
  /\ At("run", {"stop"})
  /\ Throw(1)
  /\ UNCHANGED <<text, tested, globals, starts, history>>

\* An error while a statement is executed.
RunFails ==
  /\ \/ At("run", {"plain", "callfile", "bad"})
     \/ At("run", {"call"}) /\ NameOf[It.callee] \notin DOMAIN registered
  /\ Throw(1)
  /\ UNCHANGED <<text, tested, globals, starts, history>>

\* Mutant: the loop of run() does not look at the exit code.
EndRunIgnoresCode ==
  /\ frames # <<>>
  /\ Top.pass = "run"
  /\ index[This] >= Len(text[This])
  /\ Return(0, index)
  /\ UNCHANGED <<text, tested, globals, starts, history>>

\* The value of run() is not used: a callee that failed stops its caller, and the
\* caller returns 0.
EndRun ==
  /\ frames # <<>>
  /\ Top.pass = "run"
  /\ Top.rc # 0 \/ index[This] >= Len(text[This])
  /\ Return(0, index)
  /\ UNCHANGED <<text, tested, globals, starts, history>>

Step ==
  \/ CheckPlain \/ CheckSet \/ CheckCall \/ CheckDeclare \/ CheckFails \/ EndCheck
  \/ RunPlain \/ RunSet \/ Call \/ Exit \/ ExitGlobal \/ Stop \/ RunFails \/ EndRun

Next == Start \/ StartByName \/ Step

Spec == Init /\ [][Next]_vars

------------------------------------------------------------------------------
(* Properties *)

FrameType == [script : Objects, pass : {"check", "run"}, safe : Values, rc : Values]

\* Type invariant.
TypeOK ==
  /\ text \in [Objects -> Seq(Statement)]
  /\ index \in [Objects -> Nat] /\ \A o \in Objects : index[o] <= Len(text[o])
  /\ tested \in [Objects -> BOOLEAN]
  /\ DOMAIN registered \subseteq Names
  /\ \A n \in DOMAIN registered : registered[n] \in Objects
  /\ stack \in Seq(DOMAIN registered)
  /\ returns \in Seq(Nat)
  /\ current \in Objects
  /\ globals \in Values
  /\ frames \in Seq(FrameType)
  /\ result \in Values
  /\ starts \in 0 .. MaxStarts
  /\ accepted \in [Objects -> SUBSET Nat]
  /\ rejected \in BOOLEAN
  /\ assigned \in Values
  /\ stopping \in BOOLEAN

\* How far an activation is: the index of the innermost one, for another one what
\* call() has put on the stack.
LineOf(i) ==
  CASE frames[i].pass = "check"  -> 0
    [] frames[i].pass = "run" /\ frames[i].rc # 0 -> Len(text[frames[i].script])
    [] frames[i].pass = "run" /\ frames[i].rc = 0 ->
         IF i = Len(frames) THEN index[frames[i].script]
         ELSE returns[Len(returns) - Len(frames) + i + 1]

Activations ==
  [i \in 1 .. Len(frames) |-> [script |-> frames[i].script, line |-> LineOf(i)]]

Calls == INSTANCE CallReturn WITH calls <- Activations

\* Although a script has one index for all its activations, calls nest and recurse
\* as if each had its own (Script.cpp:485, SearchEngine.cpp:117).
CallsNest == Calls!Spec

\* The engine and the C++ stack agree: the current script is the one that is being
\* executed, and the name on the stack leads to it.
EngineFollows ==
  /\ Len(stack) = Len(returns)
  /\ \A i \in 1 .. Len(frames) :
       registered[stack[Len(stack) - Len(frames) + i]] = frames[i].script
  /\ frames # <<>> => current = This

\* As long as no test failed, a script is run only when every statement of it has
\* passed the test, however the scripts call and declare each other.
RunsTested ==
  ~rejected => \A i \in 1 .. Len(frames) :
    frames[i].pass = "run" => accepted[frames[i].script] = DOMAIN text[frames[i].script]

\* As long as no test failed, the global variable has the value the last executed
\* assignment gave it: the tests of the callees do not show (SearchEngine.cpp:176).
TestIsSilent ==
  ~rejected /\ (frames = <<>> \/ Top.pass = "run") => globals = assigned

\* One thread executes the scripts.
FairSpec == Spec /\ WF_vars(Step)

\* No script calls itself, not even over others: calls lead to a higher rank.
Acyclic ==
  \E rank \in [Objects -> 1 .. Cardinality(Objects)] :
    \A o, c \in Objects : \A k \in DOMAIN text[o] :
      text[o][k].op \in {"call", "callfile"} /\ NameOf[c] = NameOf[text[o][k].callee]
        => rank[o] < rank[c]

\* Without recursion every testAndRun() of the client returns: a callee that fails
\* ends the loop of its caller, and each return lets the caller go on.
TestAndRunReturns == Acyclic /\ frames # <<>> ~> frames = <<>>

------------------------------------------------------------------------------
(* What the documentation and the comments say, violated by the code. *)

\* "If the keyword global is given than all running scripts will be stopped"
\* (doc/scripting/basic_statements.md:135).
GlobalExitStopsAll ==
  stopping /\ frames # <<>> =>
    Top.rc # 0 \/ index[This] = Len(text[This])

==============================================================================
