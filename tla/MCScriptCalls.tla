---------------------------- MODULE MCScriptCalls ----------------------------
EXTENDS ScriptCalls

CONSTANTS main, sub, file

AllScripts == {main, sub, file}
AllNames == main :> "main" @@ sub :> "sub" @@ file :> "file"

St(op, value, callee) == [op |-> op, value |-> value, callee |-> callee]
Simple(ops) == {St(op, 0, main) : op \in ops}
UpTo(n, S) == UNION {[1 .. m -> S] : m \in 0 .. n}

\* main, a script declared inside it and a file that all call each other.
MainStatements ==
  {St("set", 0, main), St("set", 1, main), St("declare", 0, sub), St("call", 0, sub),
   St("callfile", 0, file), St("call", 0, main)}
SubCalls == {St("call", 0, sub), St("callfile", 0, file)}
SubStatements ==
  SubCalls \cup {St("set", 1, main)} \cup Simple({"plain", "exitglobal", "exit", "bad"})
FileStatements ==
  {St("set", 1, main), St("call", 0, main), St("call", 0, sub), St("declare", 0, sub),
   St("exitglobal", 1, main), St("stop", 0, main)}

\* A main of three statements begins with the declaration of sub, a sub of two with
\* a call: what follows shows how it returned.
Calling ==
  {main :> m @@ sub :> s @@ file :> f :
     m \in UpTo(2, MainStatements)
           \cup {<<St("declare", 0, sub), t, u>> : t, u \in MainStatements},
     s \in UpTo(1, SubStatements) \cup {<<c, t>> : c \in SubCalls, t \in SubStatements},
     f \in UpTo(1, FileStatements)}

\* sub stops everything, main goes on with its last statement.
GlobalExits ==
  {main :> <<St("declare", 0, sub), St("call", 0, sub), St("set", 1, main)>>
     @@ sub :> <<St("exitglobal", 0, main)>> @@ file :> <<>>}
==============================================================================
