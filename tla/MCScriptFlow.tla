----------------------------- MODULE MCScriptFlow -----------------------------
EXTENDS ScriptFlow

St(op, arg) == [op |-> op, arg |-> arg]
Simple(ops) == {St(op, 0) : op \in ops}

UpTo(n, S) == UNION {[1 .. m -> S] : m \in 0 .. n}

\* Every statement that moves the control, and one that does not.
BlockStatements ==
  Simple({"if", "else", "endif", "while", "endwhile", "plain"})
    \cup {St("leave", 1), St("leaveif", 2)}

BodyStatements ==
  Simple({"while", "endwhile", "here", "marker", "endscript", "plain",
          "exit", "abort", "bad"})
    \cup {St("script", 1), St("leave", 1)}

AllStatements ==
  Simple(Ops \ (Leaves \cup {"script"}))
    \cup [op : Leaves, arg : {0, 1}] \cup {St("script", 1)}

Structured ==
  {s \in UpTo(6, BlockStatements) \cup UpTo(5, BodyStatements) :
     Sound(s) /\ LeaveBeforeBlocks(s)}

Arbitrary == UpTo(4, AllStatements)

\* Scripts that show where code and documentation differ.
FailingScripts ==
  {s \in UpTo(3, {St("leave", 1)} \cup Simple({"while", "endwhile", "plain"})) : Sound(s)}

NestedLeaves ==
  {s \in UpTo(5, {St("leave", 1)} \cup Simple({"if", "endif", "while", "endwhile"})) :
     Sound(s) /\ WellFormed(s)}

==============================================================================
