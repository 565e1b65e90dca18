--------------------------- MODULE ScriptStructure ---------------------------
(***************************************************************************)
(* The structure of a script as doc/scripting/basic_statements.md describes*)
(* it, stated over its lines without any of the scans and tables of        *)
(* Script.cpp: which lines are statements and which are text, which line   *)
(* ends a block, and when a script is well formed.                         *)
(***************************************************************************)
EXTENDS BlockScan

Openers == {"if", "while"}

------------------------------------------------------------------------------
(* Scripts the test pass can handle: what follows is what check() relies   *)
(* on without verifying it.                                                *)

\* Line k belongs to the text of a here document that begins at line h.
InText(s, h, k) ==
  /\ h < k
  /\ s[h].op = "here"
  /\ \A m \in (h + 1) .. k : s[m].op # "marker"

\* Line k belongs to the body of an inner script that begins at line h.
InScript(s, h, k) ==
  /\ h < k
  /\ s[h].op = "script"
  /\ \A m \in (h + 1) .. k : s[m].op # "endscript"

\* No keyword in here documents and inner scripts, and no empty inner script.
BodiesPlain(s) ==
  /\ \A h, k \in DOMAIN s :
       InText(s, h, k) \/ InScript(s, h, k) => s[k].op = "plain"
  /\ \A h \in DOMAIN s :
       s[h].op = "script" => /\ h < Len(s)
                             /\ s[h + 1].op # "endscript"

\* No else, endif or endwhile where no block is open.
NoStrayEnd(s) ==
  \A k \in DOMAIN s :
    /\ Count(s, Closers, 1, k) <= Count(s, Openers, 1, k)
    /\ s[k].op = "else" => Count(s, Closers, 1, k) < Count(s, Openers, 1, k)

LeavesSomething(s) ==
  \A k \in DOMAIN s : s[k].op \in {"leave", "leaveif"} => s[k].arg >= 1

Sound(s) == BodiesPlain(s) /\ NoStrayEnd(s) /\ LeavesSomething(s)

------------------------------------------------------------------------------
(* The structure of a script with plain bodies. *)

\* The end of the body of line h: its marker or endscript, none if 0.
BodyEnd(s, h) ==
  LET ends == {q \in (h + 1) .. Len(s) :
                 \/ s[h].op = "here" /\ s[q].op = "marker"
                 \/ s[h].op = "script" /\ s[q].op = "endscript"}
  IN IF ends = {} THEN 0 ELSE First(ends)

\* The line after statement k when it does not jump.
After(s, k) ==
  IF s[k].op \in {"here", "script"} THEN BodyEnd(s, k) + 1 ELSE k + 1

\* The lines that are statements of s itself, not text or body of another one.
Statements(s) ==
  {k \in DOMAIN s : ~ \E h \in 1 .. (k - 1) :
     BodyEnd(s, h) # 0 /\ k <= BodyEnd(s, h)}

Depth(s, a, b) == Count(s, Openers, a, b) - Count(s, Closers, a, b)

\* The line that ends the block opened by line i, none if 0.
EndOf(s, i) ==
  LET ends == {q \in i .. Len(s) :
                 s[q].op \in Closers /\ Count(s, Openers, i, q) = Count(s, Closers, i, q)}
  IN IF ends = {} THEN 0 ELSE First(ends)

\* The blocks around line k: opened before and ended after it.
Around(s, k) ==
  {i \in 1 .. (k - 1) : s[i].op \in Openers /\ EndOf(s, i) > k}

\* The innermost of them.
Innermost(S) == CHOOSE i \in S : \A j \in S : j <= i

\* The else lines of the if at line i: directly inside, in no deeper block.
ElsesOf(s, i) ==
  {e \in (i + 1) .. EndOf(s, i) :
     s[e].op = "else" /\ Innermost(Around(s, e)) = i}

\* The end of the count-th block around line k, counted from inside.
EndLeft(s, k, count) ==
  EndOf(s, CHOOSE i \in Around(s, k) :
             Cardinality({j \in Around(s, k) : i <= j}) = count)

BlocksWellFormed(s) ==
  /\ \A i \in DOMAIN s : s[i].op \in Openers =>
       /\ EndOf(s, i) # 0
       /\ s[EndOf(s, i)].op = IF s[i].op = "if" THEN "endif" ELSE "endwhile"
       /\ Cardinality(ElsesOf(s, i)) <= (IF s[i].op = "if" THEN 1 ELSE 0)
  /\ \A q \in DOMAIN s : s[q].op \in Closers =>
       \E i \in 1 .. q : s[i].op \in Openers /\ EndOf(s, i) = q
  /\ \A e \in DOMAIN s : s[e].op = "else" => Around(s, e) # {}

StatementsWellFormed(s) ==
  \A k \in Statements(s) :
    /\ s[k].op \notin {"bad", "marker"}
    /\ s[k].op \in {"here", "script"} => BodyEnd(s, k) # 0
    /\ s[k].op = "script" =>
         \A h \in Statements(s) : s[h].op = "script" /\ s[h].arg = s[k].arg => h = k
    /\ s[k].op \in {"leave", "leaveif"} => Cardinality(Around(s, k)) >= s[k].arg

WellFormed(s) == BlocksWellFormed(s) /\ StatementsWellFormed(s)

(***************************************************************************)
(* No block is opened between a leave and the end it leaves to: the scan   *)
(* of Script::leave counts ends only and is right for these scripts alone. *)
(***************************************************************************)
LeaveBeforeBlocks(s) ==
  \A k \in DOMAIN s : s[k].op \in {"leave", "leaveif"} =>
    \A q \in LeaveEnds(s, k + 1, s[k].arg) :
      Count(s, Openers, k + 1, q) = 0

==============================================================================
