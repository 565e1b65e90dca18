------------------------------- MODULE MCFiles --------------------------------
(***************************************************************************)
(* The components that work on files, directories and memory, one at a     *)
(* time: the traversal of trees by fts and by the stack of directories,    *)
(* the line agent, the file tools, the functions of scripts, the storage   *)
(* of bytes.  They share no state; turn says which of them runs, the other *)
(* ones stay as they are.                                                  *)
(***************************************************************************)
EXTENDS ByteStorage

VARIABLES
  turn,
  tree, command, base, at, baseIsPattern, nodePatterns,    \* FileTraversal
  visits, currentNo, lastLevel, statistic, found, complete,
  stacked, dots, searchPass, maxDepth, depth, dirs, rc,    \* DirectoryStack
  alreadyRead, calling, directories, ignored, files, returned,
  file, checked, opened, position, buffers, current,       \* LineAgent
  eofReached, hasBinaryData, line, delivered,
  folders, contents, copying, answer, asked,               \* FileTool
  lines, other, present, cwd, pushed, result, calls, drained  \* FunctionEngine

walkVars == <<tree, command, base, at, baseIsPattern, nodePatterns,
              visits, currentNo, lastLevel, statistic, found, complete>>
stackVars == <<stacked, dots, searchPass, maxDepth, depth, dirs, rc,
               alreadyRead, calling, directories, ignored, files, returned>>
agentVars == <<file, checked, opened, position, buffers, current,
               eofReached, hasBinaryData, line, delivered>>
toolVars == <<folders, contents, copying, answer, asked>>
engineVars == <<lines, other, present, cwd, pushed, result, calls, drained>>

--------------------------------------------------------------------------------
\* Trees of four entries: every shape up to the order of names, with entries of
\* every kind; what the patterns of --files, of a base and of --directories hit.
Shapes == {<<0, 1, 1, 2>>, <<0, 1, 2, 1>>, <<0, 1, 2, 3>>, <<0, 1, 2, 2>>}
KindsOf(shape, kinds) ==
  {k \in [DOMAIN shape -> kinds] :
     \A n \in DOMAIN shape : n > 1 => k[shape[n]] = "directory"}

\* What the last entry and the other ones may be.
WalkKinds(shape) ==
  {k \in KindsOf(shape, {"directory", "closed", "file", "link", "pipe", "missing"}) :
     /\ k[1] = "directory"
     /\ k[2] \in {"directory", "closed", "file"}
     /\ k[3] # "missing"
     /\ k[4] \in {"directory", "file", "missing"}}
WalkTrees ==
  UNION {{[parent |-> p, kind |-> k, size |-> <<0, 1, 2, 1>>, time |-> <<1, 2, 1, 1>>,
           name |-> <<1, 2, 3, 3>>, listed |-> {1, 2, 4}, based |-> {2, 4}, inspected |-> i] :
            k \in WalkKinds(p), i \in {{1, 2, 3, 4}, {1, 2, 4}, {2, 3}}} : p \in Shapes}

\* Options and bases of command lines. A file as base is the last entry.
NoOptions ==
  [types |-> {}, size |-> [sign |-> "none", value |-> 0], age |-> [sign |-> "none", value |-> 0],
   files |-> FALSE, directories |-> FALSE]
OptionSets ==
  {NoOptions,
   [NoOptions EXCEPT !.files = TRUE, !.size = [sign |-> "+", value |-> 1]],
   [NoOptions EXCEPT !.directories = TRUE],
   [NoOptions EXCEPT !.directories = TRUE, !.age = [sign |-> "-", value |-> 2]],
   [NoOptions EXCEPT !.types = {"file", "directory"}],
   [NoOptions EXCEPT !.types = {"file", "pipe"}, !.age = [sign |-> "+", value |-> 1]]}
Directory(isStart) == [form |-> "directory", isStart |-> isStart, node |-> 1]
Patterns == [form |-> "patterns", isStart |-> FALSE, node |-> 1]
OneFile == [form |-> "file", isStart |-> FALSE, node |-> 4]
WalkCommands ==
  {[options |-> o, bases |-> b, onlyFiles |-> f, mayStop |-> f] :
     o \in OptionSets, f \in BOOLEAN,
     b \in {<<Directory(TRUE), OneFile>>, <<Patterns, Directory(FALSE)>>, <<OneFile, Patterns>>}}

\* A file is a base only below the directory it is named with.
IsCommandFor(t, c) ==
  \A i \in DOMAIN c.bases : c.bases[i].form = "file" => t.kind[4] = "file" /\ t.parent[4] = 1
AnyTree == [parent |-> <<0>>, kind |-> <<"directory">>, inspected |-> {1}]
AnyCommand == [options |-> NoOptions, bases |-> <<>>, onlyFiles |-> FALSE, mayStop |-> FALSE]

DeepShapes == {<<0, 1, 1, 2>>, <<0, 1, 2, 1>>, <<0, 1, 2, 3>>, <<0, 1, 2, 3, 2>>, <<0, 1, 1, 3, 2>>}
StackTrees ==
  UNION {{[parent |-> p, kind |-> k, inspected |-> i] :
            k \in {kk \in KindsOf(p, {"directory", "closed", "file"}) : kk[1] # "file"},
            i \in {{1, 2, 3, 4, 5}, {1, 2, 4}, {2, 3}}} : p \in DeepShapes}

\* Files for the line agent, for a buffer of four bytes of which openFile() looks at
\* three.
FileContents ==
  UNION {[1 .. n -> {"a", "newline"}] : n \in 0 .. 3}
  \cup {<<"0", "a", "newline">>, <<"a", "a", "newline", "0", "a">>,
        <<"a", "newline", "0", "a", "a", "newline", "0", "newline">>,
        <<"a", "a", "newline", "a", "a", "a", "a", "a", "newline">>}

\* Paths as lists of their parts; the current directory is h.
FolderPaths ==
  {<<"", "h", "a">>, <<"", "h", "a", "b", "">>, <<"a", "b">>, <<"b">>, <<"", "a", "b">>}
PathsOfFiles == {<<"", "h", "f">>, <<"g">>, <<"", "h", "a", "f">>}
TextBlocks == {<<"text", "nul">>, <<"control", "control", "control", "control", "control">>, <<>>}

\* Lines, lists and separators as character codes: a is 97, blank 32, comma 44.
BufferLines == {<<>>, <<<<97>>, <<>>, <<98, 32>>>>, <<<<>>, <<98>>, <<97>>>>}
ListTexts == {<<97, 32, 98, 32, 97>>, <<98, 44, 32, 44, 32>>, <<97>>}
ListSeparators == {<<32>>, <<44, 32>>}
DirectoryEntries ==
  {<<[name |-> <<97>>, kind |-> "file"], [name |-> <<98>>, kind |-> "directory"],
     [name |-> <<99>>, kind |-> "link"], [name |-> <<100>>, kind |-> "file"]>>}

--------------------------------------------------------------------------------
Walk == INSTANCE FileTraversal WITH Trees <- WalkTrees, Commands <- WalkCommands
Stack == INSTANCE DirectoryStack WITH
  Trees <- StackTrees, DotPlaces <- {"first", "last", "around"}, MaxStack <- 2, tree <- stacked
Agent == INSTANCE LineAgent WITH
  CR <- "return", LF <- "newline", NUL <- "zero byte", Letters <- {"a", "0"}, Zero <- "0",
  Contents <- FileContents, BufferSize <- 4, CheckSize <- 3, MaxFiles <- 2,
  rc <- line, lines <- delivered
Tool == INSTANCE FileTool WITH
  Empty <- "", Paths <- FolderPaths, FilePaths <- PathsOfFiles, Home <- <<"h">>,
  Texts <- TextBlocks, MaxCalls <- 3, dirs <- folders, files <- contents,
  returned <- answer, calls <- asked
Engine == INSTANCE FunctionEngine WITH
  LineTexts <- BufferLines, Separators <- ListSeparators, Lists <- ListTexts,
  Directories <- {"d", "e"}, Entries <- DirectoryEntries, RandomValues <- {0, 5}, MaxCalls <- 3,
  directories <- pushed, returned <- result

Components == {"storage", "walk", "stack", "agent", "tool", "engine"}

Begin ==
  /\ turn \in Components
  /\ IF turn = "storage" THEN Init
     ELSE capacity = 0 /\ chain = <<>> /\ blocks = <<>> /\ clears = 0
  /\ IF turn = "walk"
       THEN \E t \in WalkTrees, c \in WalkCommands : IsCommandFor(t, c) /\ Walk!InitWith(t, c)
       ELSE Walk!InitWith(AnyTree, AnyCommand)
  /\ IF turn = "stack" THEN Stack!Init ELSE Stack!InitWith(AnyTree, "first", 1, 0)
  /\ IF turn = "agent" THEN Agent!Init ELSE Agent!InitWith("a")
  /\ IF turn = "tool" THEN Tool!Init ELSE Tool!InitWith(<<"g">>, <<>>)
  /\ IF turn = "engine" THEN Engine!Init ELSE Engine!InitWith(<<>>, <<>>, "d")

Step ==
  /\ UNCHANGED turn
  /\ IF turn = "storage" THEN Next ELSE UNCHANGED vars
  /\ IF turn = "walk" THEN Walk!Next ELSE UNCHANGED walkVars
  /\ IF turn = "stack" THEN Stack!Next ELSE UNCHANGED stackVars
  /\ IF turn = "agent" THEN Agent!Next ELSE UNCHANGED agentVars
  /\ IF turn = "tool" THEN Tool!Next ELSE UNCHANGED toolVars
  /\ IF turn = "engine" THEN Engine!Next ELSE UNCHANGED engineVars

FilesSpec == Begin /\ [][Step]_<<turn, vars, walkVars, stackVars, agentVars, toolVars, engineVars>>

--------------------------------------------------------------------------------
(***************************************************************************)
(* A base that was walked to its end has yielded every entry the filter    *)
(* wants, each once (os/Traverser.cpp:1082); see FileTraversal.            *)
(***************************************************************************)
YieldsWanted == turn = "walk" => Walk!YieldsWanted

(***************************************************************************)
(* The statistic over all bases is that of the entries yielded             *)
(* (os/Traverser.cpp:770, 1094); see FileTraversal.                        *)
(***************************************************************************)
StatisticAgrees == turn = "walk" => Walk!StatisticAgrees

(***************************************************************************)
(* The agent with the stack of directories returns every entry once, the   *)
(* subdirectories before or behind it (os/Traverser.cpp:899); see          *)
(* DirectoryStack.                                                         *)
(***************************************************************************)
EntriesOnce == turn = "stack" => Stack!EntriesOnce

(***************************************************************************)
(* The line agent returns the lines of the files it opens, as far as its   *)
(* test for binary data leaves them whole (os/LineAgent.cpp:147); see      *)
(* LineAgent.                                                              *)
(***************************************************************************)
LinesOfFile == turn = "agent" => Agent!LinesOfFile

(***************************************************************************)
(* Directories that were ensured are there, a copy that failed is not, one *)
(* that succeeded is whole unless a fault was overlooked, other files stay *)
(* (os/FileTool.cpp:36, 98); see FileTool.                                 *)
(***************************************************************************)
FilesKept == turn = "tool" => Tool!FilesKept

(***************************************************************************)
(* The functions of scripts lose no line, no text and no directory         *)
(* (text/FunctionEngine.cpp:195-642); see FunctionEngine.                  *)
(***************************************************************************)
FunctionsKeep == turn = "engine" => Engine!FunctionsKeep
================================================================================
