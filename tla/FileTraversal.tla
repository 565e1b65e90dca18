----------------------------- MODULE FileTraversal -----------------------------
(***************************************************************************)
(* The traversal of file trees: Traverser, FileAgentLinux, FsEntryLinux    *)
(* and DirEntryFilter (os/Traverser.cpp), driven by a command over the     *)
(* bases of its command line (CommandHandler in tools/ToolsCommons.cpp,    *)
(* and in the same way by the commands of tools/fileknife.cpp).            *)
(* The agent never assigns the parameter level of rawNextFile(), it stays  *)
(* the 0 of the command.                                                   *)
(***************************************************************************)
EXTENDS FileTree

CONSTANTS Trees,     \* the file trees
          Commands   \* command lines: options and bases

VARIABLES
  tree, command,   \* the input
  base,            \* which base of the command line is being processed
  at,              \* "bases": before the next base; "walk": in its tree; "end"
  baseIsPattern, nodePatterns,  \* the command: has a base been a list of
                   \* patterns; _filter._nodePatterns: "none", "files", "base"
  visits,          \* what the open _fts still returns
  currentNo, lastLevel,         \* FileAgentLinux::_currentNo, _lastLevel
  statistic,       \* DirTreeStatistic
  found,           \* history: the entries the command got, each with its base
  complete         \* history: the bases walked to the end

agentVars == <<visits, currentNo, lastLevel, statistic>>
commandVars == <<base, at, baseIsPattern, nodePatterns>>
vars == <<tree, command, commandVars, agentVars, found, complete>>

\* The types of entries and their collections.
Special == {"block", "character", "socket", "pipe", "other"}
NonDirectory == Special \cup {"link", "file"}
AllTypes == {"directory", "linked directory", "unknown"} \cup NonDirectory

NoStatistic ==
  [directories |-> 0, files |-> 0, sizes |-> 0, ignoredFiles |-> 0, ignoredDirectories |-> 0]

\* The options of a command: --type, --size, --days, --files, --directories.
\* What a bound of --days means: the time stamp moves only one bound.
Options(o) ==
  [types |-> IF o.types = {} THEN AllTypes ELSE o.types,
   minSize |-> IF o.size.sign \in {"+", "="} THEN o.size.value ELSE 0,
   maxSize |-> IF o.size.sign \in {"-", "="} THEN o.size.value ELSE 9,
   minTime |-> IF o.age.sign = "-" THEN o.age.value ELSE 0,
   maxTime |-> IF o.age.sign = "+" THEN o.age.value ELSE 9,
   files |-> o.files, directories |-> o.directories]

InitWith(t, c) ==
  /\ tree = t
  /\ command = c
  /\ base = 0
  /\ at = "bases"
  /\ baseIsPattern = FALSE
  /\ nodePatterns = IF c.options.files THEN "files" ELSE "none"
  /\ visits = <<>>
  /\ currentNo = 0
  /\ lastLevel = 0
  /\ statistic = NoStatistic
  /\ found = <<>>
  /\ complete = {}

Init == \E t \in Trees, c \in Commands : InitWith(t, c)

--------------------------------------------------------------------------------
\* The bases of the command line.

\* FsEntryLinux::setCertainFile(): the first visit with the name of the file,
\* wherever it is below the directory of the file.
CertainFile(n) ==
  LET same == SelectSeq(Tour(tree), LAMBDA v : tree.name[v.node] = tree.name[n])
  IN Head(same).node

PatternsRemoved == IF baseIsPattern THEN "none" ELSE nodePatterns

Handled(n) == Append(found, [base |-> base, node |-> n])

\* A base that is a file: the command handles it and may stop for good.
OneCertainFile ==
  LET b == command.bases[base + 1] IN
  /\ at = "bases"
  /\ base < Len(command.bases)
  /\ b.form = "file"
  /\ base' = base + 1
  /\ nodePatterns' = PatternsRemoved
  /\ found' = Append(found, [base |-> base + 1, node |-> CertainFile(b.node)])
  /\ \E stop \in BOOLEAN : at' = IF stop /\ command.mayStop THEN "end" ELSE "bases"
  /\ complete' = complete \cup {base + 1}
  /\ UNCHANGED <<tree, command, baseIsPattern, agentVars>>

\* changeBase(): the tree is opened anew, the counters of the agent stay.
ChangeBase ==
  LET b == command.bases[base + 1] IN
  /\ at = "bases"
  /\ base < Len(command.bases)
  /\ b.form \in {"directory", "patterns"}
  /\ base' = base + 1
  /\ at' = "walk"
  /\ visits' = Tour(tree)
  /\ IF b.form = "patterns"
       THEN baseIsPattern' = TRUE /\ nodePatterns' = "base"
       ELSE nodePatterns' = PatternsRemoved /\ UNCHANGED baseIsPattern
  /\ UNCHANGED <<tree, command, currentNo, lastLevel, statistic, found, complete>>

NoMoreBases ==
  /\ at = "bases"
  /\ base = Len(command.bases)
  /\ at' = "end"
  /\ UNCHANGED <<tree, command, base, baseIsPattern, nodePatterns, agentVars, found, complete>>

--------------------------------------------------------------------------------
\* FileAgentLinux::rawNextFile()

visit == Head(visits)

\* The counters after the visit.
LevelChanged(s) ==
  IF visit.level # lastLevel THEN [s EXCEPT !.directories = @ + 1] ELSE s
Level(s) ==
  IF visit.level > lastLevel THEN [s EXCEPT !.directories = @ + 1] ELSE s
Ignored(s) ==
  CASE visit.info = "DNR" -> [s EXCEPT !.ignoredDirectories = @ + 1]
    [] visit.info \in {"NS", "DEFAULT"} -> [s EXCEPT !.ignoredFiles = @ + 1]
    [] OTHER -> s

\* The patterns of --directories are applied to every visit.
NotInspected == Options(command.options).directories /\ visit.node \notin tree.inspected
Skipped(s) ==
  IF NotInspected /\ currentNo + 1 > 1 THEN [s EXCEPT !.ignoredDirectories = @ + 1] ELSE s

Counted == Skipped(Ignored(Level(statistic)))

\* Visits the agent does not return: directories before their entries, what
\* cannot be read, special files, and the base if it is the one of the constructor.
Again ==
  \/ visit.info \in {"D", "DNR", "NS", "DEFAULT"}
  \/ visit.info = "DP" /\ visit.node = 1 /\ command.bases[base].form = "directory"
     /\ command.bases[base].isStart

RestUnskipped == Tail(visits)
RestOfTour ==
  IF NotInspected /\ visit.info = "D" THEN SkipEntries(tree, Tail(visits), visit.node) ELSE Tail(visits)

ReadVisit ==
  /\ at = "walk"
  /\ visits # <<>>
  /\ visits' = RestOfTour
  /\ currentNo' = currentNo + 1
  /\ lastLevel' = visit.level

--------------------------------------------------------------------------------
\* Traverser::nextFile() with DirEntryFilter::match()

EntryType == IF visit.info = "DP" THEN "directory" ELSE tree.kind[visit.node]

NodeMatches ==
  \/ nodePatterns = "none"
  \/ nodePatterns = "files" /\ visit.node \in tree.listed
  \/ nodePatterns = "base" /\ visit.node \in tree.based

Matches ==
  LET o == Options(command.options) IN
  /\ NodeMatches
  /\ EntryType \in o.types
  /\ tree.size[visit.node] \in o.minSize .. o.maxSize
  /\ tree.time[visit.node] \in o.minTime .. o.maxTime

MatchCounted(s) ==
  CASE EntryType = "file" ->
         [s EXCEPT !.files = @ + 1, !.sizes = @ + tree.size[visit.node]]
    [] EntryType = "directory" -> s
    [] OTHER -> [s EXCEPT !.files = @ + 1]

\* The full name is longer than the one of the base.
BelowBase == visit.node # 1

IgnoreVisit ==
  /\ ReadVisit
  /\ Again
  /\ statistic' = Counted
  /\ UNCHANGED <<tree, command, commandVars, found, complete>>

PassOver ==
  /\ ReadVisit
  /\ ~Again
  /\ ~(Matches /\ BelowBase)
  /\ statistic' = IF Matches THEN MatchCounted(Counted) ELSE Counted
  /\ UNCHANGED <<tree, command, commandVars, found, complete>>

\* The entry goes to the command; one that stops leaves the tree of this base
\* and goes on with the next one.
DeliverEntry ==
  /\ ReadVisit
  /\ ~Again
  /\ Matches /\ BelowBase
  /\ statistic' = MatchCounted(Counted)
  /\ IF command.onlyFiles /\ EntryType = "directory"
       THEN at' = at /\ UNCHANGED found
       ELSE /\ found' = Handled(visit.node)
            /\ \E stop \in BOOLEAN : at' = IF stop /\ command.mayStop THEN "bases" ELSE "walk"
  /\ UNCHANGED <<tree, command, base, baseIsPattern, nodePatterns, complete>>

EndOfTree ==
  /\ at = "walk"
  /\ visits = <<>>
  /\ currentNo' = currentNo + 1
  /\ at' = "bases"
  /\ complete' = complete \cup {base}
  /\ UNCHANGED <<tree, command, base, baseIsPattern, nodePatterns, visits, lastLevel, statistic, found>>

Next ==
  \/ OneCertainFile \/ ChangeBase \/ NoMoreBases
  \/ IgnoreVisit \/ PassOver \/ DeliverEntry \/ EndOfTree

Spec == Init /\ [][Next]_vars

--------------------------------------------------------------------------------
\* What a base yields, stated over the tree.

IsWalk(i) == command.bases[i].form # "file"

\* A directory is read if it can be and --directories wants it; one that is only
\* skipped is an entry like others.
ToInspect(n) == command.options.directories => n \in tree.inspected
Opened(n) == tree.kind[n] = "directory" /\ ToInspect(n)
Reached(n) == \A a \in Above(tree, n) : Opened(a)
Reported(n) == ~(tree.kind[n] = "missing" \/ (tree.kind[n] = "closed" /\ ToInspect(n)))
KindOf(n) == IF tree.kind[n] = "closed" THEN "directory" ELSE tree.kind[n]

(***************************************************************************)
(* The help texts (ToolsCommons.cpp:16-48) and the code do not agree on    *)
(* all options: whether special files are found at all, whether an entry   *)
(* as large as the bound of --size is, whether --days asks for older or    *)
(* for newer files, whether --files also holds for a base of patterns and  *)
(* the bases behind one.  Due(i) is what every reading wants, Allowed(i)   *)
(* what one of them does; without these options they are the same.         *)
(***************************************************************************)
Candidates(i) ==
  {n \in Nodes(tree) \ {1} :
     /\ Reached(n) /\ Reported(n)
     /\ KindOf(n) \in Options(command.options).types
     /\ command.onlyFiles => KindOf(n) # "directory"
     /\ command.bases[i].form = "patterns" => n \in tree.based}

FilesDisputed(i) == \E j \in 1 .. i : command.bases[j].form = "patterns"
FilesWanted(n) == command.options.files => n \in tree.listed

LargeEnough(n, strict) ==
  LET s == command.options.size
      bound == IF strict THEN 1 ELSE 0
  IN CASE s.sign = "+" -> tree.size[n] >= s.value + bound
       [] s.sign = "-" -> tree.size[n] <= s.value - bound
       [] s.sign = "=" -> tree.size[n] = s.value
       [] OTHER -> TRUE

Due(i) ==
  {n \in Candidates(i) :
     /\ tree.kind[n] \notin Special
     /\ LargeEnough(n, TRUE)
     /\ command.options.age.sign = "none"
     /\ FilesWanted(n)}

Allowed(i) ==
  {n \in Candidates(i) : LargeEnough(n, FALSE) /\ (FilesDisputed(i) \/ FilesWanted(n))}

FoundIn(i) ==
  LET entries == SelectSeq(found, LAMBDA e : e.base = i)
  IN [j \in DOMAIN entries |-> entries[j].node]

(***************************************************************************)
(* A base that was walked to its end has yielded every entry the options   *)
(* want in the directories that could be opened and were to be inspected,  *)
(* and no other, each once, and a directory behind everything in it        *)
(* (Traverser.cpp:1082, 1196); a single file yields itself, unless its     *)
(* name comes earlier in the directories below its own (Traverser.cpp:198).*)
(***************************************************************************)
YieldsWanted ==
  \A i \in complete :
    LET got == FoundIn(i) IN
    IF IsWalk(i)
    THEN /\ Due(i) \subseteq ToSet(got) /\ ToSet(got) \subseteq Allowed(i)
         /\ IsInjective(got)
         /\ \A j, k \in DOMAIN got : got[j] \in Above(tree, got[k]) => k < j
    ELSE LET n == command.bases[i].node IN
         (\A m \in 1 .. n - 1 : tree.name[m] # tree.name[n]) => got = <<n>>

(***************************************************************************)
(* When no base was left early, the statistic that the commands print at   *)
(* the end counts over all bases: the entries that are no directories and  *)
(* the bytes of the files that the walks yielded, and the directories that *)
(* were read and not empty (Traverser.cpp:770, 1094).                      *)
(***************************************************************************)
StatisticAgrees ==
  at = "end" /\ complete = DOMAIN command.bases =>
    LET walks == {i \in complete : IsWalk(i)}
        entries == SelectSeq(found, LAMBDA e : IsWalk(e.base) /\ KindOf(e.node) # "directory")
        read == {d \in Nodes(tree) : Reached(d) /\ Opened(d) /\ ChildrenOf(tree, d) # <<>>}
    IN /\ statistic.files = Len(entries)
       /\ statistic.sizes = FoldSeq(LAMBDA e, sum :
            sum + (IF tree.kind[e.node] = "file" THEN tree.size[e.node] ELSE 0), 0, entries)
       /\ statistic.directories = Cardinality(walks) * Cardinality(read)
================================================================================
