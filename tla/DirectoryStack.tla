---------------------------- MODULE DirectoryStack -----------------------------
(***************************************************************************)
(* FileAgentWithStack (os/Traverser.cpp): the other agent for the          *)
(* traversal of a file tree, with a stack of open directories.  Every      *)
(* directory is read twice, once for its entries and once for the          *)
(* subdirectories to enter.  One step is one turn of the loop in           *)
(* rawNextFile(); rc and alreadyRead are its local variables.              *)
(***************************************************************************)
EXTENDS FileTree

CONSTANTS Trees,
          DotPlaces,    \* where a directory shows "." and "..": a set of
                        \* "first", "last", "around" its entries
          MaxStack      \* MAX_ENTRY_STACK_DEPTH, at least 1

VARIABLES
  tree, dots,
  searchPass,   \* _passNoForDirSearch: the pass that enters subdirectories
  maxDepth,     \* of the filter, which also has the patterns for directories
  depth,        \* _depth: -1 before the first directory
  dirs,         \* m_dirs from 0 on: its node, pass, the entries not yet read,
                \* the current one; slots stay when their directory is left
  rc, alreadyRead,
  calling,      \* in rawNextFile()?
  directories, ignored, files,  \* of the statistic
  returned      \* history: the nodes of the returned entries, None at the end

vars == <<tree, dots, searchPass, maxDepth, depth, dirs, rc, alreadyRead,
          calling, directories, ignored, files, returned>>

None == 0     \* no entry
Dot == -1     \* "." or ".."

\* What opendir() and readdir() show of a directory.
Listing(n) ==
  LET own == ChildrenOf(tree, n) IN
  CASE tree.kind[n] = "closed" -> <<>>
    [] dots = "first" -> <<Dot, Dot>> \o own
    [] dots = "last" -> own \o <<Dot, Dot>>
    [] OTHER -> <<Dot>> \o own \o <<Dot>>

NewSlot == [node |-> None, pass |-> 0, rest |-> <<>>, data |-> None]

InitWith(t, place, pass, most) ==
  /\ tree = t
  /\ dots = place
  /\ searchPass = pass
  /\ maxDepth = most
  /\ depth = -1
  /\ dirs = <<NewSlot>>
  /\ rc = None
  /\ alreadyRead = FALSE
  /\ calling = FALSE
  /\ directories = 0
  /\ ignored = 0
  /\ files = 0
  /\ returned = <<>>

Init ==
  \E t \in Trees, place \in DotPlaces, pass \in {1, 2}, most \in {0, MaxStack + 1} :
    InitWith(t, place, pass, most)

--------------------------------------------------------------------------------
Slot == dirs[depth + 1]
Finished == returned # <<>> /\ Last(returned) = None

IsDot(slot) == slot.data \in {None, Dot}

Call ==
  /\ ~calling
  /\ ~Finished
  /\ calling' = TRUE
  /\ rc' = None
  /\ alreadyRead' = FALSE
  /\ UNCHANGED <<tree, dots, searchPass, maxDepth, depth, dirs, directories, ignored, files, returned>>

\* The end of one turn: result and slots after it, and whether to go on.
Turn(result, slots, again) ==
  LET stays == result # None /\ IsDot(slots[result])
      entry == IF result = None THEN None ELSE slots[result].data
  IN /\ rc' = result
     /\ dirs' = slots
     /\ IF again \/ stays
          THEN UNCHANGED <<calling, returned, files>>
          ELSE /\ calling' = FALSE
               /\ returned' = Append(returned, entry)
               /\ files' = IF result # None /\ ~IsDirectoryNode(tree, entry)
                           THEN files + 1 ELSE files
     /\ UNCHANGED <<tree, dots, searchPass, maxDepth>>

\* initEntry() for the slot at a level with findFirst().
Entered(n, slot) ==
  LET entries == Listing(n)
  IN [node |-> n, pass |-> 1,
      rest |-> IF entries = <<>> THEN <<>> ELSE Tail(entries),
      data |-> IF entries = <<>> THEN slot.data ELSE Head(entries)]
HasEntry(n) == Listing(n) # <<>>
Put(slots, i, slot) ==
  IF i <= Len(slots) THEN [slots EXCEPT ![i] = slot] ELSE Append(slots, slot)

AtStart == calling /\ depth < 0
Start ==
  /\ AtStart
  /\ dirs[1].pass # 2
  /\ depth' = 0
  /\ directories' = IF HasEntry(1) THEN directories + 1 ELSE directories
  /\ LET slots == Put(dirs, 1, Entered(1, dirs[1])) IN
     IF ~HasEntry(1) THEN Turn(rc, slots, FALSE) /\ UNCHANGED alreadyRead
     ELSE IF searchPass = 2 THEN Turn(1, slots, FALSE) /\ UNCHANGED alreadyRead
     ELSE Turn(rc, slots, TRUE) /\ alreadyRead' = TRUE
  /\ UNCHANGED ignored

NothingLeft ==
  /\ AtStart
  /\ dirs[1].pass = 2
  /\ Turn(None, dirs, FALSE)
  /\ UNCHANGED <<depth, alreadyRead, directories, ignored>>

\* findNext(): the slot after it.
HasNext == alreadyRead \/ Slot.rest # <<>>
\* The mutant: the first turn after entering a directory reads on instead of
\* taking the entry that findFirst() has already read.
ReadOnFetched ==
  IF alreadyRead /\ Slot.rest = <<>> THEN Slot
  ELSE [Slot EXCEPT !.data = Head(Slot.rest), !.rest = Tail(Slot.rest)]
Fetched ==
  IF alreadyRead THEN Slot
  ELSE [Slot EXCEPT !.data = Head(Slot.rest), !.rest = Tail(Slot.rest)]
ReadSlots == Put(dirs, depth + 1, Fetched)

InDirectory == calling /\ depth >= 0

EntryPass ==
  /\ InDirectory
  /\ HasNext
  /\ Slot.pass # searchPass
  /\ alreadyRead' = FALSE
  /\ Turn(depth + 1, ReadSlots, FALSE)
  /\ UNCHANGED <<depth, directories, ignored>>

\* Whether the subdirectory is entered; a depth the stack has no slot for is
\* counted, not entered.
DoEnter(n) == depth < maxDepth /\ n \in tree.inspected

SearchEntry ==
  LET n == Fetched.data
      isSubdirectory == n # Dot /\ IsDirectoryNode(tree, n)
      fits == depth + 1 < MaxStack
      new == IF depth + 2 <= Len(dirs) THEN dirs[depth + 2] ELSE NewSlot
  IN
  /\ InDirectory
  /\ HasNext
  /\ Slot.pass = searchPass
  /\ IF isSubdirectory /\ DoEnter(n)
       THEN /\ directories' = directories + 1
            /\ alreadyRead' = (fits /\ HasEntry(n))
            /\ depth' = IF fits THEN depth + 1 ELSE depth
            /\ Turn(rc, IF fits THEN Put(ReadSlots, depth + 2, Entered(n, new)) ELSE ReadSlots, TRUE)
            /\ UNCHANGED ignored
       ELSE /\ alreadyRead' = FALSE
            /\ ignored' = IF isSubdirectory THEN ignored + 1 ELSE ignored
            /\ Turn(rc, ReadSlots, TRUE)
            /\ UNCHANGED <<depth, directories>>

\* readdir() at the end of a directory that could be opened sets _data.
Exhausted == IF HasEntry(Slot.node) THEN [Slot EXCEPT !.data = None] ELSE Slot

SecondPass ==
  /\ InDirectory
  /\ ~HasNext
  /\ Slot.pass = 1
  /\ alreadyRead' = HasEntry(Slot.node)
  /\ Turn(rc, Put(dirs, depth + 1, [Entered(Slot.node, Exhausted) EXCEPT !.pass = 2]), TRUE)
  /\ UNCHANGED <<depth, directories, ignored>>

Leave ==
  /\ InDirectory
  /\ ~HasNext
  /\ Slot.pass # 1
  /\ depth' = depth - 1
  /\ Turn(rc, Put(dirs, depth + 1, Exhausted), depth > 0)
  /\ UNCHANGED <<alreadyRead, directories, ignored>>

Next ==
  \/ Call \/ Start \/ NothingLeft
  \/ EntryPass \/ SearchEntry \/ SecondPass \/ Leave

Spec == Init /\ [][Next]_vars

--------------------------------------------------------------------------------
\* The directories that are read, stated over the tree.
IsRead(d) ==
  /\ tree.kind[d] = "directory"
  /\ Depth(tree, d) < MaxStack
  /\ Depth(tree, d) <= maxDepth
  /\ \A a \in ToSet(PathTo(tree, d)) \ {1} : a \in tree.inspected

(***************************************************************************)
(* When rawNextFile() has returned nullptr, every entry of every directory *)
(* that could be opened, is not too deep and was to be inspected has been  *)
(* returned once, wherever the directories show "." and ".."; what is in a *)
(* subdirectory comes before (searchPass 1) or behind (searchPass 2) all   *)
(* entries of the directory itself (os/Traverser.cpp:899).                 *)
(***************************************************************************)
EntriesOnce ==
  Finished =>
    LET got == Front(returned) IN
    /\ ToSet(got) = {n \in Nodes(tree) \ {1} : IsRead(tree.parent[n])}
    /\ IsInjective(got)
    /\ \A i, j \in DOMAIN got :
         LET above == Above(tree, got[j]) \ {tree.parent[got[j]]} IN
         tree.parent[got[i]] \in above => IF searchPass = 1 THEN j < i ELSE i < j
    /\ files = Cardinality({n \in ToSet(got) : ~IsDirectoryNode(tree, n)})
================================================================================
