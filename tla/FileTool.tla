------------------------------- MODULE FileTool -------------------------------
(***************************************************************************)
(* Directories and files (os/FileTool.cpp): making directories with their  *)
(* parents, copying files, which may fail half way, texts of files.  A     *)
(* path is what splitCString(path, "/") makes of it: an absolute one       *)
(* starts with an empty part, one with a slash at the end ends with one.   *)
(* The file system is external: it makes and opens what has a parent;      *)
(* reading, writing and closing a file may fail.                           *)
(***************************************************************************)
EXTENDS Integers, Sequences, FiniteSets, SequencesExt

CONSTANTS Empty,         \* the empty part of a path
          Paths,         \* the paths of directories the callers ask for
          FilePaths,     \* the paths of files
          Home,          \* the current directory, as a node
          Texts,         \* the texts of files, in blocks of copyFile()
          MaxCalls       \* bound: how many calls

VARIABLES dirs,      \* the directories, each as the names on its way
          files,     \* the files: node -> [text, time]
          copying,   \* a running copyFile(), Idle outside
          returned,  \* what the last call has returned
          calls

vars == <<dirs, files, copying, returned, calls>>

Idle == [source |-> <<>>]
Returned(call, path, rc) == [call |-> call, path |-> path, rc |-> rc]
Thrown == "exception"
Result(isTrue) == IF isTrue THEN "true" ELSE "false"

\* Which node a path means.
Named(path) == SelectSeq(path, LAMBDA part : part # Empty)
IsAbsolute(path) == path # <<>> /\ Head(path) = Empty
Node(path) == IF IsAbsolute(path) THEN Named(path) ELSE Home \o Named(path)
Above(node) == SubSeq(node, 1, Len(node) - 1)

\* isDirectory(), fileExists()
IsDirectory(node) == node \in dirs
FileExists(node) == node \in dirs \cup DOMAIN files
MayCreate(node) == node # <<>> /\ Above(node) \in dirs /\ ~FileExists(node)

InitWith(path, text) ==
  /\ dirs = {SubSeq(Home, 1, n) : n \in 0 .. Len(Home)}
  /\ files = IF Above(Node(path)) \in dirs
               THEN Node(path) :> [text |-> text, time |-> 0] ELSE <<>>
  /\ copying = Idle
  /\ returned = Returned("none", <<>>, "true")
  /\ calls = 0

Init == \E path \in FilePaths, text \in Texts : InitWith(path, text)

Call == copying = Idle /\ calls < MaxCalls /\ calls' = calls + 1

--------------------------------------------------------------------------------
\* The directories makeDirectory() looks at when the path itself cannot be made:
\* of an absolute path its parents, without the path itself; of another one the
\* first part, and then all the parts but the last once more below the first.
WayTo(path) ==
  IF IsAbsolute(path)
  THEN [k \in 1 .. Len(path) - 2 |-> SubSeq(path, 1, k + 1)]
  ELSE [k \in 1 .. Len(path) |-> <<Head(path)>> \o SubSeq(path, 1, k - 1)]

\* One turn of the loop: what is missing is made, what cannot be made throws.
Turn(state, path) ==
  LET node == Node(path)
  IN CASE state.rc = Thrown \/ node \in state.dirs -> state
       [] OTHER ->
            IF node \notin DOMAIN files /\ Above(node) \in state.dirs
            THEN [dirs |-> state.dirs \cup {node}, rc |-> "true"]
            ELSE [state EXCEPT !.rc = Thrown]

\* mkdir() and, if that fails, the way to the directory. A directory that could
\* be made at once leaves rc at -1, which is no success for ensureDirectory().
Made(path) ==
  CASE MayCreate(Node(path)) -> [dirs |-> dirs \cup {Node(path)}, rc |-> "false"]
    [] ~MayCreate(Node(path)) -> FoldLeft(Turn, [dirs |-> dirs, rc |-> "true"], WayTo(path))

\* The parents of a path are there, or it is an absolute one with a slash at
\* the end: makeDirectory() then looks at every directory of the path.
CanBeEnsured(path) ==
  \/ IsAbsolute(path) /\ Last(path) = Empty
  \/ Above(Node(path)) \in dirs

EnsureDirectory(path) ==
  /\ Call
  /\ LET node == Node(path)
         made == CASE node \in dirs -> [dirs |-> dirs, rc |-> "true"]
                   [] node \in DOMAIN files -> [dirs |-> dirs, rc |-> Thrown]
                   [] OTHER -> Made(path)
     IN /\ dirs' = made.dirs
        /\ returned' = Returned("ensureDirectory", path, made.rc) @@ [made |-> made.dirs \ dirs,
                                                                      isSure |-> CanBeEnsured(path)]
  /\ UNCHANGED <<files, copying>>

--------------------------------------------------------------------------------
\* copyFile(): into a directory under the name of the source.
TargetOf(source, target) ==
  IF Node(target) \in dirs THEN Append(Node(target), Last(source)) ELSE Node(target)

CopyRefused(source, target) ==
  /\ Call
  /\ \/ Node(source) \notin DOMAIN files
     \/ TargetOf(source, target) \in dirs \/ Above(TargetOf(source, target)) \notin dirs
  /\ returned' = Returned("copyFile", source, "false")
  /\ UNCHANGED <<dirs, files, copying>>

\* The target is opened: it is empty from now on.
CopyStart(source, target) ==
  LET node == TargetOf(source, target)
  IN /\ Call
     /\ Node(source) \in DOMAIN files
     /\ node \notin dirs /\ Above(node) \in dirs
     /\ files' = (node :> [text |-> <<>>, time |-> calls + 1]) @@ files
     /\ copying' = [source |-> source, target |-> node, wanted |-> files[Node(source)],
                    others |-> files]
     /\ UNCHANGED <<dirs, returned>>

CopyBlock ==
  /\ copying # Idle
  /\ LET source == files[Node(copying.source)].text
         done == files[copying.target].text
     IN /\ Len(done) < Len(source)
        /\ files' = [files EXCEPT ![copying.target].text = Append(@, source[Len(done) + 1])]
  /\ UNCHANGED <<dirs, copying, returned, calls>>

\* What copyFile() returns; lost: has the system failed in a call whose result is not
\* looked at?
Finish(rc, lost) ==
  /\ copying' = Idle
  /\ returned' = [call |-> "copyFile", path |-> copying.source, rc |-> Result(rc),
                  lost |-> lost, target |-> copying.target, wanted |-> copying.wanted,
                  others |-> copying.others]
  /\ UNCHANGED <<dirs, calls>>

\* A mutant: a copy that failed stays.
FaultLeft ==
  /\ copying # Idle
  /\ Len(files[copying.target].text) < Len(files[Node(copying.source)].text)
  /\ files' = files
  /\ Finish(FALSE, FALSE)

\* The device takes no more: the rest of the target is removed.
WriteFault ==
  /\ copying # Idle
  /\ Len(files[copying.target].text) < Len(files[Node(copying.source)].text)
  /\ files' = [node \in DOMAIN files \ {copying.target} |-> files[node]]
  /\ Finish(FALSE, FALSE)

\* fread() returns 0 at the end of the source and when reading fails; fclose() may
\* fail to write what is still buffered.  Both count as success.
CopyEnd ==
  /\ copying # Idle
  /\ LET source == files[Node(copying.source)]
         done == files[copying.target].text
     IN \E readAll, flushed \in BOOLEAN :
          /\ readAll <=> Len(done) >= Len(source.text)
          /\ flushed \/ done # <<>>
          /\ files' = [files EXCEPT ![copying.target] =
                         [text |-> IF flushed THEN done ELSE Front(done), time |-> source.time]]
          /\ Finish(TRUE, ~(readAll /\ flushed))

--------------------------------------------------------------------------------
\* writeText(): neither fwrite() nor fclose() is looked at, less may be written.
WriteText(path, text) ==
  /\ Call
  /\ LET node == Node(path)
         opened == node \notin dirs /\ Above(node) \in dirs
     IN /\ IF opened
             THEN \E n \in 0 .. Len(text) :
                    files' = (node :> [text |-> SubSeq(text, 1, n), time |-> calls + 1]) @@ files
             ELSE UNCHANGED files
        /\ returned' = Returned("writeText", path, Result(opened))
  /\ UNCHANGED <<dirs, copying>>

\* isBinary(): a zero byte or five control characters among the first ones; a
\* file that cannot be read is binary.
IsBinary(path, checkSize) ==
  LET text == files[Node(path)].text
      read == SubSeq(text, 1, IF Len(text) < checkSize THEN Len(text) ELSE checkSize)
  IN \/ Node(path) \notin DOMAIN files
     \/ \E k \in DOMAIN read : read[k] = "nul"
     \/ Len(SelectSeq(read, LAMBDA c : c = "control")) >= 5

TestBinary(path, checkSize) ==
  /\ Call
  /\ returned' = Returned("isBinary", path, Result(IsBinary(path, checkSize)))
  /\ UNCHANGED <<dirs, files, copying>>

Next ==
  \/ \E path \in Paths : EnsureDirectory(path)
  \/ \E source \in FilePaths, target \in FilePaths \cup Paths :
       CopyRefused(source, target) \/ CopyStart(source, target)
  \/ CopyBlock \/ WriteFault \/ CopyEnd
  \/ \E path \in FilePaths, text \in Texts : WriteText(path, text)
  \/ \E path \in FilePaths : TestBinary(path, 5)

Spec == Init /\ [][Next]_vars

--------------------------------------------------------------------------------
(***************************************************************************)
(* Whatever was done before, a directory that ensureDirectory() has not    *)
(* refused is there, and nothing but directories of its path has been made *)
(* (os/FileTool.cpp:98, 261).  copyFile() leaves every other file as it    *)
(* was (:36); under the target nothing if it failed, else the source with  *)
(* its time: the whole one, unless reading it or closing the target has    *)
(* failed (:68, 77), then a beginning of it.  The source must not be the   *)
(* target: opening it has emptied it then (:59).                           *)
(***************************************************************************)
FilesKept ==
  /\ \A node \in dirs : node # <<>> => Above(node) \in dirs /\ node \notin DOMAIN files
  /\ \A node \in DOMAIN files : Above(node) \in dirs
  /\ returned.call = "ensureDirectory" /\ returned.isSure =>
       /\ returned.rc # Thrown => Node(returned.path) \in dirs
       /\ \A node \in returned.made : IsPrefix(node, Node(returned.path))
  /\ (returned.call = "copyFile" /\ "target" \in DOMAIN returned /\ copying = Idle
      /\ returned.target # Node(returned.path)) =>
       /\ returned.rc = "true" =>
            LET copy == files[returned.target]
            IN /\ copy.time = returned.wanted.time
               /\ IsPrefix(copy.text, returned.wanted.text)
               /\ ~returned.lost => copy.text = returned.wanted.text
       /\ returned.rc = "false" => returned.target \notin DOMAIN files
       /\ \A node \in DOMAIN returned.others \ {returned.target} :
            node \in DOMAIN files /\ files[node] = returned.others[node]
==============================================================================
