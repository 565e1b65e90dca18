-------------------------------- MODULE FileTree -------------------------------
(***************************************************************************)
(* Directory trees and what the file system interface shows of them.  A    *)
(* tree is a record of sequences over its nodes: node 1 is the base, the   *)
(* parent of every other node is a directory with a smaller number, and    *)
(* the numbers are the order in which a directory is read.                 *)
(***************************************************************************)
EXTENDS Integers, Sequences, FiniteSets, SequencesExt, FiniteSetsExt

Nodes(t) == DOMAIN t.parent
ChildrenOf(t, n) == SetToSortSeq({m \in Nodes(t) : t.parent[m] = n}, <)

\* The nodes on the way from the base to n, n included.
PathTo(t, n) ==
  LET path[m \in Nodes(t)] == IF m = 1 THEN <<1>> ELSE Append(path[t.parent[m]], m)
  IN path[n]
Depth(t, n) == Len(PathTo(t, n)) - 1
\* The proper ancestors of n.
Above(t, n) == ToSet(Front(PathTo(t, n)))

IsDirectoryNode(t, n) == t.kind[n] \in {"directory", "closed"}

\* fts_read(): a directory is visited before ("D") and after ("DP") its
\* entries; one that cannot be opened is reported ("DNR") instead of read.
\* A pipe, like every special file, is something else ("DEFAULT").
FtsInfo == [file |-> "F", pipe |-> "DEFAULT", link |-> "SL", missing |-> "NS"]
Visit(t, n, info) == [node |-> n, info |-> info, level |-> Depth(t, n)]
Tour(t) ==
  LET tour[n \in Nodes(t)] ==
        CASE t.kind[n] = "directory" ->
               <<Visit(t, n, "D")>>
               \o FlattenSeq([i \in DOMAIN ChildrenOf(t, n) |-> tour[ChildrenOf(t, n)[i]]])
               \o <<Visit(t, n, "DP")>>
          [] t.kind[n] = "closed" -> <<Visit(t, n, "D"), Visit(t, n, "DNR")>>
          [] OTHER -> <<Visit(t, n, FtsInfo[t.kind[n]])>>
  IN tour[1]

\* fts_set(FTS_SKIP) on the directory n visited before its entries: it comes back
\* at once as the visit after them, also if it cannot be opened.
SkipEntries(t, visits, n) ==
  LET last == SelectInSeq(visits, LAMBDA v : v.node = n)
  IN <<Visit(t, n, "DP")>> \o SubSeq(visits, last + 1, Len(visits))
================================================================================
