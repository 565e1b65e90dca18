--------------------------------- MODULE Path ---------------------------------
(***************************************************************************)
(* File names: os/Path.cpp on Linux, and uniqueFilename() of               *)
(* os/FileTool.cpp.  None stands for a null pointer.                       *)
(***************************************************************************)
EXTENDS Ascii, FiniteSets

None == <<-1>>
Temporary == <<Slash, 116, 109, 112, Slash>>   \* /tmp/

\* The last position of a character, 0 if there is none.
LastOf(s, c) ==
  CHOOSE k \in 0..Len(s) : /\ k > 0 => s[k] = c
                           /\ \A j \in k + 1..Len(s) : s[j] # c

\* Mutant: the dot of a hidden file starts an extension.
HiddenSplit(full) ==
  LET slash == LastOf(full, Slash)
      node == From(full, slash + 1)
      dot == IF LastOf(node, Dot) > 0 THEN LastOf(node, Dot) ELSE Len(node) + 1
  IN [path |-> Upto(full, slash), name |-> Upto(node, dot - 1), extension |-> From(node, dot)]

\* A name that starts with its only dot has no extension.
SplitPath(full) ==
  LET slash == LastOf(full, Slash)
      node == From(full, slash + 1)
      dot == IF LastOf(node, Dot) > 1 THEN LastOf(node, Dot) ELSE Len(node) + 1
  IN [path |-> Upto(full, slash), name |-> Upto(node, dot - 1), extension |-> From(node, dot)]
JoinInfo(info) == info.path \o info.name \o info.extension

Basename(path) == SplitPath(path).name \o SplitPath(path).extension
Dirname(path, endingSlash) ==
  LET dir == SplitPath(path).path
  IN IF endingSlash \/ dir = <<>> THEN dir ELSE Front(dir)

Separated(path) == IF path # <<>> /\ Last(path) # Slash THEN Append(path, Slash) ELSE path
WithDot(extension) ==
  IF extension # <<>> /\ extension[1] = Dot THEN extension ELSE <<Dot>> \o extension
JoinPath(path, name, extension, subdirectories) ==
  LET inner == IF subdirectories # <<>> /\ subdirectories[1] = Slash THEN Tail(subdirectories)
               ELSE subdirectories
      dir == IF subdirectories = None THEN Separated(path) ELSE Separated(Separated(path) \o inner)
  IN dir \o name \o IF extension = None THEN <<>> ELSE WithDot(extension)
TemporaryFile(node, subdirectories) == JoinPath(Temporary, node, None, subdirectories)

\* In a name without a path the dot must stand behind two characters.
ReplaceExtension(filename, extension) ==
  LET slash == LastOf(filename, Slash)
      dot == LastOf(filename, Dot)
      bare == IF dot > 2 /\ dot > slash + 1 THEN Upto(filename, dot - 1) ELSE filename
  IN bare \o IF extension = None THEN <<>> ELSE WithDot(extension)

--------------------------------------------------------------------------------
\* %0<width>d
RECURSIVE DigitsOf(_)
DigitsOf(n) == (IF n < 10 THEN <<>> ELSE DigitsOf(n \div 10)) \o <<48 + (n % 10)>>
Padded(n, width) ==
  [k \in 1..IF width > Len(DigitsOf(n)) THEN width - Len(DigitsOf(n)) ELSE 0 |-> 48] \o DigitsOf(n)

\* The number is read behind its first digit; where there is no digit, behind
\* the end of the name, where the extension stood.
NumberStart(number, extension) == IF number # <<>> THEN NumberOf(Tail(number)) ELSE NumberOf(Tail(extension))
IsNumbered(name) == LastOf(name, Dot) > 0 /\ ToSet(From(name, LastOf(name, Dot) + 1)) \subseteq Digits
\* The prefix of the names that are tried, and the number before the first one.
FirstNumber(info) ==
  IF IsNumbered(info.name)
  THEN [prefix |-> info.path \o Upto(info.name, LastOf(info.name, Dot) - 1),
        start |-> NumberStart(From(info.name, LastOf(info.name, Dot) + 1), info.extension)]
  ELSE [prefix |-> info.path \o info.name, start |-> 0]
NextFree(first, extension, width, files) ==
  LET Named(n) == first.prefix \o <<Dot>> \o Padded(n, width) \o extension
  IN Named(CHOOSE n \in first.start + 1..first.start + 1 + Cardinality(files) :
             Named(n) \notin files /\ \A k \in first.start + 1..n - 1 : Named(k) \in files)
UniqueFilename(filename, width, files) ==
  IF filename \notin files THEN filename
  ELSE NextFree(FirstNumber(SplitPath(filename)), SplitPath(filename).extension, width, files)

--------------------------------------------------------------------------------
\* References.

\* The parts of a path make up the path; the name holds no separator, the
\* extension no second dot, and a name is never only an extension.
PartsOf(p) ==
  LET info == SplitPath(p) IN
  /\ JoinInfo(info) = p
  /\ Dirname(p, TRUE) \o Basename(p) = p
  /\ Slash \notin ToSet(info.name \o info.extension)
  /\ info.path # <<>> => Last(info.path) = Slash
  /\ info.extension # <<>> => /\ info.extension[1] = Dot
                              /\ Dot \notin ToSet(Tail(info.extension))
                              /\ info.name # <<>>

\* dirname() and basename() joined are the path, but for a file of the root;
\* joining with a directory between keeps the name.
RejoinsOf(p) ==
  LET dir == Dirname(p, FALSE) IN
  /\ (dir # <<>> /\ Last(dir) # Slash) => JoinPath(dir, Basename(p), None, None) = p
  /\ Slash \in ToSet(p) =>
       /\ Basename(JoinPath(dir, Basename(p), None, <<Slash, 100>>)) = Basename(p)
       /\ JoinPath(dir, Basename(p), None, <<100>>) = JoinPath(dir, Basename(p), None, <<Slash, 100, Slash>>)

\* Replacing the extension is splitting and joining, but for the names of one
\* character without a path.
ExtensionReplaced(p, extension) ==
  LET info == SplitPath(p)
      expected == JoinInfo([info EXCEPT !.extension =
                              IF extension = None THEN <<>> ELSE WithDot(extension)])
  IN \/ ReplaceExtension(p, extension) = expected
     \/ info.path = <<>> /\ Len(info.name) = 1

\* A unique name is free, lies in the same directory and keeps the extension.
IsUniqueFor(q, p, files) ==
  /\ q \notin files
  /\ SplitPath(q).path = SplitPath(p).path
  /\ SplitPath(q).extension = SplitPath(p).extension \/ SplitPath(p).extension = <<>>
  /\ p \notin files => q = p
IsUnique(p, width, files) == IsUniqueFor(UniqueFilename(p, width, files), p, files)
==============================================================================
