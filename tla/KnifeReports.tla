------------------------------ MODULE KnifeReports -----------------------------
(***************************************************************************)
(* What the commands of tools/fileknife.cpp make of the entries that the   *)
(* traversal yields (FileTraversal) and of the lines of the files          *)
(* (LineAgent), and the commands search and strings of                     *)
(* tools/textknife.cpp of the lines of one file.  An entry is a record;    *)
(* names and times are numbers.  A line of the text commands is a record   *)
(* of its text, whether the regular expression of the command matches it,  *)
(* and whether its data proved to be binary.                               *)
(***************************************************************************)
EXTENDS Path, FileTree, StringTool

--------------------------------------------------------------------------------
\* extrema: the texts "%012lld\t%s" are compared, the value first, then the
\* name.

MaxName == 9
EntryKey(value, name) == (MaxName + 1) * value + name

\* addIfNeeded() takes the smallest of a full list out for both orders.
IsExtrema(list, key, reverse, maxCount) ==
  Len(list) >= maxCount => IF reverse THEN key < Last(list) ELSE key > Head(list)
AddIfNeeded(list, key, maxCount) ==
  SortSeq(Append(IF Len(list) >= maxCount THEN Tail(list) ELSE list, key), <)
Extrema(keys, reverse, maxCount) ==
  FoldLeft(LAMBDA list, key : IF IsExtrema(list, key, reverse, maxCount)
                              THEN AddIfNeeded(list, key, maxCount) ELSE list, <<>>, keys)
Shown(list, reverse) == IF reverse THEN Reverse(list) ELSE list

ExtremaReport(entries, count) ==
  LET times == [k \in DOMAIN entries |-> EntryKey(entries[k].time, entries[k].name)]
      files == SelectSeq(entries, LAMBDA e : e.type = "file")
      sizes == [k \in DOMAIN files |-> EntryKey(files[k].size, files[k].name)]
  IN [largest |-> Shown(Extrema(sizes, FALSE, count), FALSE),
      oldest |-> Shown(Extrema(times, TRUE, count), TRUE),
      youngest |-> Shown(Extrema(times, FALSE, count), FALSE)]

--------------------------------------------------------------------------------
\* owner: OwnerInfo::oneDir(), a directory with the owners of its entries, then
\* its directories. The owner stands for uid and gid.

\* An entry that lstat() does not find any more; a directory is looked for again,
\* with the directories, and counted twice.
IsMissing(t, n) == t.kind[n] \in {"missing", "missing directory"}

HeaderLine(t, n) == [form |-> "=", owner |-> t.owner[n], node |-> n]
EntryLine(t, n) == [form |-> "entry", owner |-> t.owner[n], name |-> t.name[n]]

\* The entries that are not of the owner of their directory; the mutant compares
\* with the owner of the base.
OfOthersThanBase(t, n, seen) == SelectSeq(seen, LAMBDA m : t.owner[m] # t.owner[1])
OfOthers(t, n, seen) == SelectSeq(seen, LAMBDA m : t.owner[m] # t.owner[n])

OneDir(t, directory) ==
  LET scan[n \in Nodes(t)] ==
        LET entries == ChildrenOf(t, n)
            seen == SelectSeq(entries, LAMBDA m : ~IsMissing(t, m))
            others == OfOthers(t, n, seen)
            subdirs == SelectSeq(seen, LAMBDA m : IsDirectoryNode(t, m))
            gone == SelectSeq(entries, LAMBDA m : IsMissing(t, m))
            goneDirs == SelectSeq(gone, LAMBDA m : t.kind[m] = "missing directory")
            Sum(Count(_)) == FoldSeq(LAMBDA m, sum : sum + Count(m), 0, subdirs)
        IN IF t.kind[n] = "closed"
           THEN [lines |-> <<>>, dirs |-> 0, files |-> 0, errors |-> 1, owners |-> {t.owner[n]}]
           ELSE [lines |-> (IF others = <<>> THEN <<>>
                            ELSE <<HeaderLine(t, n)>> \o [k \in DOMAIN others |-> EntryLine(t, others[k])])
                           \o FlattenSeq([k \in DOMAIN subdirs |-> scan[subdirs[k]].lines]),
                 dirs |-> Len(subdirs) + Sum(LAMBDA m : scan[m].dirs),
                 files |-> Len(seen) - Len(subdirs) + Sum(LAMBDA m : scan[m].files),
                 errors |-> Len(gone) + Len(goneDirs) + Sum(LAMBDA m : scan[m].errors),
                 owners |-> {t.owner[n]} \cup {t.owner[m] : m \in ToSet(seen)}
                              \cup UNION {scan[m].owners : m \in ToSet(subdirs)}]
  IN scan[directory]

\* The counter of the errors starts with 9; finish() writes the owners.
Owner(t) ==
  IF ~IsDirectoryNode(t, 1) THEN [lines |-> <<>>, dirs |-> 0, files |-> 0, errors |-> 0, owners |-> {}]
  ELSE [OneDir(t, 1) EXCEPT !.lines = <<HeaderLine(t, 1)>> \o @, !.errors = 9 + @]

--------------------------------------------------------------------------------
\* wc: a file is the sequence of its lines and the number of the line with
\* which its data proved to be binary (0: none).

Separators == {Blank, TAB}
Words(line) ==
  Cardinality({k \in DOMAIN line : line[k] \notin Separators /\ (k > 1 => line[k - 1] \in Separators)})

RECURSIVE WordCount(_)
WordCount(line) ==
  LET rest == From(line, Span(line, Separators) + 1)
      length == Span(rest, 0..255 \ Separators)
  IN IF length = 0 THEN 0 ELSE 1 + WordCount(From(rest, length + 1))

NoCounts == [lines |-> 0, words |-> 0, bytes |-> 0, maxLength |-> 0]
CountLine(counts, line, countWords) ==
  [lines |-> counts.lines + 1,
   words |-> counts.words + IF countWords THEN WordCount(line) ELSE 0,
   bytes |-> counts.bytes + Len(line) + 1,
   maxLength |-> IF Len(line) > counts.maxLength THEN Len(line) ELSE counts.maxLength]
AddCounts(a, b) ==
  [lines |-> a.lines + b.lines, words |-> a.words + b.words, bytes |-> a.bytes + b.bytes,
   maxLength |-> IF b.maxLength > a.maxLength THEN b.maxLength ELSE a.maxLength]

CodeOf == [l |-> 108, w |-> 119, b |-> 98, L |-> 76, f |-> 102]
Place(code) == <<Percent, code>>
WcFormat(options) ==
  IF options.format # <<>> THEN options.format
  ELSE LET codes == CASE options.lines -> <<CodeOf.l>>
                      [] ~options.lines /\ options.words -> <<CodeOf.w>>
                      [] ~options.lines /\ ~options.words /\ options.bytes -> <<CodeOf.b>>
                      [] OTHER -> IF options.maxLength THEN <<CodeOf.L>>
                                  ELSE <<CodeOf.l, CodeOf.w, CodeOf.b>>
       IN FlattenSeq([k \in DOMAIN codes |-> Place(codes[k]) \o <<Blank>>]) \o Place(CodeOf.f)

Replacement(code, counts, name) ==
  CASE code = CodeOf.l -> DigitsOf(counts.lines)
    [] code = CodeOf.w -> DigitsOf(counts.words)
    [] code = CodeOf.b -> DigitsOf(counts.bytes)
    [] code = CodeOf.L -> DigitsOf(counts.maxLength)
    [] code = CodeOf.f -> name
    [] OTHER -> <<>>

\* %% is written and then overwritten. Of the text behind the last placeholder
\* as many characters are copied as there were before it.
RECURSIVE WcReplaced(_, _, _)
WcReplaced(format, counts, name) ==
  LET place == SelectInSeq(format, LAMBDA c : c = Percent)
  IN IF place = 0 THEN [text |-> <<>>, rest |-> format]
     ELSE LET behind == WcReplaced(From(format, place + 2), counts, name)
          IN [behind EXCEPT !.text =
                Upto(format, place - 1) \o Replacement(format[place + 1], counts, name) \o @]
WcOutput(format, counts, name) ==
  LET done == WcReplaced(format, counts, name)
  IN done.text \o Upto(done.rest, Len(format) - Len(done.rest))

Summary == <<60, 62>>   \* <summary>
Wc(files, options) ==
  LET format == WcFormat(options)
      countWords == \E k \in 1..Len(format) - 1 : SubSeq(format, k, k + 1) = Place(CodeOf.w)
      Counts(f) == FoldLeft(LAMBDA c, line : CountLine(c, line, countWords), NoCounts, f.lines)
      texts == SelectSeq(files, LAMBDA f : f.binaryAt = 0)
      counts == [k \in DOMAIN texts |-> Counts(texts[k])]
      total == FoldLeft(AddCounts, NoCounts, counts)
  IN [k \in DOMAIN texts |-> WcOutput(format, counts[k], texts[k].name)]
       \o IF texts = <<>> THEN <<>> ELSE <<WcOutput(format, total, Summary)>>

--------------------------------------------------------------------------------
\* list: the mark of a line and whether it names the file a link refers to. The
\* option is registered as name-only and asked for as nameOnly: never found.

TypeAsChar(type) ==
  CASE type = "file" -> " "
    [] type = "link" -> "l"
    [] type = "directory" -> "d"
    [] type = "character" -> "c"
    [] type = "block" -> "b"
    [] type = "pipe" -> "p"
    [] type = "socket" -> "s"
    [] OTHER -> "o"
ListLine(entry) ==
  [mark |-> TypeAsChar(entry.type), name |-> entry.name,
   reference |-> entry.type \in {"linked directory", "link"}]
List(entries) == [k \in DOMAIN entries |-> ListLine(entries[k])]

--------------------------------------------------------------------------------
\* References.

\* The largest and the youngest are the greatest of all, in order, and so are
\* the oldest in a list of one entry, or if nothing older comes behind a full list.
ComesAscending(entries, count) ==
  LET Key(k) == EntryKey(entries[k].time, entries[k].name)
  IN \A j \in 1..count, k \in count + 1..Len(entries) : Key(j) <= Key(k)
ExtremaAgree(entries, count) ==
  LET report == ExtremaReport(entries, count)
      Sorted(value(_), es) ==
        SortSeq([k \in DOMAIN es |-> EntryKey(value(es[k]), es[k].name)], <)
      times == Sorted(LAMBDA e : e.time, entries)
      sizes == Sorted(LAMBDA e : e.size, SelectSeq(entries, LAMBDA e : e.type = "file"))
      Greatest(s) == From(s, IF Len(s) > count THEN Len(s) - count + 1 ELSE 1)
  IN /\ report.largest = Greatest(sizes)
     /\ report.youngest = Greatest(times)
     /\ count = 1 \/ ComesAscending(entries, count) => report.oldest = Reverse(Upto(times, count))

\* Who reads the file from the top, takes an entry that is not listed below its
\* directory for one of the owner of the directory, knows all owners. What could
\* not be read is counted, at least once.
Restored(lines, t) ==
  LET Header(k) == CHOOSE j \in 1..k : lines[j].form = "=" /\ \A i \in j + 1..k : lines[i].form # "="
      Listed(n) == {k \in DOMAIN lines : /\ lines[k].form = "entry"
                                         /\ lines[k].name = t.name[n]
                                         /\ lines[Header(k)].node = t.parent[n]}
      restored[n \in Nodes(t)] ==
        CASE n = 1 -> lines[1].owner
          [] n # 1 /\ Listed(n) # {} -> lines[CHOOSE k \in Listed(n) : TRUE].owner
          [] OTHER -> restored[t.parent[n]]
  IN restored
OwnersOf(report, restored, scanned, t) ==
  /\ \A n \in scanned : restored[n] = t.owner[n]
  /\ report.owners = {t.owner[n] : n \in scanned}
  /\ report.dirs + report.files = Cardinality(scanned) - 1
  /\ report.dirs = Cardinality({n \in scanned \ {1} : IsDirectoryNode(t, n)})
FailuresIn(t, reached) == {n \in reached : t.kind[n] = "closed" \/ IsMissing(t, n)}
ErrorsSeen(t, reached) ==
  /\ FailuresIn(t, reached) = {} => OneDir(t, 1).errors = 0
  /\ OneDir(t, 1).errors >= Cardinality(FailuresIn(t, reached))
ReportRestored(report, t) ==
  LET reached == {n \in Nodes(t) : \A a \in Above(t, n) : t.kind[a] = "directory"}
  IN /\ OwnersOf(report, Restored(report.lines, t), {n \in reached : ~IsMissing(t, n)}, t)
     /\ ErrorsSeen(t, reached)
OwnersRestored(t) == IsDirectoryNode(t, 1) => ReportRestored(Owner(t), t)

\* Every file that is text has a line with its counts, the summary adds them.
\* A format of the placeholders the code knows, with a text behind the last one
\* that is not longer than what is before it, is filled in literally.
WcAgrees(files, pieces, options) ==
  LET format == FlattenSeq(pieces)
      IsPlace(p) == p # <<>> /\ p[1] = Percent
      texts == SelectSeq(files, LAMBDA f : f.binaryAt = 0)
      Lines(k) == IF k > Len(texts) THEN FlattenSeq([j \in DOMAIN texts |-> texts[j].lines])
                  ELSE texts[k].lines
      CountsOf(k) ==
        LET ls == Lines(k) IN
        [lines |-> Len(ls), words |-> FoldSeq(LAMBDA l, n : n + Words(l), 0, ls),
         bytes |-> FoldSeq(LAMBDA l, n : n + Len(l) + 1, 0, ls),
         maxLength |-> FoldSeq(LAMBDA l, n : IF Len(l) > n THEN Len(l) ELSE n, 0, ls)]
      Expected(k) ==
        FlattenSeq([j \in DOMAIN pieces |->
          IF IsPlace(pieces[j])
          THEN Replacement(pieces[j][2], CountsOf(k), IF k > Len(texts) THEN Summary ELSE texts[k].name)
          ELSE pieces[j]])
      trailing == FlattenSeq(From(pieces, SelectLastInSeq(pieces, IsPlace) + 1))
      isFilled == pieces # <<>> /\ 2 * Len(trailing) <= Len(format)
  IN isFilled =>
       Wc(files, [options EXCEPT !.format = format])
         = [k \in 1..IF texts = <<>> THEN 0 ELSE Len(texts) + 1 |-> Expected(k)]

--------------------------------------------------------------------------------
(* The commands of textknife. *)


\* SearchCommandHandler: a pattern without meta characters between two equal
\* delimiters is searched as a string, the option --string is then forgotten.
Meta == {Caret, Dollar, LeftParen, RightParen, LeftBracket, RightBracket, LeftBrace, RightBrace,
         Dot, Star, Plus, Question, Backslash}
SimpleString(pattern, string) ==
  IF Len(pattern) > 2 /\ pattern[1] = Last(pattern) /\ ToSet(pattern) \cap Meta = {}
  THEN SubSeq(pattern, 2, Len(pattern) - 1) ELSE string
Finds(line, simple) == IF simple # <<>> THEN Found(line.text, simple) <= Len(line.text) ELSE line.matches

\* oneFile(): what is written, "file" or the number of a line, and "hit" for
\* the matching part only. The lines are read up to the first binary data.
ShownLine(k, o) == [form |-> IF o.onlyMatching /\ ~o.invert THEN "hit" ELSE "line", line |-> k]
TheFile == [form |-> "file", line |-> 0]

SearchFile(lines, simple, o) ==
  LET binary == SelectInSeq(lines, LAMBDA l : l.binary)
      last == IF binary = 0 THEN Len(lines) ELSE binary - 1
      Step(s, k) ==
        LET found == Finds(lines[k], simple) IN
        CASE s.done -> s
          [] ~s.done /\ o.list ->
               IF found THEN [out |-> s.out \o IF o.invert THEN <<>> ELSE <<TheFile>>,
                              count |-> s.count + 1, done |-> TRUE]
               ELSE s
          [] OTHER ->
               IF o.invert = found THEN s
               ELSE [out |-> Append(s.out, ShownLine(k, o)), count |-> s.count + 1,
                     done |-> o.maxCount > 0 /\ s.count + 1 >= o.maxCount]
      walked == FoldLeft(Step, [out |-> <<>>, count |-> 0, done |-> FALSE], [k \in 1..last |-> k])
  IN walked.out \o IF o.invert /\ walked.count = 0 THEN <<TheFile>> ELSE <<>>

\* StringsCommandHandler: a string ends on the line it starts on; behind one
\* that does not, no more are found, its start is never given up.
Quotes == {Quote, Apostrophe}
RECURSIVE ScanLine(_, _, _)
ScanLine(line, at, s) ==
  IF at > Len(line) THEN s
  ELSE LET c == line[at] IN
       CASE c = Backslash -> ScanLine(line, at + 2, s)
         [] c # Backslash /\ s.start = 0 /\ c \in Quotes ->
              ScanLine(line, at + 1, [s EXCEPT !.start = at, !.delimiter = c])
         [] c # Backslash /\ s.start # 0 /\ c = s.delimiter ->
              ScanLine(line, at + 1, [start |-> 0, delimiter |-> NUL,
                                      strings |-> Append(s.strings, SubSeq(line, s.start, at))])
         [] OTHER -> ScanLine(line, at + 1, s)
StringsOfFile(lines) ==
  FoldLeft(LAMBDA s, line : ScanLine(line, 1, [s EXCEPT !.delimiter = NUL]),
           [start |-> 0, delimiter |-> NUL, strings |-> <<>>], lines).strings
\* write(): the different ones, sorted.
StringsWritten(files) ==
  SetToSortSeq(UNION {ToSet(StringsOfFile(files[k])) : k \in DOMAIN files}, Precedes)

--------------------------------------------------------------------------------
\* References.

\* Up to the first binary line: the lines that (do not) match, the first
\* maxCount of them; with --list the file, once, when a line (none) matches.
\* Inverted without --list a file all of whose lines match is left open: the code
\* writes its name, though names were not asked for (textknife.cpp:328, 539).
SearchAgrees(lines, pattern, string, o) ==
  LET simple == SimpleString(pattern, string)
      Text == {k \in DOMAIN lines : \A j \in 1..k : ~lines[j].binary}
      Holds(k) == IF simple = <<>> THEN lines[k].matches
                  ELSE \E j \in DOMAIN lines[k].text :
                         SubSeq(lines[k].text, j, j + Len(simple) - 1) = simple
      wanted == SetToSortSeq({k \in Text : Holds(k) # o.invert}, <)
      shown == IF o.maxCount = 0 THEN wanted ELSE Upto(wanted, o.maxCount)
      out == SearchFile(lines, simple, o)
  IN IF o.list
     THEN out = IF (\E k \in Text : Holds(k)) # o.invert THEN <<TheFile>> ELSE <<>>
     ELSE SelectSeq(out, LAMBDA l : l # TheFile) = [k \in DOMAIN shown |-> ShownLine(shown[k], o)]
          /\ (~o.invert \/ wanted # <<>>) => TheFile \notin ToSet(out)

\* Of lines made of words and closed strings the strings are found, each as
\* often as it stands there.
StringsAgree(lines) ==
  LET TextOf(line) == FlattenSeq([k \in DOMAIN line |-> line[k].text])
      texts == [k \in DOMAIN lines |-> TextOf(lines[k])]
      strings == SelectSeq(FlattenSeq(lines), LAMBDA p : p.isString)
  IN /\ StringsOfFile(texts) = [k \in DOMAIN strings |-> strings[k].text]
     /\ \A s, t \in DOMAIN StringsWritten(<<texts>>) :
          s < t => Precedes(StringsWritten(<<texts>>)[s], StringsWritten(<<texts>>)[t])

================================================================================
