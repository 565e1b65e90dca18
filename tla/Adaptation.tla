------------------------------ MODULE Adaptation ------------------------------
(***************************************************************************)
(* Configurations (text/Configuration.cpp) and the adaption of the lines   *)
(* of a file to them: LineList::adapt(), adaptFromConfiguration() and the  *)
(* handler of the command adapt (tools/textknife.cpp).                     *)
(* A configuration is a function from names to values.  A regular          *)
(* expression is a sequence of characters and of the elements below.       *)
(***************************************************************************)
EXTENDS StringTool, FiniteSets

Spaces0 == -10   \* \s*
Spaces1 == -11   \* \s+
Space == {Blank, TAB, LF, VT, FF, CR}

RECURSIVE MatchHere(_, _)
MatchHere(regex, s) ==
  LET rest == Tail(regex)
      Takes(set) == s # <<>> /\ s[1] \in set
  IN CASE regex = <<>> -> TRUE
       [] regex # <<>> /\ regex[1] = Spaces0 ->
            MatchHere(rest, s) \/ (Takes(Space) /\ MatchHere(regex, Tail(s)))
       [] regex # <<>> /\ regex[1] = Spaces1 -> Takes(Space) /\ MatchHere(<<Spaces0>> \o rest, Tail(s))
       [] OTHER -> Takes(IF regex[1] = Dot THEN 1..255 \ {LF, CR} ELSE {regex[1]}) /\ MatchHere(rest, Tail(s))
RegexSearch(regex, s) ==
  IF regex # <<>> /\ regex[1] = Caret THEN MatchHere(Tail(regex), s)
  ELSE \E k \in 1..Len(s) + 1 : MatchHere(regex, From(s, k))

--------------------------------------------------------------------------------
\* Configuration

Blanks == {Blank, TAB, LF, VT, CR}
Trimmed(s) == TrimString(s, TRUE, TRUE, Blanks)

\* readFromFile(): the last definition of a name counts; rc is FALSE if there
\* was another one or a line without an equals sign.
ReadFromFile(lines) ==
  LET Read(state, line) ==
        LET top == Span(line, Blanks \ {VT}) + 1
            equals == Found(line, <<Assign>>)
            key == Trimmed(SubSeq(line, top, equals - 1))
        IN CASE top > Len(line) \/ line[top] \in {35, Semicolon} -> state
             [] equals > Len(line) -> [state EXCEPT !.rc = FALSE]
             [] OTHER -> [map |-> (key :> Trimmed(From(line, equals + 1))) @@ state.map,
                          rc |-> state.rc /\ key \notin DOMAIN state.map]
  IN FoldLeft(Read, [map |-> <<>>, rc |-> TRUE], lines)

\* populate(): ^([\w.-]+)\s*=\s*(.*)$
KeyCharacters == Digits \cup Uppers \cup Lowers \cup {Underscore, Dot, Minus}
Populate(map, text) ==
  LET Take(m, line) ==
        LET key == Upto(line, Span(line, KeyCharacters))
            behind == From(line, Len(key) + 1)
            assignment == From(behind, Span(behind, Space) + 1)
            value == Tail(assignment)
        IN IF key # <<>> /\ assignment # <<>> /\ assignment[1] = Assign
           THEN (key :> From(value, Span(value, Space) + 1)) @@ m ELSE m
  IN FoldLeft(Take, map, SplitCString(text, <<LF>>, -1))

ConfiguredString(map, name, default) == IF name \in DOMAIN map THEN map[name] ELSE default
Wrong == "exception"
Unset == <<-1>>
Letters(text) == LowerCase(text)
ConfiguredBool(map, name, default) ==
  LET value == ConfiguredString(map, name, Unset) IN
  CASE value = Unset -> default
    [] value # Unset /\ Letters(value) \in {True, Upto(True, 1)} -> "true"
    [] value # Unset /\ Letters(value) \in {False, Upto(False, 1)} -> "false"
    [] OTHER -> Wrong
ConfiguredInt(map, name, default) ==
  LET value == ConfiguredString(map, name, Unset) IN
  CASE value = Unset -> [problem |-> "none", value |-> default]
    [] value # Unset /\ IsInt(value) -> [problem |-> "none", value |-> IntOf(value)]
    [] OTHER -> [problem |-> Wrong]
ConfiguredNat(map, name, default) ==
  LET value == ConfiguredString(map, name, Unset) IN
  CASE value = Unset -> [problem |-> "none", value |-> default]
    [] value # Unset /\ IsNat(value) -> [problem |-> "none", value |-> NumberOf(value)]
    [] OTHER -> [problem |-> Wrong]

\* Mutant: the anchor is not skipped.
AnchorsWritten(map, excluded) == SetToSortSeq(DOMAIN map, Precedes)

\* names(): in the order of the map; a regular expression filters.
Names(map, excluded) ==
  SetToSortSeq({n \in DOMAIN map : ~RegexSearch(excluded, n)}, Precedes)

--------------------------------------------------------------------------------
\* LineList

\* find(): the index of the first line, from 1, 0 if there is none.
Find(lines, regex) == SelectInSeq(lines, LAMBDA line : RegexSearch(regex, line))

Adapt(lines, pattern, replacement, anchor, aboveAnchor) ==
  LET hit == Find(lines, pattern)
      near == IF anchor = Unset THEN 0 ELSE Find(lines, anchor)
      place == IF aboveAnchor THEN near ELSE near + 1
  IN CASE hit > 0 /\ lines[hit] = replacement -> [change |-> "unchanged", lines |-> lines]
       [] hit > 0 /\ lines[hit] # replacement ->
            [change |-> "changed", lines |-> [lines EXCEPT ![hit] = replacement]]
       [] hit = 0 /\ near > 0 -> [change |-> "inserted", lines |-> InsertAt(lines, place, replacement)]
       [] OTHER -> [change |-> "appended", lines |-> Append(lines, replacement)]

\* The variant for texts does not pass aboveAnchor on.
AdaptText(lines, pattern, replacement, anchor) == Adapt(lines, pattern, replacement, anchor, FALSE)

AnchorPrefix == <<Underscore, 97, 110, 99, 104, 111, 114, Underscore>>   \* _anchor_
IsWith(lines, name) == Find(lines, <<Caret>> \o name \o <<Assign>>) > 0
IsSpaced(lines, name) ==
  ~IsWith(lines, name) /\ Find(lines, <<Caret>> \o name \o <<Spaces1, Assign>>) > 0
Assignment(lines, names) ==
  LET without == SelectSeq(names, LAMBDA n : IsWith(lines, n))
      spaced == SelectSeq(names, LAMBDA n : IsSpaced(lines, n))
  IN IF Len(without) > Len(spaced) THEN <<Assign>> ELSE <<Blank, Assign, Blank>>

NameOfAnchor(name) == AnchorPrefix \o <<Dot>> \o name
\* The result tells of the last name whether it changed something.
AdaptFromConfiguration(lines, map) ==
  LET names == Names(map, <<Caret>> \o AnchorPrefix \o <<Dot>>)
      assignment == Assignment(lines, names)
      One(state, name) ==
        LET done == AdaptText(state.lines, <<Caret>> \o name \o <<Spaces0, Assign>>,
                              name \o assignment \o map[name],
                              ConfiguredString(map, NameOfAnchor(name), Unset))
        IN [lines |-> done.lines, hasChanged |-> done.change # "unchanged"]
  IN FoldLeft(One, [lines |-> lines, hasChanged |-> FALSE], names)

\* writeToFile(): each line gets a line feed unless it ends with one.
Written(lines) ==
  FlattenSeq([k \in DOMAIN lines |->
    IF lines[k] # <<>> /\ Last(lines[k]) = LF THEN lines[k] ELSE Append(lines[k], LF)])

--------------------------------------------------------------------------------
\* AdaptCommandHandler: the options are records, an option not given is Unset;
\* the member _hasAnchor is never set.

CheckAdapt(o, templates) ==
  CASE o.template # Unset ->
         IF o.template \notin DOMAIN templates \/ \E x \in {o.anchor, o.pattern, o.replacement} : x \notin {Unset, <<>>}
         THEN "refused" ELSE "template"
    [] OTHER -> IF o.replacement = Unset \/ o.pattern \in {Unset, <<>>} THEN "refused" ELSE "pattern"

\* The lines of the file after the command.
AdaptFile(lines, o, templates) ==
  LET check == CheckAdapt(o, templates)
      byTemplate == AdaptFromConfiguration(lines, templates[o.template])
      byPattern == Adapt(lines, o.pattern, o.replacement, Unset, o.aboveAnchor)
  IN CASE check = "refused" -> lines
       [] check = "template" -> IF byTemplate.hasChanged THEN byTemplate.lines ELSE lines
       [] OTHER -> IF byPattern.change # "unchanged" THEN byPattern.lines ELSE lines

--------------------------------------------------------------------------------
\* References.

ByTemplate == [template |-> <<112, 104, 112>>, pattern |-> Unset, replacement |-> Unset, anchor |-> Unset,
               aboveAnchor |-> FALSE]
LastOf(names) == Last(SetToSortSeq(names, Precedes))
IsName(n) == Upto(n, Len(AnchorPrefix)) # AnchorPrefix
Pattern(n) == <<Caret>> \o n \o <<Spaces0, Assign>>

\* The lines that belong to a name.
LinesWith(lines, n) == {k \in DOMAIN lines : RegexSearch(Pattern(n), lines[k])}
LineOf(lines, n) == CHOOSE k \in DOMAIN lines : RegexSearch(Pattern(n), lines[k])
Others(lines, names) == SelectSeq(lines, LAMBDA l : \A n \in names : ~RegexSearch(Pattern(n), l))
IsClear(lines, names) ==
  \A n \in names :
    /\ Cardinality(LinesWith(lines, n)) <= 1
    /\ \A k \in DOMAIN lines : n \in DOMAIN ReadFromFile(<<lines[k]>>).map => k \in LinesWith(lines, n)
    /\ \A m \in names : m # n => /\ LinesWith(lines, n) \cap LinesWith(lines, m) = {}
                                 /\ ~RegexSearch(Pattern(n), m \o <<Assign>>)
\* A name whose line changes or is missing.
Due(lines, adapted, names) ==
  {n \in names : \A k \in LinesWith(lines, n) : lines[k] # adapted[LineOf(adapted, n)]}
AdaptedHolds(lines, map, names, adapted, found) ==
  /\ \A n \in names : Cardinality(LinesWith(adapted, n)) = 1 /\ found[n] = map[n]
  /\ Others(adapted, names) = Others(lines, names)
  /\ AdaptFromConfiguration(adapted, map) = [lines |-> adapted, hasChanged |-> FALSE]
IsPlaced(lines, name, anchor, adapted) ==
  LinesWith(lines, name) = {} /\ anchor # Unset /\ Find(lines, anchor) > 0
    => LineOf(adapted, name) = Find(lines, anchor) + 1
IsWritten(lines, adapted, names, due, written) ==
  /\ due = {} => written = lines
  /\ names # {} /\ LastOf(names) \in due => written = adapted
AdaptedAgrees(lines, map, names, adapted) ==
  /\ AdaptedHolds(lines, map, names, adapted, ReadFromFile(adapted).map)
  /\ IsWritten(lines, adapted, names, Due(lines, adapted, names),
               AdaptFile(lines, ByTemplate, ByTemplate.template :> map))
  /\ \A n \in names :
       names = {n} => IsPlaced(lines, n, ConfiguredString(map, NameOfAnchor(n), Unset), adapted)
\* The lines read back hold the configured values, the other lines keep their
\* text and their order, a second adaption finds nothing to do: as long as no
\* line belongs to two names, no name has two lines and no line of a name is
\* indented.  The command writes them if something has to change, which is said
\* for the last name only (LineList.cpp:184; LineList.hpp:215 promises it for
\* any), and keeps the file if nothing has to.
AdaptionAgrees(lines, map) ==
  LET names == {n \in DOMAIN map : IsName(n)}
  IN IsClear(lines, names) => AdaptedAgrees(lines, map, names, AdaptFromConfiguration(lines, map).lines)

\* By a pattern one line becomes the replacement: the first that has the pattern,
\* or a new last one; a file with that line already is kept.
FileAgrees(lines, pattern, replacement) ==
  LET hit == Find(lines, pattern)
      options == [ByTemplate EXCEPT !.template = Unset, !.pattern = pattern, !.replacement = replacement]
  IN AdaptFile(lines, options, <<>>)
       = IF hit = 0 THEN Append(lines, replacement) ELSE [lines EXCEPT ![hit] = replacement]

\* What the text of lines populates is read from a file of them; populate()
\* knows no indented lines.
ReadersAgree(lines) ==
  LET read == ReadFromFile(lines).map
      populated == Populate(<<>>, JoinVector(lines, <<LF>>))
  IN (\A k \in DOMAIN lines : Span(lines[k], Space) = 0) =>
       \A n \in DOMAIN populated : n \in DOMAIN read /\ read[n] = Trimmed(populated[n])
==============================================================================
