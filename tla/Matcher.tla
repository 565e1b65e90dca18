-------------------------------- MODULE Matcher --------------------------------
(***************************************************************************)
(* SimpleMatcher and PatternList (text/Matcher.cpp): patterns with the     *)
(* joker "*", lists of patterns with excluding ones.                       *)
(***************************************************************************)
EXTENDS StringTool

\* A compiled pattern.
SimpleMatcher(pattern, isNot, ignoreCase) ==
  [pattern |-> pattern, findAll |-> pattern = <<Star>>, isNot |-> isNot,
   ignoreCase |-> ignoreCase, tokens |-> SplitCString(pattern, <<Star>>, 0)]

NoHit == [start |-> -1, end |-> -1]

\* The mutant: a token is looked for from the start again.
SearchAnywhere(matcher, s) ==
  [found |-> \A k \in DOMAIN matcher.tokens :
               matcher.tokens[k] = <<>> \/ IndexOf(s, matcher.tokens[k], 0, matcher.ignoreCase) >= 0,
   at |-> 0, hit |-> NoHit]

\* searchTokens(): one token behind the start of the one before, from the first
\* to the last one, whatever the caller asks for.  Being greedy is not modelled:
\* the loop for it does not end once a token is found.
SearchTokens(matcher, s) ==
  LET Step(state, token) ==
        LET k == IndexOf(s, token, state.at, matcher.ignoreCase)
        IN IF ~state.found \/ token = <<>> THEN state
           ELSE IF k < 0 THEN [state EXCEPT !.found = FALSE]
           ELSE [found |-> TRUE, at |-> k, hit |-> [start |-> k, end |-> k + Len(token)]]
  IN FoldLeft(Step, [found |-> TRUE, at |-> 0, hit |-> NoHit], matcher.tokens)

\* match(): anchor and tail, then the tokens between them. A single token is an
\* anchor only.
Match(matcher, s) ==
  LET tokens == matcher.tokens
      Anchored == StartsWith(s, Head(tokens), matcher.ignoreCase)
      Ended == EndsWith(s, Last(tokens), matcher.ignoreCase)
  IN \/ matcher.findAll
     \/ /\ Anchored
        /\ Len(tokens) > 1 =>
             /\ Ended
             /\ Len(tokens) > 2 => SearchTokens(matcher, s).found

Search(matcher, s) == matcher.findAll \/ SearchTokens(matcher, s).found

FirstMatch(matcher, list, start) ==
  LET hits == {k \in start + 1 .. Len(list) : Match(matcher, list[k])}
  IN IF hits = {} THEN -1 ELSE (CHOOSE k \in hits : \A j \in hits : k <= j) - 1
FilterMatches(matcher, list) == SelectSeq(list, LAMBDA s : Match(matcher, s))

--------------------------------------------------------------------------------
\* PatternList::set(): without a separator the first character is the one.
PatternList(patterns, ignoreCase, separator, notPrefix) ==
  LET own == separator = <<>>
      parts == SplitCString(IF own THEN Tail(patterns) ELSE patterns,
                            IF own THEN <<Head(patterns)>> ELSE separator, 0)
      Compiled(part) ==
        IF StartsWith(part, notPrefix, FALSE) THEN SimpleMatcher(Tail(part), TRUE, ignoreCase)
                                              ELSE SimpleMatcher(part, FALSE, ignoreCase)
  IN [k \in DOMAIN parts |-> Compiled(parts[k])]

\* match() and search(): behind a hit the other including patterns are not
\* looked at, an excluding one that hits ends the loop; hits are the places of
\* the patterns that hit.
Tested(list, hits) ==
  LET Step(state, k) ==
        CASE state.excluded -> state
          [] ~state.excluded /\ list[k].isNot ->
               IF k \in hits THEN [state EXCEPT !.rc = FALSE, !.excluded = TRUE]
               ELSE [state EXCEPT !.rc = @ \/ state.positives = 0]
          [] OTHER ->
               IF state.positives > 0 \/ k \in hits
               THEN [state EXCEPT !.rc = TRUE, !.positives = @ + 1] ELSE state
  IN FoldLeft(Step, [rc |-> FALSE, positives |-> 0, excluded |-> FALSE],
              [k \in DOMAIN list |-> k]).rc

ListMatch(list, s) == Tested(list, {k \in DOMAIN list : Match(list[k], s)})
ListSearch(list, s) == Tested(list, {k \in DOMAIN list : Search(list[k], s)})

--------------------------------------------------------------------------------
\* Reference: what a pattern with jokers means.
Folded(matcher, s) == IF matcher.ignoreCase THEN LowerCase(s) ELSE s

RECURSIVE Glob(_, _)
Glob(pattern, s) ==
  CASE pattern = <<>> -> s = <<>>
    [] pattern # <<>> /\ Head(pattern) = Star ->
         \E k \in 1 .. Len(s) + 1 : Glob(Tail(pattern), From(s, k))
    [] OTHER -> s # <<>> /\ Head(s) = Head(pattern) /\ Glob(Tail(pattern), Tail(s))
GlobOf(matcher, s) == Glob(Folded(matcher, matcher.pattern), Folded(matcher, s))
Covers(matcher, s) ==
  Glob(<<Star>> \o Folded(matcher, matcher.pattern) \o <<Star>>, Folded(matcher, s))

\* Texts of a pattern between its jokers; can two of them share characters?
Parts(matcher) == SelectSeq(matcher.tokens, LAMBDA token : token # <<>>)
Overlap(s, t) == \E n \in 1 .. Len(s) : n <= Len(t) /\ From(s, Len(s) - n + 1) = Upto(t, n)
KeepApart(matcher) ==
  LET parts == [k \in DOMAIN Parts(matcher) |-> Folded(matcher, Parts(matcher)[k])]
  IN \A i, j \in DOMAIN parts :
       i < j => ~Overlap(parts[i], parts[j]) /\ IndexOf(parts[i], parts[j], 0, FALSE) < 0
                /\ IndexOf(parts[j], parts[i], 0, FALSE) < 0

\* A text that a pattern covers matches; one that matches is covered, as long as
\* the parts cannot overlap and a joker ends the only one.
MatcherAgrees(matcher, s) ==
  /\ GlobOf(matcher, s) => Match(matcher, s)
  /\ Covers(matcher, s) => Search(matcher, s)
  /\ KeepApart(matcher) /\ Len(matcher.tokens) > 1 =>
       /\ Match(matcher, s) => GlobOf(matcher, s)
       /\ Search(matcher, s) => Covers(matcher, s)
  /\ LET hit == SearchTokens(matcher, s).hit
     IN Search(matcher, s) /\ hit # NoHit =>
          Folded(matcher, SubSeq(s, hit.start + 1, hit.end)) = Folded(matcher, Last(Parts(matcher)))

\* What a list finds hits at least one of its including patterns, if it has any,
\* and none of the excluding ones. (Matcher.hpp:207-213; a text no pattern of a
\* list of both kinds hits is left open: the code finds it.)
Selected(list, hits, isFound) ==
  LET excluding == {k \in DOMAIN list : list[k].isNot}
      included == DOMAIN list \ excluding
  IN CASE hits \cap excluding # {} -> ~isFound
       [] hits # {} /\ hits \subseteq included -> isFound
       [] OTHER -> {} \in {included, excluding} => isFound = (included = {})

ListAgrees(list, s) ==
  /\ Selected(list, {k \in DOMAIN list : Match(list[k], s)}, ListMatch(list, s))
  /\ Selected(list, {k \in DOMAIN list : Search(list[k], s)}, ListSearch(list, s))

\* The first match in a list is the first of its matches.
FilterAgrees(matcher, list) ==
  \A start \in 0 .. Len(list) :
    LET first == FirstMatch(matcher, list, start)
        filtered == FilterMatches(matcher, From(list, start + 1))
    IN IF filtered = <<>> THEN first = -1
       ELSE first >= start /\ list[first + 1] = Head(filtered)

\* What a regular expression of characters, "." and ".*" fits.
RECURSIVE Fits(_, _)
Fits(regex, s) ==
  LET isAny == regex # <<>> /\ regex[1] = Dot
      isRepeated == isAny /\ Len(regex) > 1 /\ regex[2] = Star
      isEscaped == regex # <<>> /\ regex[1] = Backslash
  IN CASE regex = <<>> -> s = <<>>
       [] isRepeated -> \E k \in 1 .. Len(s) + 1 : Fits(From(regex, 3), From(s, k))
       [] isEscaped -> s # <<>> /\ s[1] = regex[2] /\ Fits(From(regex, 3), Tail(s))
       [] OTHER -> s # <<>> /\ (isAny \/ s[1] = regex[1]) /\ Fits(Tail(regex), Tail(s))

\* The regular expression of a pattern fits what the pattern covers, that of a
\* text fits this text only.
RegexAgrees(pattern, s) ==
  /\ Fits(GlobToRegularExpression(pattern), s) = Glob(pattern, s)
  /\ Fits(StringToRegularExpression(pattern), s) = (s = pattern)
==============================================================================
