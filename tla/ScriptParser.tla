----------------------------- MODULE ScriptParser -----------------------------
(***************************************************************************)
(* Tokens, conditions, numeric expressions and variables of a statement:   *)
(* Parser (text/Parser.cpp), SearchParser and the expressions of Script    *)
(* (text/Script.cpp).  A regular expression of the code is the length of   *)
(* what it matches at the start of a text, 0 if nothing.  Numbers are      *)
(* whole ones and fractions of them.                                       *)
(***************************************************************************)
EXTENDS StringTool

CONSTANTS Keywords,   \* _keywords
          Groups      \* the groups of functions: buffer, math, os, string

Spaces == {TAB, LF, VT, FF, CR, Blank}
WordChars == Uppers \cup Lowers \cup Digits \cup {Underscore}
Delimiters == {Minus, Plus, Slash, Backslash, Star, Percent, Dollar, Caret, Assign, Question,
               Quote, Apostrophe, Comma, Semicolon, Dot, Bar}
SearchFlags == {105, 76, 66, 60, 62, Dollar, Caret}
Tilde == 126
Less == 60
Greater == 62
Exclamation == 33

First(s) == IF s = <<>> THEN NUL ELSE s[1]
SpanFrom(s, k, set) == Span(From(s, k), set)

\* What the regular expressions match.
IdLength(s) == IF First(s) \in WordChars \ Digits THEN Span(s, WordChars) ELSE 0
IntLength(s) ==
  LET sign == Span(Upto(s, 1), {Minus, Plus})
  IN IF SpanFrom(s, sign + 1, Digits) = 0 THEN 0 ELSE sign + SpanFrom(s, sign + 1, Digits)
FloatLength(s) ==
  LET int == IntLength(s)
      part == SpanFrom(s, int + 2, Digits)
      withPart == IF First(From(s, int + 1)) = Dot /\ part > 0 THEN int + 1 + part ELSE int
      exponent == IntLength(From(s, withPart + 2))
  IN CASE int = 0 -> 0
       [] int > 0 /\ First(From(s, withPart + 1)) = 69 /\ exponent > 0 -> withPart + 1 + exponent
       [] OTHER -> withPart
StringLength(s) ==
  LET ends == {k \in 2 .. Len(s) : s[k] = s[1] /\ \A j \in 2 .. k : s[j] # LF}
  IN IF First(s) \notin Delimiters \/ ends = {} THEN 0
     ELSE CHOOSE k \in ends : \A j \in ends : k <= j
PatternLength(s) ==
  LET body == StringLength(From(s, 2))
  IN IF First(s) \notin {109, 114, 115} \/ body = 0 THEN 0
     ELSE 1 + body + SpanFrom(s, body + 2, SearchFlags)
BufferLength(s) ==
  IF First(s) # Tilde \/ IdLength(From(s, 2)) = 0 THEN 0 ELSE 1 + IdLength(From(s, 2))
BufferExpressionLength(s) ==
  LET name == BufferLength(s)
      number == SpanFrom(s, name + 2, Digits)
      more == SpanFrom(s, name + number + 3, Digits)
  IN CASE name = 0 \/ First(From(s, name + 1)) # Colon \/ number = 0 -> 0
       [] OTHER -> IF First(From(s, name + number + 2)) \in {Colon, Minus} /\ more > 0
                   THEN name + number + more + 2 ELSE name + number + 1
VariableLength(s) ==
  LET id == IdLength(From(s, 3))
  IN IF Upto(s, 2) = <<Dollar, LeftParen>> /\ id > 0 /\ First(From(s, id + 3)) = RightParen
     THEN id + 3 ELSE 0
ParameterLength(s) ==
  LET id == Span(s, WordChars)
      value == SpanFrom(s, id + 2, WordChars)
  IN IF First(s) \in Lowers /\ First(From(s, id + 1)) = Assign /\ value > 0
     THEN id + 1 + value ELSE 0
FunctionLength(s) ==
  LET group == Span(s, Lowers)
      name == SpanFrom(s, group + 2, WordChars)
  IN IF Upto(s, group) \in Groups /\ First(From(s, group + 1)) = Dot
        /\ First(From(s, group + 2)) \in Lowers /\ name > 1
     THEN group + 1 + name ELSE 0
PositionLength(s) ==
  LET line == Span(s, Digits)
      column == SpanFrom(s, line + 2, Digits)
  IN IF line = 0 \/ First(From(s, line + 1)) # Colon \/ column = 0 THEN 0 ELSE line + 1 + column
Operator1Length(s) ==
  IF First(s) \in {Minus, Plus, Slash, Colon, Star, Percent, Assign, Less, Greater, Tilde} THEN 1 ELSE 0
Operator2Length(s) ==
  CASE First(s) \in {Exclamation, Less, Greater, Assign, Tilde, Colon}
         /\ First(From(s, 2)) = Assign -> 2
    [] Upto(s, 3) \in {<<Minus, a, b>> : a \in {108, 103}, b \in {116, 101}}
                      \cup {<<Minus, 101, 113>>, <<Minus, 110, 101>>} -> 3
    [] OTHER -> 0

--------------------------------------------------------------------------------
\* The parser: what is left of the line, the token, and one that lookAhead()
\* has read.
Parser(line) == [rest |-> line, token |-> <<>>, type |-> "unknown", waiting |-> <<>>]
Rest(parser) == From(parser.rest, Span(parser.rest, Spaces) + 1)
Token(parser, rest, length, type) ==
  [parser EXCEPT !.rest = From(rest, length + 1), !.token = Upto(rest, length), !.type = type]

\* The mutant: an escaped quote ends a string.
QuoteEnds(s) ==
  LET ends == {k \in 2 .. Len(s) : s[k] = s[1]}
  IN IF ends = {} THEN Len(s) ELSE CHOOSE k \in ends : \A j \in ends : k <= j

\* A string in quotes, with escaped characters; without an end it is the rest.
QuotedLength(s) ==
  LET IsEscaped[k \in 0 .. Len(s)] == k > 2 /\ s[k - 1] = Backslash /\ ~IsEscaped[k - 1]
      ends == {k \in 2 .. Len(s) : s[k] = s[1] /\ ~IsEscaped[k]}
  IN IF ends = {} THEN Len(s) ELSE CHOOSE k \in ends : \A j \in ends : k <= j

\* parse()
Unquoted(parser, s, float, id, operator) ==
  CASE float > 0 -> Token(parser, s, float, "number")
    [] float = 0 /\ id > 0 ->
         Token(parser, s, id, IF Upto(s, id) \in Keywords THEN "keyword" ELSE "identifier")
    [] float = 0 /\ id = 0 /\ operator > 0 -> Token(parser, s, operator, "operator")
    [] OTHER -> Token(parser, s, 0, "unknown")

OperatorLength(s) == IF Operator2Length(s) > 0 THEN Operator2Length(s) ELSE Operator1Length(s)

TokenAt(parser, s) ==
  CASE First(s) \in {Quote, Apostrophe} -> Token(parser, s, QuotedLength(s), "string")
    [] First(s) = 35 ->
         [Token(parser, s, Span(s, (0 .. 255) \ {LF}), "comment") EXCEPT !.token = <<>>]
    [] s = <<>> -> Token(parser, s, 0, "end")
    [] OTHER -> Unquoted(parser, s, FloatLength(s), IdLength(s), OperatorLength(s))

Parse(parser) ==
  IF parser.waiting = <<>> THEN TokenAt(parser, Rest(parser))
  ELSE [parser EXCEPT !.waiting = <<>>, !.token = Head(parser.waiting).token,
                      !.type = Head(parser.waiting).type]

\* The next token is kept until parse() is called.
Waiting(parser, ahead) ==
  [parser EXCEPT !.rest = ahead.rest, !.waiting = <<[token |-> ahead.token, type |-> ahead.type]>>]
LookAhead(parser) == Waiting(parser, Parse(parser))

\* parseSpecial() with the expressions of the caller, or with those of
\* SearchParser; nothing matches: no token, the type before.
Special(parser, length, type) ==
  LET s == Rest(parser)
  IN [Token(parser, s, length, IF length > 0 THEN type ELSE "unknown") EXCEPT !.waiting = parser.waiting]
FirstHit(parser, candidates) ==
  LET hits == {k \in DOMAIN candidates : candidates[k][1] > 0}
      best == CHOOSE k \in hits : \A j \in hits : k <= j
  IN IF hits = {} THEN Special(parser, 0, "unknown")
     ELSE Special(parser, candidates[best][1], candidates[best][2])
ParseSpecial(parser) ==
  LET s == Rest(parser)
  IN FirstHit(parser,
       <<<<BufferExpressionLength(s), "buffer expression">>, <<BufferLength(s), "buffer">>,
         <<VariableLength(s), "variable">>, <<StringLength(s), "string">>,
         <<PatternLength(s), "pattern">>, <<ParameterLength(s), "parameter">>,
         <<FunctionLength(s), "function">>>>)

\* hasWaitingWord(): a word at the start, even of a longer one.
HasWaitingWord(parser, words) ==
  LET s == From(parser.rest, Span(parser.rest, {Blank, TAB}) + 1)
      hits == {k \in DOMAIN words : IsPrefix(words[k], s)}
      found == CHOOSE k \in hits : \A j \in hits : k <= j
  IN IF hits = {} THEN [index |-> 0, parser |-> [parser EXCEPT !.rest = s]]
     ELSE [index |-> found, parser |-> [parser EXCEPT !.rest = From(s, Len(words[found]) + 1)]]

\* asPosition(): lines and columns count from 1, 0 is the first one, too.
PositionOf(token) ==
  LET Below(n) == (IF n > 1 THEN n ELSE 1) - 1
      line == Span(token, Digits)
  IN [line |-> Below(NumberOf(token)), column |-> Below(NumberOf(From(token, line + 2)))]

--------------------------------------------------------------------------------
\* tokenAsRawString(), tokenAsInterpolatedString()
RawString(token) == SubSeq(token, 2, Len(token) - 1)

Meaning(c) == CASE c = 116 -> TAB [] c = 110 -> LF [] c = 114 -> CR [] c = 118 -> VT [] OTHER -> c
RECURSIVE Unescaped(_)
Unescaped(s) ==
  CASE s = <<>> -> <<>>
    [] s # <<>> /\ s[1] # Backslash -> <<s[1]>> \o Unescaped(Tail(s))
    [] s = <<Backslash>> -> s
    [] Len(s) > 1 /\ s[1] = Backslash /\ s[2] # SmallLetter(24) ->
         <<Meaning(s[2])>> \o Unescaped(From(s, 3))
    [] OTHER ->
         LET high == Nibble(First(From(s, 3)))
             low == Nibble(First(From(s, 4)))
         IN CASE high < 0 -> Thrown
              [] high >= 0 /\ low < 0 -> <<high>> \o Unescaped(From(s, 4))
              [] OTHER -> <<16 * high + low>> \o Unescaped(From(s, 5))
InterpolatedString(token) == Unescaped(RawString(token))

\* asPattern(): what kind of pattern, as a regular expression, and its flags.
AsPattern(token) ==
  LET body == StringLength(From(token, 2))
      pattern == SubSeq(token, 3, body)
  IN [flags |-> From(token, body + 2),
      regex |-> CASE token[1] = 109 -> GlobToRegularExpression(pattern)
                  [] token[1] = 115 -> StringToRegularExpression(pattern)
                  [] OTHER -> pattern]

--------------------------------------------------------------------------------
\* Variables in a statement: interpolate() replaces the first one until there
\* is none; the values are looked at again. limit bounds the rounds.
RECURSIVE Interpolate(_, _, _, _)
Interpolate(s, variables, default, limit) ==
  LET starts == {k \in DOMAIN s : VariableLength(From(s, k)) > 0}
      start == CHOOSE k \in starts : \A j \in starts : k <= j
      name == Upto(From(s, start), VariableLength(From(s, start)))
      value == IF name \in DOMAIN variables THEN variables[name] ELSE <<>>
      shown == IF value = <<>> THEN default ELSE value
  IN IF starts = {} \/ limit = 0 THEN s
     ELSE Interpolate(Upto(s, start - 1) \o shown \o From(s, start + Len(name)),
                      variables, default, limit - 1)

\* getText(): the lines of a here document, which ends with its marker.
HereDocument(lines, index, marker) ==
  LET ends == {k \in index + 1 .. Len(lines) : lines[k] = marker}
      end == CHOOSE k \in ends : \A j \in ends : k <= j
  IN IF ends = {} THEN [thrown |-> TRUE]
     ELSE [thrown |-> FALSE, contents |-> SubSeq(lines, index + 1, end - 1), next |-> end]

--------------------------------------------------------------------------------
\* Conditions: "true", "false" or an exception.
Truth(b) == IF b THEN "true" ELSE "false"
Exception == "exception"

\* _operators; an operator that is not listed is taken for the first one, !=.
NumberOperators == <<<<Exclamation, Assign>>, <<Less>>, <<Less, Assign>>, <<Assign, Assign>>,
                     <<Greater>>, <<Greater, Assign>>>>
TextOperators == [k \in 1 .. 6 |->
  <<<<Minus, 101, 113>>, <<Minus, 103, 101>>, <<Minus, 103, 116>>,
    <<Minus, 108, 101>>, <<Minus, 108, 116>>, <<Minus, 110, 101>>>>[k]]
Assignments == {<<Colon, Assign>>, <<Assign>>}
Similar == <<Tilde, Assign>>   \* what a pattern finds is open

ComparesNumbers(op, m, n) ==
  CASE op = <<Less>> -> m < n [] op = <<Less, Assign>> -> m <= n
    [] op = <<Assign, Assign>> -> m = n
    [] op = <<Greater>> -> m > n [] op = <<Greater, Assign>> -> m >= n
    [] OTHER -> m # n
ComparesTexts(op, s, t) ==
  CASE op = TextOperators[1] -> s = t
    [] op = TextOperators[2] -> ~Precedes(s, t)
    [] op = TextOperators[3] -> Precedes(t, s)
    [] op = TextOperators[4] -> ~Precedes(t, s)
    [] op = TextOperators[5] -> Precedes(s, t)
    [] op = TextOperators[6] -> s # t

\* An operand: its text and whether it is a number. The first may be a float,
\* the second is a whole number.
OperandOf(p) ==
  [parser |-> p, type |-> p.type, text |-> IF p.type = "string" THEN RawString(p.token) ELSE p.token]
Operand(parser, numberLength) ==
  OperandOf(IF numberLength > 0 THEN Special(parser, numberLength, "number")
                                ELSE Special(parser, StringLength(Rest(parser)), "string"))

\* A test that is only tested must be complete.
IsRefused(testOnly, parser) == testOnly /\ Parse(parser).type # "end"

Compared(testOnly, one, op, two) ==
  CASE two.type = "unknown" \/ op \in Assignments \/ IsRefused(testOnly, two.parser) -> Exception
    [] two.type # "unknown" /\ op \in ToSet(TextOperators) ->
         Truth(ComparesTexts(op, one.text, two.text))
    [] OTHER -> IF one.type # "number" \/ two.type # "number" THEN Exception
                ELSE Truth(ComparesNumbers(op, IntOf(one.text), IntOf(two.text)))

ComparedBy(testOnly, one, op) ==
  CASE op.type = "unknown" ->
         IF IsRefused(testOnly, op) THEN Exception
         ELSE Truth(IF one.type = "number" THEN IntOf(one.text) # 0 ELSE one.text # <<>>)
    [] op.type # "unknown" /\ op.token = Similar ->
         IF PatternLength(Rest(op)) = 0 THEN Exception ELSE "open"
    [] OTHER -> Compared(testOnly, one, op.token, Operand(op, IntLength(Rest(op))))

ConditionFrom(testOnly, one) ==
  IF one.type = "unknown" THEN Exception
  ELSE ComparedBy(testOnly, one,
                  Special(one.parser, OperatorLength(Rest(one.parser)), "operator"))

GetConditionAsBool(testOnly, line) ==
  ConditionFrom(testOnly, Operand(Parser(line), FloatLength(Rest(Parser(line)))))

--------------------------------------------------------------------------------
\* Numeric assignments: from left to right, one precedence in a statement. A
\* value is a fraction.
Fraction(n, d) == [n |-> IF d < 0 THEN -n ELSE n, d |-> IF d < 0 THEN -d ELSE d]
Whole(f) == LET abs == (IF f.n < 0 THEN -f.n ELSE f.n) \div f.d IN IF f.n < 0 THEN -abs ELSE abs
Remainder(m, n) == m - n * Whole(Fraction(m, n))
Precedence(op) == CASE op \in {Plus, Minus} -> 1 [] op \in {Star, Slash, Colon, Percent} -> 2 [] OTHER -> 0

Applied(op, f, n) ==
  CASE op = Plus -> Fraction(f.n + n * f.d, f.d)
    [] op = Minus -> Fraction(f.n - n * f.d, f.d)
    [] op = Star -> Fraction(f.n * n, f.d)
    [] op = Colon -> Fraction(f.n, f.d * n)
    [] op = Slash -> Fraction(Whole(Fraction(Whole(f), n)), 1)
    [] op = Percent -> Fraction(Remainder(Whole(f), n), 1)
    [] OTHER -> f

NoNumber == [n |-> 0, d |-> 0]   \* an exception
RECURSIVE NumericFrom(_, _, _)
OperatorBehind(next, op, value) ==
  CASE next.type = "end" -> value
    [] next.type = "operator" /\ Len(next.token) = 1
         /\ (op = NUL \/ Precedence(next.token[1]) = Precedence(op)) ->
         NumericFrom(next, value, next.token[1])
    [] OTHER -> NoNumber
ValueAt(number, f, op) ==
  IF number.type # "number" THEN NoNumber
  ELSE OperatorBehind(Parse(number), op, IF op = NUL THEN Fraction(IntOf(number.token), 1)
                                         ELSE Applied(op, f, IntOf(number.token)))
NumericFrom(parser, f, op) == ValueAt(Parse(parser), f, op)
AssignmentNumeric(line) == NumericFrom(Parser(line), Fraction(0, 1), NUL)

--------------------------------------------------------------------------------
\* Reference: a line put together from tokens with blanks between them gives
\* the tokens.
Line(tokens) == FoldLeft(LAMBDA s, token : s \o token.text \o <<Blank>>, <<>>, tokens)
RECURSIVE TokensOf(_)
TokensFrom(next) ==
  IF next.type \in {"end", "unknown"} THEN <<>>
  ELSE <<[text |-> next.token, type |-> next.type]>> \o TokensOf(next)
TokensOf(parser) == TokensFrom(Parse(parser))
TokensAgree(tokens) ==
  /\ TokensOf(Parser(Line(tokens))) = tokens
  /\ tokens # <<>> => TokensOf(LookAhead(Parser(Line(tokens)))) = tokens

\* A special token is found with its own kind in front of everything.
FoundWith(parser, special, tokens) ==
  parser.token = special.text /\ parser.type = special.type /\ TokensOf(parser) = tokens
SpecialAgrees(special, tokens) ==
  FoundWith(ParseSpecial(Parser(special.text \o <<Blank>> \o Line(tokens))), special, tokens)

\* A text in quotes, with what would end it escaped, is itself again.
Quoted(s, quote) ==
  <<quote>> \o FlattenSeq([k \in DOMAIN s |->
                 IF s[k] \in {quote, Backslash} THEN <<Backslash, s[k]>> ELSE <<s[k]>>]) \o <<quote>>
StringAgrees(s) ==
  \A quote \in {Quote, Apostrophe} :
    LET token == Quoted(s, quote)
    IN /\ Parse(Parser(token \o <<Comma>>)) = Token(Parser(<<>>), token \o <<Comma>>, Len(token), "string")
       /\ (\A k \in DOMAIN s : s[k] # SmallLetter(24)) => InterpolatedString(token) = s

\* A comparison in a line is the comparison, with numbers and with texts.
Decimal(n) == (IF n < 0 THEN <<Minus>> ELSE <<>>) \o <<48 + (IF n < 0 THEN -n ELSE n)>>
Comparison(left, op, right) == left \o <<Blank>> \o op \o <<Blank>> \o right
ConditionsAgree(m, n) ==
  LET s == Decimal(m)
      t == Decimal(n)
      numbers == <<m # n, m < n, m <= n, m = n, m > n, m >= n>>
      texts == <<s = t, s = t \/ Precedes(t, s), Precedes(t, s), s = t \/ Precedes(s, t),
                 Precedes(s, t), s # t>>
      cases == {<<Comparison(s, NumberOperators[k], t), Truth(numbers[k])>> : k \in 1 .. 6}
                 \cup {<<Comparison(Quoted(s, Comma), TextOperators[k], Quoted(t, Comma)),
                         Truth(texts[k])>> : k \in 1 .. 6}
                 \cup {<<s, Truth(m # 0)>>, <<Comparison(Quoted(s, Comma), <<Less>>, t), Exception>>}
  IN \A case \in cases : GetConditionAsBool(TRUE, case[1]) = case[2]

\* Sums and products of three numbers, from left to right.
Expression(l, op, m, op2, n) == Comparison(Decimal(l), <<op>>, Comparison(Decimal(m), <<op2>>, Decimal(n)))
Quotient(l, op, m) == AssignmentNumeric(Comparison(Decimal(l), <<op>>, Decimal(m)))
IsDivision(l, m, quotient, rest) ==
  quotient * m + rest = l /\ (rest # 0 => (rest > 0) = (l > 0))
NumericsAgree(l, m, n) ==
  /\ \A case \in {<<Minus, Plus, Fraction(l - m + n, 1)>>, <<Star, Star, Fraction(l * m * n, 1)>>,
                  <<Plus, Star, NoNumber>>} :
       AssignmentNumeric(Expression(l, case[1], m, case[2], n)) = case[3]
  /\ m # 0 => \E d \in 1 .. 9 : AssignmentNumeric(Expression(l, Colon, m, Star, m)) = Fraction(l * d, d)
  /\ m # 0 => IsDivision(l, m, Quotient(l, Slash, m).n, Quotient(l, Percent, m).n)

\* Variables whose values hold none are replaced all at once.
Variable(id) == <<Dollar, LeftParen>> \o id \o <<RightParen>>
InterpolationAgrees(parts, variables) ==
  LET Shown(part) == IF part.isVariable THEN variables[Variable(part.text)] ELSE part.text
      Written(part) == IF part.isVariable THEN Variable(part.text) ELSE part.text
  IN Interpolate(FlattenSeq([k \in DOMAIN parts |-> Written(parts[k])]), variables, <<>>, 9)
       = FlattenSeq([k \in DOMAIN parts |-> Shown(parts[k])])

\* A pattern and its flags come out of their token; a here document is what lies
\* between its start and its marker; a word that waits is taken off the line.
PatternAgrees(s, flags) ==
  LET token == <<115, Comma>> \o s \o <<Comma>> \o flags
  IN /\ FoundWith(ParseSpecial(Parser(token \o <<Blank>>)), [text |-> token, type |-> "pattern"], <<>>)
     /\ AsPattern(token) = [flags |-> flags, regex |-> StringToRegularExpression(s)]
HereDocumentAgrees(lines, index, marker) ==
  LET text == HereDocument(lines, index, marker)
  IN IF text.thrown THEN marker \notin ToSet(From(lines, index + 1))
     ELSE /\ marker \notin ToSet(text.contents)
          /\ SubSeq(lines, index + 1, text.next) = Append(text.contents, marker)
TakenWith(found, tokens) == found.index = 1 /\ TokensOf(found.parser) = tokens
WordAgrees(word, tokens) ==
  TakenWith(HasWaitingWord(Parser(<<TAB>> \o word \o <<Blank>> \o Line(tokens)), <<word>>), tokens)
==============================================================================
