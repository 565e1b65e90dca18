------------------------------- MODULE MCTexts --------------------------------
(***************************************************************************)
(* The algorithms on texts, each on its own: an input is chosen, then what *)
(* the code makes of it is compared with a reference.                      *)
(***************************************************************************)
EXTENDS StringTool, FiniteSets, TLC

CONSTANT StorageSize

\* Some characters.
a == 97
b == 98
c == 99
x == 120
n0 == 48
n1 == 49

VARIABLES part,    \* the algorithm
          input,
          checked
vars == <<part, input, checked>>

Pattern == INSTANCE Matcher
Name == INSTANCE Path
Tree == INSTANCE Json
Line == INSTANCE ArgumentParser WITH Directories <- {}, Files <- {<<a>>, <<b>>}, IntRange <- 4096
Script == INSTANCE ScriptParser WITH Keywords <- {<<105, 102>>}, Groups <- {<<111, 115>>}
Table == INSTANCE CsvFile
Code == INSTANCE Base64
Config == INSTANCE Adaptation
Secret == INSTANCE VeilEngine
            WITH Offsets <- <<200, 431, 307, 269, 353>>, Factors <- <<61, 53, 59>>, MaxNumber <- 4096,
                 MaxFactor <- 64, HashStart <- 101, HashModulus <- 127, HashFactor <- 16, HalfRange <- 128,
                 BufferSize <- 40, LineSize <- 12
Report == INSTANCE KnifeReports

SeqsOf(set, n) == UNION {[1..k -> set] : k \in 0..n}
Given(name, set) == part = name /\ input \in set

--------------------------------------------------------------------------------
\* Texts, patterns and file names.
BeginTexts ==
  \/ Given("escape", SeqsOf({1, TAB, 30, a, n1, x, Quote, Backslash}, 3))
  \/ Given("parts", SeqsOf({a, 65, Comma}, 4))
  \/ Given("order", SeqsOf({a, 66, b}, 2) \X SeqsOf({a, 65, b}, 2))
  \/ Given("list", SeqsOf({<<>>, <<a>>, <<a, a>>, <<b>>}, 4))
  \/ Given("trim", SeqsOf({a, Blank, TAB}, 5))
  \/ Given("number", SeqsOf({n1, n0, Minus, Dot, 101}, 4))
  \/ Given("pattern", SeqsOf({a, b, Star}, 4) \ {<<>>})
  \/ Given("regex", SeqsOf({a, Star, Dot}, 4))
  \/ Given("patterns", SeqsOf({<<a>>, <<Star, b>>, <<Caret, a, Star>>, <<Caret, b>>}, 3) \ {<<>>})
  \/ Given("path", SeqsOf({a, Slash, Dot, n1}, 5))

PatternAgrees(pattern) ==
  \A ignoreCase \in BOOLEAN, s \in SeqsOf({a, b, 65}, 3) :
    Pattern!MatcherAgrees(Pattern!SimpleMatcher(pattern, FALSE, ignoreCase), s)
PatternsAgree(patterns) ==
  LET joined == JoinVector(patterns, <<Comma>>)
      list == Pattern!PatternList(joined, FALSE, <<Comma>>, <<Caret>>)
      texts == SetToSortSeq(SeqsOf({a, b}, 2), Precedes)
  IN /\ Pattern!PatternList(<<Semicolon>> \o ReplaceString(joined, <<Comma>>, <<Semicolon>>, -1),
                            FALSE, <<>>, <<Caret>>) = list
     /\ \A k \in DOMAIN texts : Pattern!ListAgrees(list, texts[k])
     /\ \A matcher \in ToSet(list) : Pattern!FilterAgrees(matcher, texts)

ExistingFiles == {<<a>>, <<a, Dot, n1>>, <<a, Dot, Dot, n1>>, <<a, Dot, n1, Dot, a>>,
                  <<a, Dot, n0, n1>>, <<Slash, a>>, <<Slash, a, Dot, a>>}
PathAgrees(p) ==
  /\ Name!PartsOf(p) /\ Name!RejoinsOf(p)
  /\ \A extension \in {Name!None, <<Dot, b>>, <<b>>} : Name!ExtensionReplaced(p, extension)
  /\ \A width \in {0, 1, 3} : Name!IsUnique(p, width, ExistingFiles)

\* The functions on strings, the patterns and the file names keep together what
\* belongs together: escaping is undone, the parts of a text are the text, a
\* pattern matches what it covers, the parts of a path are the path, a unique
\* name is free (StringTool.cpp, Matcher.cpp, Path.cpp, FileTool.cpp).
TextsAgree ==
  checked =>
    CASE part = "escape" -> EscapingAgrees(input)
      [] part = "parts" -> \A t \in SeqsOf({a, Comma}, 2) \ {<<>>} : PartsAgree(input, t, <<b>>)
      [] part = "order" -> \A u \in SeqsOf({a, 65, b}, 2) : OrderAgrees(input[1], input[2], u)
      [] part = "list" -> \A t \in {<<a>>, <<b>>, <<b, b>>} : ListsAgree(input, t)
      [] part = "trim" -> TrimAgrees(input, {Blank, TAB})
      [] part = "number" -> NumbersAgree(input)
      [] part = "pattern" -> PatternAgrees(input)
      [] part = "regex" -> \A s \in SeqsOf({a, Star, Dot}, 3) : Pattern!RegexAgrees(input, s)
      [] part = "patterns" -> PatternsAgree(input)
      [] part = "path" -> PathAgrees(input)
      [] OTHER -> TRUE

--------------------------------------------------------------------------------
\* JSON: trees of depth two, and texts of brackets, separators and scalars.
Scalars == {Tree!Value("string", s) : s \in {<<>>, <<a, Quote>>, <<Backslash, a>>, <<1>>, <<30>>}}
             \cup {Tree!Value("int", <<n1>>), Tree!Value("float", <<n1, Dot, n1>>),
                   Tree!Value("null", Tree!NullWord), Tree!Value("bool", True)}
Keys == {<<>>, <<a>>, <<Quote>>, <<LF>>}
Entry(key, node) == Tree!AddAttribute(<<>>, key, node, FALSE)
Maps(nodes) == {Tree!Map(<<>>)} \cup {Tree!Map(Entry(k, v)) : k \in Keys, v \in nodes}
                 \cup {Tree!Map(Entry(<<b>>, v) @@ Entry(<<a>>, Tree!Value("int", <<n1>>))) : v \in nodes}
Arrays(nodes) == {Tree!Array(<<>>)} \cup {Tree!Array(<<v>>) : v \in nodes}
                   \cup {Tree!Array(<<v, w>>) : v \in nodes, w \in Scalars}
Trees == LET nodes == Maps(Scalars) \cup Arrays(Scalars) \cup Scalars IN Maps(nodes) \cup Arrays(nodes)

JsonTexts ==
  LET Inner == [1..3 -> {LeftBrace, RightBrace, LeftBracket, RightBracket, Comma, Colon, Quote,
                         Backslash, a, n1, Minus}]
  IN {<<LeftBracket>> \o s \o <<RightBracket>> : s \in Inner}
       \cup {<<LeftBrace, Quote, Quote, Colon>> \o s \o <<RightBrace>> : s \in Inner}
       \cup {<<LeftBrace, Quote>> \o s \o <<Quote, Colon, n1, RightBrace>> : s \in Inner}
BeginJson == Given("tree", Trees) \/ Given("json", JsonTexts)

\* A tree that is written as text and read again is the same tree, with the
\* attributes and strings that need escape sequences; each node is found by its
\* path, the structure of a map is its own (NodeJson.cpp).
JsonRoundTrip ==
  checked =>
    CASE part = "tree" -> Tree!TreeAgrees(input, <<x>>)
      [] part = "json" -> Tree!ReadingAgrees(input)
      [] OTHER -> TRUE

--------------------------------------------------------------------------------
\* Command lines.
Dashed(s) == <<Minus, Minus>> \o s
Flag == Line!Parameter(Dashed(<<a, a, a, Minus, b, b, b>>), <<Minus, a>>, "bool", Line!Absent, FALSE)
Number == Line!Parameter(Dashed(<<a, a, a, Minus, x, x>>), <<Minus, b>>, "int", <<n1>>, FALSE)
Words == Line!Parameter(Dashed(<<b, b, b, b>>), <<Minus, x>>, "string", Line!Absent, TRUE)
Size == Line!Parameter(Dashed(<<x, a, x>>), <<Minus, c>>, "size", Line!Absent, FALSE)
Target == Line!Parameter(<<x, b, b>>, <<>>, "file", <<a>>, FALSE)
Mode == Line!Parameter(<<109, a>>, <<>>, "mode", Line!Absent, FALSE)
Inner == Line!Parser(<<Line!Help, Words, Target>>, <<>>)
Outer == Line!Parser(<<Line!Help, Flag, Number, Words, Size, Mode>>,
                     (Line!Key(Mode, <<a, b>>) :> Inner)
                       @@ (Line!Key(Mode, <<a, x>>) :> Line!Parser(<<Line!Help, Target>>, <<>>)))
Plain == Line!Parser(<<Line!Help, Flag, Number, Words, Size, Target>>, <<>>)

Item(p, v, f) == [parameter |-> p, value |-> v, form |-> f]
Items ==
  LET Valued(p, values) == {Item(p, v, f) : v \in values, f \in Line!Forms}
  IN Valued(Flag, {True}) \cup Valued(Number, {<<n1>>, <<Minus, n1>>, <<a>>})
       \cup Valued(Words, {<<a>>, <<Minus, a>>}) \cup Valued(Size, {<<n1, 107>>, <<51, 107>>})
Wanted == Item(Words, <<a>>, "short")
Found1 == Item(Target, <<b>>, "long")
BeginLines ==
  \/ Given("line", SeqsOf(Items \cup {Found1, Item(Target, <<c>>, "long")}, 2))
  \/ Given("mode", SeqsOf(Items, 2))

\* A command line gives each parameter the values it has in the line, in their
\* order and whatever form they are written in, the others their defaults; a
\* value of the wrong type or a second one where one is allowed is refused; a
\* sub parser takes what follows its mode (ArgumentParser.cpp). Of sizes this
\* is said as long as they fit an int (ArgumentParser.cpp:597).
ArgumentsAssigned ==
  checked =>
    CASE part = "line" -> Line!LineAgrees(Plain, input)
      [] part = "mode" -> Line!ModeAgrees(Outer, input, Mode, <<a, b>>, <<Wanted, Found1>>)
      [] OTHER -> TRUE

--------------------------------------------------------------------------------
\* Lines of scripts.
T(text, type) == [text |-> text, type |-> type]
Tokens ==
  {T(<<105, 102>>, "keyword"), T(<<105, 102, n1>>, "identifier"), T(<<Minus, n1, Dot, n1>>, "number"),
   T(<<n1, 69, n1>>, "number"), T(<<60, Assign>>, "operator"), T(<<Minus>>, "operator"),
   T(<<Minus, 108, 116>>, "operator"), T(<<Quote, a, Backslash, Quote, Quote>>, "string"),
   T(<<126>>, "operator")}
Specials ==
  {T(<<126, a, n1>>, "buffer"), T(<<126, a, Colon, n1, Minus, n1>>, "buffer expression"),
   T(Script!Variable(<<a>>), "variable"), T(<<Slash, a, Blank, b, Slash>>, "string"),
   T(<<114, Comma, a, Comma, 105>>, "pattern"), T(<<a, Assign, n1>>, "parameter"),
   T(<<111, 115, Dot, c, 100>>, "function")}
Piece(text, isVariable) == [isVariable |-> isVariable, text |-> text]
Pieces == {Piece(<<a>>, TRUE), Piece(<<b>>, TRUE), Piece(<<Dollar>>, FALSE),
           Piece(<<LeftParen>>, FALSE), Piece(<<b>>, FALSE)}
Variables == (Script!Variable(<<a>>) :> <<n1>>) @@ (Script!Variable(<<b>>) :> <<>>)

BeginScripts ==
  \/ Given("tokens", SeqsOf(Tokens, 3))
  \/ Given("string", SeqsOf({a, Quote, Backslash, Apostrophe, LF, x}, 4))
  \/ Given("numbers", [1..3 -> -3..3])
  \/ Given("pieces", SeqsOf(Pieces, 4))
  \/ Given("script pattern", SeqsOf({a, Star, Dot}, 3))
  \/ Given("here", SeqsOf({<<a>>, <<b>>}, 3))

\* A line of a script is read as the tokens it is written with, also ahead or
\* behind a token of a special kind; its strings, variables, patterns and here
\* documents mean what they quote, its conditions and sums what arithmetic says
\* (ScriptParser and NumericExpression of Script.cpp).
ScriptsParsed ==
  checked =>
    CASE part = "tokens" ->
           /\ Script!TokensAgree(input) /\ Script!WordAgrees(<<105, 102>>, input)
           /\ Len(input) < 2 => \A special \in Specials : Script!SpecialAgrees(special, input)
      [] part = "string" -> Script!StringAgrees(input)
      [] part = "numbers" -> /\ Script!NumericsAgree(input[1], input[2], input[3])
                             /\ input[3] = 0 => Script!ConditionsAgree(input[1], input[2])
      [] part = "pieces" -> Script!InterpolationAgrees(input, Variables)
      [] part = "script pattern" -> \A flags \in {<<>>, <<105, 76>>} : Script!PatternAgrees(input, flags)
      [] part = "here" -> \A k \in 0..1 : k <= Len(input) => Script!HereDocumentAgrees(input, k, <<a>>)
      [] OTHER -> TRUE

--------------------------------------------------------------------------------
\* Tables, base64, configurations.
Formats == {Table!Format(Comma, Quote, NUL), Table!AutoDelimiter(Semicolon, NUL),
            Table!AutoDelimiter(Comma, Backslash)}
Columns == SeqsOf({a, Comma, Quote, Apostrophe, Semicolon}, 2)
ConfigLines == {<<a, Assign, n1>>, <<a, Blank, Assign, Blank, 50>>, <<b, Assign, n1>>,
                <<35, a, Assign, n1>>, <<c>>, <<>>, <<a, b, Assign>>, <<Blank, b, Assign, 51>>}
Anchor(name, regex) == Config!NameOfAnchor(name) :> regex
Configurations ==
  {<<a>> :> <<n1>>, (<<a>> :> <<n1>>) @@ (<<b>> :> <<n1>>), (<<a>> :> <<n1>>) @@ Anchor(<<a>>, <<c>>),
   (<<b>> :> <<>>) @@ (<<a>> :> <<50, Assign>>) @@ Anchor(<<b>>, <<Caret, a, Dot>>)}
Salt(m, n) == <<m, n, a, Blank>>
Salts == {Salt(Blank, n) : n \in 60..95}
Three(n) == <<Salt(n, n), Salt(n + 1, n), Salt(n, n + 2)>>
Secrets == {Secret!User \o <<a, Assign, n1>>, Secret!User \o <<b, Assign>>, <<c, Dot, Assign, Assign>>,
            Secret!Application \o <<a, Assign, a>>, Secret!Application \o <<b, Assign, n1>>, <<b, Assign>>}
BeginVeiled ==
  \/ Given("veil", {"ALPHA_LOWERCASE", "ASCII95", "WORD"} \X SeqsOf({a, 126, LF, 200}, 3))
  \/ Given("random text", Secret!CharClasses \X (1..20))
  \/ Given("secrets", SeqsOf(Secrets, 2))
  \/ Given("secret file", SeqsOf(ConfigLines \cup {<<35, Blank>>}, 3))
  \/ Given("lines", {<<35, Blank>> \o s : s \in SeqsOf({LF, Blank, a}, 5)} \cup SeqsOf({35, a}, 2))
VeiledAgree ==
  CASE part = "veil" ->
         LET engine == Secret!Reset(Secret!NewCharRandom(input[1], 4))
             used == [engine EXCEPT !.random = Secret!SetPhrase(<<a>>, <<>>, input[2])]
         IN /\ Secret!ClassIsRegistered(input[1])
            /\ \A salt \in Salts : Secret!VeilAgrees(engine, used, input[2], salt)
            /\ \A size \in 1..8 : Secret!BufferAgrees(engine, input[2], Salt(a, b), size)
    [] part = "random text" ->
         LET engine == Secret!NewCharRandom(input[1], 0)
         IN \A lineCount \in 1..4, size \in {6, 40} :
              Secret!RandomTextAgrees(engine, input[2], lineCount, size, input[1])
    [] part = "secrets" ->
         \A salt \in {60, 70} :
           /\ Secret!ConfigurationAgrees(<<a>>, <<b>>, <<n1>>, <<x>>, input, Three(salt))
           /\ Secret!LicenseAgrees(<<a>>, <<>>, input, Three(salt))
    [] part = "secret file" -> \A salt \in {60, 75} : Secret!SecretAgrees(input, Three(salt))
    [] part = "lines" -> \A salt \in {60, 75} : Secret!CommandsAgree(input, Three(salt))
    [] OTHER -> TRUE

BeginCodes ==
  \/ Given("row", {<<column>> : column \in Columns} \cup (Columns \X Columns))
  \/ Given("separator", SeqsOf({TAB, Comma, Semicolon, a}, 4))
  \/ Given("bytes", SeqsOf({0, 1, 130, 255}, 4) \cup {[k \in 1..n |-> 20 * k] : n \in 5..11})
  \/ Given("configuration", SeqsOf(ConfigLines, 3))

\* What is written in a format is read from it: the rows of a table, the bytes
\* of a text in base64, the values of a configuration in the lines of a file
\* that was adapted to it, whose other lines stay, the lines of a file that was
\* veiled and the secrets in it (CsvFile.cpp, Base64.cpp, Configuration.cpp,
\* LineList.cpp, CharRandom.cpp, VeilEngine.cpp, SecretConfiguration.cpp).
CodedAgree ==
  checked =>
    CASE part = "row" ->
           \A f \in Formats : /\ Table!TableAgrees(f, <<input>>)
                              /\ \A k \in DOMAIN input : Table!ColumnAgrees(f, input[k])
      [] part = "separator" -> Table!SeparatorAgrees(input)
      [] part = "bytes" -> \A lineSize \in {4, 5, 8} : Code!Base64Agrees(input, lineSize)
      [] part = "configuration" -> /\ Config!ReadersAgree(input)
                                   /\ \A pattern \in {<<Caret, b>>, <<n1>>} : Config!FileAgrees(input, pattern, <<b, Assign, n1>>)
                                   /\ \A map \in Configurations : Config!AdaptionAgrees(input, map)
      [] OTHER -> VeiledAgree

--------------------------------------------------------------------------------
\* The commands for files and lines.
E(type, size, time, name) == [type |-> type, size |-> size, time |-> time, name |-> name]
Entries == {E("file", 1, 2, 1), E("file", 2, 2, 2), E("file", 0, 3, 3), E("link", 2, 1, 4),
            E("directory", 1, 4, 5)}
Shapes == {<<0, 1, 1, 2>>, <<0, 1, 2, 1>>, <<0, 1, 2, 3>>, <<0, 1, 2, 2>>, <<0, 1, 1, 1>>, <<0, 1, 2, 3, 2>>}
\* What has entries is a directory, the other nodes are anything.
Filled(p) == {n \in DOMAIN p : n = 1 \/ n \in ToSet(p)}
KindsOf(p) ==
  {[n \in DOMAIN p |-> IF n \in Filled(p) THEN "directory" ELSE k[n]] :
     k \in [DOMAIN p \ Filled(p) -> {"directory", "closed", "file", "missing", "missing directory"}]}
OwnedTrees ==
  UNION {[parent : {p}, kind : KindsOf(p), owner : [DOMAIN p -> 1..2],
          name : {[n \in DOMAIN p |-> IF p[n] = 1 THEN n ELSE n % 3]}] : p \in Shapes}
Counted(name, lines, binaryAt) == [name |-> <<102, n0 + name>>, lines |-> lines, binaryAt |-> binaryAt]
CountedFiles == {Counted(1, <<<<a, Blank, b>>, <<>>>>, 0), Counted(2, <<<<Blank, TAB, a, b, c>>>>, 0),
                 Counted(3, <<<<a>>>>, 1), Counted(4, <<>>, 0)}
Places == {Report!Place(code) : code \in {108, 119, 76, 102, b}}
WcOptions == [format |-> <<>>, lines |-> FALSE, words |-> FALSE, bytes |-> FALSE, maxLength |-> FALSE]

SearchedLines ==
  {[text |-> t, matches |-> m, binary |-> FALSE] : t \in {<<a, b>>, <<b>>, <<>>}, m \in BOOLEAN}
    \cup {[text |-> <<a>>, matches |-> TRUE, binary |-> TRUE]}
SearchOptions == [list : BOOLEAN, invert : BOOLEAN, onlyMatching : BOOLEAN, maxCount : 0..2]
StringParts == {[text |-> t, isString |-> FALSE] : t \in {<<a>>, <<Backslash, Quote>>}}
                 \cup {[text |-> t, isString |-> TRUE] :
                         t \in {<<Quote, a, Quote>>, <<Apostrophe, Quote, Apostrophe>>,
                                <<Quote, Backslash, Quote, Quote>>}}
BeginReports ==
  \/ Given("extrema", SeqsOf(Entries, 4))
  \/ Given("owner", OwnedTrees)
  \/ Given("wc", SeqsOf(Places \cup {<<a>>, <<Blank, a>>}, 3))
  \/ Given("search", SeqsOf(SearchedLines, 3))
  \/ Given("strings", SeqsOf(StringParts, 3) \X SeqsOf(StringParts, 2))

\* A report says what is true of the files: the greatest entries, the owner of
\* every entry, the counts of every file and their sum, the lines that match,
\* the strings (fileknife.cpp, textknife.cpp).
ReportsAgree ==
  checked =>
    CASE part = "extrema" -> \A count \in 1..3 : Report!ExtremaAgree(input, count)
      [] part = "owner" -> Report!OwnersRestored(input)
      [] part = "wc" -> \A files \in SeqsOf(CountedFiles, 2) : Report!WcAgrees(files, input, WcOptions)
      [] part = "search" ->
           \A o \in SearchOptions, string \in {<<>>, <<b>>},
              pattern \in {<<>>, <<Slash, a, Slash>>, <<Slash, a, Dot, Slash>>} :
             Report!SearchAgrees(input, pattern, string, o)
      [] part = "strings" -> Report!StringsAgree(<<input[1], input[2]>>)
      [] OTHER -> TRUE

--------------------------------------------------------------------------------
Begin ==
  /\ checked = FALSE
  /\ BeginTexts \/ BeginJson \/ BeginLines \/ BeginScripts \/ BeginCodes \/ BeginVeiled \/ BeginReports

Check ==
  /\ ~checked
  /\ checked' = TRUE
  /\ UNCHANGED <<part, input>>

TextsSpec == Begin /\ [][Check]_vars
================================================================================
