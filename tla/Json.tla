--------------------------------- MODULE Json ---------------------------------
(***************************************************************************)
(* Text and trees of text/NodeJson.cpp: JsonReader reads a text into a     *)
(* tree, NodeJson::decode() writes a tree as a text.  The result of the    *)
(* reader is a tree, "error", or "undefined" where the code runs into      *)
(* undefined behaviour: the tokens of a document are kept in one buffer    *)
(* (TokenInfo::store() does not test whether it is full).                  *)
(* How an error is worded is left out.                                     *)
(***************************************************************************)
EXTENDS StringTool

CONSTANT StorageSize   \* bytes of the token buffer: 0x10000

NullWord == <<110, 117, 108, 108>>
TokenOverhead == 4     \* ByteBuffer: two bytes of length, the NUL and the 0xff

\* The nodes of a tree.
Value(type, text) == [type |-> type, text |-> text]
Array(items) == [type |-> "array", items |-> items]
Map(entries) == [type |-> "map", entries |-> entries]
Nothing(reason) == [type |-> reason]   \* a null pointer, an exception, ...

IsArray(node) == node.type = "array"
IsMap(node) == node.type = "map"
IsValue(node) == ~IsArray(node) /\ ~IsMap(node)

\* The mutant: an attribute is stored as it is.
AttributeRaw(entries, attribute, node, maskMetaCharacters) == (attribute :> node) @@ entries

\* MapJson::add(): attributes with meta characters are stored escaped.
AddAttribute(entries, attribute, node, maskMetaCharacters) ==
  LET key == IF maskMetaCharacters \/ EscapeCount(attribute) > 0
             THEN EscapeMetaCharacters(attribute) ELSE attribute
  IN (key :> node) @@ entries

Erase(entries, attribute) == Restrict(entries, DOMAIN entries \ {attribute})

--------------------------------------------------------------------------------
\* The tokens.  A reader state: the text, the position of the cursor, the used
\* bytes of the token buffer, the token and what went wrong.

Whitespaces == {Blank, TAB, LF, CR}

SkipWhitespaces(text, at) == at + Span(From(text, at), Whitespaces)

\* The position of the quote that ends a string, 0 if there is none.
RECURSIVE EndOfString(_, _)
EndOfString(text, at) ==
  CASE at > Len(text) -> 0
    [] at <= Len(text) /\ text[at] = Quote -> at
    [] at <= Len(text) /\ text[at] = Backslash -> EndOfString(text, at + 2)
    [] OTHER -> EndOfString(text, at + 1)

\* TokenInfo::store() and the cursor behind the token.
Stored(state, type, string, cursor) ==
  LET used == state.used + Len(string) + TokenOverhead IN
  [state EXCEPT !.at = cursor, !.used = used, !.type = type, !.string = string,
                !.problem = IF used > StorageSize THEN "undefined" ELSE @]

Single == (LeftBrace :> "{") @@ (RightBrace :> "}") @@ (LeftBracket :> "[") @@ (RightBracket :> "]")
            @@ (Colon :> ":") @@ (Comma :> ",")
TokenWords == {<<NullWord, "null">>, <<True, "bool">>, <<False, "bool">>}

Failed(state, problem) == [state EXCEPT !.problem = problem, !.type = "unknown"]

StringToken(state, at) ==
  LET end == EndOfString(state.text, at + 1) IN
  CASE at = Len(state.text) -> Failed(state, "undefined")
    [] at < Len(state.text) /\ end = 0 -> Failed(state, "error")
    [] OTHER -> Stored(state, "string", SubSeq(state.text, at + 1, end - 1), end + 1)

TokenAt(state, at, rest) ==
  LET words == {w \in TokenWords : IsPrefix(w[1], rest)}
      word == CHOOSE w \in words : TRUE
  IN CASE rest = <<>> -> [state EXCEPT !.at = at, !.type = "end"]
       [] OTHER ->
            CASE rest[1] = Quote -> StringToken(state, at)
              [] rest[1] \in {Minus} \cup Digits ->
                   Stored(state, "number", Upto(rest, NumberLength(rest)), at + NumberLength(rest))
              [] rest[1] \in DOMAIN Single ->
                   [state EXCEPT !.at = at + 1, !.type = Single[rest[1]]]
              [] words # {} -> Stored(state, word[2], word[1], at + Len(word[1]))
              [] OTHER -> Failed(state, "error")

TokenBehind(state, at) == TokenAt(state, at, From(state.text, at))

NextToken(state) ==
  IF state.problem # "none" THEN state
  ELSE TokenBehind(state, SkipWhitespaces(state.text, state.at))

--------------------------------------------------------------------------------
\* The parser: each part returns the state behind it and its node.

ScalarNode(state) ==
  CASE state.type = "string" -> Value("string", CString(UnEscapeMetaCharacters(state.string)))
    [] state.type = "number" -> Value(IF IsInt(state.string) THEN "int" ELSE "float", state.string)
    [] state.type = "bool" -> Value("bool", state.string)
    [] state.type = "null" -> Value("null", NullWord)

Scalars == {"string", "number", "bool", "null"}

Behind(state, node) == [state |-> state, node |-> node]

RECURSIVE ParseValue(_), ParseArray(_, _), ParseMap(_, _)

\* The token of the value has been read.
ParseValue(state) ==
  CASE state.problem # "none" -> Behind(state, Value("null", NullWord))
    [] state.problem = "none" /\ state.type = "{" -> ParseMap(state, <<>>)
    [] state.problem = "none" /\ state.type = "[" -> ParseArray(state, <<>>)
    [] state.problem = "none" /\ state.type \in Scalars -> Behind(state, ScalarNode(state))
    [] OTHER -> Behind(Failed(state, "error"), Value("null", NullWord))

\* The token behind a separator: a comma may stand before the end, too.
Separation(token, isFirst, end) ==
  CASE isFirst \/ token.type = end \/ token.problem # "none" -> token
    [] ~isFirst /\ token.type = "," -> NextToken(token)
    [] OTHER -> Failed(token, "error")
Separated(state, isFirst, end) == Separation(NextToken(state), isFirst, end)

WithItem(items, value) == ParseArray(value.state, Append(items, value.node))
ArrayAt(token, items) ==
  IF token.problem # "none" \/ token.type = "]" THEN Behind(token, Array(items))
  ELSE WithItem(items, ParseValue(token))
ParseArray(state, items) == ArrayAt(Separated(state, items = <<>>, "]"), items)

WithEntry(entries, attribute, value) ==
  ParseMap(value.state, AddAttribute(entries, attribute, value.node, FALSE))
ColonAt(token, entries, attribute) ==
  CASE token.problem # "none" -> Behind(token, Map(entries))
    [] token.problem = "none" /\ token.type # ":" -> Behind(Failed(token, "error"), Map(entries))
    [] OTHER -> WithEntry(entries, attribute, ParseValue(NextToken(token)))
MapAt(token, entries) ==
  CASE token.problem # "none" \/ token.type = "}" -> Behind(token, Map(entries))
    [] token.problem = "none" /\ token.type = "string" ->
         ColonAt(NextToken(token), entries, CString(UnEscapeMetaCharacters(token.string)))
    [] OTHER -> Behind(Failed(token, "error"), Map(entries))
ParseMap(state, entries) == MapAt(Separated(state, entries = <<>>, "}"), entries)

\* Nothing may follow the tree.
Complete(root, last) ==
  CASE last.problem # "none" -> Nothing(last.problem)
    [] last.problem = "none" /\ last.type = "end" -> root.node
    [] OTHER -> Nothing("error")
TreeBehind(root) == Complete(root, NextToken(root.state))
TreeFrom(first) ==
  IF first.problem = "none" /\ first.type \notin {"{", "["} THEN Nothing("error")
  ELSE TreeBehind(ParseValue(first))

Parse(text) ==
  TreeFrom(NextToken([text |-> text, at |-> 1, used |-> 0, type |-> "unknown", string |-> <<>>,
                      problem |-> "none"]))

--------------------------------------------------------------------------------
\* The text of a tree.  The entries of an array get the level of the array.

Blanks(n) == [k \in 1..n |-> Blank]

SortedKeys(entries) == SetToSortSeq(DOMAIN entries, Precedes)

RECURSIVE AddAsString(_, _, _, _)
AddAsString(node, indent, level, needsPrefix) ==
  LET newline == IF indent = 0 THEN <<>> ELSE <<LF>>
      Parts(n, Part(_)) ==
        FlattenSeq([k \in 1..n |-> Part(k) \o (IF k < n THEN <<Comma>> ELSE <<>>) \o newline])
      keys == SortedKeys(node.entries)
      Item(k) == AddAsString(node.items[k], indent, level, TRUE)
      Entry(k) ==
        Blanks(indent * level) \o <<Quote>> \o keys[k] \o <<Quote, Colon>>
          \o Blanks(IF indent = 0 THEN 0 ELSE 1)
          \o AddAsString(node.entries[keys[k]], indent, level + 1, FALSE)
      text == IF node.type = "string" THEN <<Quote>> \o EscapeMetaCharacters(node.text) \o <<Quote>>
                                      ELSE node.text
  IN CASE IsArray(node) ->
            <<LeftBracket>> \o newline \o Parts(Len(node.items), Item)
              \o Blanks(indent * level) \o <<RightBracket>>
       [] IsMap(node) ->
            <<LeftBrace>> \o newline \o Parts(Len(keys), Entry)
              \o Blanks(indent * level) \o <<RightBrace>>
       [] OTHER -> (IF needsPrefix THEN Blanks(indent * level) ELSE <<>>) \o text

Decode(tree, indent) == AddAsString(tree, indent, 0, TRUE)

--------------------------------------------------------------------------------
\* Access.

ByIndex(node, index) ==
  IF IsArray(node) /\ index \in 0..Len(node.items) - 1 THEN node.items[index + 1]
  ELSE Nothing("none")
ByAttribute(node, attribute) ==
  IF IsMap(node) /\ attribute \in DOMAIN node.entries THEN node.entries[attribute]
  ELSE Nothing("none")

\* A step is an index ("[n") or an attribute.  For an attribute it is the type of
\* the root that is tested, not of the node that was reached.
StepTo(root, node, step) ==
  CASE node.type \in {"none", "undefined"} -> node
    [] node.type \notin {"none", "undefined"} /\ step.kind = "index" -> ByIndex(node, step.index)
    [] OTHER ->
         CASE ~IsMap(root) -> Nothing("none")
           [] IsMap(root) /\ ~IsMap(node) -> Nothing("undefined")
           [] OTHER -> ByAttribute(node, step.attribute)

NodeByPath(root, path, expectedType) ==
  LET last == FoldLeft(LAMBDA node, step : StepTo(root, node, step), root, path)
  IN IF last.type \in {"none", "undefined"} \/ expectedType \in {"any", last.type}
     THEN last ELSE Nothing("none")

\* MapJson::checkStructure(): the complaints; optional is a list, not a null
\* pointer, with which nothing is unknown.
FloatListChars == Digits \cup {Blank, Dot, Comma}
FitsType(node, type) ==
  CASE type \in {"any", "null"} -> TRUE
    [] type = "float" -> node.type \in {"int", "float"}
    [] type = "float list" -> IsValue(node) /\ Span(node.text, FloatListChars) = Len(node.text)
    [] OTHER -> node.type = type

CheckStructure(node, mandatory, optional, mustBeComplete) ==
  LET Wrong(list) == {a \in DOMAIN list \cap DOMAIN node.entries :
                        ~FitsType(node.entries[a], list[a])}
  IN [missing |-> DOMAIN mandatory \ DOMAIN node.entries,
      wrong |-> Wrong(mandatory) \cup Wrong(optional),
      unknown |-> IF mustBeComplete
                  THEN DOMAIN node.entries \ (DOMAIN mandatory \cup DOMAIN optional) ELSE {}]

--------------------------------------------------------------------------------
\* References.

\* Whatever was read is read again from the text that is written of it.
IsReadAgain(tree) == \A indent \in {0, 2} : Parse(Decode(tree, indent)) = tree

ReadingAgreesOf(tree) == tree.type \in {"map", "array"} => IsReadAgain(tree)
ReadingAgrees(text) == ReadingAgreesOf(Parse(text))

\* The texts of the values of a tree; the nodes with the steps that lead to them.
RECURSIVE ValueTexts(_), NodesWithPath(_)
ValueTexts(node) ==
  CASE IsArray(node) -> UNION {ValueTexts(node.items[k]) : k \in DOMAIN node.items}
    [] IsMap(node) -> UNION {ValueTexts(node.entries[a]) : a \in DOMAIN node.entries}
    [] OTHER -> {node.text}
NodesWithPath(node) ==
  LET Below(child, step) == {[n EXCEPT !.path = <<step>> \o @] : n \in NodesWithPath(child)}
  IN {[path |-> <<>>, node |-> node]} \cup
       CASE IsArray(node) -> UNION {Below(node.items[k], [kind |-> "index", index |-> k - 1])
                                      : k \in DOMAIN node.items}
         [] IsMap(node) -> UNION {Below(node.entries[a], [kind |-> "attribute", attribute |-> a])
                                    : a \in DOMAIN node.entries}
         [] OTHER -> {}

\* A tree is read from its text, unless a value holds a character whose escape
\* sequence is wrong; from a map each node is found by its path; a map fits its
\* own types and misses what is not in it.
TreeAgrees(tree, fresh) ==
  /\ (\A text \in ValueTexts(tree) : \A k \in DOMAIN text : HasEscape(text[k])) =>
       IsReadAgain(tree)
  /\ IsMap(tree) =>
       LET types == [a \in DOMAIN tree.entries |-> tree.entries[a].type]
           added == AddAttribute(tree.entries, fresh, tree, FALSE)
       IN /\ \A n \in NodesWithPath(tree) : NodeByPath(tree, n.path, n.node.type) = n.node
          /\ CheckStructure(tree, types, <<>>, TRUE) = [missing |-> {}, wrong |-> {}, unknown |-> {}]
          /\ CheckStructure(tree, fresh :> "any", types, TRUE).missing = {fresh}
          /\ CheckStructure(Map(added), types, <<>>, TRUE).unknown = {fresh}
          /\ Erase(added, fresh) = tree.entries
==============================================================================
