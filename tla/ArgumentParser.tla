---------------------------- MODULE ArgumentParser ----------------------------
(***************************************************************************)
(* The command line parser: tools/ArgumentParser.cpp.  A parser is a       *)
(* record: its parameters in the order of add(), and its sub parsers, a    *)
(* function from keys "mode.value".  The result of a parse is a record:    *)
(* what went wrong, the arguments (name -> values), and the result of the  *)
(* active sub parser.  The wording of messages and usage texts is left out.*)
(***************************************************************************)
EXTENDS StringTool

CONSTANTS Directories, Files,  \* the file system: paths
          IntRange             \* bound: how many values an int has

\* An absent name is <<>>, an absent default Absent.
Absent == <<-2>>
Parameter(longname, shortname, type, default, multiple) ==
  [longname |-> longname, shortname |-> shortname, type |-> type, default |-> default,
   multiple |-> multiple]
Parser(parameters, subParsers) == [parameters |-> parameters, subParsers |-> subParsers]

Name(p) ==
  CASE p.longname # <<>> -> IF StartsWith(p.longname, <<Minus, Minus>>, FALSE)
                            THEN From(p.longname, 3) ELSE p.longname
    [] OTHER -> IF StartsWith(p.shortname, <<Minus>>, FALSE) THEN From(p.shortname, 2)
                ELSE p.shortname

\* A parameter with a short name only is an option if that has no minus.
IsOption(p) ==
  \/ p.longname # <<>> /\ p.longname[1] = Minus
  \/ p.shortname # <<>> /\ p.shortname[1] # Minus

\* The constructor of ArgumentParser adds the first parameter.
Help == Parameter(<<Minus, Minus, 104, 101, 108, 112>>, <<Minus, Question>>, "bool", Absent, FALSE)

Key(parameter, value) == Name(parameter) \o <<Dot>> \o value

--------------------------------------------------------------------------------
\* Finding parameters.

\* The mutant: of the name parts only the first is compared.
FitsFirstPart(p, name) ==
  LET parts == SplitCString(From(p.longname, 3), <<Minus>>, -1)
      nameParts == SplitCString(From(name, 3), <<Minus>>, -1)
  IN Len(parts) = Len(nameParts) /\ StartsWith(parts[1], nameParts[1], FALSE)

\* The name parts of an option may be abbreviated, also where one is complete.
\* The two first characters of every long name are skipped, minus or not.
FitsLongname(p, name) ==
  LET parts == SplitCString(From(p.longname, 3), <<Minus>>, -1)
      nameParts == SplitCString(From(name, 3), <<Minus>>, -1)
  IN /\ Len(parts) = Len(nameParts)
     /\ \A k \in DOMAIN parts : StartsWith(parts[k], nameParts[k], FALSE)

Candidates(parser, name) ==
  LET isLong == StartsWith(name, <<Minus, Minus>>, FALSE) IN
  SelectSeq(parser.parameters,
    LAMBDA p : IF isLong THEN FitsLongname(p, name) ELSE p.shortname = name)

\* buildOptionArgument(): the parameter, its value, and how many arguments of
\* the command line that takes.
Option(parameter, value, taken) ==
  [problem |-> "none", parameter |-> parameter, value |-> value, taken |-> taken]
Failure(problem) == [problem |-> problem]

\* inArg: the value stands in the argument, behind the name and what separates it.
Chosen(parameter, args, inArg, start) ==
  CASE parameter.type = "bool" -> Option(parameter, True, 1)
    [] parameter.type # "bool" /\ inArg -> Option(parameter, From(args[1], start), 1)
    [] parameter.type # "bool" /\ ~inArg /\ Len(args) = 1 -> Failure("missing value")
    [] OTHER -> Option(parameter, args[2], 2)

ChosenOf(candidates, isLong, args, inArg, start) ==
  CASE candidates = <<>> -> Failure("unknown option")
    [] Len(candidates) > 1 /\ isLong -> Failure("ambiguous option")
    [] OTHER -> Chosen(candidates[1], args, inArg, start)

LongOption(parser, args, assign) ==
  ChosenOf(Candidates(parser, Upto(args[1], assign - 1)), TRUE, args, assign <= Len(args[1]), assign + 1)

OptionArgument(parser, args) ==
  IF StartsWith(args[1], <<Minus, Minus>>, FALSE)
  THEN LongOption(parser, args, Found(From(args[1], 3), <<Assign>>) + 2)
  ELSE ChosenOf(Candidates(parser, Upto(args[1], 2)), FALSE, args, Len(args[1]) # 2, 3)

Positional(parser) == SelectSeq(parser.parameters, LAMBDA p : ~IsOption(p))

--------------------------------------------------------------------------------
\* Argument::validate(); the syntax of the pattern in a regular expression and the
\* formats of strings are left out.

AlphaNumeric == Digits \cup Uppers \cup Lowers
PathOf(s) == Upto(s, Len(s) - Span(Reverse(s), (1..255) \ {Slash}))
ValidRegExpr(value) ==
  LET flags == From(value, Found(Tail(value), <<value[1]>>) + 2) IN
  /\ value[1] \notin AlphaNumeric
  /\ CountChar(value, value[1]) = 2
  /\ Span(flags, {SmallLetter(9), SmallLetter(13)}) = Len(flags)

\* A directory of a file pattern may only stand in its first item.
ValidFilePattern(value) ==
  LET items == SplitCString(value, <<Comma>>, -1) IN
  \A k \in DOMAIN items : PathOf(items[k]) # <<>> => k = 1 /\ PathOf(items[k]) \in Directories

Valid(type, value) ==
  CASE type = "nat" -> IsNat(value)
    [] type = "int" -> IsInt(value)
    [] type = "double" -> IsFloat(value)
    [] type = "size" -> IsSize(value, FALSE)
    [] type = "size int" -> IsSize(value, TRUE)
    [] type = "bool" -> IsBool(value)
    [] type = "file" -> value \in Files
    [] type = "directory" -> value \in Directories
    [] type = "file or directory" -> value \in Files \cup Directories
    [] type = "file pattern" -> ValidFilePattern(value)
    [] type = "regexpr" -> value # <<>> => ValidRegExpr(value)
    [] OTHER -> TRUE

CheckArguments(parser, arguments) ==
  \A p \in ToSet(parser.parameters) :
    Name(p) \in DOMAIN arguments => \A v \in ToSet(arguments[Name(p)]) : Valid(p.type, v)

--------------------------------------------------------------------------------
\* ArgumentParser::parse()

NoSubResult == [problem |-> "none", arguments |-> <<>>]

RECURSIVE HasArgument(_, _)
HasArgument(result, name) ==
  \/ name \in DOMAIN result.arguments
  \/ "sub" \in DOMAIN result /\ HasArgument(result.sub, name)

\* findArgument(): the sub parser first.
RECURSIVE FindArgument(_, _)
FindArgument(result, name) ==
  IF "sub" \in DOMAIN result /\ HasArgument(result.sub, name)
  THEN FindArgument(result.sub, name) ELSE result.arguments[name]

\* Given values are checked, default values are not.
WithDefaults(parser, result) ==
  LET missing == {p \in ToSet(parser.parameters) : p.default # Absent /\ ~HasArgument(result, Name(p))}
      Default(name) == (CHOOSE p \in missing : Name(p) = name).default
  IN [result EXCEPT !.arguments = @ @@ [n \in {Name(p) : p \in missing} |-> <<Default(n)>>]]
Finished(parser, arguments, sub) ==
  CASE sub.problem # "none" -> sub
    [] sub.problem = "none" /\ ~CheckArguments(parser, arguments) -> Failure("wrong value")
    [] OTHER -> WithDefaults(parser, [problem |-> "none", arguments |-> arguments, sub |-> sub])

RECURSIVE ParseArguments(_, _, _, _)

\* The argument is kept, the parser goes on behind it or in a sub parser; the
\* value of a mode may be abbreviated, as long as one key begins with it.
InMode(parser, keys, rest, given) ==
  CASE Cardinality(keys) > 1 -> Failure("ambiguous mode")
    [] keys = {} -> Failure("unknown mode")
    [] OTHER -> Finished(parser, given,
                  ParseArguments(parser.subParsers[CHOOSE k \in keys : TRUE], rest, <<>>, 1))

Behind(parser, parameter, value, rest, given, position) ==
  IF parameter.type # "mode" THEN ParseArguments(parser, rest, given, position)
  ELSE InMode(parser, {k \in DOMAIN parser.subParsers : StartsWith(k, Key(parameter, value), FALSE)},
              rest, given)

AddArgument(parser, parameter, value, rest, arguments, position) ==
  LET name == Name(parameter) IN
  IF name \in DOMAIN arguments /\ ~parameter.multiple THEN Failure("already defined")
  ELSE Behind(parser, parameter, value, rest,
              (name :> IF name \in DOMAIN arguments THEN Append(arguments[name], value) ELSE <<value>>)
                @@ arguments,
              position)

AddOption(parser, option, args, arguments, position) ==
  CASE option.problem # "none" -> option
    [] option.problem = "none" /\ Name(option.parameter) = Name(Help) -> Failure("help")
    [] OTHER -> AddArgument(parser, option.parameter, option.value, From(args, option.taken + 1),
                            arguments, position)

AddPositional(parser, list, args, arguments, position) ==
  IF position > Len(list) THEN Failure("too many arguments")
  ELSE AddArgument(parser, [list[position] EXCEPT !.multiple = FALSE], args[1], Tail(args),
                   arguments, position + 1)

ParseArguments(parser, args, arguments, position) ==
  CASE args = <<>> -> Finished(parser, arguments, NoSubResult)
    [] args # <<>> /\ StartsWith(args[1], <<Minus>>, FALSE) ->
         AddOption(parser, OptionArgument(parser, args), args, arguments, position)
    [] OTHER -> AddPositional(parser, Positional(parser), args, arguments, position)

Parse(parser, args) == ParseArguments(parser, args, <<>>, 1)

--------------------------------------------------------------------------------
\* The values of arguments for the program.

AsString(result, name, default) ==
  IF HasArgument(result, name) THEN FindArgument(result, name)[1] ELSE default
AsBool(result, name, default) ==
  IF HasArgument(result, name) THEN BoolOf(FindArgument(result, name)[1]) ELSE default
AsInt(result, name, default) ==
  IF HasArgument(result, name) THEN IntOf(FindArgument(result, name)[1]) ELSE default
\* A size passes through an int.
InInt(n) == -(IntRange \div 2) <= n /\ n < IntRange \div 2
Cut(n) == ((n + IntRange \div 2) % IntRange) - (IntRange \div 2)
AsSize(result, name, default, mayBeNegative) ==
  Cut(IF HasArgument(result, name) THEN SizeOf(FindArgument(result, name)[1], mayBeNegative)
                                   ELSE default)
CountValuesOf(result, name) ==
  IF HasArgument(result, name) THEN Len(FindArgument(result, name)) ELSE 0
\* The mode is compared as it was written.
IsMode(result, name, value) == AsString(result, name, Absent) = value

--------------------------------------------------------------------------------
\* What a command line says: items, each a parameter with a value, written in
\* one of the forms the help text shows.

Forms == {"long", "long with value", "short", "short with value", "abbreviated"}
Abbreviation(longname) ==
  LET parts == SplitCString(From(longname, 3), <<Minus>>, -1)
  IN <<Minus, Minus>> \o JoinVector([k \in DOMAIN parts |-> Upto(parts[k], 2)], <<Minus>>)

Written(item) ==
  LET p == item.parameter IN
  CASE ~IsOption(p) -> <<item.value>>
    [] IsOption(p) /\ p.type = "bool" ->
         <<IF item.form \in {"short", "short with value"} THEN p.shortname ELSE p.longname>>
    [] OTHER ->
         CASE item.form = "long" -> <<p.longname, item.value>>
           [] item.form = "long with value" -> <<p.longname \o <<Assign>> \o item.value>>
           [] item.form = "abbreviated" -> <<Abbreviation(p.longname), item.value>>
           [] item.form = "short" -> <<p.shortname, item.value>>
           [] item.form = "short with value" -> <<p.shortname \o item.value>>

CommandLine(items) == FlattenSeq([k \in DOMAIN items |-> Written(items[k])])

\* The values the items give to a name.
ValuesOf(items, name) ==
  LET mine == SelectSeq(items, LAMBDA i : Name(i.parameter) = name)
  IN [k \in DOMAIN mine |-> mine[k].value]

\* What the program gets for a parameter with these values.
ValueAgrees(result, p, name, values) ==
  /\ CountValuesOf(result, name) = Len(values)
  /\ values # <<>> => FindArgument(result, name) = values
  /\ p.type = "int" /\ values # <<>> => AsInt(result, name, 0) = IntOf(values[1])
  /\ LET size == IF values = <<>> THEN -1 ELSE SizeOf(values[1], FALSE)
     IN p.type = "size" /\ InInt(size) => AsSize(result, name, -1, FALSE) = size
  /\ p.type = "bool" => AsBool(result, name, FALSE) = (values # <<>>)

ResultAgrees(result, parser, items) ==
  LET isTwice == \E i, j \in DOMAIN items :
                   i < j /\ items[i].parameter = items[j].parameter /\ ~items[i].parameter.multiple
      isWrong == \E i \in DOMAIN items : ~Valid(items[i].parameter.type, items[i].value)
      OrDefault(p, values) == IF values = <<>> /\ p.default # Absent THEN <<p.default>> ELSE values
  IN CASE isTwice -> result.problem \in {"already defined", "too many arguments"}
       [] ~isTwice /\ isWrong -> result.problem = "wrong value"
       [] OTHER -> /\ result.problem = "none"
                   /\ \A p \in ToSet(parser.parameters) :
                        ValueAgrees(result, p, Name(p), OrDefault(p, ValuesOf(items, Name(p))))

\* A line of items that are given once, unless they may be repeated, and whose
\* values are of their type gives each name its values in their order, the
\* other names their defaults; any other line of items is refused.
LineAgrees(parser, items) == ResultAgrees(Parse(parser, CommandLine(items)), parser, items)

\* Behind a mode its sub parser takes the items; what that knows comes first.
SubResultAgrees(result, items, mode, value, inner) ==
  /\ result.problem = "none" /\ IsMode(result, Name(mode), value)
  /\ \A n \in {Name(i.parameter) : i \in ToSet(items \o inner)} :
       FindArgument(result, n) =
         IF ValuesOf(inner, n) # <<>> THEN ValuesOf(inner, n) ELSE ValuesOf(items, n)
ModeAgrees(parser, items, mode, value, inner) ==
  LET outer == CommandLine(items) \o <<value>> IN
  Parse(parser, outer).problem = "none" =>
    SubResultAgrees(Parse(parser, outer \o CommandLine(inner)), items, mode, value, inner)
==============================================================================
