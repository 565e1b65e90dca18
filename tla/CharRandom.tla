------------------------------ MODULE CharRandom ------------------------------
(***************************************************************************)
(* Texts that are veiled by characters drawn from a pseudo random          *)
(* generator: basic/BaseRandom.cpp (hashString, setPhrase),                *)
(* basic/PortableRandom.cpp and basic/CharRandom.cpp.                      *)
(* The tables and the widths of the generator are parameters, since its    *)
(* products need 53 bits.  The code has HalfRange = 2^31,                  *)
(* HashModulus = HalfRange - 1, HashFactor = 2^16, HashStart = 0x7eadbeef, *)
(* MaxNumber = 2^50, MaxFactor = 2^27; the offsets are greater than        *)
(* HalfRange, and MaxFactor divides it.                                    *)
(* The salt comes from another generator, so it is any text.               *)
(***************************************************************************)
EXTENDS StringTool, FiniteSets

CONSTANTS Offsets, Factors,      \* _offsets, _factors
          MaxNumber, MaxFactor,
          HashStart, HashModulus, HashFactor,
          HalfRange              \* an int is in -HalfRange..HalfRange - 1

\* A sum of int wraps around; abs() leaves the least int as it is.
Wrapped(n) == ((n + HalfRange) % (2 * HalfRange)) - HalfRange
Magnitude(n) == IF n < 0 THEN Wrapped(-n) ELSE n

HashString(text) ==
  LET Step(state, c) ==
        LET sum == state.hash + c
        IN [hash |-> ((sum % HashFactor) * state.power + (sum \div HashFactor) * HashFactor) % HashModulus,
            power |-> (state.power * 31) % HashFactor]
  IN FoldLeft(Step, [hash |-> HashStart, power |-> 1], text).hash

\* The index into a table of n entries; it is negative when the sum is the least int.
TableIndex(sum, divisor, n) ==
  IF sum >= 0 THEN (sum \div divisor) % (n - 1) ELSE -(((-sum) \div divisor) % (n - 1))
SetSeed(seed1, seed2, seed3) ==
  [seed |-> Magnitude(Wrapped(seed1 + seed2 + seed3)),
   seed2 |-> seed2,
   offset |-> TableIndex(Magnitude(Wrapped(seed1 + seed3)), 47, Len(Offsets)),
   factor |-> TableIndex(Magnitude(Wrapped(seed1 + seed2)), 61, Len(Factors)),
   drawn |-> 0,
   defined |-> TRUE]
SetPhrase(text1, text2, text3) == SetSeed(HashString(text1), HashString(text2), HashString(text3))

\* nextInt(maxValue): a number of 0..maxValue. A negative index reads in front of a table.
NextInt(random, maxValue) ==
  IF ~random.defined \/ random.offset < 0 \/ random.factor < 0 THEN [random EXCEPT !.defined = FALSE]
  ELSE LET seed == ((random.seed % MaxFactor) * Factors[random.factor + 1]
                      + Offsets[random.offset + 1] + random.seed2) % MaxNumber
       IN [random EXCEPT !.seed = seed,
                         !.offset = (random.offset + 1) % Len(Offsets),
                         !.factor = (random.factor + 1) % Len(Factors),
                         !.drawn = seed % (maxValue + 1)]
\* nextInt(minValue, maxValue)
NextBetween(random, minValue, maxValue) ==
  LET next == NextInt(random, maxValue - minValue)
  IN [next EXCEPT !.drawn = minValue + next.drawn]

--------------------------------------------------------------------------------
\* _charClasses
Class(charClass) ==
  LET Run(from, to) == [k \in 1..(to - from + 1) |-> from + k - 1]
      upper == Run(65, 90)
      lower == Run(97, 122)
  IN CASE charClass = "DECIMAL" -> Run(48, 57)
       [] charClass = "ALPHA" -> upper \o lower
       [] charClass = "ALPHA_LOWERCASE" -> lower
       [] charClass = "ALPHA_UPPERCASE" -> upper
       [] charClass = "WORD" -> Run(48, 57) \o upper \o lower \o <<Underscore>>
       [] charClass = "WORD_FIRST" -> upper \o lower \o <<Underscore>>
       [] charClass = "ASCII95" -> Run(Blank, 126)
CharClasses == {"DECIMAL", "ALPHA", "ALPHA_LOWERCASE", "ALPHA_UPPERCASE", "WORD", "WORD_FIRST", "ASCII95"}
TestCharClass(charClass, text) == \A k \in DOMAIN text : text[k] \in ToSet(Class(charClass))

\* initialize(), registerChar(): the characters of a set, where "x-y" stands for
\* all from x to y; a character that comes twice is an exception.
\* (No class ends with "-", which would take the NUL for the other end.)
RECURSIVE Expanded(_)
Expanded(charSet) ==
  LET IsRange == Len(charSet) > 2 /\ charSet[2] = Minus
      ends == {charSet[1], charSet[3]}
      low == CHOOSE c \in ends : \A d \in ends : c <= d
      high == CHOOSE c \in ends : \A d \in ends : c >= d
  IN CASE charSet = <<>> -> <<>>
       [] charSet # <<>> /\ IsRange -> [k \in 1..(high - low + 1) |-> low + k - 1] \o Expanded(From(charSet, 4))
       [] OTHER -> <<charSet[1]>> \o Expanded(Tail(charSet))
Registered(charSet) ==
  LET chars == Expanded(charSet)
  IN IF Cardinality(ToSet(chars)) = Len(chars) THEN chars ELSE Thrown
\* Reference for the register: it is the class, whose ranges stand for themselves.
ClassIsRegistered(charClass) == Registered(Class(charClass)) = Class(charClass)

--------------------------------------------------------------------------------
\* CharRandom: the characters it translates, the salt, the seeds of the secrets
\* and the state of the pseudo random generator.
Reset(engine) == [engine EXCEPT !.random = SetSeed(engine.seeds[1], engine.seeds[2], engine.seeds[3])]
SetSecrets(engine, secrets) == [engine EXCEPT !.seeds = [k \in 1..3 |-> HashString(secrets[k])]]
DefaultSecrets == << <<64, 60, Apostrophe>>, <<126, Colon>>, <<33>> >>
NewCharRandom(charClass, saltSize) ==
  Reset(SetSecrets([chars |-> Registered(Class(charClass)), saltSize |-> saltSize, seeds |-> <<0, 0, 0>>,
                    random |-> SetSeed(0, 0, 0)],
                   DefaultSecrets))

\* setSalt(), and its counterpart in unveil().
Salted(engine, salt) ==
  [engine EXCEPT !.random = SetSeed(HashString(salt) + engine.seeds[1], engine.seeds[2], engine.seeds[3])]

\* _indexOfChar; 0 if it has no place.
Place(engine, c) ==
  IF \E k \in DOMAIN engine.chars : engine.chars[k] = c
  THEN CHOOSE k \in DOMAIN engine.chars : engine.chars[k] = c ELSE 0
Turned(engine, place, offset) ==
  engine.chars[((place - 1 + offset + Len(engine.chars)) % Len(engine.chars)) + 1]

\* A character of no class stays and draws nothing; one above 127 is a negative index.
TurnChar(state, c, sign) ==
  LET engine == state.engine
      place == Place(engine, c)
      random == NextInt(engine.random, Len(engine.chars))
  IN IF place = 0 THEN [state EXCEPT !.text = Append(state.text, c), !.engine.random.defined = @ /\ c < 128]
     ELSE [text |-> Append(state.text, Turned(engine, place, sign * random.drawn)),
           engine |-> [engine EXCEPT !.random = random]]
TurnText(engine, text, sign) ==
  FoldLeft(LAMBDA state, c : TurnChar(state, c, sign), [engine |-> engine, text |-> <<>>], text)

Result(head, turned, isCut) ==
  [text |-> head \o turned.text, engine |-> turned.engine,
   problem |-> CASE ~turned.engine.random.defined -> "undefined"
                 [] turned.engine.random.defined /\ isCut -> "overflow"
                 [] OTHER -> "none"]

\* veil(text, buffer, size): the NUL of a text that fills the buffer goes behind
\* it; there is no salt in a buffer smaller than it, and a buffer of its size is
\* an exception.
Veil(engine, text, size, salt) ==
  LET room == size - engine.saltSize IN
  CASE size = engine.saltSize -> [text |-> Thrown, engine |-> engine, problem |-> "exception"]
    [] size < engine.saltSize -> Result(<<>>, TurnText(engine, Upto(text, size), 1), Len(text) >= size)
    [] OTHER -> Result(salt, TurnText(Salted(engine, salt), Upto(text, room), 1), Len(text) >= room)
\* unveil(text, buffer, size)
Unveil(engine, text, size) ==
  LET isSalted == Len(text) >= engine.saltSize
      body == IF isSalted THEN From(text, engine.saltSize + 1) ELSE text
      start == IF isSalted THEN Salted(engine, Upto(text, engine.saltSize)) ELSE engine
  IN Result(<<>>, TurnText(start, Upto(body, size), -1), Len(body) >= size)
\* veil(text), unveil(text): the buffer is as long as the text.
VeilText(engine, text, salt) == Veil(engine, text, Len(text) + engine.saltSize + 1, salt)
UnveilText(engine, text) == Unveil(engine, text, Len(text) + engine.saltSize + 1)

\* nextChar(), fill(), randomText(): each line has up to one and a half times
\* its share of the characters and ends with a line feed, the last one is cut.
FillBuffer(engine, count, room, class) ==
  LET Next(state, k) ==
        LET random == NextInt(state.engine.random, Len(class) - 1)
        IN [text |-> Append(state.text, class[random.drawn + 1]),
            engine |-> [state.engine EXCEPT !.random = random]]
  IN FoldLeft(Next, [engine |-> engine, text |-> <<>>],
              [k \in 1..(IF count < room - 1 THEN count ELSE room - 1) |-> k])
RECURSIVE WithLines(_, _, _, _, _)
WithLines(state, length, lineLength, bufferSize, class) ==
  IF Len(state.text) >= length THEN state
  ELSE LET random == NextBetween(state.engine.random, (lineLength * 2) \div 3, (lineLength * 3) \div 2)
           filled == FillBuffer([state.engine EXCEPT !.random = random], random.drawn, bufferSize - 1, class)
       IN WithLines([engine |-> filled.engine, text |-> Upto(state.text \o filled.text \o <<LF>>, length)],
                    length, lineLength, bufferSize, class)
RandomText(engine, length, lineCount, bufferSize, charClass) ==
  LET share == (length + lineCount - 1) \div lineCount
  IN WithLines([engine |-> engine, text |-> <<>>], length,
               IF share < bufferSize - 1 THEN share ELSE bufferSize - 1, bufferSize, Class(charClass))

--------------------------------------------------------------------------------
\* Reference: what was veiled is unveiled, by an engine with the same secrets
\* whatever it did before; the veiled text has the characters of the class in
\* the same places, so that its lines stay lines. Only a sum of seeds that is
\* the least int has no defined answer.
IsLeast(engine, salt) ==
  LET sums == {HashString(salt) + engine.seeds[1] + engine.seeds[3],
               HashString(salt) + engine.seeds[1] + engine.seeds[2]}
  IN \E sum \in sums : Wrapped(sum) = -HalfRange
VeilAgrees(engine, other, text, salt) ==
  LET veiled == VeilText(engine, text, salt)
      back == UnveilText(other, veiled.text)
  IN IF veiled.problem = "undefined" THEN IsLeast(engine, salt) \/ \E k \in DOMAIN text : text[k] > 127
     ELSE /\ veiled.problem = "none" /\ back.problem = "none"
          /\ back.text = text
          /\ Upto(veiled.text, engine.saltSize) = salt
          /\ Len(veiled.text) = Len(text) + engine.saltSize
          /\ \A k \in DOMAIN text :
               LET c == veiled.text[k + engine.saltSize]
               IN IF Place(engine, text[k]) > 0 THEN Place(engine, c) > 0 ELSE c = text[k]
\* Into a buffer: the text comes back as far as the buffer takes it, and the NUL
\* stays in the buffer if the text is shorter.
BufferAgrees(engine, text, salt, size) ==
  LET veiled == Veil(engine, text, size, salt)
      room == size - engine.saltSize
  IN veiled.problem # "undefined" /\ size # engine.saltSize =>
       /\ veiled.problem = "none" <=> Len(text) < IF room > 0 THEN room ELSE size
       /\ room > 0 => UnveilText(engine, veiled.text).text = Upto(text, room)
\* A random text has the wanted length, characters of the class, and no line
\* longer than one and a half times its share.
LinesAgree(lines, share, bufferSize, charClass) ==
  \A line \in ToSet(lines) : /\ TestCharClass(charClass, line)
                              /\ 2 * Len(line) <= 3 * share
                              /\ Len(line) < bufferSize - 1
MadeAgrees(made, length, lineCount, bufferSize, charClass) ==
  made.engine.random.defined =>
    /\ Len(made.text) = length
    /\ LinesAgree(SplitCString(made.text, <<LF>>, -1), (length + lineCount - 1) \div lineCount,
                  bufferSize, charClass)
RandomTextAgrees(engine, length, lineCount, bufferSize, charClass) ==
  MadeAgrees(RandomText(engine, length, lineCount, bufferSize, charClass), length, lineCount, bufferSize, charClass)
================================================================================
