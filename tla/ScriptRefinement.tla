--------------------------- MODULE ScriptRefinement ---------------------------
(***************************************************************************)
(* Script implements StructuredScript.  First what a well formed script is *)
(* like: where its blocks end, and that the scans of Script.cpp find these *)
(* ends.  Then the test pass: it accepts the well formed scripts and no    *)
(* other ones.  Then the run pass: its jumps are those of the blocks.      *)
(***************************************************************************)
EXTENDS ScriptFlowProofs

------------------------------------------------------------------------------
(* Counting *)

\* The lines a..c are the lines a..b and the lines b+1..c.
LEMMA CountSplit ==
  ASSUME NEW s, NEW ops, NEW a \in Nat, NEW b \in Nat, NEW c \in Nat, a <= b + 1, b <= c
  PROVE  Count(s, ops, a, c) = Count(s, ops, a, b) + Count(s, ops, b + 1, c)
<1> DEFINE A == {k \in a .. b : s[k].op \in ops}
           B == {k \in (b + 1) .. c : s[k].op \in ops}
           D == {k \in a .. c : s[k].op \in ops}
<1>1. /\ IsFiniteSet(A) /\ Cardinality(A) \in Nat
      /\ IsFiniteSet(B) /\ Cardinality(B) \in Nat
  <2>1. b + 1 \in Nat
    OBVIOUS
  <2> QED
    BY <2>1, CountIsNat DEF Count
<1>2. D = A \cup B /\ A \cap B = {}
  OBVIOUS
<1>3. Cardinality(A \cup B) = Cardinality(A) + Cardinality(B) - Cardinality(A \cap B)
  BY <1>1, FS_Union
<1>4. Cardinality(D) = Cardinality(A) + Cardinality(B)
  <2>1. Cardinality(A \cap B) = 0
    BY <1>2, FS_EmptySet
  <2>2. Cardinality(D) = Cardinality(A \cup B)
    BY <1>2
  <2> HIDE DEF A, B, D
  <2> QED
    BY <1>1, <1>3, <2>1, <2>2
<1> QED
  BY <1>4 DEF Count

\* The count in a single line.
LEMMA CountOne ==
  ASSUME NEW s, NEW ops, NEW a \in Nat
  PROVE  Count(s, ops, a, a) = IF s[a].op \in ops THEN 1 ELSE 0
<1>1. CASE s[a].op \in ops
  <2>1. {k \in a .. a : s[k].op \in ops} = {a}
    BY <1>1
  <2> QED
    BY <1>1, <2>1, FS_Singleton DEF Count
<1>2. CASE s[a].op \notin ops
  <2>1. \A k \in a .. a : s[k].op \notin ops
    BY <1>2
  <2> QED
    BY <1>2, <2>1, CountNothing
<1> QED
  BY <1>1, <1>2

\* The count reaches every value on its way.
LEMMA CountReaches ==
  ASSUME NEW s, NEW ops, NEW a \in Nat, NEW b \in Nat, NEW n \in Nat, n # 0,
         n <= Count(s, ops, a, b)
  PROVE  \E q \in a .. b : s[q].op \in ops /\ Count(s, ops, a, q) = n
<1> DEFINE Enough == {q \in a .. b : n <= Count(s, ops, a, q)}
<1>1. a <= b
  <2> SUFFICES ASSUME ~ (a <= b) PROVE FALSE
    OBVIOUS
  <2>1. \A k \in a .. b : s[k].op \notin ops
    OBVIOUS
  <2>2. Count(s, ops, a, b) = 0
    BY <2>1, CountNothing
  <2> QED
    BY <2>2
<1>2. Enough \subseteq Nat /\ b \in Enough
  BY <1>1
<1>3. PICK q \in Enough : \A r \in Enough : q <= r
  BY <1>2, HasLeast
<1>4. q \in a .. b /\ n <= Count(s, ops, a, q)
  BY <1>3
<1>5. CASE q = a
  <2>1. Count(s, ops, a, a) = IF s[a].op \in ops THEN 1 ELSE 0
    BY CountOne
  <2> QED
    BY <1>4, <1>5, <2>1
<1>6. CASE q # a
  <2>1. PICK p \in Nat : q = p + 1 /\ p \in a .. b
    <3>1. q - 1 \in Nat /\ q - 1 \in a .. b /\ q = q - 1 + 1
      BY <1>4, <1>6
    <3> QED
      BY <3>1
  <2>2. ~ (n <= Count(s, ops, a, p))
    BY <1>3, <2>1
  <2>3. /\ Count(s, ops, a, q) = Count(s, ops, a, p) + (IF s[q].op \in ops THEN 1 ELSE 0)
        /\ Count(s, ops, a, p) \in Nat
    <3>1. a <= p + 1
      BY <2>1
    <3>2. Count(s, ops, a, p + 1) =
            Count(s, ops, a, p) + (IF s[p + 1].op \in ops THEN 1 ELSE 0)
      BY <3>1, CountNext
    <3>3. Count(s, ops, a, p) \in Nat
      BY CountIsNat
    <3> QED
      BY <2>1, <3>2, <3>3
  <2> QED
    BY <1>4, <2>2, <2>3
<1> QED
  BY <1>5, <1>6

\* A bijection keeps the number of elements, an injection does not lose any.
LEMMA SameSize ==
  ASSUME NEW S, NEW T, IsFiniteSet(S), NEW f \in [S -> T],
         \A x, y \in S : f[x] = f[y] => x = y,
         \A z \in T : \E x \in S : f[x] = z
  PROVE  IsFiniteSet(T) /\ Cardinality(T) = Cardinality(S)
<1>1. f \in Injection(S, T) /\ f \in Surjection(S, T)
  BY DEF Injection, IsInjective, Surjection
<1> QED
  BY <1>1, FS_Surjection

LEMMA NotLarger ==
  ASSUME NEW S, NEW T, IsFiniteSet(T), NEW f \in [S -> T],
         \A x, y \in S : f[x] = f[y] => x = y
  PROVE  IsFiniteSet(S) /\ Cardinality(S) <= Cardinality(T)
<1>1. f \in Injection(S, T)
  BY DEF Injection, IsInjective
<1> QED
  BY <1>1, FS_Injection

------------------------------------------------------------------------------
(* Where a block ends *)

LEMMA LinesOf ==
  ASSUME NEW s \in Seq(Statement)
  PROVE  Len(s) \in Nat /\ DOMAIN s = 1 .. Len(s)
BY LenProperties

\* No line begins and ends a block.
LEMMA OneOrTheOther ==
  ASSUME NEW op
  PROVE  ~ (op \in Openers /\ op \in Closers)
BY DEF Openers, Closers

\* Line q ends what line i opens.
IsEnd(s, i, q) ==
  s[q].op \in Closers /\ Count(s, Openers, i, q) = Count(s, Closers, i, q)

\* As long as a block is not ended more blocks are opened than ended in it.
LEMMA StillDeep ==
  ASSUME NEW s, NEW i \in Nat, s[i].op \in Openers, NEW m \in Nat, i <= m,
         \A q \in i .. m : ~ IsEnd(s, i, q)
  PROVE  Count(s, Closers, i, m) < Count(s, Openers, i, m)
<1> DEFINE Bad == {r \in i .. m : ~ (Count(s, Closers, i, r) < Count(s, Openers, i, r))}
<1>1. SUFFICES ASSUME Bad # {} PROVE FALSE
  OBVIOUS
<1>2. PICK q \in Bad : \A r \in Bad : q <= r
  <2>1. Bad \subseteq Nat
    OBVIOUS
  <2> HIDE DEF Bad
  <2> QED
    BY <1>1, <2>1, HasLeast
<1>3. q \in i .. m /\ ~ (Count(s, Closers, i, q) < Count(s, Openers, i, q))
  BY <1>2
<1>4. CASE q = i
  <2>1. Count(s, Closers, i, i) = 0 /\ Count(s, Openers, i, i) = 1
    BY CountOne, OneOrTheOther
  <2> QED
    BY <1>3, <1>4, <2>1
<1>5. CASE q # i
  <2>1. PICK p \in Nat : q = p + 1 /\ p \in i .. m /\ i <= p + 1
    <3>1. q - 1 \in Nat /\ q - 1 \in i .. m /\ q = q - 1 + 1
      BY <1>3, <1>5
    <3> QED
      BY <3>1
  <2>2. Count(s, Closers, i, p) < Count(s, Openers, i, p)
    BY <1>2, <2>1
  <2>3. \A ops : /\ Count(s, ops, i, p + 1) =
                      Count(s, ops, i, p) + (IF s[p + 1].op \in ops THEN 1 ELSE 0)
                 /\ Count(s, ops, i, p) \in Nat
    <3>1. \A ops : Count(s, ops, i, p + 1) =
                     Count(s, ops, i, p) + (IF s[p + 1].op \in ops THEN 1 ELSE 0)
      BY <2>1, CountNext
    <3>2. \A ops : Count(s, ops, i, p) \in Nat
      BY CountIsNat
    <3> QED
      BY <3>1, <3>2
  <2>4. CASE s[q].op \in Closers
    <3>1. s[q].op \notin Openers
      BY <2>4, OneOrTheOther
    <3>2. Count(s, Closers, i, q) = Count(s, Openers, i, q)
      BY <1>3, <2>1, <2>2, <2>3, <2>4, <3>1
    <3>3. q \in i .. m /\ IsEnd(s, i, q)
      BY <1>3, <2>4, <3>2 DEF IsEnd
    <3> QED
      BY <3>3
  <2>5. CASE s[q].op \notin Closers
    <3>1. /\ Count(s, Closers, i, q) = Count(s, Closers, i, p)
          /\ Count(s, Openers, i, q) >= Count(s, Openers, i, p)
          /\ Count(s, Openers, i, q) \in Nat /\ Count(s, Openers, i, p) \in Nat
          /\ Count(s, Closers, i, p) \in Nat
      BY <2>1, <2>3, <2>5
    <3> QED
      BY <1>3, <2>2, <3>1
  <2> QED
    BY <2>4, <2>5
<1> QED
  BY <1>4, <1>5

\* EndOf is 0 or the first line that ends the block.
LEMMA EndOfFacts ==
  ASSUME NEW s \in Seq(Statement), NEW i \in DOMAIN s, s[i].op \in Openers
  PROVE  /\ EndOf(s, i) = 0 \/ (EndOf(s, i) \in (i + 1) .. Len(s) /\ IsEnd(s, i, EndOf(s, i)))
         /\ \A m \in i .. Len(s) : EndOf(s, i) \notin i .. m =>
              /\ \A q \in i .. m : ~ IsEnd(s, i, q)
              /\ Count(s, Closers, i, m) < Count(s, Openers, i, m)
<1> DEFINE ends == {q \in i .. Len(s) : IsEnd(s, i, q)}
<1>1. Len(s) \in Nat /\ i \in Nat /\ i <= Len(s)
  BY LinesOf
<1>2. EndOf(s, i) = IF ends = {} THEN 0 ELSE First(ends)
  BY DEF EndOf, IsEnd
<1>3. ~ IsEnd(s, i, i)
  BY OneOrTheOther DEF IsEnd
<1>4. ends \subseteq Nat /\ ends \subseteq i .. Len(s) /\ i \notin ends
  BY <1>1, <1>3
<1>5. EndOf(s, i) = 0 \/ (EndOf(s, i) \in (i + 1) .. Len(s) /\ IsEnd(s, i, EndOf(s, i)))
  <2>1. ASSUME ends # {} PROVE First(ends) \in (i + 1) .. Len(s) /\ First(ends) \in ends
    <3>1. First(ends) \in ends
      BY <1>4, <2>1, FirstIsLeast
    <3> QED
      BY <1>1, <1>4, <3>1
  <2> QED
    BY <1>2, <2>1
<1>6. ASSUME NEW m \in i .. Len(s), EndOf(s, i) \notin i .. m
      PROVE  /\ \A q \in i .. m : ~ IsEnd(s, i, q)
             /\ Count(s, Closers, i, m) < Count(s, Openers, i, m)
  <2>1. ASSUME NEW q \in i .. m, IsEnd(s, i, q) PROVE FALSE
    <3>1. q \in ends
      BY <1>1, <2>1
    <3>2. First(ends) \in ends /\ First(ends) <= q
      BY <1>4, <3>1, FirstIsLeast
    <3>3. EndOf(s, i) = First(ends) /\ First(ends) \in i .. Len(s)
      BY <1>2, <1>4, <3>1, <3>2
    <3> HIDE DEF ends
    <3>4. First(ends) \in i .. m
      BY <1>1, <3>2, <3>3
    <3> QED
      BY <1>6, <3>3, <3>4
  <2>2. \A q \in i .. m : ~ IsEnd(s, i, q)
    BY <2>1
  <2>3. m \in Nat /\ i <= m
    BY <1>1
  <2>4. Count(s, Closers, i, m) < Count(s, Openers, i, m)
    BY <1>1, <2>2, <2>3, StillDeep
  <2> QED
    BY <2>2, <2>4
<1> QED
  BY <1>5, <1>6

\* The first line that ends what line i opens is the end of its block.
LEMMA EndOfIs ==
  ASSUME NEW s \in Seq(Statement), NEW i \in DOMAIN s, s[i].op \in Openers,
         NEW q \in i .. Len(s), IsEnd(s, i, q),
         NEW m \in Nat, q = m + 1, EndOf(s, i) \notin i .. m
  PROVE  EndOf(s, i) = q
<1>1. Len(s) \in Nat /\ i \in Nat /\ i <= Len(s)
  BY LinesOf
<1>2. EndOf(s, i) \in i .. q
  <2>1. q \in i .. q
    BY <1>1
  <2> QED
    BY <2>1, EndOfFacts
<1> QED
  BY <1>1, <1>2

------------------------------------------------------------------------------
(* Blocks do not overlap. *)

LEMMA Nesting ==
  ASSUME NEW s \in Seq(Statement),
         NEW i \in DOMAIN s, s[i].op \in Openers, EndOf(s, i) # 0,
         NEW j \in DOMAIN s, s[j].op \in Openers, i < j, j < EndOf(s, i)
  PROVE  EndOf(s, j) # 0 /\ EndOf(s, j) < EndOf(s, i)
<1>1. PICK e \in Nat : e = EndOf(s, i) /\ e \in (i + 1) .. Len(s) /\ IsEnd(s, i, e)
  BY EndOfFacts, LinesOf
<1>2. Len(s) \in Nat /\ i \in Nat /\ j \in Nat /\ i <= Len(s) /\ j <= Len(s)
  BY LinesOf
<1>3. PICK p \in Nat : j = p + 1 /\ i <= p /\ p \in i .. Len(s) /\ p < e
  <2>1. j - 1 \in Nat /\ j = j - 1 + 1 /\ i <= j - 1 /\ j - 1 \in i .. Len(s) /\ j - 1 < e
    BY <1>1, <1>2
  <2> QED
    BY <2>1
<1>4. Count(s, Closers, i, p) < Count(s, Openers, i, p)
  <2>1. e \notin i .. p
    BY <1>1, <1>3
  <2> QED
    BY <1>1, <1>3, <2>1, EndOfFacts
<1>5. \A ops : /\ Count(s, ops, i, e) = Count(s, ops, i, p) + Count(s, ops, p + 1, e)
               /\ Count(s, ops, i, p) \in Nat /\ Count(s, ops, p + 1, e) \in Nat
  <2>1. i <= p + 1 /\ p <= e /\ p + 1 \in Nat
    BY <1>2, <1>3
  <2>2. \A ops : Count(s, ops, i, e) = Count(s, ops, i, p) + Count(s, ops, p + 1, e)
    BY <1>2, <2>1, CountSplit
  <2>3. \A ops : Count(s, ops, i, p) \in Nat /\ Count(s, ops, p + 1, e) \in Nat
    BY <1>2, <2>1, CountIsNat
  <2> QED
    BY <2>2, <2>3
<1>6. Count(s, Openers, i, e) = Count(s, Closers, i, e)
  BY <1>1 DEF IsEnd
<1>7. Count(s, Openers, j, e) < Count(s, Closers, j, e)
  BY <1>3, <1>4, <1>5, <1>6
<1>8. EndOf(s, j) \in j .. e
  <2>0. e \in j .. Len(s)
    BY <1>1, <1>2
  <2>1. e \in j .. Len(s) /\ \A ops : Count(s, ops, j, e) \in Nat
    BY <1>2, <2>0, CountIsNat
  <2>2. EndOf(s, j) \notin j .. e => Count(s, Closers, j, e) < Count(s, Openers, j, e)
    BY <2>1, EndOfFacts
  <2> QED
    BY <1>7, <2>1, <2>2
<1>9. EndOf(s, j) # e
  <2>1. EndOf(s, j) = e => Count(s, Openers, j, e) = Count(s, Closers, j, e)
    BY <1>1, EndOfFacts DEF IsEnd
  <2>2. \A ops : Count(s, ops, j, e) \in Nat
    BY <1>2, CountIsNat
  <2> QED
    BY <1>7, <2>1, <2>2
<1> QED
  BY <1>1, <1>2, <1>8, <1>9

\* No line ends two blocks.
LEMMA EndsOne ==
  ASSUME NEW s \in Seq(Statement),
         NEW i \in DOMAIN s, s[i].op \in Openers, EndOf(s, i) # 0,
         NEW j \in DOMAIN s, s[j].op \in Openers, EndOf(s, j) = EndOf(s, i)
  PROVE  i = j
<1>1. EndOf(s, i) \in (i + 1) .. Len(s) /\ EndOf(s, j) \in (j + 1) .. Len(s)
  BY EndOfFacts
<1>2. Len(s) \in Nat /\ i \in Nat /\ j \in Nat
  BY LinesOf
<1>3. i < EndOf(s, i) /\ j < EndOf(s, i) /\ EndOf(s, i) \in Nat
  BY <1>1, <1>2
<1>4. ~ (i < j)
  BY <1>3, Nesting
<1>5. ~ (j < i)
  BY <1>3, Nesting
<1> QED
  BY <1>2, <1>4, <1>5

------------------------------------------------------------------------------
(* The scan of findEndOfBlock() in a well formed script *)

CloserOf(op) == IF op = "if" THEN "endif" ELSE "endwhile"

\* The least element is First.
LEMMA FirstIs ==
  ASSUME NEW S, S \subseteq Nat, NEW e \in S, \A q \in S : e <= q
  PROVE  First(S) = e
<1>1. First(S) \in S /\ First(S) <= e
  BY FirstIsLeast
<1>2. First(S) \in Nat /\ e \in Nat /\ e <= First(S)
  BY <1>1
<1> QED
  BY <1>1, <1>2

\* What a well formed script says about the block that line i opens.
LEMMA BlockFacts ==
  ASSUME NEW s \in Seq(Statement), BlocksWellFormed(s),
         NEW i \in DOMAIN s, s[i].op \in Openers
  PROVE  /\ EndOf(s, i) # 0 /\ EndOf(s, i) \in (i + 1) .. Len(s) /\ EndOf(s, i) \in Nat
         /\ i \in Nat /\ i < EndOf(s, i) /\ EndOf(s, i) <= Len(s) /\ EndOf(s, i) \in DOMAIN s
         /\ s[EndOf(s, i)].op = CloserOf(s[i].op)
         /\ s[EndOf(s, i)].op \in Closers
<1>1. EndOf(s, i) # 0 /\ s[EndOf(s, i)].op = CloserOf(s[i].op)
  BY DEF BlocksWellFormed, CloserOf
<1>2. EndOf(s, i) \in (i + 1) .. Len(s)
  BY <1>1, EndOfFacts
<1>3. Len(s) \in Nat /\ DOMAIN s = 1 .. Len(s)
  BY LinesOf
<1>4. s[EndOf(s, i)].op \in Closers
  BY <1>1 DEF CloserOf, Closers
<1> QED
  BY <1>1, <1>2, <1>3, <1>4

\* Every end inside a block ends a block that is opened inside it.
LEMMA InnerEnd ==
  ASSUME NEW s \in Seq(Statement), BlocksWellFormed(s),
         NEW i \in DOMAIN s, s[i].op \in Openers,
         NEW q \in Nat, i < q, q < EndOf(s, i), s[q].op \in Closers
  PROVE  \E j \in DOMAIN s : /\ s[j].op \in Openers /\ i < j /\ j < q
                             /\ EndOf(s, j) = q /\ s[q].op = CloserOf(s[j].op)
<1>1. Len(s) \in Nat /\ DOMAIN s = 1 .. Len(s)
  BY LinesOf
<1>2. i \in Nat /\ EndOf(s, i) # 0 /\ EndOf(s, i) \in Nat /\ EndOf(s, i) <= Len(s)
  BY BlockFacts
<1>3. q \in DOMAIN s
  BY <1>1, <1>2
<1>4. PICK j \in 1 .. q : s[j].op \in Openers /\ EndOf(s, j) = q
  BY <1>3 DEF BlocksWellFormed
<1>5. j \in DOMAIN s /\ j \in Nat
  BY <1>1, <1>3, <1>4
<1>6. j < q /\ s[q].op = CloserOf(s[j].op) /\ EndOf(s, j) # 0
  BY <1>4, <1>5, BlockFacts
<1>7. j # i
  BY <1>2, <1>4
<1>8. ~ (j < i)
  <2>1. j < i /\ i < EndOf(s, j) => EndOf(s, i) < EndOf(s, j)
    BY <1>2, <1>4, <1>5, <1>6, Nesting
  <2> QED
    BY <1>2, <1>4, <2>1
<1> QED
  BY <1>2, <1>4, <1>5, <1>6, <1>7, <1>8

\* No block of one kind that is opened in i+1..r is still open there.
NoneOpen(s, i, r, op) == ~ \E j \in (i + 1) .. r : s[j].op = op /\ EndOf(s, j) > r

\* As many ends as beginnings of one kind.
Even(s, a, b, op) == Count(s, {CloserOf(op)}, a, b) = Count(s, {op}, a, b)

\* Inside a block the ends of one kind never outnumber the beginnings.
LEMMA Census ==
  ASSUME NEW s \in Seq(Statement), BlocksWellFormed(s),
         NEW i \in DOMAIN s, s[i].op \in Openers,
         NEW r \in Nat, i <= r, r < EndOf(s, i), NEW op \in {"if", "while"}
  PROVE  /\ Count(s, {CloserOf(op)}, i + 1, r) <= Count(s, {op}, i + 1, r)
         /\ Even(s, i + 1, r, op) <=> NoneOpen(s, i, r, op)
<1> DEFINE A == {j \in (i + 1) .. r : s[j].op \in {op}}
           B == {q \in (i + 1) .. r : s[q].op \in {CloserOf(op)}}
           A1 == {j \in A : EndOf(s, j) <= r}
           f == [j \in A1 |-> EndOf(s, j)]
<1>1. /\ Len(s) \in Nat /\ DOMAIN s = 1 .. Len(s) /\ i \in Nat /\ i + 1 \in Nat
      /\ EndOf(s, i) # 0 /\ EndOf(s, i) \in Nat /\ EndOf(s, i) <= Len(s)
  BY LinesOf, BlockFacts
<1>2. /\ IsFiniteSet(A) /\ Cardinality(A) = Count(s, {op}, i + 1, r)
      /\ IsFiniteSet(B) /\ Cardinality(B) = Count(s, {CloserOf(op)}, i + 1, r)
  BY <1>1, CountIsNat DEF Count
<1>3. op \in Openers /\ CloserOf(op) \in Closers
  BY DEF Openers, Closers, CloserOf
<1>4. ASSUME NEW j \in A
      PROVE  /\ j \in DOMAIN s /\ s[j].op \in Openers /\ s[j].op = op /\ i < j /\ j \in Nat
             /\ EndOf(s, j) # 0 /\ EndOf(s, j) \in Nat /\ j < EndOf(s, j)
             /\ s[EndOf(s, j)].op = CloserOf(op)
  <2>1. j \in DOMAIN s /\ s[j].op \in Openers /\ s[j].op = op /\ i < j /\ j \in Nat
    BY <1>1, <1>3
  <2> QED
    BY <2>1, BlockFacts
<1>5. f \in [A1 -> B]
  <2> SUFFICES ASSUME NEW j \in A1 PROVE EndOf(s, j) \in B
    OBVIOUS
  <2>1. j \in A /\ EndOf(s, j) <= r
    OBVIOUS
  <2>2. EndOf(s, j) \in (i + 1) .. r /\ s[EndOf(s, j)].op = CloserOf(op)
    BY <1>1, <1>4, <2>1
  <2> QED
    BY <2>2
<1>6. \A x, y \in A1 : f[x] = f[y] => x = y
  <2> SUFFICES ASSUME NEW x \in A1, NEW y \in A1, EndOf(s, x) = EndOf(s, y) PROVE x = y
    OBVIOUS
  <2>1. x \in A /\ y \in A
    OBVIOUS
  <2> HIDE DEF A
  <2> QED
    BY <1>4, <2>1, EndsOne
<1>7. \A q \in B : \E j \in A1 : f[j] = q
  <2> SUFFICES ASSUME NEW q \in B PROVE \E j \in A1 : EndOf(s, j) = q
    OBVIOUS
  <2>1. q \in Nat /\ i < q /\ q <= r /\ q < EndOf(s, i) /\ s[q].op = CloserOf(op)
    BY <1>1
  <2>2. PICK j \in DOMAIN s : /\ s[j].op \in Openers /\ i < j /\ j < q
                              /\ EndOf(s, j) = q /\ s[q].op = CloserOf(s[j].op)
    BY <1>3, <2>1, InnerEnd
  <2>3. s[j].op = op
    BY <2>1, <2>2 DEF CloserOf, Openers
  <2>4. j \in (i + 1) .. r
    BY <1>1, <2>1, <2>2
  <2> QED
    BY <2>1, <2>2, <2>3, <2>4
<1>8. A1 \subseteq A /\ A1 \in SUBSET A
  OBVIOUS
<1>9. IsFiniteSet(A1) /\ Cardinality(A1) <= Cardinality(A) /\ (Cardinality(A) = Cardinality(A1) => A = A1)
  <2> HIDE DEF A, A1
  <2> QED
    BY <1>2, <1>8, FS_Subset
<1>10. Cardinality(B) = Cardinality(A1)
  <2> HIDE DEF A1, B, f
  <2> QED
    BY <1>5, <1>6, <1>7, <1>9, SameSize
<1>11. A = A1 <=> NoneOpen(s, i, r, op)
  <2>1. \A j \in A : EndOf(s, j) <= r \/ EndOf(s, j) > r
    BY <1>4
  <2>2. \A j \in A : ~ (EndOf(s, j) <= r /\ EndOf(s, j) > r)
    BY <1>4
  <2>3. NoneOpen(s, i, r, op) <=> ~ \E j \in A : EndOf(s, j) > r
    BY DEF NoneOpen
  <2> HIDE DEF A
  <2> QED
    BY <2>1, <2>2, <2>3
<1>12. Even(s, i + 1, r, op) <=> Cardinality(B) = Cardinality(A)
  BY <1>2 DEF Even
<1> HIDE DEF A, B, A1
<1>13. Cardinality(B) = Cardinality(A) <=> A = A1
  BY <1>9, <1>10
<1> QED
  BY <1>2, <1>9, <1>10, <1>11, <1>12, <1>13

\* findEndOfBlock() from line b+1 of a block in which nothing of its kind is open: it
\* breaks at the end of the block, and before that at mid words of the block itself.
LEMMA Scan ==
  ASSUME NEW s \in Seq(Statement), BlocksWellFormed(s),
         NEW op \in {"if", "while"}, NEW i \in DOMAIN s, s[i].op = op,
         NEW b \in Nat, i <= b, NEW a \in Nat, a = b + 1, b < EndOf(s, i), NoneOpen(s, i, b, op), NEW mid
  PROVE  /\ BreaksAt(s, op, mid, CloserOf(op), a, EndOf(s, i))
         /\ \A q \in a .. (EndOf(s, i) - 1) :
              BreaksAt(s, op, mid, CloserOf(op), a, q) <=>
                s[q].op = mid /\ mid # CloserOf(op) /\ NoneOpen(s, i, q, op)
<1> DEFINE close == CloserOf(op)
<1>1. s[i].op \in Openers
  BY DEF Openers
<1>2. PICK e \in Nat : e = EndOf(s, i)
  BY <1>1, BlockFacts
<1>3. /\ Len(s) \in Nat /\ DOMAIN s = 1 .. Len(s) /\ i \in Nat /\ i + 1 \in Nat /\ i < e
      /\ e <= Len(s) /\ s[e].op = close /\ a \in Nat
  BY <1>1, <1>2, BlockFacts, LinesOf
<1>4. \A ops : \A q \in Nat : a <= q + 1 =>
        /\ Count(s, ops, i + 1, q) = Count(s, ops, i + 1, b) + Count(s, ops, a, q)
        /\ Count(s, ops, i + 1, q) \in Nat /\ Count(s, ops, i + 1, b) \in Nat
        /\ Count(s, ops, a, q) \in Nat
  <2> SUFFICES ASSUME NEW ops, NEW q \in Nat, a <= q + 1
               PROVE  /\ Count(s, ops, i + 1, q) =
                           Count(s, ops, i + 1, b) + Count(s, ops, a, q)
                      /\ Count(s, ops, i + 1, q) \in Nat /\ Count(s, ops, i + 1, b) \in Nat
                      /\ Count(s, ops, a, q) \in Nat
    OBVIOUS
  <2>1. i + 1 <= a /\ b <= q
    BY <1>3
  <2>2. Count(s, ops, i + 1, q) = Count(s, ops, i + 1, b) + Count(s, ops, a, q)
    BY <1>3, <2>1, CountSplit
  <2> QED
    BY <1>3, <2>2, CountIsNat
<1>5. Count(s, {close}, i + 1, b) = Count(s, {op}, i + 1, b)
  BY <1>1, Census DEF Even
<1>6. ASSUME NEW q \in Nat, b <= q, q < e
      PROVE  /\ Count(s, {close}, a, q) <= Count(s, {op}, a, q)
             /\ Count(s, {close}, a, q) = Count(s, {op}, a, q)
                  <=> NoneOpen(s, i, q, op)
  <2>1. i <= q /\ a <= q + 1
    BY <1>3, <1>6
  <2>2. /\ Count(s, {close}, i + 1, q) <= Count(s, {op}, i + 1, q)
        /\ Even(s, i + 1, q, op) <=> NoneOpen(s, i, q, op)
    <3>1. q < EndOf(s, i)
      BY <1>2, <1>6
    <3> QED
      BY <1>1, <1>6, <2>1, <3>1, Census
  <2>3. \A ops :
        /\ Count(s, ops, i + 1, q) = Count(s, ops, i + 1, b) + Count(s, ops, a, q)
        /\ Count(s, ops, i + 1, q) \in Nat /\ Count(s, ops, i + 1, b) \in Nat
        /\ Count(s, ops, a, q) \in Nat
    BY <1>4, <2>1
  <2>4. PICK P \in Nat : P = Count(s, {op}, a, q)
    BY <2>3
  <2>5. PICK Q \in Nat : Q = Count(s, {close}, a, q)
    BY <2>3
  <2>6. PICK R \in Nat : R = Count(s, {op}, i + 1, b)
    BY <2>3
  <2>7. Count(s, {op}, i + 1, q) = R + P /\ Count(s, {close}, i + 1, q) = R + Q
    BY <1>5, <2>3, <2>4, <2>5, <2>6
  <2>8. R + Q <= R + P /\ (R + Q = R + P <=> NoneOpen(s, i, q, op))
    BY <2>2, <2>7 DEF Even
  <2>9. Q <= P /\ (Q = P <=> NoneOpen(s, i, q, op))
    BY <2>8
  <2> QED
    BY <2>4, <2>5, <2>9
<1>7. ASSUME NEW q \in a .. (e - 1)
      PROVE  BreaksAt(s, op, mid, close, a, q) <=>
                s[q].op = mid /\ mid # close /\ NoneOpen(s, i, q, op)
  <2>1. q \in Nat /\ b <= q /\ q < e /\ a <= q + 1
    BY <1>3
  <2>2. PICK P \in Nat : P = Count(s, {op}, a, q)
    BY <1>4, <2>1
  <2>3. PICK Q \in Nat : Q = Count(s, {close}, a, q)
    BY <1>4, <2>1
  <2>4. Q <= P /\ (Q = P <=> NoneOpen(s, i, q, op))
    BY <1>6, <2>1, <2>2, <2>3
  <2>5. Q # P + 1
    BY <2>4
  <2> HIDE DEF close
  <2> QED
    BY <2>2, <2>3, <2>4, <2>5 DEF BreaksAt
<1>8. BreaksAt(s, op, mid, close, a, e)
  <2>1. PICK p \in Nat : e = p + 1 /\ b <= p /\ p < e /\ i <= p /\ a <= p + 1
    <3>1. e - 1 \in Nat /\ e = e - 1 + 1 /\ b <= e - 1 /\ e - 1 < e /\ i <= e - 1
      BY <1>2, <1>3
    <3> QED
      BY <3>1
  <2>2. NoneOpen(s, i, p, op)
    <3> SUFFICES ASSUME NEW j \in (i + 1) .. p, s[j].op = op, EndOf(s, j) > p
                 PROVE  FALSE
      BY DEF NoneOpen
    <3>1. j \in DOMAIN s /\ s[j].op \in Openers /\ i < j /\ j < e
      BY <1>3, <2>1 DEF Openers
    <3>2. EndOf(s, j) < e /\ EndOf(s, j) \in Nat
      BY <1>1, <1>2, <1>3, <3>1, Nesting, BlockFacts
    <3> QED
      BY <2>1, <3>2
  <2>3. Count(s, {close}, a, p) = Count(s, {op}, a, p)
    BY <1>6, <2>1, <2>2
  <2>4. /\ Count(s, {close}, a, p + 1) =
             Count(s, {close}, a, p) + (IF s[p + 1].op \in {close} THEN 1 ELSE 0)
        /\ Count(s, {op}, a, p + 1) =
             Count(s, {op}, a, p) + (IF s[p + 1].op \in {op} THEN 1 ELSE 0)
    <3>1. \A ops : Count(s, ops, a, p + 1) =
                     Count(s, ops, a, p) + (IF s[p + 1].op \in ops THEN 1 ELSE 0)
      BY <1>3, <2>1, CountNext, SMTT(60)
    <3> QED
      BY <3>1
  <2>5. s[p + 1].op = close /\ close # op
    BY <1>3, <2>1 DEF CloserOf
  <2>6. Count(s, {op}, a, p) \in Nat
    BY <1>4, <2>1
  <2>7. Count(s, {close}, a, e) = Count(s, {op}, a, e) + 1
    <3> HIDE DEF close
    <3> QED
      BY <2>1, <2>3, <2>4, <2>5, <2>6
  <2> QED
    BY <1>3, <2>7 DEF BreaksAt
<1> QED
  BY <1>2, <1>7, <1>8

\* A scan that looks for the end alone finds the end of the block.
LEMMA ScanToEnd ==
  ASSUME NEW s \in Seq(Statement), BlocksWellFormed(s),
         NEW op \in {"if", "while"}, NEW i \in DOMAIN s, s[i].op = op,
         NEW b \in Nat, i <= b, NEW a \in Nat, a = b + 1, b < EndOf(s, i),
         NoneOpen(s, i, b, op)
  PROVE  /\ BlockEnds(s, a, op, CloserOf(op), CloserOf(op)) # {}
         /\ First(BlockEnds(s, a, op, CloserOf(op), CloserOf(op))) = EndOf(s, i)
<1> DEFINE ends == BlockEnds(s, a, op, CloserOf(op), CloserOf(op))
<1>1. s[i].op \in Openers
  BY DEF Openers
<1>2. PICK e \in Nat : e = EndOf(s, i) /\ b < e /\ e <= Len(s)
  BY <1>1, BlockFacts
<1>3. /\ BreaksAt(s, op, CloserOf(op), CloserOf(op), a, e)
      /\ \A q \in a .. (e - 1) : ~ BreaksAt(s, op, CloserOf(op), CloserOf(op), a, q)
  BY <1>2, Scan
<1>4. Len(s) \in Nat
  BY LinesOf
<1>5. e \in ends
  BY <1>2, <1>3, <1>4 DEF BlockEnds
<1>6. \A q \in ends : q \in Nat /\ e <= q
  <2> TAKE q \in ends
  <2>1. q \in a .. Len(s) /\ BreaksAt(s, op, CloserOf(op), CloserOf(op), a, q)
    BY DEF BlockEnds
  <2>2. q \notin a .. (e - 1)
    BY <1>3, <2>1
  <2> QED
    BY <1>2, <1>4, <2>1, <2>2
<1>7. ends \subseteq Nat
  BY <1>6
<1>8. First(ends) = e
  <2> HIDE DEF ends
  <2> QED
    BY <1>5, <1>6, <1>7, FirstIs
<1> QED
  BY <1>2, <1>5, <1>8

\* Directly behind a line no inner block is open.
LEMMA NoneYet ==
  ASSUME NEW s, NEW i \in Nat, NEW op
  PROVE  NoneOpen(s, i, i, op)
BY DEF NoneOpen

\* findEndOfBlock for a while: endwhile is not the mid, so only the end of the
\* block stops it.
LEMMA WhileScan ==
  ASSUME NEW s \in Seq(Statement), BlocksWellFormed(s), NEW i \in DOMAIN s, s[i].op = "while"
  PROVE  /\ BlockEnds(s, i + 1, "while", "endwhile", "endwhile") # {}
         /\ First(BlockEnds(s, i + 1, "while", "endwhile", "endwhile")) = EndOf(s, i)
<1>1. i \in Nat /\ i < EndOf(s, i)
  BY BlockFacts DEF Openers
<1>2. PICK a \in Nat : a = i + 1
  BY <1>1
<1>3. CloserOf("while") = "endwhile"
  BY DEF CloserOf
<1> QED
  BY <1>1, <1>2, <1>3, NoneYet, ScanToEnd

------------------------------------------------------------------------------
(* The innermost block *)

LEMMA InnermostIs ==
  ASSUME NEW S, S \subseteq Nat, NEW i \in S, \A j \in S : j <= i
  PROVE  Innermost(S) = i
<1>1. Innermost(S) \in S /\ \A j \in S : j <= Innermost(S)
  BY DEF Innermost
<1>2. Innermost(S) \in Nat /\ i \in Nat /\ Innermost(S) <= i /\ i <= Innermost(S)
  BY <1>1
<1> QED
  BY <1>2

\* The greatest of some lines exists.
LEMMA HasInnermost ==
  ASSUME NEW k \in Nat, NEW S, S \subseteq 1 .. k, S # {}
  PROVE  Innermost(S) \in S /\ \A j \in S : j <= Innermost(S)
<1> DEFINE D == {k - j : j \in S}
<1>1. D \subseteq Nat /\ D # {}
  <2>1. \A j \in S : k - j \in Nat
    OBVIOUS
  <2> QED
    BY <2>1
<1>2. PICK d \in D : \A r \in D : d <= r
  <2> HIDE DEF D
  <2> QED
    BY <1>1, HasLeast
<1>3. PICK i \in S : d = k - i
  BY <1>2
<1>4. ASSUME NEW j \in S PROVE j <= i
  <2>1. k - i <= k - j
    BY <1>2, <1>3
  <2>2. i \in Nat /\ j \in Nat
    OBVIOUS
  <2> QED
    BY <2>1, <2>2
<1> QED
  BY <1>4 DEF Innermost

\* The blocks around a line begin before it and end behind it.
LEMMA AroundFacts ==
  ASSUME NEW s \in Seq(Statement), NEW k \in DOMAIN s
  PROVE  /\ Around(s, k) \subseteq 1 .. k /\ Around(s, k) \subseteq DOMAIN s
         /\ k \in Nat /\ IsFiniteSet(Around(s, k))
         /\ \A i \in Around(s, k) : /\ s[i].op \in Openers /\ i \in Nat /\ i < k
                                    /\ k < EndOf(s, i) /\ EndOf(s, i) # 0
                                    /\ EndOf(s, i) \in Nat /\ EndOf(s, i) <= Len(s)
<1>1. Len(s) \in Nat /\ DOMAIN s = 1 .. Len(s) /\ k \in Nat /\ k <= Len(s)
  BY LinesOf
<1>2. Around(s, k) \subseteq 1 .. k /\ Around(s, k) \subseteq DOMAIN s
  BY <1>1 DEF Around
<1>3. IsFiniteSet(Around(s, k))
  <2>1. IsFiniteSet(1 .. k)
    BY <1>1, FS_Interval
  <2> QED
    BY <1>2, <2>1, FS_Subset
<1>4. ASSUME NEW i \in Around(s, k)
      PROVE  /\ s[i].op \in Openers /\ i \in Nat /\ i < k
             /\ k < EndOf(s, i) /\ EndOf(s, i) # 0
             /\ EndOf(s, i) \in Nat /\ EndOf(s, i) <= Len(s)
  <2>1. i \in 1 .. (k - 1) /\ s[i].op \in Openers /\ EndOf(s, i) > k /\ i \in DOMAIN s
    BY <1>2 DEF Around
  <2>2. EndOf(s, i) \in (i + 1) .. Len(s) \/ EndOf(s, i) = 0
    BY <2>1, EndOfFacts
  <2> QED
    BY <1>1, <2>1, <2>2
<1> QED
  BY <1>1, <1>2, <1>3, <1>4

\* In a well formed script each else belongs to the innermost block around it, that
\* block is an if, and it has no other else.
LEMMA ElseBelongs ==
  ASSUME NEW s \in Seq(Statement), BlocksWellFormed(s), NEW e \in DOMAIN s, s[e].op = "else"
  PROVE  \E i \in Around(s, e) :
           /\ Innermost(Around(s, e)) = i
           /\ \A j \in Around(s, e) : j <= i
           /\ s[i].op = "if"
           /\ ElsesOf(s, i) = {e}
<1>1. Around(s, e) # {}
  BY DEF BlocksWellFormed
<1>2. Around(s, e) \subseteq 1 .. e /\ e \in Nat /\ Around(s, e) \subseteq DOMAIN s
  BY AroundFacts
<1>3. PICK i \in Around(s, e) : Innermost(Around(s, e)) = i /\ \A j \in Around(s, e) : j <= i
  BY <1>1, <1>2, HasInnermost
<1>4. /\ i \in DOMAIN s /\ s[i].op \in Openers /\ i \in Nat /\ i < e
      /\ e < EndOf(s, i) /\ EndOf(s, i) \in Nat
  BY <1>2, AroundFacts
<1>5. e \in ElsesOf(s, i)
  BY <1>2, <1>3, <1>4 DEF ElsesOf
<1>6. IsFiniteSet(ElsesOf(s, i))
  <2>1. IsFiniteSet((i + 1) .. EndOf(s, i))
    BY <1>4, FS_Interval
  <2>2. ElsesOf(s, i) \in SUBSET ((i + 1) .. EndOf(s, i))
    BY DEF ElsesOf
  <2> QED
    BY <2>1, <2>2, FS_Subset
<1>7. Cardinality(ElsesOf(s, i)) \in Nat /\ Cardinality(ElsesOf(s, i)) # 0
  BY <1>5, <1>6, FS_CardinalityType, FS_EmptySet
<1>8. Cardinality(ElsesOf(s, i)) <= (IF s[i].op = "if" THEN 1 ELSE 0)
  BY <1>4 DEF BlocksWellFormed
<1>9. s[i].op = "if" /\ Cardinality(ElsesOf(s, i)) = 1
  BY <1>7, <1>8
<1>10. ElsesOf(s, i) = {e}
  <2>1. PICK x : ElsesOf(s, i) = {x}
    BY <1>6, <1>9, FS_Singleton
  <2> QED
    BY <1>5, <2>1
<1> QED
  BY <1>3, <1>9, <1>10

\* The elses of a block are those with nothing of the block's kind open between.
LEMMA ElseInside ==
  ASSUME NEW s \in Seq(Statement), BlocksWellFormed(s), NEW i \in DOMAIN s, s[i].op = "if",
         NEW q \in Nat, i < q, q < EndOf(s, i), s[q].op = "else"
  PROVE  NoneOpen(s, i, q, "if") <=> q \in ElsesOf(s, i)
<1>1. i \in Nat /\ EndOf(s, i) \in Nat /\ EndOf(s, i) <= Len(s) /\ s[i].op \in Openers
  BY BlockFacts DEF Openers
<1>2. q \in DOMAIN s /\ i \in 1 .. (q - 1)
  BY <1>1, LinesOf
<1>3. i \in Around(s, q)
  BY <1>1, <1>2 DEF Around
<1>4. PICK j \in Around(s, q) : /\ Innermost(Around(s, q)) = j
                                /\ \A k \in Around(s, q) : k <= j
                                /\ s[j].op = "if"
  BY <1>2, ElseBelongs
<1>5. j \in Nat /\ i <= j /\ j < q /\ q < EndOf(s, j)
  BY <1>2, <1>3, <1>4, AroundFacts
<1>6. ASSUME q \in ElsesOf(s, i)
      PROVE  NoneOpen(s, i, q, "if")
  <2>1. j = i
    BY <1>4, <1>6 DEF ElsesOf
  <2> SUFFICES ASSUME NEW k \in (i + 1) .. q, s[k].op = "if", EndOf(s, k) > q PROVE FALSE
    BY DEF NoneOpen
  <2>2. k # q
    OBVIOUS
  <2>3. k \in Around(s, q)
    BY <1>1, <2>2 DEF Around, Openers
  <2> QED
    BY <1>1, <1>4, <2>1, <2>3
<1>7. ASSUME NoneOpen(s, i, q, "if")
      PROVE  q \in ElsesOf(s, i)
  <2>1. j = i
    <3>1. j # i => j \in (i + 1) .. q
      BY <1>1, <1>5
    <3> QED
      BY <1>4, <1>5, <1>7, <3>1 DEF NoneOpen
  <2>2. q \in (i + 1) .. EndOf(s, i)
    BY <1>1
  <2> QED
    BY <1>4, <2>1, <2>2 DEF ElsesOf
<1> QED
  BY <1>6, <1>7

\* A well formed if has at most one else, in which no inner if is open.
LEMMA ElsesFacts ==
  ASSUME NEW s \in Seq(Statement), BlocksWellFormed(s), NEW i \in DOMAIN s, s[i].op = "if",
         NEW x \in ElsesOf(s, i)
  PROVE  /\ x \in Nat /\ i < x /\ x < EndOf(s, i) /\ x \in DOMAIN s /\ s[x].op = "else"
         /\ NoneOpen(s, i, x, "if")
         /\ ElsesOf(s, i) = {x} /\ First(ElsesOf(s, i)) = x
<1>1. i \in Nat /\ EndOf(s, i) \in Nat /\ EndOf(s, i) <= Len(s) /\ s[i].op \in Openers
      /\ s[EndOf(s, i)].op \in Closers
  BY BlockFacts DEF Openers
<1>2. x \in (i + 1) .. EndOf(s, i) /\ s[x].op = "else" /\ Innermost(Around(s, x)) = i
  BY DEF ElsesOf
<1>3. x # EndOf(s, i)
  BY <1>1, <1>2 DEF Closers
<1>4. x \in Nat /\ i < x /\ x < EndOf(s, i) /\ x \in DOMAIN s
  BY <1>1, <1>2, <1>3, LinesOf
<1>5. NoneOpen(s, i, x, "if")
  BY <1>2, <1>4, ElseInside
<1>6. ElsesOf(s, i) = {x}
  BY <1>2, <1>4, ElseBelongs
<1>7. First(ElsesOf(s, i)) = x
  BY <1>6 DEF First
<1> QED
  BY <1>2, <1>4, <1>5, <1>6, <1>7

\* findEndOfBlock for an if: it stops at the else of the block or else at its
\* end.
LEMMA IfScan ==
  ASSUME NEW s \in Seq(Statement), BlocksWellFormed(s), NEW i \in DOMAIN s, s[i].op = "if"
  PROVE  /\ BlockEnds(s, i + 1, "if", "else", "endif") # {}
         /\ First(BlockEnds(s, i + 1, "if", "else", "endif")) =
              IF ElsesOf(s, i) = {} THEN EndOf(s, i) ELSE First(ElsesOf(s, i))
<1>1. PICK a \in Nat : a = i + 1 /\ i \in Nat /\ i < EndOf(s, i)
  BY BlockFacts DEF Openers
<1>2. PICK e \in Nat : e = EndOf(s, i) /\ e <= Len(s)
  BY BlockFacts DEF Openers
<1>3. CloserOf("if") = "endif" /\ NoneOpen(s, i, i, "if") /\ Len(s) \in Nat
  BY <1>1, NoneYet, LinesOf DEF CloserOf
<1>4. /\ BreaksAt(s, "if", "else", "endif", a, e)
      /\ \A q \in a .. (e - 1) :
           BreaksAt(s, "if", "else", "endif", a, q) <=>
             s[q].op = "else" /\ NoneOpen(s, i, q, "if")
  <2>1. /\ BreaksAt(s, "if", "else", CloserOf("if"), a, EndOf(s, i))
        /\ \A q \in a .. (EndOf(s, i) - 1) :
             BreaksAt(s, "if", "else", CloserOf("if"), a, q) <=>
               s[q].op = "else" /\ "else" # CloserOf("if") /\ NoneOpen(s, i, q, "if")
    <3>1. i <= i /\ "if" \in {"if", "while"}
      BY <1>1
    <3> QED
      BY <1>1, <1>3, <3>1, Scan, ZenonT(60)
  <2> QED
    BY <1>2, <1>3, <2>1
<1>5. \A q \in a .. (e - 1) :
        BreaksAt(s, "if", "else", "endif", a, q) <=> q \in ElsesOf(s, i)
  <2> TAKE q \in a .. (e - 1)
  <2>1. q \in Nat /\ i < q /\ q < EndOf(s, i)
    BY <1>1, <1>2
  <2>2. q \in ElsesOf(s, i) => s[q].op = "else"
    BY DEF ElsesOf
  <2> QED
    BY <1>3, <1>4, <2>1, <2>2, ElseInside
<1> DEFINE ends == BlockEnds(s, a, "if", "else", "endif")
<1>6. e \in ends
  BY <1>1, <1>2, <1>3, <1>4 DEF BlockEnds
<1>7. \A q \in ends : q \in Nat /\ (e <= q \/ q \in ElsesOf(s, i))
  <2> TAKE q \in ends
  <2>1. q \in a .. Len(s) /\ BreaksAt(s, "if", "else", "endif", a, q)
    BY DEF BlockEnds
  <2>2. e <= q \/ q \in a .. (e - 1)
    BY <1>2, <1>3, <2>1
  <2> QED
    BY <1>5, <2>1, <2>2
<1>8. ends \subseteq Nat
  BY <1>7
<1>9. CASE ElsesOf(s, i) = {}
  <2>1. First(ends) = e
    <3> HIDE DEF ends
    <3> QED
      BY <1>6, <1>7, <1>8, <1>9, FirstIs
  <2> QED
    BY <1>1, <1>2, <1>6, <1>9, <2>1
<1>10. CASE ElsesOf(s, i) # {}
  <2>1. PICK x \in ElsesOf(s, i) : TRUE
    BY <1>10
  <2>2. /\ x \in Nat /\ i < x /\ x < e /\ x \in DOMAIN s
        /\ ElsesOf(s, i) = {x} /\ First(ElsesOf(s, i)) = x
    BY <1>2, <2>1, ElsesFacts
  <2>3. x \in ends
    <3>1. x \in a .. (e - 1) /\ x \in a .. Len(s)
      BY <1>1, <1>2, <1>3, <2>2
    <3> QED
      BY <1>5, <2>1, <3>1 DEF BlockEnds
  <2>4. \A q \in ends : x <= q
    BY <1>2, <1>7, <2>2
  <2>5. First(ends) = x
    <3> HIDE DEF ends
    <3> QED
      BY <1>8, <2>3, <2>4, FirstIs
  <2> QED
    BY <1>1, <1>10, <2>2, <2>3, <2>5
<1> QED
  BY <1>9, <1>10

\* findEndOfBlock for an else, from which only the endif is looked up.
LEMMA ElseScan ==
  ASSUME NEW s \in Seq(Statement), BlocksWellFormed(s), NEW i \in DOMAIN s, s[i].op = "if",
         NEW x \in ElsesOf(s, i)
  PROVE  /\ BlockEnds(s, x + 1, "if", "endif", "endif") # {}
         /\ First(BlockEnds(s, x + 1, "if", "endif", "endif")) = EndOf(s, i)
<1>1. x \in Nat /\ i < x /\ x < EndOf(s, i) /\ NoneOpen(s, i, x, "if") /\ i \in Nat
  BY ElsesFacts, LinesOf
<1>2. PICK a \in Nat : a = x + 1
  BY <1>1
<1>3. CloserOf("if") = "endif" /\ i <= x
  BY <1>1 DEF CloserOf
<1> QED
  BY <1>1, <1>2, <1>3, ScanToEnd

------------------------------------------------------------------------------
(* Back to the line that opened the block *)

\* The innermost block that begins at or before line k and ends there or later.
IsOpener(s, k, i) ==
  /\ i \in 1 .. k
  /\ s[i].op \in Openers /\ EndOf(s, i) >= k
  /\ \A j \in (i + 1) .. k : s[j].op \in Openers => EndOf(s, j) < k

OpenerOf(s, k) ==
  CHOOSE i \in 1 .. k : s[i].op \in Openers /\ EndOf(s, i) >= k
    /\ \A j \in (i + 1) .. k : s[j].op \in Openers => EndOf(s, j) < k

\* At most one line opens the block that a line belongs to.
LEMMA OpenerIs ==
  ASSUME NEW s \in Seq(Statement), NEW k \in DOMAIN s, NEW i, IsOpener(s, k, i)
  PROVE  OpenerOf(s, k) = i
<1>1. k \in Nat /\ \A j \in 1 .. k : j \in DOMAIN s
  BY LinesOf
<1>2. IsOpener(s, k, OpenerOf(s, k))
  BY DEF IsOpener, OpenerOf
<1>3. ASSUME NEW x, NEW y, IsOpener(s, k, x), IsOpener(s, k, y), x < y
      PROVE  FALSE
  <2>1. x \in Nat /\ y \in (x + 1) .. k /\ s[y].op \in Openers /\ EndOf(s, y) >= k
    BY <1>1, <1>3 DEF IsOpener
  <2>2. EndOf(s, y) < k
    BY <1>3, <2>1 DEF IsOpener
  <2>3. EndOf(s, y) \in Nat
    <3>1. y \in DOMAIN s
      BY <1>1, <1>3 DEF IsOpener
    <3> QED
      BY <2>1, <3>1, EndOfFacts, LinesOf
  <2> QED
    BY <1>1, <2>1, <2>2, <2>3
<1>4. ~ (i < OpenerOf(s, k)) /\ ~ (OpenerOf(s, k) < i)
  BY <1>2, <1>3
<1>5. i \in Nat /\ OpenerOf(s, k) \in Nat
  BY <1>1, <1>2 DEF IsOpener
<1> QED
  BY <1>4, <1>5

\* The else of a block belongs to the line that opens the block, and so does
\* its end.
LEMMA ElseOpener ==
  ASSUME NEW s \in Seq(Statement), BlocksWellFormed(s), NEW i \in DOMAIN s, s[i].op = "if",
         NEW x \in ElsesOf(s, i)
  PROVE  OpenerOf(s, x) = i
<1>1. x \in Nat /\ i < x /\ x < EndOf(s, i) /\ x \in DOMAIN s /\ s[x].op = "else"
  BY ElsesFacts
<1>2. i \in Nat /\ i >= 1 /\ s[i].op \in Openers /\ EndOf(s, i) \in Nat
  BY BlockFacts, LinesOf DEF Openers
<1>3. \A j \in Around(s, x) : j <= i
  <2>1. Innermost(Around(s, x)) = i
    BY DEF ElsesOf
  <2>2. i \in Around(s, x)
    BY <1>1, <1>2 DEF Around
  <2>3. Around(s, x) \subseteq 1 .. x
    BY <1>1, AroundFacts
  <2> QED
    BY <1>1, <2>1, <2>2, <2>3, HasInnermost
<1>4. ASSUME NEW j \in (i + 1) .. x, s[j].op \in Openers
      PROVE  EndOf(s, j) < x
  <2>1. j # x
    BY <1>1, <1>4 DEF Openers
  <2>2. j \in DOMAIN s /\ j \in 1 .. (x - 1)
    BY <1>1, <1>2, <2>1, LinesOf
  <2>3. EndOf(s, j) \in Nat /\ s[EndOf(s, j)].op \in Closers
    BY <1>4, <2>2, BlockFacts
  <2>4. EndOf(s, j) # x
    BY <1>1, <2>3 DEF Closers
  <2>5. ~ (EndOf(s, j) > x)
    BY <1>2, <1>3, <1>4, <2>2 DEF Around
  <2> QED
    BY <1>1, <2>3, <2>4, <2>5
<1>5. IsOpener(s, x, i)
  BY <1>1, <1>2, <1>4 DEF IsOpener
<1> QED
  BY <1>1, <1>5, OpenerIs

LEMMA EndOpener ==
  ASSUME NEW s \in Seq(Statement), BlocksWellFormed(s), NEW i \in DOMAIN s, s[i].op \in Openers
  PROVE  OpenerOf(s, EndOf(s, i)) = i
<1>1. PICK e \in Nat : /\ e = EndOf(s, i) /\ i < e /\ e \in DOMAIN s /\ e # 0 /\ i \in Nat
                       /\ s[e].op \in Closers
  BY BlockFacts
<1>2. ASSUME NEW j \in (i + 1) .. e, s[j].op \in Openers
      PROVE  EndOf(s, j) < e
  <2>1. j # e
    BY <1>1, <1>2, OneOrTheOther
  <2>2. j \in DOMAIN s /\ i < j /\ j < EndOf(s, i)
    BY <1>1, <2>1, LinesOf
  <2> QED
    BY <1>1, <1>2, <2>2, Nesting
<1>3. i \in 1 .. e
  BY <1>1, LinesOf
<1>4. IsOpener(s, e, i)
  BY <1>1, <1>2, <1>3 DEF IsOpener
<1> QED
  BY <1>1, <1>4, OpenerIs

------------------------------------------------------------------------------
(* leave in a well formed script *)

\* Every block around line k is ended behind it.
LEMMA EndsBehind ==
  ASSUME NEW s \in Seq(Statement), BlocksWellFormed(s), NEW k \in DOMAIN s
  PROVE  Cardinality(Around(s, k)) <= Count(s, Closers, k + 1, Len(s))
<1> DEFINE A == Around(s, k)
           T == {q \in (k + 1) .. Len(s) : s[q].op \in Closers}
           f == [j \in A |-> EndOf(s, j)]
<1>1. k \in Nat /\ k + 1 \in Nat /\ Len(s) \in Nat
  BY LinesOf
<1>2. IsFiniteSet(T)
  BY <1>1, CountIsNat
<1>3. \A j \in A : j \in DOMAIN s /\ s[j].op \in Openers /\ EndOf(s, j) # 0
  BY AroundFacts
<1>4. f \in [A -> T]
  <2> SUFFICES ASSUME NEW j \in A PROVE EndOf(s, j) \in T
    OBVIOUS
  <2>1. k < EndOf(s, j) /\ EndOf(s, j) \in Nat /\ EndOf(s, j) <= Len(s)
    BY AroundFacts
  <2>2. s[EndOf(s, j)].op \in Closers
    BY <1>3, BlockFacts
  <2> QED
    BY <1>1, <2>1, <2>2
<1>5. \A x, y \in A : f[x] = f[y] => x = y
  <2> HIDE DEF A
  <2> SUFFICES ASSUME NEW x \in A, NEW y \in A, EndOf(s, x) = EndOf(s, y) PROVE x = y
    OBVIOUS
  <2> QED
    BY <1>3, EndsOne
<1>6. Cardinality(A) <= Cardinality(T)
  <2> HIDE DEF A, T, f
  <2> QED
    BY <1>2, <1>4, <1>5, NotLarger
<1> QED
  BY <1>6 DEF Count

\* A leave of no more blocks than there are around it finds an end.
LEMMA LeaveHasEnd ==
  ASSUME NEW s \in Seq(Statement), BlocksWellFormed(s), NEW k \in DOMAIN s,
         NEW n \in Nat, n >= 1, n <= Cardinality(Around(s, k))
  PROVE  LeaveEnds(s, k + 1, n) # {}
<1>1. k \in Nat /\ k + 1 \in Nat /\ Len(s) \in Nat
  BY LinesOf
<1>2. Cardinality(Around(s, k)) \in Nat /\ Count(s, Closers, k + 1, Len(s)) \in Nat
  BY <1>1, AroundFacts, FS_CardinalityType, CountIsNat
<1>3. n # 0 /\ n <= Count(s, Closers, k + 1, Len(s))
  BY <1>2, EndsBehind
<1>4. PICK q \in (k + 1) .. Len(s) :
        s[q].op \in Closers /\ Count(s, Closers, k + 1, q) = n
  BY <1>1, <1>3, CountReaches
<1> QED
  BY <1>4 DEF LeaveEnds

\* The scan of leave finds the end of the count-th block around it, counted from
\* inside, when no block begins on its way.
LEMMA LeaveScan ==
  ASSUME NEW s \in Seq(Statement), BlocksWellFormed(s), NEW k \in DOMAIN s,
         s[k].op \notin Openers, s[k].op \notin Closers, NEW n \in Nat, n >= 1,
         LeaveEnds(s, k + 1, n) # {},
         \A q \in LeaveEnds(s, k + 1, n) : Count(s, Openers, k + 1, q) = 0
  PROVE  /\ First(LeaveEnds(s, k + 1, n)) = EndLeft(s, k, n)
         /\ First(LeaveEnds(s, k + 1, n)) \in DOMAIN s
         /\ s[First(LeaveEnds(s, k + 1, n))].op \in Closers
         /\ n <= Cardinality(Around(s, k))
<1> DEFINE ends == LeaveEnds(s, k + 1, n)
           A == Around(s, k)
<1>1. k \in Nat /\ k + 1 \in Nat /\ Len(s) \in Nat /\ DOMAIN s = 1 .. Len(s) /\ 1 <= k
  BY LinesOf
<1>2. PICK t \in Nat : /\ t = First(ends) /\ t \in (k + 1) .. Len(s) /\ s[t].op \in Closers
                       /\ Count(s, Closers, k + 1, t) = n
                       /\ Count(s, Openers, k + 1, t) = 0
  <2>1. ends \subseteq (k + 1) .. Len(s) /\ ends \subseteq Nat
    BY <1>1 DEF LeaveEnds
  <2>2. First(ends) \in ends
    BY <2>1, FirstIsLeast
  <2>3. /\ First(ends) \in (k + 1) .. Len(s) /\ s[First(ends)].op \in Closers
        /\ Count(s, Closers, k + 1, First(ends)) = n
    BY <2>2 DEF LeaveEnds
  <2>4. Count(s, Openers, k + 1, First(ends)) = 0
    BY <2>2
  <2> QED
    BY <2>1, <2>2, <2>3, <2>4
<1>3. \A q \in (k + 1) .. t : s[q].op \notin Openers
  <2> SUFFICES ASSUME NEW q \in (k + 1) .. t, s[q].op \in Openers PROVE FALSE
    OBVIOUS
  <2>1. Count(s, Openers, k + 1, t) >= 1
    BY <1>1, CountSomething
  <2> QED
    BY <1>2, <2>1
<1>4. ASSUME NEW q \in (k + 1) .. t, s[q].op \in Closers
      PROVE  \E j \in A : EndOf(s, j) = q
  <2>1. q \in DOMAIN s /\ q \in Nat
    BY <1>1, <1>2
  <2>2. PICK j \in 1 .. q : s[j].op \in Openers /\ EndOf(s, j) = q
    BY <1>4, <2>1 DEF BlocksWellFormed
  <2>3. j \notin (k + 1) .. t /\ j # k
    BY <1>3, <2>2
  <2>4. j \in 1 .. (k - 1) /\ EndOf(s, j) > k
    BY <1>1, <1>2, <2>1, <2>2, <2>3
  <2> QED
    BY <2>2, <2>4 DEF Around
<1>5. \A j \in A : /\ j \in DOMAIN s /\ s[j].op \in Openers /\ EndOf(s, j) # 0
                   /\ j \in Nat /\ j < k /\ EndOf(s, j) \in Nat /\ k < EndOf(s, j)
                   /\ s[EndOf(s, j)].op \in Closers
  <2>1. \A j \in A : /\ j \in DOMAIN s /\ s[j].op \in Openers /\ EndOf(s, j) # 0
                     /\ j \in Nat /\ j < k /\ EndOf(s, j) \in Nat /\ k < EndOf(s, j)
    BY AroundFacts
  <2> HIDE DEF A
  <2> QED
    BY <2>1, BlockFacts
<1> DEFINE Inner(i) == {j \in A : i <= j}
           A1 == {j \in A : EndOf(s, j) <= t}
           B == {q \in (k + 1) .. t : s[q].op \in Closers}
           f == [j \in A1 |-> EndOf(s, j)]
<1>6. IsFiniteSet(A) /\ \A i : IsFiniteSet(Inner(i)) /\ Cardinality(Inner(i)) \in Nat
                               /\ Cardinality(Inner(i)) <= Cardinality(A)
  <2>1. IsFiniteSet(A)
    BY AroundFacts
  <2>2. \A i : Inner(i) \in SUBSET A
    OBVIOUS
  <2> HIDE DEF A, Inner
  <2> QED
    BY <2>1, <2>2, FS_Subset, FS_CardinalityType
<1>7. Cardinality(A1) = n
  <2>1. IsFiniteSet(A1)
    <3>1. A1 \in SUBSET A
      OBVIOUS
    <3> HIDE DEF A, A1
    <3> QED
      BY <1>6, <3>1, FS_Subset
  <2>2. f \in [A1 -> B]
    BY <1>1, <1>2, <1>5
  <2>3. \A x, y \in A1 : f[x] = f[y] => x = y
    <3> SUFFICES ASSUME NEW x \in A1, NEW y \in A1, EndOf(s, x) = EndOf(s, y) PROVE x = y
      OBVIOUS
    <3>1. x \in A /\ y \in A
      OBVIOUS
    <3> HIDE DEF A, A1
    <3> QED
      BY <1>5, <3>1, EndsOne
  <2>4. \A q \in B : \E j \in A1 : f[j] = q
    <3> SUFFICES ASSUME NEW q \in B PROVE \E j \in A1 : EndOf(s, j) = q
      OBVIOUS
    <3>1. q \in (k + 1) .. t /\ s[q].op \in Closers
      OBVIOUS
    <3>2. PICK j \in A : EndOf(s, j) = q
      BY <1>4, <3>1
    <3>3. q <= t
      BY <1>1, <1>2, <3>1
    <3> QED
      BY <3>2, <3>3
  <2>5. Cardinality(B) = n
    BY <1>2 DEF Count
  <2> HIDE DEF A1, B, f
  <2> QED
    BY <2>1, <2>2, <2>3, <2>4, <2>5, SameSize
<1>8. PICK i \in A : EndOf(s, i) = t
  <2>1. t \in (k + 1) .. t
    BY <1>1, <1>2
  <2> QED
    BY <1>2, <1>4, <2>1
<1>9. A1 = Inner(i)
  <2>1. ASSUME NEW j \in A PROVE EndOf(s, j) <= t <=> i <= j
    <3>1. CASE j = i
      BY <1>2, <1>5, <1>8, <3>1
    <3>2. CASE i < j
      <4>1. EndOf(s, j) < EndOf(s, i)
        <5>1. j < EndOf(s, i)
          BY <1>1, <1>5, <1>8
        <5> HIDE DEF A
        <5> QED
          BY <1>5, <3>2, <5>1, Nesting
      <4> QED
        BY <1>2, <1>5, <1>8, <3>2, <4>1
    <3>3. CASE j < i
      <4>1. EndOf(s, i) < EndOf(s, j)
        <5>1. i < EndOf(s, j)
          BY <1>1, <1>5, <1>8
        <5> HIDE DEF A
        <5> QED
          BY <1>5, <3>3, <5>1, Nesting
      <4> QED
        BY <1>2, <1>5, <1>8, <3>3, <4>1
    <3>4. i \in Nat /\ j \in Nat
      BY <1>5
    <3> QED
      BY <3>1, <3>2, <3>3, <3>4
  <2> HIDE DEF A
  <2> QED
    BY <2>1
<1>10. Cardinality(Inner(i)) = n
  BY <1>7, <1>9
<1>11. ASSUME NEW x \in A, NEW y \in A, x < y, Cardinality(Inner(x)) = Cardinality(Inner(y))
       PROVE  FALSE
  <2>1. x \in Nat /\ y \in Nat
    BY <1>5
  <2>2. Inner(y) \in SUBSET Inner(x) /\ x \in Inner(x) /\ x \notin Inner(y)
    <3>1. \A j \in A : y <= j => x <= j
      BY <1>5, <1>11, <2>1
    <3>2. x <= x /\ ~ (y <= x)
      BY <1>11, <2>1
    <3>3. Inner(y) \subseteq Inner(x)
      <4> HIDE DEF A
      <4> QED
        BY <3>1
    <3> QED
      BY <3>2, <3>3
  <2> HIDE DEF Inner
  <2>3. Inner(x) = Inner(y)
    BY <1>6, <1>11, <2>2, FS_Subset
  <2> QED
    BY <2>2, <2>3
<1>12. \A x \in A : Cardinality(Inner(x)) = n => x = i
  <2> SUFFICES ASSUME NEW x \in A, Cardinality(Inner(x)) = n PROVE x = i
    OBVIOUS
  <2>1. ~ (x < i) /\ ~ (i < x)
    BY <1>10, <1>11
  <2>2. x \in Nat /\ i \in Nat
    BY <1>5
  <2> QED
    BY <2>1, <2>2
<1>13. (CHOOSE x \in A : Cardinality(Inner(x)) = n) = i
  <2> HIDE DEF A, Inner
  <2> QED
    BY <1>10, <1>12
<1>14. EndLeft(s, k, n) = t
  BY <1>8, <1>13 DEF EndLeft
<1>15. n <= Cardinality(A)
  BY <1>6, <1>10
<1> QED
  BY <1>1, <1>2, <1>14, <1>15

------------------------------------------------------------------------------
(* Statements, and the bodies of inner scripts and here documents *)

BodyEnds(s, h) ==
  {q \in (h + 1) .. Len(s) : \/ s[h].op = "here" /\ s[q].op = "marker"
                             \/ s[h].op = "script" /\ s[q].op = "endscript"}

\* BodyEnd is 0 or the first line that ends the body.
LEMMA BodyEndFacts ==
  ASSUME NEW s \in Seq(Statement), NEW h \in DOMAIN s
  PROVE  /\ BodyEnd(s, h) \in Nat
         /\ BodyEnd(s, h) = 0 <=> BodyEnds(s, h) = {}
         /\ BodyEnd(s, h) # 0 =>
              /\ BodyEnd(s, h) = First(BodyEnds(s, h))
              /\ BodyEnd(s, h) \in (h + 1) .. Len(s)
              /\ BodyEnd(s, h) \in BodyEnds(s, h)
              /\ \A q \in BodyEnds(s, h) : BodyEnd(s, h) <= q
              /\ s[h].op \in {"here", "script"}
<1>1. Len(s) \in Nat /\ h \in Nat /\ 1 <= h
  BY LinesOf
<1>2. BodyEnd(s, h) = IF BodyEnds(s, h) = {} THEN 0 ELSE First(BodyEnds(s, h))
  BY DEF BodyEnd, BodyEnds
<1>3. BodyEnds(s, h) \subseteq Nat /\ BodyEnds(s, h) \subseteq (h + 1) .. Len(s)
  BY <1>1 DEF BodyEnds
<1>4. ASSUME BodyEnds(s, h) # {}
      PROVE  /\ First(BodyEnds(s, h)) \in BodyEnds(s, h)
             /\ First(BodyEnds(s, h)) \in (h + 1) .. Len(s)
             /\ First(BodyEnds(s, h)) \in Nat /\ First(BodyEnds(s, h)) # 0
             /\ \A q \in BodyEnds(s, h) : First(BodyEnds(s, h)) <= q
             /\ s[h].op \in {"here", "script"}
  <2>1. /\ First(BodyEnds(s, h)) \in BodyEnds(s, h)
        /\ \A q \in BodyEnds(s, h) : First(BodyEnds(s, h)) <= q
    BY <1>3, <1>4, FirstIsLeast
  <2>2. First(BodyEnds(s, h)) \in (h + 1) .. Len(s)
    BY <1>3, <2>1
  <2>3. s[h].op \in {"here", "script"}
    BY <2>1 DEF BodyEnds
  <2> QED
    BY <1>1, <2>1, <2>2, <2>3
<1> QED
  BY <1>2, <1>4

\* No keyword in a body, and none that ends it but the last line.
LEMMA BodyLines ==
  ASSUME NEW s \in Seq(Statement), BodiesPlain(s), NEW h \in DOMAIN s, BodyEnd(s, h) # 0,
         NEW k \in Nat, h < k, k <= BodyEnd(s, h)
  PROVE  s[k].op \in {"plain", "marker", "endscript"} /\ k \in DOMAIN s
<1>1. Len(s) \in Nat /\ h \in Nat /\ 1 <= h /\ DOMAIN s = 1 .. Len(s)
  BY LinesOf
<1>2. PICK b \in Nat : /\ b = BodyEnd(s, h) /\ b \in (h + 1) .. Len(s)
                       /\ b \in BodyEnds(s, h) /\ \A q \in BodyEnds(s, h) : b <= q
                       /\ s[h].op \in {"here", "script"}
  BY BodyEndFacts
<1>3. k \in DOMAIN s /\ k <= b
  BY <1>1, <1>2
<1>4. CASE k = b
  BY <1>2, <1>3, <1>4 DEF BodyEnds
<1>5. CASE k # b
  <2>1. \A m \in (h + 1) .. k : m \in (h + 1) .. Len(s) /\ ~ (b <= m)
    BY <1>1, <1>2, <1>3, <1>5
  <2>2. \A m \in (h + 1) .. k : m \notin BodyEnds(s, h)
    BY <1>2, <2>1
  <2>3. CASE s[h].op = "here"
    <3>1. \A m \in (h + 1) .. k : s[m].op # "marker"
      BY <2>1, <2>2, <2>3 DEF BodyEnds
    <3>2. InText(s, h, k)
      BY <2>3, <3>1 DEF InText
    <3> QED
      BY <1>3, <3>2 DEF BodiesPlain
  <2>4. CASE s[h].op = "script"
    <3>1. \A m \in (h + 1) .. k : s[m].op # "endscript"
      BY <2>1, <2>2, <2>4 DEF BodyEnds
    <3>2. InScript(s, h, k)
      BY <2>4, <3>1 DEF InScript
    <3> QED
      BY <1>3, <3>2 DEF BodiesPlain
  <2> QED
    BY <1>2, <2>3, <2>4
<1> QED
  BY <1>4, <1>5

\* A line is a statement iff it is in no body.
LEMMA StatementIff ==
  ASSUME NEW s \in Seq(Statement), NEW k \in DOMAIN s
  PROVE  k \in Statements(s) <=>
           ~ \E h \in DOMAIN s : h < k /\ BodyEnd(s, h) # 0 /\ k <= BodyEnd(s, h)
<1>1. Len(s) \in Nat /\ k \in Nat /\ DOMAIN s = 1 .. Len(s) /\ k <= Len(s)
  BY LinesOf
<1>2. \A h : h \in 1 .. (k - 1) <=> h \in DOMAIN s /\ h < k
  BY <1>1
<1> QED
  BY <1>2 DEF Statements

\* A line with a keyword of blocks is a statement.
LEMMA KeywordIsStatement ==
  ASSUME NEW s \in Seq(Statement), BodiesPlain(s), NEW k \in DOMAIN s,
         s[k].op \notin {"plain", "marker", "endscript"}
  PROVE  k \in Statements(s)
<1>1. k \in Nat
  BY LinesOf
<1> QED
  BY <1>1, BodyLines, StatementIff

\* What follows a statement without a body, or a body, is a statement.
LEMMA StatementNext ==
  ASSUME NEW s \in Seq(Statement), NEW k \in Statements(s),
         s[k].op \notin {"here", "script"}, k < Len(s)
  PROVE  k + 1 \in Statements(s)
<1>1. Len(s) \in Nat /\ k \in Nat /\ DOMAIN s = 1 .. Len(s) /\ k \in DOMAIN s
  BY LinesOf DEF Statements
<1>2. k + 1 \in DOMAIN s
  BY <1>1
<1>3. ASSUME NEW h \in DOMAIN s, h < k + 1, BodyEnd(s, h) # 0, k + 1 <= BodyEnd(s, h)
      PROVE  FALSE
  <2>1. BodyEnd(s, h) \in Nat /\ h \in Nat /\ s[h].op \in {"here", "script"}
    BY <1>1, <1>3, BodyEndFacts
  <2>2. h < k /\ k <= BodyEnd(s, h)
    BY <1>1, <1>3, <2>1
  <2> QED
    BY <1>1, <1>3, <2>2, StatementIff
<1> QED
  BY <1>2, <1>3, StatementIff

\* The line behind a body is a statement.
LEMMA StatementAfter ==
  ASSUME NEW s \in Seq(Statement), BodiesPlain(s), NEW k \in Statements(s),
         BodyEnd(s, k) # 0, BodyEnd(s, k) < Len(s)
  PROVE  BodyEnd(s, k) + 1 \in Statements(s)
<1>1. Len(s) \in Nat /\ k \in Nat /\ DOMAIN s = 1 .. Len(s) /\ k \in DOMAIN s
  BY LinesOf DEF Statements
<1>2. PICK b \in Nat : b = BodyEnd(s, k) /\ b \in (k + 1) .. Len(s)
  BY <1>1, BodyEndFacts
<1>3. b + 1 \in DOMAIN s
  BY <1>1, <1>2
<1>4. ASSUME NEW h \in DOMAIN s, h < b + 1, BodyEnd(s, h) # 0, b + 1 <= BodyEnd(s, h)
      PROVE  FALSE
  <2>1. BodyEnd(s, h) \in Nat /\ h \in Nat /\ s[h].op \in {"here", "script"}
    BY <1>1, <1>4, BodyEndFacts
  <2>2. h <= k
    <3> SUFFICES ASSUME ~ (h <= k) PROVE FALSE
      OBVIOUS
    <3>1. k < h /\ h <= BodyEnd(s, k)
      BY <1>1, <1>2, <1>4, <2>1
    <3> QED
      BY <1>1, <1>2, <2>1, <3>1, BodyLines
  <2>3. h # k
    BY <1>2, <1>4, <2>1
  <2>4. h < k /\ k <= BodyEnd(s, h)
    BY <1>1, <1>2, <1>4, <2>1, <2>2, <2>3
  <2> QED
    BY <1>1, <1>4, <2>4, StatementIff
<1> QED
  BY <1>2, <1>3, <1>4, StatementIff

------------------------------------------------------------------------------
(* The stack of blocks, over the first m lines of a script s.  EndOf looks  *)
(* ahead: a block whose end is not among these lines is on the stack.       *)

\* Line i opens a block that is not ended up to line m.
OpenUpTo(s, i, m) ==
  i \in 1 .. m /\ s[i].op \in Openers /\ EndOf(s, i) \notin 1 .. m

\* The else at line e belongs to the block that line i opens.
Belongs(s, e, i) ==
  /\ s[e].op = "else"
  /\ OpenUpTo(s, i, e)
  /\ \A j \in (i + 1) .. e : ~ OpenUpTo(s, j, e)

\* The j-th entry of the stack is at the height of the block that line i opens.
AtHeight(s, m, stack, j, i) ==
  /\ OpenUpTo(s, i, m)
  /\ Count(s, Openers, i, m) + j = Count(s, Closers, i, m) + Len(stack) + 1

\* The type of an entry for the block of line i: an if has one else at most.
TypeFits(s, m, type, i) ==
  /\ s[i].op = "while" => type = "while"
  /\ s[i].op = "if" => type \in {"then", "else"}
  /\ type = "then" => \A e \in 1 .. m : ~ Belongs(s, e, i)
  /\ type = "else" => \E e \in 1 .. m : Belongs(s, e, i)

StandsFor(s, m, stack, j, i) ==
  AtHeight(s, m, stack, j, i) /\ TypeFits(s, m, stack[j].type, i)

\* The stack holds the blocks that are open, and no other ones.
StackOfBlocks(s, m, stack) ==
  /\ \A j \in 1 .. Len(stack) : \E i \in 1 .. m : StandsFor(s, m, stack, j, i)
  /\ \A i \in 1 .. m : OpenUpTo(s, i, m) =>
       \E j \in 1 .. Len(stack) : StandsFor(s, m, stack, j, i)

\* The blocks that are ended have the right end, every end ends a block, and each
\* else belongs to an if that has no other else.
EndedBlocks(s, m) ==
  /\ \A i \in 1 .. m : s[i].op \in Openers /\ EndOf(s, i) \in 1 .. m =>
       s[EndOf(s, i)].op = CloserOf(s[i].op)
  /\ \A q \in 1 .. m : s[q].op \in Closers =>
       \E i \in 1 .. q : s[i].op \in Openers /\ EndOf(s, i) = q
  /\ \A e \in 1 .. m : s[e].op = "else" =>
       \E i \in 1 .. e : Belongs(s, e, i) /\ s[i].op = "if"
  /\ \A e, f \in 1 .. m : \A i \in 1 .. m :
       Belongs(s, e, i) /\ Belongs(s, f, i) => e = f

\* What a block that is open says.
LEMMA OpenFacts ==
  ASSUME NEW s \in Seq(Statement), NEW m \in Nat, m <= Len(s), NEW i, OpenUpTo(s, i, m)
  PROVE  /\ i \in Nat /\ i \in DOMAIN s /\ 1 <= i /\ i <= m /\ s[i].op \in Openers
         /\ EndOf(s, i) \in Nat /\ (EndOf(s, i) # 0 => EndOf(s, i) > m)
         /\ EndOf(s, i) \notin i .. m
         /\ Count(s, Openers, i, m) \in Nat /\ Count(s, Closers, i, m) \in Nat
         /\ Count(s, Closers, i, m) < Count(s, Openers, i, m)
<1>1. /\ Len(s) \in Nat /\ i \in 1 .. m /\ s[i].op \in Openers
      /\ EndOf(s, i) \notin 1 .. m
  BY LinesOf DEF OpenUpTo
<1>2. /\ i \in Nat /\ i \in DOMAIN s /\ 1 <= i /\ i <= m /\ m \in i .. Len(s)
      /\ EndOf(s, i) \notin i .. m
  BY <1>1, LinesOf
<1>3. Count(s, Closers, i, m) < Count(s, Openers, i, m)
  BY <1>1, <1>2, EndOfFacts
<1>4. EndOf(s, i) = 0 \/ EndOf(s, i) \in (i + 1) .. Len(s)
  BY <1>1, <1>2, EndOfFacts
<1>5. EndOf(s, i) \in Nat /\ (EndOf(s, i) # 0 => EndOf(s, i) > m)
  BY <1>1, <1>2, <1>4
<1>6. Count(s, Openers, i, m) \in Nat /\ Count(s, Closers, i, m) \in Nat
  BY <1>2, CountIsNat
<1> QED
  BY <1>1, <1>2, <1>3, <1>5, <1>6

\* The outer one of two open blocks is the lower one on the stack.
LEMMA Deeper ==
  ASSUME NEW s \in Seq(Statement), NEW m \in Nat, m <= Len(s),
         NEW i, OpenUpTo(s, i, m), NEW j, OpenUpTo(s, j, m), i < j
  PROVE  Count(s, Openers, j, m) + Count(s, Closers, i, m)
           < Count(s, Openers, i, m) + Count(s, Closers, j, m)
<1>1. i \in Nat /\ j \in Nat /\ j <= m /\ i \in DOMAIN s /\ s[i].op \in Openers /\ 1 <= i
      /\ EndOf(s, i) \notin i .. m /\ Len(s) \in Nat
  BY OpenFacts, LinesOf
<1>2. PICK b \in Nat : b = j - 1
  BY <1>1
<1>3. b + 1 = j /\ i <= b /\ b <= m /\ i <= b + 1 /\ b \in i .. Len(s)
      /\ EndOf(s, i) \notin i .. b
  BY <1>1, <1>2
<1>4. Count(s, Closers, i, b) < Count(s, Openers, i, b)
  BY <1>1, <1>3, EndOfFacts
<1>5. Count(s, Openers, i, m) = Count(s, Openers, i, b) + Count(s, Openers, b + 1, m)
  BY <1>1, <1>3, CountSplit
<1>6. Count(s, Closers, i, m) = Count(s, Closers, i, b) + Count(s, Closers, b + 1, m)
  BY <1>1, <1>3, CountSplit
<1>7. /\ Count(s, Openers, i, b) \in Nat /\ Count(s, Closers, i, b) \in Nat
      /\ Count(s, Openers, j, m) \in Nat /\ Count(s, Closers, j, m) \in Nat
  BY <1>1, CountIsNat
<1>8. /\ Count(s, Openers, i, m) = Count(s, Openers, i, b) + Count(s, Openers, j, m)
      /\ Count(s, Closers, i, m) = Count(s, Closers, i, b) + Count(s, Closers, j, m)
  BY <1>3, <1>5, <1>6
<1> QED
  BY <1>4, <1>7, <1>8

\* One line more: what becomes of an open block.
LEMMA OneLine ==
  ASSUME NEW s \in Seq(Statement), NEW m \in Nat, NEW p \in Nat, p = m + 1, p <= Len(s),
         NEW i, OpenUpTo(s, i, m)
  PROVE  /\ Count(s, Openers, i, p) =
              Count(s, Openers, i, m) + (IF s[p].op \in Openers THEN 1 ELSE 0)
         /\ Count(s, Closers, i, p) =
              Count(s, Closers, i, m) + (IF s[p].op \in Closers THEN 1 ELSE 0)
         /\ OpenUpTo(s, i, p) <=> EndOf(s, i) # p
         /\ EndOf(s, i) = p <=> /\ s[p].op \in Closers
                                /\ Count(s, Openers, i, m) = Count(s, Closers, i, m) + 1
<1>1. m <= Len(s) /\ Len(s) \in Nat /\ p \in DOMAIN s
  BY LinesOf
<1>2. /\ i \in Nat /\ i \in DOMAIN s /\ 1 <= i /\ i <= m /\ s[i].op \in Openers
      /\ EndOf(s, i) \in Nat /\ (EndOf(s, i) # 0 => EndOf(s, i) > m)
      /\ EndOf(s, i) \notin i .. m
      /\ Count(s, Openers, i, m) \in Nat /\ Count(s, Closers, i, m) \in Nat
  BY <1>1, OpenFacts
<1>3. \A ops : Count(s, ops, i, m + 1) =
                 Count(s, ops, i, m) + (IF s[m + 1].op \in ops THEN 1 ELSE 0)
  <2>1. i <= m + 1
    BY <1>2
  <2> QED
    BY <1>2, <2>1, CountNext
<1>4. /\ Count(s, Openers, i, p) =
           Count(s, Openers, i, m) + (IF s[p].op \in Openers THEN 1 ELSE 0)
      /\ Count(s, Closers, i, p) =
           Count(s, Closers, i, m) + (IF s[p].op \in Closers THEN 1 ELSE 0)
  BY <1>3
<1>5. OpenUpTo(s, i, p) <=> EndOf(s, i) # p
  <2>1. i \in 1 .. p /\ (EndOf(s, i) \in 1 .. p <=> EndOf(s, i) = p)
    BY <1>2
  <2> QED
    BY <1>2, <2>1 DEF OpenUpTo
<1>6. ASSUME EndOf(s, i) = p
      PROVE  s[p].op \in Closers /\ Count(s, Openers, i, m) = Count(s, Closers, i, m) + 1
  <2>1. IsEnd(s, i, p)
    BY <1>1, <1>2, <1>6, EndOfFacts, LinesOf
  <2>2. s[p].op \in Closers /\ Count(s, Openers, i, p) = Count(s, Closers, i, p)
    BY <2>1 DEF IsEnd
  <2>3. s[p].op \notin Openers
    BY <2>2, OneOrTheOther
  <2> QED
    BY <1>2, <1>4, <2>2, <2>3
<1>7. ASSUME s[p].op \in Closers, Count(s, Openers, i, m) = Count(s, Closers, i, m) + 1
      PROVE  EndOf(s, i) = p
  <2>1. s[p].op \notin Openers
    BY <1>7, OneOrTheOther
  <2>2. IsEnd(s, i, p)
    BY <1>2, <1>4, <1>7, <2>1 DEF IsEnd
  <2>3. p \in i .. Len(s)
    BY <1>1, <1>2
  <2> QED
    BY <1>2, <2>2, <2>3, EndOfIs
<1> QED
  BY <1>4, <1>5, <1>6, <1>7

\* A line that opens a block is open itself, and higher than all others.
LEMMA NewBlock ==
  ASSUME NEW s \in Seq(Statement), NEW p \in Nat, 1 <= p, p <= Len(s), s[p].op \in Openers
  PROVE  /\ OpenUpTo(s, p, p)
         /\ Count(s, Openers, p, p) = 1 /\ Count(s, Closers, p, p) = 0
         /\ \A e \in 1 .. p : ~ Belongs(s, e, p)
<1>1. p \in DOMAIN s /\ Len(s) \in Nat /\ p \in 1 .. p
  BY LinesOf
<1>2. EndOf(s, p) \notin 1 .. p
  <2>1. EndOf(s, p) = 0 \/ EndOf(s, p) \in (p + 1) .. Len(s)
    BY <1>1, EndOfFacts
  <2> QED
    BY <1>1, <2>1
<1>3. Count(s, Openers, p, p) = 1 /\ Count(s, Closers, p, p) = 0
  <2>1. s[p].op \notin Closers
    BY OneOrTheOther
  <2> QED
    BY <2>1, CountOne
<1>4. ASSUME NEW e \in 1 .. p, Belongs(s, e, p) PROVE FALSE
  <2>1. s[e].op = "else" /\ p \in 1 .. e
    BY <1>4 DEF Belongs, OpenUpTo
  <2>2. e = p
    BY <2>1
  <2> QED
    BY <2>1, <2>2 DEF Openers
<1> QED
  BY <1>1, <1>2, <1>3, <1>4 DEF OpenUpTo

\* The else at line p belongs to the highest block.
LEMMA BelongsTop ==
  ASSUME NEW s \in Seq(Statement), NEW m \in Nat, NEW p \in Nat, p = m + 1, p <= Len(s),
         s[p].op = "else", NEW i,
         OpenUpTo(s, i, m), Count(s, Openers, i, m) = Count(s, Closers, i, m) + 1
  PROVE  /\ Belongs(s, p, i)
         /\ \A k : Belongs(s, p, k) => k = i
<1>1. m <= Len(s) /\ Len(s) \in Nat
  BY LinesOf
<1>2. s[p].op \notin Closers /\ s[p].op \notin Openers
  BY DEF Openers, Closers
<1>3. \A k : OpenUpTo(s, k, m) => OpenUpTo(s, k, p)
  BY <1>2, OneLine
<1>4. \A k : OpenUpTo(s, k, p) => OpenUpTo(s, k, m)
  <2> TAKE k
  <2> HAVE OpenUpTo(s, k, p)
  <2>1. k \in 1 .. p /\ s[k].op \in Openers /\ EndOf(s, k) \notin 1 .. p
    BY DEF OpenUpTo
  <2>2. k # p
    BY <1>2, <2>1
  <2>3. k \in 1 .. m /\ EndOf(s, k) \notin 1 .. m
    BY <2>1, <2>2
  <2> QED
    BY <2>1, <2>3 DEF OpenUpTo
<1>5. /\ i \in Nat /\ i <= m
      /\ Count(s, Openers, i, m) \in Nat /\ Count(s, Closers, i, m) \in Nat
  BY <1>1, OpenFacts
<1>6. ASSUME NEW k, OpenUpTo(s, k, m), i < k PROVE FALSE
  <2>1. Count(s, Openers, k, m) + Count(s, Closers, i, m)
          < Count(s, Openers, i, m) + Count(s, Closers, k, m)
    BY <1>1, <1>6, Deeper
  <2>2. /\ Count(s, Openers, k, m) \in Nat /\ Count(s, Closers, k, m) \in Nat
        /\ Count(s, Closers, k, m) < Count(s, Openers, k, m)
    BY <1>1, <1>6, OpenFacts
  <2> QED
    BY <1>5, <2>1, <2>2
<1>7. Belongs(s, p, i)
  <2>1. \A j \in (i + 1) .. p : i < j
    BY <1>5
  <2> QED
    BY <1>3, <1>4, <1>6, <2>1 DEF Belongs
<1>8. ASSUME NEW k, Belongs(s, p, k) PROVE k = i
  <2>1. OpenUpTo(s, k, p) /\ \A j \in (k + 1) .. p : ~ OpenUpTo(s, j, p)
    BY <1>8 DEF Belongs
  <2>2. OpenUpTo(s, k, m) /\ k \in Nat /\ k <= m
    BY <1>1, <1>4, <2>1, OpenFacts
  <2>3. ~ (i < k)
    BY <1>6, <2>2
  <2>4. ~ (k < i)
    <3>1. OpenUpTo(s, i, p)
      BY <1>3
    <3>2. k < i => i \in (k + 1) .. p
      BY <1>5, <2>2
    <3> QED
      BY <2>1, <3>1, <3>2
  <2> QED
    BY <1>5, <2>2, <2>3, <2>4
<1> QED
  BY <1>7, <1>8

\* A push or pop for a line that opens or ends a block leaves the other entries
\* at their height.
LEMMA HeightKept ==
  ASSUME NEW s \in Seq(Statement), NEW m \in Nat, NEW p \in Nat, p = m + 1, p <= Len(s),
         NEW stack, NEW new, NEW l \in Nat, Len(stack) = l, NEW n \in Nat, Len(new) = n,
         n + (IF s[p].op \in Closers THEN 1 ELSE 0) = l + (IF s[p].op \in Openers THEN 1 ELSE 0),
         NEW j \in Nat, NEW i, OpenUpTo(s, i, m), OpenUpTo(s, i, p)
  PROVE  AtHeight(s, m, stack, j, i) <=> AtHeight(s, p, new, j, i)
<1>1. m <= Len(s)
  BY LinesOf
<1>2. Count(s, Openers, i, m) \in Nat /\ Count(s, Closers, i, m) \in Nat
  BY <1>1, OpenFacts
<1>3. /\ Count(s, Openers, i, p) =
           Count(s, Openers, i, m) + (IF s[p].op \in Openers THEN 1 ELSE 0)
      /\ Count(s, Closers, i, p) =
           Count(s, Closers, i, m) + (IF s[p].op \in Closers THEN 1 ELSE 0)
  BY OneLine
<1> DEFINE o == IF s[p].op \in Openers THEN 1 ELSE 0
           c == IF s[p].op \in Closers THEN 1 ELSE 0
<1>4. o \in Nat /\ c \in Nat /\ n + c = l + o
  OBVIOUS
<1>5. /\ Count(s, Openers, i, p) = Count(s, Openers, i, m) + o
      /\ Count(s, Closers, i, p) = Count(s, Closers, i, m) + c
  BY <1>3
<1> HIDE DEF o, c
<1>6. \A a, b \in Nat : a + j = b + l + 1 <=> (a + o) + j = (b + c) + n + 1
  BY <1>4
<1> QED
  BY <1>2, <1>5, <1>6 DEF AtHeight

\* An entry keeps its type over lines that do not belong to its block.
LEMMA FitKept ==
  ASSUME NEW s, NEW m \in Nat, NEW p \in Nat, m <= p, NEW type, NEW i,
         TypeFits(s, m, type, i), \A e \in (m + 1) .. p : ~ Belongs(s, e, i)
  PROVE  TypeFits(s, p, type, i)
<1>1. \A e \in 1 .. p : e \in 1 .. m \/ e \in (m + 1) .. p
  OBVIOUS
<1>2. \A e \in 1 .. m : e \in 1 .. p
  OBVIOUS
<1> QED
  BY <1>1, <1>2 DEF TypeFits

\* A line that is open up to the line p and not p itself was open before.
LEMMA WasOpen ==
  ASSUME NEW s \in Seq(Statement), NEW m \in Nat, NEW p \in Nat, p = m + 1, p <= Len(s),
         NEW i, OpenUpTo(s, i, p), i # p
  PROVE  OpenUpTo(s, i, m)
BY DEF OpenUpTo

\* if and while: a new entry for the line that opens the block.
LEMMA StackPushed ==
  ASSUME NEW s \in Seq(Statement), NEW m \in Nat, NEW p \in Nat, p = m + 1, p <= Len(s),
         NEW T, NEW stack \in Seq(T), StackOfBlocks(s, m, stack),
         s[p].op \in Openers, NEW x \in T, x.type = IF s[p].op = "if" THEN "then" ELSE "while"
  PROVE  StackOfBlocks(s, p, Append(stack, x))
<1> DEFINE new == Append(stack, x)
<1>1. /\ m <= Len(s) /\ 1 <= p /\ m <= p /\ Len(stack) \in Nat /\ Len(new) = Len(stack) + 1
      /\ \A j \in 1 .. Len(stack) : new[j] = stack[j]
      /\ new[Len(stack) + 1] = x
  BY LinesOf, AppendProperties
<1>2. s[p].op \notin Closers /\ s[p].op # "else"
  BY DEF Openers, Closers
<1>3. PICK l \in Nat : l = Len(stack)
  BY <1>1
<1>4. PICK n \in Nat : n = l + 1
  OBVIOUS
<1>5. Len(new) = n /\ Len(stack) = l /\ new[n] = x /\ \A j \in 1 .. l : new[j] = stack[j]
  BY <1>1, <1>3, <1>4
<1>6. n + (IF s[p].op \in Closers THEN 1 ELSE 0) = l + (IF s[p].op \in Openers THEN 1 ELSE 0)
  BY <1>2, <1>4
<1> HIDE DEF new
<1>7. ASSUME NEW j \in 1 .. l, NEW i, StandsFor(s, m, stack, j, i)
      PROVE  StandsFor(s, p, new, j, i)
  <2>1. AtHeight(s, m, stack, j, i) /\ OpenUpTo(s, i, m) /\ TypeFits(s, m, new[j].type, i)
    BY <1>5, <1>7 DEF StandsFor, AtHeight
  <2>2. OpenUpTo(s, i, p)
    BY <1>2, <2>1, OneLine
  <2>3. AtHeight(s, p, new, j, i)
    BY <1>5, <1>6, <2>1, <2>2, HeightKept
  <2>4. \A e \in (m + 1) .. p : ~ Belongs(s, e, i)
    BY <1>2 DEF Belongs
  <2>5. TypeFits(s, p, new[j].type, i)
    BY <1>1, <2>1, <2>4, FitKept
  <2> QED
    BY <2>3, <2>5 DEF StandsFor
<1>8. StandsFor(s, p, new, n, p)
  <2>1. /\ OpenUpTo(s, p, p) /\ Count(s, Openers, p, p) = 1 /\ Count(s, Closers, p, p) = 0
        /\ \A e \in 1 .. p : ~ Belongs(s, e, p)
    BY <1>1, NewBlock
  <2>2. AtHeight(s, p, new, n, p)
    BY <1>5, <2>1 DEF AtHeight
  <2>3. TypeFits(s, p, x.type, p)
    <3>1. s[p].op \in {"if", "while"}
      BY DEF Openers
    <3> QED
      BY <2>1, <3>1 DEF TypeFits
  <2> QED
    BY <1>5, <2>2, <2>3 DEF StandsFor
<1>9. ASSUME NEW j \in 1 .. n PROVE \E i \in 1 .. p : StandsFor(s, p, new, j, i)
  <2>1. CASE j = n
    BY <1>1, <1>8, <2>1
  <2>2. CASE j # n
    <3>1. j \in 1 .. l /\ \A i \in 1 .. m : i \in 1 .. p
      BY <1>4, <2>2
    <3> QED
      BY <1>5, <1>7, <3>1 DEF StackOfBlocks
  <2> QED
    BY <2>1, <2>2
<1>10. ASSUME NEW i \in 1 .. p, OpenUpTo(s, i, p)
       PROVE  \E j \in 1 .. n : StandsFor(s, p, new, j, i)
  <2>1. CASE i = p
    <3>1. n \in 1 .. n
      BY <1>4
    <3> QED
      BY <1>8, <2>1, <3>1
  <2>2. CASE i # p
    <3>1. OpenUpTo(s, i, m) /\ i \in 1 .. m
      BY <1>10, <2>2, WasOpen DEF OpenUpTo
    <3>2. PICK j \in 1 .. l : StandsFor(s, m, stack, j, i)
      BY <1>5, <3>1 DEF StackOfBlocks
    <3>3. j \in 1 .. n
      BY <1>4
    <3> QED
      BY <1>7, <3>2, <3>3
  <2> QED
    BY <2>1, <2>2
<1>11. StackOfBlocks(s, p, new)
  BY <1>5, <1>9, <1>10 DEF StackOfBlocks
<1> QED
  BY <1>11 DEF new

\* What else, endif and endwhile find on top of the stack.
LEMMA TopFacts ==
  ASSUME NEW s \in Seq(Statement), NEW m \in Nat, NEW p \in Nat, p = m + 1, p <= Len(s),
         NEW stack, NEW n \in Nat, Len(stack) = n, n # 0, StackOfBlocks(s, m, stack)
  PROVE  \E i \in 1 .. m :
           /\ StandsFor(s, m, stack, n, i) /\ OpenUpTo(s, i, m) /\ s[i].op \in Openers
           /\ Count(s, Openers, i, m) = Count(s, Closers, i, m) + 1
           /\ TypeFits(s, m, stack[n].type, i)
           /\ s[p].op \in Closers => EndOf(s, i) = p
           /\ s[p].op = "else" => Belongs(s, p, i) /\ \A k : Belongs(s, p, k) => k = i
<1>1. m <= Len(s) /\ n \in 1 .. n
  BY LinesOf
<1>2. PICK i \in 1 .. m : StandsFor(s, m, stack, n, i)
  BY <1>1 DEF StackOfBlocks
<1>3. OpenUpTo(s, i, m) /\ TypeFits(s, m, stack[n].type, i) /\ s[i].op \in Openers
      /\ Count(s, Openers, i, m) + n = Count(s, Closers, i, m) + n + 1
  BY <1>2 DEF StandsFor, AtHeight, OpenUpTo
<1>4. Count(s, Openers, i, m) \in Nat /\ Count(s, Closers, i, m) \in Nat
  BY <1>1, <1>3, OpenFacts
<1>5. Count(s, Openers, i, m) = Count(s, Closers, i, m) + 1
  BY <1>3, <1>4
<1>6. s[p].op \in Closers => EndOf(s, i) = p
  BY <1>3, <1>5, OneLine
<1>7. s[p].op = "else" => Belongs(s, p, i) /\ \A k : Belongs(s, p, k) => k = i
  BY <1>3, <1>5, BelongsTop
<1> QED
  BY <1>2, <1>3, <1>5, <1>6, <1>7

\* endif and endwhile: the top entry goes.
LEMMA StackPopped ==
  ASSUME NEW s \in Seq(Statement), NEW m \in Nat, NEW p \in Nat, p = m + 1, p <= Len(s),
         NEW stack, NEW l \in Nat, Len(stack) = l, l # 0, StackOfBlocks(s, m, stack),
         s[p].op \in Closers,
         NEW new, NEW n \in Nat, Len(new) = n, l = n + 1,
         \A j \in 1 .. n : new[j] = stack[j]
  PROVE  StackOfBlocks(s, p, new)
<1>1. m <= Len(s) /\ m <= p
  BY LinesOf
<1>2. s[p].op \notin Openers /\ s[p].op # "else"
  BY DEF Openers, Closers
<1>3. n + (IF s[p].op \in Closers THEN 1 ELSE 0) = l + (IF s[p].op \in Openers THEN 1 ELSE 0)
  BY <1>2
<1>4. ASSUME NEW j \in 1 .. l, NEW i, StandsFor(s, m, stack, j, i)
      PROVE  /\ OpenUpTo(s, i, p) => j # l
             /\ j # l => StandsFor(s, p, new, j, i)
  <2>1. AtHeight(s, m, stack, j, i) /\ OpenUpTo(s, i, m) /\ TypeFits(s, m, stack[j].type, i)
        /\ Count(s, Openers, i, m) + j = Count(s, Closers, i, m) + l + 1
    BY <1>4 DEF StandsFor, AtHeight
  <2>2. Count(s, Openers, i, m) \in Nat /\ Count(s, Closers, i, m) \in Nat
    BY <1>1, <2>1, OpenFacts
  <2>3. Count(s, Openers, i, m) = Count(s, Closers, i, m) + 1 <=> j = l
    BY <2>1, <2>2
  <2>4. OpenUpTo(s, i, p) <=> j # l
    BY <2>1, <2>3, OneLine
  <2>5. ASSUME j # l PROVE StandsFor(s, p, new, j, i)
    <3>1. OpenUpTo(s, i, p) /\ j \in 1 .. n
      BY <2>4, <2>5
    <3>2. AtHeight(s, p, new, j, i)
      BY <1>3, <2>1, <3>1, HeightKept
    <3>3. \A e \in (m + 1) .. p : ~ Belongs(s, e, i)
      BY <1>2 DEF Belongs
    <3>4. TypeFits(s, p, stack[j].type, i)
      BY <1>1, <2>1, <3>3, FitKept
    <3> QED
      BY <3>1, <3>2, <3>4 DEF StandsFor
  <2> QED
    BY <2>4, <2>5
<1>5. ASSUME NEW j \in 1 .. n PROVE \E i \in 1 .. p : StandsFor(s, p, new, j, i)
  <2>1. j \in 1 .. l /\ j # l /\ \A i \in 1 .. m : i \in 1 .. p
    OBVIOUS
  <2>2. PICK i \in 1 .. m : StandsFor(s, m, stack, j, i)
    BY <2>1 DEF StackOfBlocks
  <2> QED
    BY <1>4, <2>1, <2>2
<1>6. ASSUME NEW i \in 1 .. p, OpenUpTo(s, i, p)
      PROVE  \E j \in 1 .. n : StandsFor(s, p, new, j, i)
  <2>1. i # p
    BY <1>2, <1>6 DEF OpenUpTo
  <2>2. OpenUpTo(s, i, m) /\ i \in 1 .. m
    BY <1>6, <2>1, WasOpen DEF OpenUpTo
  <2>3. PICK j \in 1 .. l : StandsFor(s, m, stack, j, i)
    BY <2>2 DEF StackOfBlocks
  <2>4. j # l /\ StandsFor(s, p, new, j, i)
    BY <1>4, <1>6, <2>3
  <2>5. j \in 1 .. n
    BY <2>4
  <2> QED
    BY <2>4, <2>5
<1> QED
  BY <1>5, <1>6 DEF StackOfBlocks

\* else: the top entry is replaced.
LEMMA StackReplaced ==
  ASSUME NEW s \in Seq(Statement), NEW m \in Nat, NEW p \in Nat, p = m + 1, p <= Len(s),
         NEW stack, NEW n \in Nat, Len(stack) = n, n # 0, StackOfBlocks(s, m, stack),
         s[p].op = "else", stack[n].type = "then",
         NEW new, Len(new) = n, new[n].type = "else",
         \A j \in 1 .. n : j # n => new[j] = stack[j]
  PROVE  StackOfBlocks(s, p, new)
<1>1. m <= Len(s) /\ m <= p
  BY LinesOf
<1>2. s[p].op \notin Openers /\ s[p].op \notin Closers
  BY DEF Openers, Closers
<1>3. n + (IF s[p].op \in Closers THEN 1 ELSE 0) = n + (IF s[p].op \in Openers THEN 1 ELSE 0)
  BY <1>2
<1>4. PICK t \in 1 .. m : /\ Count(s, Openers, t, m) = Count(s, Closers, t, m) + 1
                          /\ Belongs(s, p, t) /\ \A k : Belongs(s, p, k) => k = t
  BY TopFacts
<1>5. ASSUME NEW j \in 1 .. n, NEW i, StandsFor(s, m, stack, j, i)
      PROVE  StandsFor(s, p, new, j, i)
  <2>1. AtHeight(s, m, stack, j, i) /\ OpenUpTo(s, i, m) /\ TypeFits(s, m, stack[j].type, i)
        /\ Count(s, Openers, i, m) + j = Count(s, Closers, i, m) + n + 1
    BY <1>5 DEF StandsFor, AtHeight
  <2>2. Count(s, Openers, i, m) \in Nat /\ Count(s, Closers, i, m) \in Nat
    BY <1>1, <2>1, OpenFacts
  <2>3. OpenUpTo(s, i, p)
    BY <1>2, <2>1, OneLine
  <2>4. AtHeight(s, p, new, j, i)
    BY <1>3, <2>1, <2>3, HeightKept
  <2>5. CASE j # n
    <3>1. Count(s, Openers, i, m) # Count(s, Closers, i, m) + 1
      BY <2>1, <2>2, <2>5
    <3>2. i # t
      BY <1>4, <3>1
    <3>3. \A e \in (m + 1) .. p : ~ Belongs(s, e, i)
      <4>1. \A e \in (m + 1) .. p : e = p
        OBVIOUS
      <4> QED
        BY <1>4, <3>2, <4>1
    <3>4. TypeFits(s, p, stack[j].type, i)
      BY <1>1, <2>1, <3>3, FitKept
    <3> QED
      BY <2>4, <2>5, <3>4 DEF StandsFor
  <2>6. CASE j = n
    <3>1. OpenUpTo(s, i, m) /\ Count(s, Openers, i, m) = Count(s, Closers, i, m) + 1
      BY <2>1, <2>2, <2>6
    <3>2. Belongs(s, p, i) /\ p \in 1 .. p
      BY <3>1, BelongsTop
    <3>3. s[i].op # "while"
      BY <2>1, <2>6 DEF TypeFits
    <3>4. TypeFits(s, p, "else", i)
      BY <3>2, <3>3 DEF TypeFits
    <3> QED
      BY <2>4, <2>6, <3>4 DEF StandsFor
  <2> QED
    BY <2>5, <2>6
<1>6. ASSUME NEW j \in 1 .. n PROVE \E i \in 1 .. p : StandsFor(s, p, new, j, i)
  <2>1. \A i \in 1 .. m : i \in 1 .. p
    OBVIOUS
  <2>2. PICK i \in 1 .. m : StandsFor(s, m, stack, j, i)
    BY DEF StackOfBlocks
  <2> QED
    BY <1>5, <2>1, <2>2
<1>7. ASSUME NEW i \in 1 .. p, OpenUpTo(s, i, p)
      PROVE  \E j \in 1 .. n : StandsFor(s, p, new, j, i)
  <2>1. i # p
    BY <1>2, <1>7 DEF OpenUpTo
  <2>2. OpenUpTo(s, i, m) /\ i \in 1 .. m
    BY <1>7, <2>1, WasOpen DEF OpenUpTo
  <2>3. PICK j \in 1 .. n : StandsFor(s, m, stack, j, i)
    BY <2>2 DEF StackOfBlocks
  <2> QED
    BY <1>5, <2>3
<1> QED
  BY <1>6, <1>7 DEF StackOfBlocks

\* Lines that are no part of a block.
LEMMA StackOverGap ==
  ASSUME NEW s \in Seq(Statement), NEW m \in Nat, NEW p \in Nat, m <= p, p <= Len(s),
         \A k \in (m + 1) .. p : s[k].op \notin Blocks,
         NEW stack, StackOfBlocks(s, m, stack)
  PROVE  StackOfBlocks(s, p, stack)
<1>1. m <= Len(s) /\ Len(s) \in Nat
  BY LinesOf
<1>2. \A k \in (m + 1) .. p : s[k].op \notin Openers /\ s[k].op \notin Closers /\ s[k].op # "else"
  BY DEF Blocks, Openers, Closers
<1>3. ASSUME NEW i, OpenUpTo(s, i, m)
      PROVE  /\ OpenUpTo(s, i, p)
             /\ Count(s, Openers, i, p) = Count(s, Openers, i, m)
             /\ Count(s, Closers, i, p) = Count(s, Closers, i, m)
  <2>1. i \in Nat /\ i \in DOMAIN s /\ s[i].op \in Openers /\ i \in 1 .. p
        /\ EndOf(s, i) \notin 1 .. m
    BY <1>1, <1>3, OpenFacts DEF OpenUpTo
  <2>2. EndOf(s, i) = 0 \/ s[EndOf(s, i)].op \in Closers
    BY <2>1, EndOfFacts DEF IsEnd
  <2>3. EndOf(s, i) \notin (m + 1) .. p
    BY <1>2, <2>2
  <2>4. \A q \in 1 .. p : q \in 1 .. m \/ q \in (m + 1) .. p
    OBVIOUS
  <2>5. OpenUpTo(s, i, p)
    BY <2>1, <2>3, <2>4 DEF OpenUpTo
  <2> QED
    BY <1>2, <2>1, <2>5, CountGap
<1>4. ASSUME NEW i, OpenUpTo(s, i, p) PROVE OpenUpTo(s, i, m)
  <2>1. i \notin (m + 1) .. p
    BY <1>2, <1>4 DEF OpenUpTo
  <2> QED
    BY <1>4, <2>1 DEF OpenUpTo
<1>5. ASSUME NEW j, NEW i, StandsFor(s, m, stack, j, i)
      PROVE  StandsFor(s, p, stack, j, i)
  <2>1. OpenUpTo(s, i, m) /\ TypeFits(s, m, stack[j].type, i)
    BY <1>5 DEF StandsFor, AtHeight
  <2>2. AtHeight(s, p, stack, j, i)
    BY <1>3, <1>5, <2>1 DEF StandsFor, AtHeight
  <2>3. \A e \in (m + 1) .. p : ~ Belongs(s, e, i)
    BY <1>2 DEF Belongs
  <2>4. TypeFits(s, p, stack[j].type, i)
    BY <2>1, <2>3, FitKept
  <2> QED
    BY <2>2, <2>4 DEF StandsFor
<1>6. \A i \in 1 .. m : i \in 1 .. p
  OBVIOUS
<1>7. \A j \in 1 .. Len(stack) : \E i \in 1 .. p : StandsFor(s, p, stack, j, i)
  BY <1>5, <1>6 DEF StackOfBlocks
<1>8. \A i \in 1 .. p : OpenUpTo(s, i, p) =>
        \E j \in 1 .. Len(stack) : StandsFor(s, p, stack, j, i)
  <2> TAKE i \in 1 .. p
  <2> HAVE OpenUpTo(s, i, p)
  <2>1. OpenUpTo(s, i, m) /\ i \in 1 .. m
    BY <1>4 DEF OpenUpTo
  <2> QED
    BY <1>5, <2>1 DEF StackOfBlocks
<1> QED
  BY <1>7, <1>8 DEF StackOfBlocks

\* Bodies have no part in blocks.
LEMMA EndedOverGap ==
  ASSUME NEW s \in Seq(Statement), NEW m \in Nat, NEW p \in Nat, m <= p, p <= Len(s),
         \A k \in (m + 1) .. p : s[k].op \notin Blocks,
         EndedBlocks(s, m)
  PROVE  EndedBlocks(s, p)
<1>1. \A k \in (m + 1) .. p : s[k].op \notin Openers /\ s[k].op \notin Closers /\ s[k].op # "else"
  BY DEF Blocks, Openers, Closers
<1>2. \A k \in 1 .. p : k \in 1 .. m \/ k \in (m + 1) .. p
  OBVIOUS
<1>3. ASSUME NEW i \in 1 .. p, s[i].op \in Openers, EndOf(s, i) \in 1 .. p
      PROVE  s[EndOf(s, i)].op = CloserOf(s[i].op)
  <2>1. i \in 1 .. m /\ i \in DOMAIN s
    BY <1>1, <1>2, <1>3, LinesOf
  <2>2. EndOf(s, i) = 0 \/ s[EndOf(s, i)].op \in Closers
    BY <1>3, <2>1, EndOfFacts DEF IsEnd
  <2>3. EndOf(s, i) \in 1 .. m
    BY <1>1, <1>2, <1>3, <2>2
  <2> QED
    BY <1>3, <2>1, <2>3 DEF EndedBlocks
<1>4. \A q \in 1 .. p : s[q].op \in Closers =>
        \E i \in 1 .. q : s[i].op \in Openers /\ EndOf(s, i) = q
  BY <1>1, <1>2 DEF EndedBlocks
<1>5. \A e \in 1 .. p : s[e].op = "else" => e \in 1 .. m
  BY <1>1, <1>2
<1>6. \A e \in 1 .. p : s[e].op = "else" =>
        \E i \in 1 .. e : Belongs(s, e, i) /\ s[i].op = "if"
  BY <1>5 DEF EndedBlocks
<1>7. ASSUME NEW e \in 1 .. p, NEW f \in 1 .. p, NEW i \in 1 .. p,
             Belongs(s, e, i), Belongs(s, f, i)
      PROVE  e = f
  <2>1. e \in 1 .. m /\ f \in 1 .. m /\ s[i].op \in Openers
    BY <1>5, <1>7 DEF Belongs, OpenUpTo
  <2>2. i \in 1 .. m
    BY <1>1, <1>2, <2>1
  <2> QED
    BY <1>7, <2>1, <2>2 DEF EndedBlocks
<1> QED
  BY <1>3, <1>4, <1>6, <1>7 DEF EndedBlocks

\* A line that begins or ends a block or is an else.
LEMMA EndedNext ==
  ASSUME NEW s \in Seq(Statement), NEW m \in Nat, NEW p \in Nat, p = m + 1, p <= Len(s),
         EndedBlocks(s, m),
         s[p].op \in Closers =>
           \E i \in 1 .. m : /\ s[i].op \in Openers /\ EndOf(s, i) = p
                             /\ s[p].op = CloserOf(s[i].op),
         s[p].op = "else" =>
           \E i \in 1 .. m : /\ Belongs(s, p, i) /\ s[i].op = "if"
                             /\ \A k : Belongs(s, p, k) => k = i
                             /\ \A e \in 1 .. m : ~ Belongs(s, e, i)
  PROVE  EndedBlocks(s, p)
<1>1. \A k \in 1 .. p : k \in 1 .. m \/ k = p
  OBVIOUS
<1>2. p \in DOMAIN s /\ p # 0 /\ p \in 1 .. p /\ \A k \in 1 .. m : k \in 1 .. p /\ k \in DOMAIN s
  BY LinesOf
<1>3. ASSUME NEW i \in 1 .. p, s[i].op \in Openers, EndOf(s, i) \in 1 .. p
      PROVE  s[EndOf(s, i)].op = CloserOf(s[i].op)
  <2>1. i \in DOMAIN s /\ i \in Nat
    BY <1>1, <1>2
  <2>2. EndOf(s, i) = 0 \/ (EndOf(s, i) \in (i + 1) .. Len(s) /\ s[EndOf(s, i)].op \in Closers)
    BY <1>3, <2>1, EndOfFacts DEF IsEnd
  <2>3. i \in 1 .. m
    BY <1>1, <1>3, <2>2
  <2>4. CASE EndOf(s, i) \in 1 .. m
    BY <1>3, <2>3, <2>4 DEF EndedBlocks
  <2>5. CASE EndOf(s, i) = p
    <3>1. PICK k \in 1 .. m : /\ s[k].op \in Openers /\ EndOf(s, k) = p
                              /\ s[p].op = CloserOf(s[k].op)
      BY <1>2, <2>2, <2>5
    <3>2. k \in DOMAIN s
      BY <1>2
    <3>3. k = i
      BY <1>2, <1>3, <2>1, <2>5, <3>1, <3>2, EndsOne
    <3> QED
      BY <2>5, <3>1, <3>3
  <2> QED
    BY <1>1, <1>3, <2>4, <2>5
<1>4. \A q \in 1 .. p : s[q].op \in Closers =>
        \E i \in 1 .. q : s[i].op \in Openers /\ EndOf(s, i) = q
  BY <1>1, <1>2 DEF EndedBlocks
<1>5. \A e \in 1 .. p : s[e].op = "else" =>
        \E i \in 1 .. e : Belongs(s, e, i) /\ s[i].op = "if"
  BY <1>1, <1>2 DEF EndedBlocks
<1>6. ASSUME NEW e \in 1 .. p, NEW f \in 1 .. p, NEW i \in 1 .. p,
             Belongs(s, e, i), Belongs(s, f, i)
      PROVE  e = f
  <2>1. s[e].op = "else" /\ s[f].op = "else" /\ i \in 1 .. e /\ i \in 1 .. f
        /\ s[i].op \in Openers
    BY <1>6 DEF Belongs, OpenUpTo
  <2>2. i # e /\ i # f
    BY <2>1 DEF Openers
  <2>3. i \in 1 .. m
    BY <1>1, <2>1, <2>2
  <2>4. CASE e \in 1 .. m /\ f \in 1 .. m
    BY <1>6, <2>3, <2>4 DEF EndedBlocks
  <2>5. e = p /\ f \in 1 .. m => FALSE
    BY <1>6, <2>1
  <2>6. f = p /\ e \in 1 .. m => FALSE
    BY <1>6, <2>1
  <2> QED
    BY <1>1, <2>4, <2>5, <2>6
<1> QED
  BY <1>3, <1>4, <1>5, <1>6 DEF EndedBlocks

------------------------------------------------------------------------------
(* What the stack says of the whole script *)

\* Every block is ended.
AllEnd(s) == \A i \in DOMAIN s : s[i].op \in Openers => EndOf(s, i) # 0

\* In a script whose blocks all end, an else belongs to the innermost block around it.
LEMMA BelongsAround ==
  ASSUME NEW s \in Seq(Statement), AllEnd(s), NEW e \in DOMAIN s, s[e].op = "else",
         NEW i, Belongs(s, e, i)
  PROVE  /\ i \in DOMAIN s /\ s[i].op \in Openers /\ i \in Around(s, e)
         /\ Innermost(Around(s, e)) = i
         /\ e \in ElsesOf(s, i)
<1>1. /\ OpenUpTo(s, i, e) /\ \A j \in (i + 1) .. e : ~ OpenUpTo(s, j, e)
      /\ e \in Nat /\ e <= Len(s) /\ Len(s) \in Nat
  BY LinesOf DEF Belongs
<1>2. /\ i \in Nat /\ i \in DOMAIN s /\ 1 <= i /\ i <= e /\ s[i].op \in Openers
      /\ EndOf(s, i) \in Nat /\ (EndOf(s, i) # 0 => EndOf(s, i) > e)
  BY <1>1, OpenFacts
<1>3. i # e
  BY <1>2 DEF Openers
<1>4. EndOf(s, i) > e /\ i \in 1 .. (e - 1)
  BY <1>1, <1>2, <1>3 DEF AllEnd
<1>5. i \in Around(s, e)
  BY <1>2, <1>4 DEF Around
<1>6. /\ Around(s, e) \subseteq Nat
      /\ \A j \in Around(s, e) : s[j].op \in Openers /\ j \in Nat /\ 1 <= j /\ j < e
                                 /\ EndOf(s, j) > e /\ EndOf(s, j) \in Nat
  BY <1>1, AroundFacts
<1>7. ASSUME NEW j \in Around(s, e) PROVE j <= i
  <2>1. s[j].op \in Openers /\ j \in 1 .. e /\ EndOf(s, j) \notin 1 .. e
    BY <1>1, <1>6
  <2>2. OpenUpTo(s, j, e)
    BY <2>1 DEF OpenUpTo
  <2>3. j \notin (i + 1) .. e
    BY <1>1, <2>2
  <2> QED
    BY <1>1, <1>2, <2>1, <2>3
<1>8. Innermost(Around(s, e)) = i
  BY <1>5, <1>6, <1>7, InnermostIs
<1>9. e \in (i + 1) .. EndOf(s, i)
  BY <1>1, <1>2, <1>3, <1>4
<1> QED
  BY <1>2, <1>5, <1>8, <1>9 DEF ElsesOf

\* An else of a block belongs to it.
LEMMA ElsesBelong ==
  ASSUME NEW s \in Seq(Statement), AllEnd(s), NEW i \in DOMAIN s, s[i].op \in Openers,
         NEW e \in ElsesOf(s, i)
  PROVE  e \in DOMAIN s /\ s[e].op = "else" /\ Belongs(s, e, i)
<1>1. /\ Len(s) \in Nat /\ i \in Nat /\ 1 <= i /\ EndOf(s, i) \in (i + 1) .. Len(s)
      /\ s[EndOf(s, i)].op \in Closers
  BY EndOfFacts, LinesOf DEF AllEnd, IsEnd
<1>2. e \in (i + 1) .. EndOf(s, i) /\ s[e].op = "else" /\ Innermost(Around(s, e)) = i
  BY DEF ElsesOf
<1>3. e # EndOf(s, i)
  BY <1>1, <1>2 DEF Closers
<1>4. e \in Nat /\ i < e /\ e < EndOf(s, i) /\ e \in DOMAIN s /\ i \in 1 .. (e - 1)
  BY <1>1, <1>2, <1>3, LinesOf
<1>5. i \in Around(s, e) /\ Around(s, e) \subseteq 1 .. e
  BY <1>4, AroundFacts DEF Around
<1>6. \A j \in Around(s, e) : j <= i
  BY <1>2, <1>4, <1>5, HasInnermost
<1>7. OpenUpTo(s, i, e)
  BY <1>1, <1>4 DEF OpenUpTo
<1>8. ASSUME NEW j \in (i + 1) .. e, OpenUpTo(s, j, e) PROVE FALSE
  <2>1. e <= Len(s)
    BY <1>1, <1>4
  <2>2. /\ j \in Nat /\ j \in DOMAIN s /\ 1 <= j /\ j <= e /\ s[j].op \in Openers
        /\ EndOf(s, j) \in Nat /\ (EndOf(s, j) # 0 => EndOf(s, j) > e)
    BY <1>4, <1>8, <2>1, OpenFacts
  <2>3. j # e
    BY <1>2, <2>2 DEF Openers
  <2>4. j \in 1 .. (e - 1) /\ EndOf(s, j) > e
    BY <1>4, <2>2, <2>3 DEF AllEnd
  <2>5. j \in Around(s, e)
    BY <2>2, <2>4 DEF Around
  <2> QED
    BY <1>1, <1>6, <1>8, <2>2, <2>5
<1> QED
  BY <1>2, <1>4, <1>7, <1>8 DEF Belongs

\* A script whose test pass ends with an empty stack has the blocks right.
LEMMA StackAccepts ==
  ASSUME NEW s \in Seq(Statement), StackOfBlocks(s, Len(s), <<>>), EndedBlocks(s, Len(s))
  PROVE  BlocksWellFormed(s)
<1>1. Len(s) \in Nat /\ DOMAIN s = 1 .. Len(s) /\ Len(<<>>) = 0
  BY LinesOf
<1>2. \A i \in DOMAIN s : ~ OpenUpTo(s, i, Len(s))
  BY <1>1 DEF StackOfBlocks
<1>3. \A i \in DOMAIN s : s[i].op \in Openers => EndOf(s, i) \in 1 .. Len(s)
  BY <1>1, <1>2 DEF OpenUpTo
<1>4. AllEnd(s)
  BY <1>1, <1>3 DEF AllEnd
<1>5. ASSUME NEW i \in DOMAIN s, s[i].op \in Openers
      PROVE  /\ EndOf(s, i) # 0
             /\ s[EndOf(s, i)].op = IF s[i].op = "if" THEN "endif" ELSE "endwhile"
             /\ Cardinality(ElsesOf(s, i)) <= (IF s[i].op = "if" THEN 1 ELSE 0)
  <2>1. EndOf(s, i) # 0
    BY <1>4, <1>5 DEF AllEnd
  <2>2. s[EndOf(s, i)].op = IF s[i].op = "if" THEN "endif" ELSE "endwhile"
    BY <1>1, <1>3, <1>5 DEF EndedBlocks, CloserOf
  <2>3. ASSUME NEW e \in ElsesOf(s, i) PROVE s[i].op = "if"
    <3>1. e \in DOMAIN s /\ s[e].op = "else" /\ Belongs(s, e, i)
      BY <1>4, <1>5, <2>3, ElsesBelong
    <3>2. PICK k \in 1 .. e : Belongs(s, e, k) /\ s[k].op = "if"
      BY <1>1, <3>1 DEF EndedBlocks
    <3>3. Innermost(Around(s, e)) = i
      BY <1>4, <3>1, BelongsAround
    <3>4. Innermost(Around(s, e)) = k
      BY <1>4, <3>1, <3>2, BelongsAround
    <3> QED
      BY <3>2, <3>3, <3>4
  <2>4. ASSUME NEW e \in ElsesOf(s, i), NEW f \in ElsesOf(s, i) PROVE e = f
    <3>1. e \in DOMAIN s /\ Belongs(s, e, i)
      BY <1>4, <1>5, ElsesBelong
    <3>2. f \in DOMAIN s /\ Belongs(s, f, i)
      BY <1>4, <1>5, ElsesBelong
    <3> QED
      BY <1>1, <1>5, <3>1, <3>2 DEF EndedBlocks
  <2>5. CASE ElsesOf(s, i) = {}
    <3>1. Cardinality(ElsesOf(s, i)) = 0
      BY <2>5, FS_EmptySet
    <3> QED
      BY <2>1, <2>2, <3>1
  <2>6. CASE ElsesOf(s, i) # {}
    <3>1. PICK e \in ElsesOf(s, i) : TRUE
      BY <2>6
    <3>2. ElsesOf(s, i) = {e}
      BY <2>4, <3>1
    <3>3. Cardinality(ElsesOf(s, i)) = 1
      BY <3>2, FS_Singleton
    <3> QED
      BY <2>1, <2>2, <2>3, <3>1, <3>3
  <2> QED
    BY <2>5, <2>6
<1>6. \A q \in DOMAIN s : s[q].op \in Closers =>
        \E i \in 1 .. q : s[i].op \in Openers /\ EndOf(s, i) = q
  BY <1>1 DEF EndedBlocks
<1>7. \A e \in DOMAIN s : s[e].op = "else" => Around(s, e) # {}
  BY <1>1, <1>4, BelongsAround DEF EndedBlocks
<1> QED
  BY <1>5, <1>6, <1>7 DEF BlocksWellFormed

\* A block that is open at the end of the script.
LEMMA StackRejects ==
  ASSUME NEW s \in Seq(Statement), NEW n \in Nat, n # 0,
         NEW stack, Len(stack) = n, StackOfBlocks(s, Len(s), stack)
  PROVE  ~ BlocksWellFormed(s)
<1>1. PICK i \in 1 .. Len(s) : StandsFor(s, Len(s), stack, n, i)
  <2>1. n \in 1 .. n
    OBVIOUS
  <2> QED
    BY <2>1 DEF StackOfBlocks
<1>2. i \in DOMAIN s /\ s[i].op \in Openers /\ EndOf(s, i) \notin 1 .. Len(s)
  BY <1>1, LinesOf DEF StandsFor, AtHeight, OpenUpTo
<1> SUFFICES ASSUME BlocksWellFormed(s) PROVE FALSE
  OBVIOUS
<1>3. EndOf(s, i) \in DOMAIN s
  BY <1>2, BlockFacts
<1> QED
  BY <1>2, <1>3, LinesOf

\* An else or an end that does not fit the top of the stack.
LEMMA TopRejects ==
  ASSUME NEW s \in Seq(Statement), NEW m \in Nat, NEW p \in Nat, p = m + 1, p <= Len(s),
         NEW stack, NEW n \in Nat, Len(stack) = n, n # 0, StackOfBlocks(s, m, stack),
         s[p].op \in Closers \cup {"else"}, stack[n].type \notin Expected(s[p].op)
  PROVE  ~ BlocksWellFormed(s)
<1> SUFFICES ASSUME BlocksWellFormed(s) PROVE FALSE
  OBVIOUS
<1>1. PICK i \in 1 .. m :
        /\ s[i].op \in Openers
        /\ TypeFits(s, m, stack[n].type, i)
        /\ s[p].op \in Closers => EndOf(s, i) = p
        /\ s[p].op = "else" => Belongs(s, p, i) /\ \A k : Belongs(s, p, k) => k = i
  BY TopFacts
<1>2. i \in DOMAIN s /\ p \in DOMAIN s /\ AllEnd(s) /\ Len(s) \in Nat
  BY LinesOf, BlockFacts DEF AllEnd
<1>3. s[i].op = "if" \/ s[i].op = "while"
  BY <1>1 DEF Openers
<1>4. CASE s[p].op \in Closers
  <2>1. s[p].op = CloserOf(s[i].op)
    BY <1>1, <1>2, <1>4, BlockFacts
  <2> QED
    BY <1>1, <1>3, <2>1 DEF CloserOf, TypeFits, Expected
<1>5. CASE s[p].op = "else"
  <2>1. PICK k \in Around(s, p) : /\ Innermost(Around(s, p)) = k /\ s[k].op = "if"
                                  /\ ElsesOf(s, k) = {p}
    BY <1>2, <1>5, ElseBelongs
  <2>2. k = i
    BY <1>1, <1>2, <1>5, <2>1, BelongsAround
  <2>3. stack[n].type = "else"
    BY <1>1, <1>5, <2>1, <2>2 DEF TypeFits, Expected
  <2>4. PICK e \in 1 .. m : Belongs(s, e, i)
    BY <1>1, <2>3 DEF TypeFits
  <2>5. e \in DOMAIN s /\ s[e].op = "else" /\ e # p
    BY <1>2, <2>4, LinesOf DEF Belongs
  <2>6. e \in ElsesOf(s, i)
    BY <1>2, <2>4, <2>5, BelongsAround
  <2> QED
    BY <2>1, <2>2, <2>5, <2>6
<1> QED
  BY <1>4, <1>5

------------------------------------------------------------------------------
(* The statements among the first m lines of a script s *)

Tested(s, m) == {k \in Statements(s) : k <= m}

InnerScripts(s, m) == {k \in Tested(s, m) : s[k].op = "script"}

\* The test pass has found nothing to report, and knows the inner scripts.
Passes(s, k) ==
  /\ s[k].op \notin {"bad", "marker"}
  /\ s[k].op \in {"here", "script"} => BodyEnd(s, k) # 0
  /\ s[k].op \in Leaves => LeaveEnds(s, k + 1, s[k].arg) # {}

FineStatements(s, m, names) ==
  /\ \A k \in Tested(s, m) : Passes(s, k)
  /\ names = {s[k].arg : k \in InnerScripts(s, m)}
  /\ \A h, k \in InnerScripts(s, m) : s[h].arg = s[k].arg => h = k

\* What follows the first m lines is a statement.
AtStatement(s, m) == m < Len(s) => m + 1 \in Statements(s)

\* The last line of a statement.
LastLine(s, k) == IF BodyEnd(s, k) # 0 THEN BodyEnd(s, k) ELSE k

\* One statement more.
LEMMA TestedNext ==
  ASSUME NEW s \in Seq(Statement), BodiesPlain(s), NEW m \in Nat, NEW p \in Statements(s),
         p = m + 1, s[p].op \in {"here", "script"} => BodyEnd(s, p) # 0
  PROVE  /\ LastLine(s, p) \in p .. Len(s) /\ LastLine(s, p) \in Nat
         /\ AtStatement(s, LastLine(s, p))
         /\ Tested(s, LastLine(s, p)) = Tested(s, m) \cup {p}
         /\ p \notin Tested(s, m)
         /\ \A k \in (p + 1) .. LastLine(s, p) : s[k].op \notin Blocks
<1>1. Len(s) \in Nat /\ DOMAIN s = 1 .. Len(s) /\ p \in DOMAIN s /\ p \in Nat /\ p <= Len(s)
  BY LinesOf DEF Statements
<1>2. BodyEnd(s, p) # 0 => BodyEnd(s, p) \in (p + 1) .. Len(s)
  BY <1>1, BodyEndFacts
<1>3. LastLine(s, p) \in p .. Len(s) /\ LastLine(s, p) \in Nat
  BY <1>1, <1>2 DEF LastLine
<1>4. \A k \in (p + 1) .. LastLine(s, p) :
        BodyEnd(s, p) # 0 /\ k \in Nat /\ p < k /\ k <= BodyEnd(s, p)
  BY <1>1, <1>2 DEF LastLine
<1>5. \A k \in (p + 1) .. LastLine(s, p) : s[k].op \notin Blocks
  <2>1. \A k \in (p + 1) .. LastLine(s, p) : s[k].op \in {"plain", "marker", "endscript"}
    BY <1>1, <1>4, BodyLines
  <2> QED
    BY <2>1 DEF Blocks
<1>6. \A k \in (p + 1) .. LastLine(s, p) : k \notin Statements(s)
  BY <1>1, <1>4, StatementIff DEF Statements
<1>7. p \notin Tested(s, m)
  BY <1>1 DEF Tested
<1>8. Tested(s, LastLine(s, p)) = Tested(s, m) \cup {p}
  <2>1. ASSUME NEW k \in Statements(s), k <= LastLine(s, p) PROVE k <= m \/ k = p
    <3>1. k \in Nat /\ k \notin (p + 1) .. LastLine(s, p)
      BY <1>1, <1>6, <2>1 DEF Statements
    <3> QED
      BY <1>3, <2>1, <3>1
  <2>2. \A k \in Statements(s) : k <= m => k <= LastLine(s, p)
    BY <1>1, <1>3 DEF Statements
  <2>3. p <= LastLine(s, p)
    BY <1>1, <1>3
  <2> QED
    BY <2>1, <2>2, <2>3 DEF Tested
<1>9. AtStatement(s, LastLine(s, p))
  <2>1. CASE BodyEnd(s, p) # 0
    BY <2>1, StatementAfter DEF AtStatement, LastLine
  <2>2. CASE BodyEnd(s, p) = 0
    BY <2>2, StatementNext DEF AtStatement, LastLine
  <2> QED
    BY <2>1, <2>2
<1> QED
  BY <1>3, <1>5, <1>7, <1>8, <1>9

\* A statement that passes the test is one more fine statement.
LEMMA FineNext ==
  ASSUME NEW s \in Seq(Statement), BodiesPlain(s), NEW m \in Nat, NEW p \in Statements(s),
         p = m + 1, Passes(s, p), NEW names, FineStatements(s, m, names),
         NEW new, new = IF s[p].op = "script" THEN names \cup {s[p].arg} ELSE names,
         s[p].op = "script" => s[p].arg \notin names
  PROVE  FineStatements(s, LastLine(s, p), new)
<1> DEFINE e == LastLine(s, p)
<1>1. Tested(s, e) = Tested(s, m) \cup {p}
  BY TestedNext DEF Passes
<1> HIDE DEF e
<1>2. \A k \in Tested(s, e) : Passes(s, k)
  BY <1>1 DEF FineStatements
<1>3. CASE s[p].op = "script"
  <2>1. InnerScripts(s, e) = InnerScripts(s, m) \cup {p}
    BY <1>1, <1>3 DEF InnerScripts
  <2>2. new = {s[k].arg : k \in InnerScripts(s, e)}
    BY <1>3, <2>1 DEF FineStatements
  <2>3. \A h \in InnerScripts(s, m) : s[h].arg # s[p].arg
    BY <1>3 DEF FineStatements
  <2>4. \A h, k \in InnerScripts(s, e) : s[h].arg = s[k].arg => h = k
    BY <2>1, <2>3 DEF FineStatements
  <2> QED
    BY <1>2, <2>2, <2>4 DEF FineStatements, e
<1>4. CASE s[p].op # "script"
  <2>1. InnerScripts(s, e) = InnerScripts(s, m)
    BY <1>1, <1>4 DEF InnerScripts
  <2> QED
    BY <1>2, <1>4, <2>1 DEF FineStatements, e
<1> QED
  BY <1>3, <1>4

\* A script whose test pass reports no statement has the statements right.
LEMMA StatementsAccepted ==
  ASSUME NEW s \in Seq(Statement), LeavesSomething(s), LeaveBeforeBlocks(s),
         BlocksWellFormed(s), NEW names, FineStatements(s, Len(s), names)
  PROVE  StatementsWellFormed(s)
<1>1. Len(s) \in Nat /\ DOMAIN s = 1 .. Len(s)
  BY LinesOf
<1>2. \A k \in Statements(s) : k \in DOMAIN s /\ k \in Tested(s, Len(s))
  BY <1>1 DEF Tested, Statements
<1>3. ASSUME NEW k \in Statements(s), s[k].op \in {"leave", "leaveif"}
      PROVE  Cardinality(Around(s, k)) >= s[k].arg
  <2>1. k \in DOMAIN s /\ s[k] \in Statement
    BY <1>2
  <2>2. s[k].arg \in Nat /\ s[k].arg >= 1
    BY <1>3, <2>1 DEF Statement, LeavesSomething
  <2>3. s[k].op \notin Openers /\ s[k].op \notin Closers /\ s[k].op \in Leaves
    BY <1>3 DEF Openers, Closers, Leaves
  <2>4. LeaveEnds(s, k + 1, s[k].arg) # {}
    BY <1>2, <2>3 DEF FineStatements, Passes
  <2>5. \A q \in LeaveEnds(s, k + 1, s[k].arg) : Count(s, Openers, k + 1, q) = 0
    BY <1>3, <2>1 DEF LeaveBeforeBlocks
  <2>6. s[k].arg <= Cardinality(Around(s, k))
    BY <2>1, <2>2, <2>3, <2>4, <2>5, LeaveScan
  <2>7. Cardinality(Around(s, k)) \in Nat
    BY <2>1, AroundFacts, FS_CardinalityType
  <2> QED
    BY <2>2, <2>6, <2>7
<1>4. ASSUME NEW k \in Statements(s)
      PROVE  /\ s[k].op \notin {"bad", "marker"}
             /\ s[k].op \in {"here", "script"} => BodyEnd(s, k) # 0
             /\ s[k].op = "script" =>
                  \A h \in Statements(s) : s[h].op = "script" /\ s[h].arg = s[k].arg => h = k
  BY <1>2 DEF FineStatements, Passes, InnerScripts
<1> QED
  BY <1>3, <1>4 DEF StatementsWellFormed

\* A statement of a well formed script passes the test.
LEMMA StatementPasses ==
  ASSUME NEW s \in Seq(Statement), LeavesSomething(s), WellFormed(s), NEW k \in Statements(s)
  PROVE  Passes(s, k)
<1>1. k \in DOMAIN s /\ s[k] \in Statement
  BY DEF Statements
<1>2. BlocksWellFormed(s) /\ StatementsWellFormed(s)
  BY DEF WellFormed
<1>3. /\ s[k].op \notin {"bad", "marker"}
      /\ s[k].op \in {"here", "script"} => BodyEnd(s, k) # 0
      /\ s[k].op \in {"leave", "leaveif"} => Cardinality(Around(s, k)) >= s[k].arg
  BY <1>2 DEF StatementsWellFormed
<1>4. ASSUME s[k].op \in Leaves PROVE LeaveEnds(s, k + 1, s[k].arg) # {}
  <2>1. s[k].arg \in Nat /\ s[k].arg >= 1
    BY <1>1, <1>4 DEF Statement, LeavesSomething, Leaves
  <2>2. Cardinality(Around(s, k)) \in Nat
    BY <1>1, AroundFacts, FS_CardinalityType
  <2>3. s[k].arg <= Cardinality(Around(s, k))
    BY <1>3, <1>4, <2>1, <2>2 DEF Leaves
  <2> QED
    BY <1>1, <1>2, <2>1, <2>3, LeaveHasEnd
<1> QED
  BY <1>3, <1>4 DEF Passes

\* The same name for two inner scripts.
LEMMA NameRejects ==
  ASSUME NEW s \in Seq(Statement), NEW m \in Nat, NEW p \in Statements(s), p = m + 1,
         s[p].op = "script", NEW names, FineStatements(s, m, names), s[p].arg \in names
  PROVE  ~ StatementsWellFormed(s)
<1>1. PICK h \in InnerScripts(s, m) : s[h].arg = s[p].arg
  BY DEF FineStatements
<1>2. h \in Statements(s) /\ s[h].op = "script" /\ h # p
  BY <1>1, LinesOf DEF InnerScripts, Tested, Statements
<1> QED
  BY <1>1, <1>2 DEF StatementsWellFormed

------------------------------------------------------------------------------
(* What the test pass knows *)

CheckInv ==
  /\ AtStatement(lines, index)
  /\ StackOfBlocks(lines, index, openBlocks)
  /\ EndedBlocks(lines, index)
  /\ FineStatements(lines, index, known)

\* The first line of a script is a statement.
LEMMA FirstStatement ==
  ASSUME lines \in Seq(Statement)
  PROVE  AtStatement(lines, 0)
<1>1. ASSUME 0 < Len(lines) PROVE 1 \in Statements(lines)
  <2>1. 1 \in DOMAIN lines /\ \A h \in 1 .. (1 - 1) : FALSE
    BY <1>1, LinesOf
  <2> QED
    BY <2>1 DEF Statements
<1> QED
  BY <1>1 DEF AtStatement

\* The invariant of the test holds when it starts from the first line.
LEMMA CheckBegins ==
  ASSUME TypeOK, index = 0, openBlocks = <<>>, known = {}
  PROVE  CheckInv
<1>1. lines \in Seq(Statement) /\ DOMAIN lines = 1 .. Len(lines) /\ Len(lines) \in Nat
  BY TypeFacts
<1>2. \A k \in 1 .. 0 : FALSE
  OBVIOUS
<1>3. AtStatement(lines, 0)
  BY <1>1, FirstStatement
<1>4. StackOfBlocks(lines, 0, <<>>)
  BY <1>2 DEF StackOfBlocks
<1>5. EndedBlocks(lines, 0)
  BY <1>2 DEF EndedBlocks
<1>6. Tested(lines, 0) = {}
  <2>1. \A k \in Statements(lines) : k \in Nat /\ k >= 1
    BY <1>1 DEF Statements
  <2> QED
    BY <2>1 DEF Tested
<1>7. FineStatements(lines, 0, {})
  BY <1>6 DEF FineStatements, InnerScripts
<1> QED
  BY <1>3, <1>4, <1>5, <1>7 DEF CheckInv

\* Types at a handler.
LEMMA LineFacts ==
  ASSUME TypeOK, index < Len(lines)
  PROVE  /\ lines \in Seq(Statement) /\ Len(lines) \in Nat /\ index \in Nat /\ Line \in Nat
         /\ Line = index + 1 /\ Line <= Len(lines) /\ Line \in DOMAIN lines
         /\ Len(openBlocks) \in Nat /\ (openBlocks # <<>> => Len(openBlocks) # 0)
         /\ lines[index + 1] = lines[Line] /\ lines[Line].op \in Ops
         /\ AtStatement(lines, index) => Line \in Statements(lines)
<1>1. Len(openBlocks) \in Nat /\ (openBlocks # <<>> => Len(openBlocks) # 0)
  BY EmptySeq, LenProperties DEF TypeOK
<1>2. /\ lines \in Seq(Statement) /\ Len(lines) \in Nat /\ index \in Nat
      /\ Line \in DOMAIN lines /\ DOMAIN lines = 1 .. Len(lines)
  BY TypeFacts
<1>3. Line = index + 1 /\ Line \in Nat /\ Line <= Len(lines)
  BY <1>2 DEF Line
<1>4. lines[Line].op \in Ops
  <2>1. lines[Line] \in Statement
    BY <1>2, ElementOfSeq
  <2> QED
    BY <2>1 DEF Statement
<1> QED
  BY <1>1, <1>2, <1>3, <1>4 DEF AtStatement

\* Statements that are no part of a block.
LEMMA OtherKeeps ==
  ASSUME TypeOK, Sound(lines), CheckInv, index < Len(lines), lines[Line].op \notin Blocks,
         Passes(lines, Line), index' = LastLine(lines, Line), UNCHANGED <<lines, openBlocks>>,
         known' = IF lines[Line].op = "script" THEN known \cup {lines[Line].arg} ELSE known,
         lines[Line].op = "script" => lines[Line].arg \notin known
  PROVE  CheckInv'
<1>1. /\ lines \in Seq(Statement) /\ Len(lines) \in Nat /\ index \in Nat /\ Line \in Nat
      /\ Line = index + 1 /\ Line \in Statements(lines) /\ BodiesPlain(lines)
  BY LineFacts DEF Sound, CheckInv
<1>2. /\ LastLine(lines, Line) \in Line .. Len(lines) /\ LastLine(lines, Line) \in Nat
      /\ AtStatement(lines, LastLine(lines, Line))
      /\ \A k \in (Line + 1) .. LastLine(lines, Line) : lines[k].op \notin Blocks
  BY <1>1, TestedNext DEF Passes
<1>3. PICK e \in Nat : e = LastLine(lines, Line)
  BY <1>2
<1>4. e \in Line .. Len(lines) /\ \A k \in (Line + 1) .. e : lines[k].op \notin Blocks
  BY <1>2, <1>3
<1>5. index <= e /\ e <= Len(lines) /\ \A k \in (index + 1) .. e : k = Line \/ k \in (Line + 1) .. e
  BY <1>1, <1>4
<1>6. \A k \in (index + 1) .. e : lines[k].op \notin Blocks
  BY <1>4, <1>5
<1>7. StackOfBlocks(lines, e, openBlocks)
  BY <1>1, <1>5, <1>6, StackOverGap DEF CheckInv
<1>8. EndedBlocks(lines, e)
  BY <1>1, <1>5, <1>6, EndedOverGap DEF CheckInv
<1>9. FineStatements(lines, e, known')
  BY <1>1, <1>3, FineNext DEF CheckInv
<1> QED
  BY <1>2, <1>3, <1>7, <1>8, <1>9 DEF CheckInv

\* A statement of a block keeps the invariant of the test if the stack is that
\* of the blocks.
LEMMA BlockKeeps ==
  ASSUME TypeOK, Sound(lines), CheckInv, index < Len(lines), lines[Line].op \in Blocks,
         index' = Line, lines' = lines, known' = known,
         StackOfBlocks(lines, Line, openBlocks'), EndedBlocks(lines, Line)
  PROVE  CheckInv'
<1>1. /\ lines \in Seq(Statement) /\ Len(lines) \in Nat /\ index \in Nat /\ Line \in DOMAIN lines
      /\ Line = index + 1 /\ Line \in Statements(lines) /\ BodiesPlain(lines)
  BY LineFacts DEF Sound, CheckInv
<1>2. lines[Line].op \notin {"here", "script", "bad", "marker"} \cup Leaves
  BY DEF Blocks, Leaves
<1>3. Passes(lines, Line)
  BY <1>2 DEF Passes
<1>4. LastLine(lines, Line) = Line
  BY <1>1, <1>2, BodyEndFacts DEF LastLine
<1>5. AtStatement(lines, Line)
  <2>1. lines[Line].op \in {"here", "script"} => BodyEnd(lines, Line) # 0
    BY <1>2
  <2>2. AtStatement(lines, LastLine(lines, Line))
    BY <1>1, <2>1, TestedNext
  <2> QED
    BY <1>4, <2>2
<1>6. FineStatements(lines, Line, known)
  BY <1>1, <1>2, <1>3, <1>4, FineNext DEF CheckInv
<1> QED
  BY <1>5, <1>6 DEF CheckInv

\* if and while push the block they open.
LEMMA PushOpens ==
  ASSUME TypeOK, Sound(lines), CheckInv, index < Len(lines), lines[Line].op \in Openers,
         index' = Line, lines' = lines, known' = known,
         NEW type, type = IF lines[Line].op = "if" THEN "then" ELSE "while",
         openBlocks' = Append(openBlocks, Entry(type, Line))
  PROVE  CheckInv'
<1>1. /\ lines \in Seq(Statement) /\ index \in Nat /\ Line \in Nat
      /\ Line = index + 1 /\ Line <= Len(lines)
  BY LineFacts
<1>2. /\ lines[Line].op \in Blocks /\ lines[Line].op \notin Closers /\ lines[Line].op # "else"
      /\ type \in BlockTypes
  BY DEF Openers, Blocks, Closers, BlockTypes
<1>3. Entry(type, Line) \in BlockEntry /\ openBlocks \in Seq(BlockEntry)
  BY <1>2, TypeFacts
<1>4. Entry(type, Line).type = IF lines[Line].op = "if" THEN "then" ELSE "while"
  BY DEF Entry
<1>5. StackOfBlocks(lines, Line, openBlocks')
  <2>1. StackOfBlocks(lines, index, openBlocks)
    BY DEF CheckInv
  <2>2. PICK x \in BlockEntry : x = Entry(type, Line)
    BY <1>3
  <2>3. StackOfBlocks(lines, Line, Append(openBlocks, x))
    BY <1>1, <1>3, <1>4, <2>1, <2>2, StackPushed
  <2>4. openBlocks' = Append(openBlocks, x)
    BY <2>2, Zenon
  <2> QED
    BY <2>3, <2>4, Zenon
<1>6. EndedBlocks(lines, Line)
  BY <1>1, <1>2, EndedNext DEF CheckInv
<1> QED
  BY <1>2, <1>5, <1>6, BlockKeeps

\* endif and endwhile pop the block they end.
LEMMA PopEnds ==
  ASSUME TypeOK, Sound(lines), CheckInv, index < Len(lines), lines[Line].op \in Closers,
         openBlocks # <<>>, Top.type \in Expected(lines[Line].op),
         index' = Line, lines' = lines, known' = known, openBlocks' = Pop(openBlocks)
  PROVE  CheckInv'
<1>1. /\ lines \in Seq(Statement) /\ index \in Nat /\ Line \in Nat
      /\ Line = index + 1 /\ Line <= Len(lines)
      /\ StackOfBlocks(lines, index, openBlocks)
  BY LineFacts DEF CheckInv
<1>2. PICK l \in Nat : Len(openBlocks) = l /\ l # 0
  BY LineFacts
<1>3. PICK n \in Nat : n = l - 1
  BY <1>2
<1>4. /\ Len(openBlocks') = n /\ l = n + 1
      /\ \A j \in 1 .. n : openBlocks'[j] = openBlocks[j]
  <2>1. openBlocks \in Seq(BlockEntry) /\ n <= Len(openBlocks)
    BY <1>2, <1>3, TypeFacts
  <2>2. openBlocks' = SubSeq(openBlocks, 1, n)
    BY <1>2, <1>3 DEF Pop
  <2>3. /\ Len(SubSeq(openBlocks, 1, n)) = IF 1 <= n THEN n - 1 + 1 ELSE 0
        /\ \A i \in 1 .. Len(SubSeq(openBlocks, 1, n)) :
             SubSeq(openBlocks, 1, n)[i] = openBlocks[1 + i - 1]
    BY <2>1, PieceFacts
  <2>4. \A i \in 1 .. n : 1 + i - 1 = i
    OBVIOUS
  <2> QED
    BY <1>3, <2>2, <2>3, <2>4
<1>5. StackOfBlocks(lines, Line, openBlocks')
  BY <1>1, <1>2, <1>4, StackPopped
<1>6. PICK i \in 1 .. index : /\ lines[i].op \in Openers /\ EndOf(lines, i) = Line
                              /\ TypeFits(lines, index, openBlocks[l].type, i)
  BY <1>1, <1>2, TopFacts
<1>7. lines[Line].op = CloserOf(lines[i].op)
  <2>1. lines[i].op = "if" \/ lines[i].op = "while"
    BY <1>6 DEF Openers
  <2>2. lines[Line].op = "endif" \/ lines[Line].op = "endwhile"
    BY DEF Closers
  <2>3. openBlocks[l].type \in Expected(lines[Line].op)
    BY <1>2 DEF Top
  <2>4. CASE lines[Line].op = "endif"
    <3>1. openBlocks[l].type \in {"then", "else"}
      BY <2>3, <2>4 DEF Expected
    <3> QED
      BY <1>6, <2>1, <2>4, <3>1 DEF CloserOf, TypeFits
  <2>5. CASE lines[Line].op = "endwhile"
    <3>1. openBlocks[l].type = "while"
      BY <2>3, <2>5 DEF Expected
    <3> QED
      BY <1>6, <2>1, <2>5, <3>1 DEF CloserOf, TypeFits
  <2> QED
    BY <2>2, <2>4, <2>5
<1>8. lines[Line].op \in Blocks /\ lines[Line].op # "else"
  BY DEF Blocks, Closers
<1>9. EndedBlocks(lines, Line)
  BY <1>1, <1>6, <1>7, <1>8, EndedNext DEF CheckInv
<1> QED
  BY <1>5, <1>8, <1>9, BlockKeeps

\* else replaces the entry of its block.
LEMMA ElseTurns ==
  ASSUME TypeOK, Sound(lines), CheckInv, index < Len(lines), lines[Line].op = "else",
         openBlocks # <<>>, Top.type \in Expected("else"),
         index' = Line, lines' = lines, known' = known,
         openBlocks' = [openBlocks EXCEPT ![Len(openBlocks)] = Entry("else", Line)]
  PROVE  CheckInv'
<1>1. /\ lines \in Seq(Statement) /\ index \in Nat /\ Line \in Nat
      /\ Line = index + 1 /\ Line <= Len(lines)
      /\ StackOfBlocks(lines, index, openBlocks)
  BY LineFacts DEF CheckInv
<1>2. PICK n \in Nat : Len(openBlocks) = n /\ n # 0
  BY LineFacts
<1>3. openBlocks[n].type = "then"
  BY <1>2 DEF Top, Expected
<1>4. /\ Len(openBlocks') = n /\ openBlocks'[n].type = "else"
      /\ \A j \in 1 .. n : j # n => openBlocks'[j] = openBlocks[j]
  <2>1. openBlocks \in Seq(BlockEntry) /\ n \in 1 .. Len(openBlocks)
    BY <1>2, TypeFacts
  <2> QED
    BY <1>2, <2>1 DEF Entry
<1>5. StackOfBlocks(lines, Line, openBlocks')
  <2>1. PICK new : new = openBlocks'
    OBVIOUS
  <2>2. /\ Len(new) = n /\ new[n].type = "else"
        /\ \A j \in 1 .. n : j # n => new[j] = openBlocks[j]
    BY <1>4, <2>1, Zenon
  <2>3. StackOfBlocks(lines, Line, new)
    BY <1>1, <1>2, <1>3, <2>2, StackReplaced, SMTT(60)
  <2> QED
    BY <2>1, <2>3, Zenon
<1>6. PICK i \in 1 .. index : /\ lines[i].op \in Openers
                              /\ Belongs(lines, Line, i)
                              /\ \A k : Belongs(lines, Line, k) => k = i
                              /\ TypeFits(lines, index, openBlocks[n].type, i)
  BY <1>1, <1>2, TopFacts
<1>7. lines[i].op = "if" /\ \A e \in 1 .. index : ~ Belongs(lines, e, i)
  BY <1>3, <1>6 DEF TypeFits, Openers
<1>8. lines[Line].op \in Blocks /\ lines[Line].op \notin Closers
  BY DEF Blocks, Closers
<1>9. EndedBlocks(lines, Line)
  BY <1>1, <1>6, <1>7, <1>8, EndedNext DEF CheckInv
<1> QED
  BY <1>5, <1>8, <1>9, BlockKeeps

\* The loops over a body stop at its end.
LEMMA BodyFound ==
  ASSUME TypeOK, BodiesPlain(lines), index < Len(lines)
  PROVE  /\ lines[Line].op = "here" => Markers = BodyEnds(lines, Line)
         /\ lines[Line].op = "script" => EndScripts = BodyEnds(lines, Line)
         /\ BodyEnds(lines, Line) = {} => BodyEnd(lines, Line) = 0
         /\ BodyEnds(lines, Line) # {} =>
              /\ BodyEnd(lines, Line) # 0
              /\ LastLine(lines, Line) = First(BodyEnds(lines, Line))
<1>1. /\ lines \in Seq(Statement) /\ Line \in Nat /\ Len(lines) \in Nat
      /\ Line \in DOMAIN lines
  BY LineFacts
<1>2. lines[Line].op = "here" => Markers = BodyEnds(lines, Line)
  BY DEF Markers, BodyEnds
<1>3. ASSUME lines[Line].op = "script" PROVE EndScripts = BodyEnds(lines, Line)
  <2>1. Line < Len(lines) /\ lines[Line + 1].op # "endscript"
    BY <1>1, <1>3 DEF BodiesPlain
  <2>2. \A q \in (Line + 1) .. Len(lines) :
          lines[q].op = "endscript" => q \in (Line + 2) .. Len(lines)
    <3> TAKE q \in (Line + 1) .. Len(lines)
    <3> HAVE lines[q].op = "endscript"
    <3>1. q # Line + 1
      BY <2>1
    <3> QED
      BY <1>1, <3>1
  <2>3. \A q \in (Line + 2) .. Len(lines) : q \in (Line + 1) .. Len(lines)
    BY <1>1
  <2>4. BodyEnds(lines, Line) = {q \in (Line + 1) .. Len(lines) : lines[q].op = "endscript"}
    BY <1>3 DEF BodyEnds
  <2> QED
    BY <2>2, <2>3, <2>4 DEF EndScripts
<1>4. BodyEnds(lines, Line) = {} => BodyEnd(lines, Line) = 0
  BY <1>1, BodyEndFacts
<1>5. ASSUME BodyEnds(lines, Line) # {}
      PROVE  /\ BodyEnd(lines, Line) # 0
             /\ LastLine(lines, Line) = First(BodyEnds(lines, Line))
  BY <1>1, <1>5, BodyEndFacts DEF LastLine
<1> QED
  BY <1>2, <1>3, <1>4, <1>5

\* if and while of a well formed script find the end of their block.
LEMMA EndsFound ==
  ASSUME TypeOK, BlocksWellFormed(lines), index < Len(lines)
  PROVE  /\ lines[Line].op = "while" =>
              WhileEnds # {} /\ First(WhileEnds) = EndOf(lines, Line)
         /\ lines[Line].op = "if" =>
              /\ IfEnds # {}
              /\ lines[First(IfEnds)].op = "endif" =>
                   ElsesOf(lines, Line) = {} /\ First(IfEnds) = EndOf(lines, Line)
              /\ lines[First(IfEnds)].op = "else" =>
                   /\ First(IfEnds) \in ElsesOf(lines, Line)
                   /\ First(IfEnds) = First(ElsesOf(lines, Line))
                   /\ ElseEnds(First(IfEnds)) # {}
                   /\ First(ElseEnds(First(IfEnds))) = EndOf(lines, Line)
<1>1. lines \in Seq(Statement) /\ Line \in DOMAIN lines
  BY LineFacts
<1>2. lines[Line].op = "while" =>
        WhileEnds # {} /\ First(WhileEnds) = EndOf(lines, Line)
  BY <1>1, WhileScan DEF WhileEnds
<1>3. ASSUME lines[Line].op = "if"
      PROVE  /\ IfEnds # {}
             /\ lines[First(IfEnds)].op = "endif" =>
                  ElsesOf(lines, Line) = {} /\ First(IfEnds) = EndOf(lines, Line)
             /\ lines[First(IfEnds)].op = "else" =>
                  /\ First(IfEnds) \in ElsesOf(lines, Line)
                  /\ First(IfEnds) = First(ElsesOf(lines, Line))
                  /\ ElseEnds(First(IfEnds)) # {}
                  /\ First(ElseEnds(First(IfEnds))) = EndOf(lines, Line)
  <2>1. /\ IfEnds # {}
        /\ First(IfEnds) = IF ElsesOf(lines, Line) = {} THEN EndOf(lines, Line)
                           ELSE First(ElsesOf(lines, Line))
    BY <1>1, <1>3, IfScan DEF IfEnds
  <2>2. CASE ElsesOf(lines, Line) = {}
    <3>1. lines[Line].op \in Openers
      BY <1>3 DEF Openers
    <3>2. lines[EndOf(lines, Line)].op = "endif"
      BY <1>1, <1>3, <3>1, BlockFacts DEF CloserOf
    <3> QED
      BY <2>1, <2>2, <3>2
  <2>3. CASE ElsesOf(lines, Line) # {}
    <3>1. PICK x \in ElsesOf(lines, Line) : TRUE
      BY <2>3
    <3>2. lines[x].op = "else" /\ First(ElsesOf(lines, Line)) = x
      BY <1>1, <1>3, <3>1, ElsesFacts
    <3>3. /\ BlockEnds(lines, x + 1, "if", "endif", "endif") # {}
          /\ First(BlockEnds(lines, x + 1, "if", "endif", "endif")) = EndOf(lines, Line)
      BY <1>1, <1>3, <3>1, ElseScan
    <3>4. ElseEnds(x) # {} /\ First(ElseEnds(x)) = EndOf(lines, Line)
      BY <3>3 DEF ElseEnds
    <3>5. First(IfEnds) = x
      BY <2>1, <2>3, <3>2
    <3> QED
      BY <2>1, <3>1, <3>2, <3>4, <3>5
  <2> QED
    BY <2>2, <2>3
<1> QED
  BY <1>2, <1>3

\* The test pass keeps what it knows, and reports only scripts that are not well formed.
LEMMA CheckStep ==
  ASSUME TypeOK, Sound(lines), phase = "check", CheckInv,
         CheckStatement \/ HereDocument \/ HereDocumentWithoutMarker
  PROVE  /\ phase' = "check" => CheckInv'
         /\ phase' = "failed" => ~ WellFormed(lines)
<1>1. index < Len(lines)
  BY DEF CheckStatement, CheckPlain, CheckBad, CheckIf, CheckIfWithElse,
         CheckIfWithoutEnd, CheckWhile, CheckWhileWithoutEnd, CheckElse, CheckEnd,
         CheckMisplaced, CheckStray, CheckLeave, CheckLeaveWithoutEnd, CheckScript,
         CheckScriptWithoutEnd, CheckScriptTwice, CheckScriptLast, At,
         HereDocument, HereDocumentWithoutMarker
<1>2. /\ lines \in Seq(Statement) /\ Line \in Nat /\ Len(lines) \in Nat /\ index \in Nat
      /\ Line \in DOMAIN lines /\ lines[index + 1] = lines[Line] /\ Line = index + 1
      /\ Line \in Statements(lines) /\ Line <= Len(lines)
  BY <1>1, LineFacts DEF CheckInv
<1>3. BodiesPlain(lines) /\ LeavesSomething(lines)
  BY DEF Sound
<1>4. ~ Passes(lines, Line) => ~ WellFormed(lines)
  BY <1>2, <1>3, StatementPasses
<1>5. BodyEnd(lines, Line) # 0 => lines[Line].op \in {"here", "script"}
  BY <1>2, BodyEndFacts
<1>6. CASE CheckPlain
  <2>1. lines[Line].op \in {"exit", "abort", "plain", "endscript"} /\ index' = Line
        /\ UNCHANGED <<lines, phase, openBlocks, known>>
    BY <1>2, <1>6 DEF CheckPlain, At, Stops
  <2>2. lines[Line].op \notin Blocks /\ lines[Line].op # "script" /\ Passes(lines, Line)
    BY <2>1 DEF Passes, Blocks, Leaves
  <2>3. LastLine(lines, Line) = Line
    BY <1>5, <2>1 DEF LastLine
  <2> QED
    BY <1>1, <2>1, <2>2, <2>3, OtherKeeps
<1>7. CASE CheckBad
  <2>1. lines[Line].op \in {"bad", "marker"} /\ phase' = "failed"
    BY <1>2, <1>7 DEF CheckBad, At
  <2> QED
    BY <1>4, <2>1 DEF Passes
<1>8. CASE CheckIf \/ CheckIfWithElse
  <2>1. lines[Line].op = "if" /\ index' = Line /\ UNCHANGED <<lines, phase, known>>
        /\ openBlocks' = Append(openBlocks, Entry("then", Line))
    BY <1>2, <1>8 DEF CheckIf, CheckIfWithElse, At
  <2>2. lines[Line].op \in Openers /\ "then" = IF lines[Line].op = "if" THEN "then" ELSE "while"
    BY <2>1 DEF Openers
  <2> QED
    BY <1>1, <2>1, <2>2, PushOpens
<1>9. CASE CheckWhile
  <2>1. lines[Line].op = "while" /\ index' = Line /\ UNCHANGED <<lines, phase, known>>
        /\ openBlocks' = Append(openBlocks, Entry("while", Line))
    BY <1>2, <1>9 DEF CheckWhile, At
  <2>2. lines[Line].op \in Openers /\ "while" = IF lines[Line].op = "if" THEN "then" ELSE "while"
    BY <2>1 DEF Openers
  <2> QED
    BY <1>1, <2>1, <2>2, PushOpens
<1>10. CASE CheckIfWithoutEnd
  <2>1. /\ lines[Line].op = "if" /\ phase' = "failed"
        /\ \/ IfEnds = {}
           \/ lines[First(IfEnds)].op = "else" /\ ElseEnds(First(IfEnds)) = {}
    BY <1>2, <1>10 DEF CheckIfWithoutEnd, At
  <2> QED
    BY <1>1, <2>1, EndsFound DEF WellFormed
<1>11. CASE CheckWhileWithoutEnd
  <2>1. lines[Line].op = "while" /\ phase' = "failed" /\ WhileEnds = {}
    BY <1>2, <1>11 DEF CheckWhileWithoutEnd, At
  <2> QED
    BY <1>1, <2>1, EndsFound DEF WellFormed
<1>12. CASE CheckElse
  <2>1. /\ lines[Line].op = "else" /\ openBlocks # <<>> /\ Top.type \in Expected("else")
        /\ index' = Line /\ UNCHANGED <<lines, phase, known>>
        /\ openBlocks' = [openBlocks EXCEPT ![Len(openBlocks)] = Entry("else", Line)]
    BY <1>2, <1>12 DEF CheckElse, At
  <2> QED
    BY <1>1, <2>1, ElseTurns
<1>13. CASE CheckEnd
  <2>1. /\ lines[Line].op \in Closers /\ openBlocks # <<>>
        /\ Top.type \in Expected(lines[Line].op)
        /\ index' = Line /\ UNCHANGED <<lines, phase, known>>
        /\ openBlocks' = Pop(openBlocks)
    BY <1>2, <1>13 DEF CheckEnd, At
  <2> QED
    BY <1>1, <2>1, PopEnds
<1>14. CASE CheckMisplaced
  <2>1. /\ lines[Line].op \in Closers \cup {"else"} /\ openBlocks # <<>>
        /\ Top.type \notin Expected(lines[Line].op) /\ phase' = "failed"
    BY <1>2, <1>14 DEF CheckMisplaced, At
  <2>2. PICK n \in Nat : Len(openBlocks) = n /\ n # 0
    BY <1>1, <2>1, LineFacts
  <2>3. ~ BlocksWellFormed(lines)
    BY <1>2, <2>1, <2>2, TopRejects DEF CheckInv, Top
  <2> QED
    BY <2>1, <2>3 DEF WellFormed
<1>15. CASE CheckLeave
  <2>1. lines[Line].op \in Leaves /\ index' = Line /\ Targets # {}
        /\ UNCHANGED <<lines, phase, openBlocks, known>>
    BY <1>2, <1>15 DEF CheckLeave, At
  <2>2. lines[Line].op \notin Blocks /\ lines[Line].op \notin {"script", "here", "bad", "marker"}
    BY <2>1 DEF Blocks, Leaves
  <2>3. Passes(lines, Line)
    BY <2>1, <2>2 DEF Passes, Targets
  <2>4. LastLine(lines, Line) = Line
    BY <1>5, <2>2 DEF LastLine
  <2> QED
    BY <1>1, <2>1, <2>2, <2>3, <2>4, OtherKeeps
<1>16. CASE CheckLeaveWithoutEnd
  <2>1. /\ lines[Line].op \in Leaves /\ Targets = {}
        /\ phase' = IF lines[Line].arg = Count(lines, Closers, Line + 1, Len(lines))
                    THEN phase ELSE "failed"
    BY <1>2, <1>16 DEF CheckLeaveWithoutEnd, At
  <2>2. phase' = "failed"
    BY <1>1, <1>3, <2>1, LeaveFindsEnd
  <2>3. ~ Passes(lines, Line)
    BY <2>1 DEF Passes, Targets
  <2> QED
    BY <1>4, <2>2, <2>3
<1>17. CASE CheckScript
  <2>1. /\ lines[Line].op = "script" /\ lines[Line].arg \notin known /\ EndScripts # {}
        /\ known' = known \cup {lines[Line].arg} /\ index' = First(EndScripts)
        /\ UNCHANGED <<lines, phase, openBlocks>>
    BY <1>2, <1>17 DEF CheckScript, At
  <2>2. BodyEnd(lines, Line) # 0 /\ index' = LastLine(lines, Line)
    BY <1>1, <1>3, <2>1, BodyFound
  <2>3. lines[Line].op \notin Blocks /\ Passes(lines, Line)
    BY <2>1, <2>2 DEF Passes, Blocks, Leaves
  <2> QED
    BY <1>1, <2>1, <2>2, <2>3, OtherKeeps
<1>18. CASE CheckScriptWithoutEnd
  <2>1. lines[Line].op = "script" /\ EndScripts = {} /\ phase' = "failed"
    BY <1>2, <1>18 DEF CheckScriptWithoutEnd, At
  <2>2. BodyEnd(lines, Line) = 0
    BY <1>1, <1>3, <2>1, BodyFound
  <2> QED
    BY <1>4, <2>1, <2>2 DEF Passes
<1>19. CASE CheckScriptTwice
  <2>1. lines[Line].op = "script" /\ lines[Line].arg \in known /\ phase' = "failed"
    BY <1>2, <1>19 DEF CheckScriptTwice, At
  <2>2. ~ StatementsWellFormed(lines)
    BY <1>2, <2>1, NameRejects DEF CheckInv
  <2> QED
    BY <2>1, <2>2 DEF WellFormed
<1>20. CASE CheckStray \/ CheckScriptLast
  BY <1>20 DEF CheckStray, CheckScriptLast, Undefined
<1>21. CASE HereDocument
  <2>1. /\ lines[Line].op = "here" /\ Markers # {} /\ index' = First(Markers)
        /\ UNCHANGED <<lines, phase, openBlocks, known>>
    BY <1>2, <1>21 DEF HereDocument, At
  <2>2. BodyEnd(lines, Line) # 0 /\ index' = LastLine(lines, Line)
    BY <1>1, <1>3, <2>1, BodyFound
  <2>3. lines[Line].op \notin Blocks /\ lines[Line].op # "script" /\ Passes(lines, Line)
    BY <2>1, <2>2 DEF Passes, Blocks, Leaves
  <2> QED
    BY <1>1, <2>1, <2>2, <2>3, OtherKeeps
<1>22. CASE HereDocumentWithoutMarker
  <2>1. lines[Line].op = "here" /\ Markers = {} /\ phase' = "failed"
    BY <1>2, <1>22 DEF HereDocumentWithoutMarker, At
  <2>2. BodyEnd(lines, Line) = 0
    BY <1>1, <1>3, <2>1, BodyFound
  <2> QED
    BY <1>4, <2>1, <2>2 DEF Passes
<1> QED
  BY <1>6, <1>7, <1>8, <1>9, <1>10, <1>11, <1>12, <1>13, <1>14, <1>15, <1>16, <1>17,
     <1>18, <1>19, <1>20, <1>21, <1>22 DEF CheckStatement

\* The test pass accepts only well formed scripts, and reports a block that is not ended.
LEMMA CheckDone ==
  ASSUME TypeOK, Sound(lines), LeaveBeforeBlocks(lines), CheckInv, index >= Len(lines)
  PROVE  openBlocks = <<>> <=> WellFormed(lines)
<1>1. /\ lines \in Seq(Statement) /\ index = Len(lines) /\ openBlocks \in Seq(BlockEntry)
  BY TypeFacts
<1>2. ASSUME openBlocks = <<>> PROVE WellFormed(lines)
  <2>1. BlocksWellFormed(lines)
    BY <1>1, <1>2, StackAccepts DEF CheckInv
  <2>2. StatementsWellFormed(lines)
    BY <1>1, <2>1, StatementsAccepted DEF CheckInv, Sound
  <2> QED
    BY <2>1, <2>2 DEF WellFormed
<1>3. ASSUME openBlocks # <<>> PROVE ~ WellFormed(lines)
  <2>1. PICK n \in Nat : Len(openBlocks) = n /\ n # 0
    BY <1>1, <1>3, EmptySeq, LenProperties
  <2>2. ~ BlocksWellFormed(lines)
    BY <1>1, <2>1, StackRejects DEF CheckInv
  <2> QED
    BY <2>2 DEF WellFormed
<1> QED
  BY <1>2, <1>3

------------------------------------------------------------------------------
(* The jump tables of a well formed script *)

\* The entry of _ifData for the if at line k.
IfRight(s, k, entry) ==
  /\ s[k].op = "if"
  /\ entry.elseLine = IF ElsesOf(s, k) = {} THEN 0 ELSE First(ElsesOf(s, k))
  /\ entry.endLine = EndOf(s, k)

\* The entry of _singleEndData for the statement at line k.
JumpRight(s, k, target) ==
  /\ s[k].op = "while" => target = EndOf(s, k)
  /\ s[k].op = "else" => target = EndOf(s, OpenerOf(s, k))
  /\ s[k].op = "endwhile" => target + 1 = OpenerOf(s, k)
  /\ s[k].op = "script" => target = BodyEnd(s, k)
  /\ s[k].op \in Leaves => target = EndLeft(s, k, s[k].arg)

TablesRight ==
  /\ \A k \in DOMAIN ifData : IfRight(lines, k, ifData[k])
  /\ \A k \in DOMAIN singleEnd : JumpRight(lines, k, singleEnd[k])

\* An entry that is right leaves the table right.
LEMMA PutJump ==
  ASSUME NEW s, NEW f, NEW k, NEW v,
         \A x \in DOMAIN f : JumpRight(s, x, f[x]), JumpRight(s, k, v)
  PROVE  \A x \in DOMAIN Put(f, k, v) : JumpRight(s, x, Put(f, k, v)[x])
<1> PICK g : g = Put(f, k, v)
  OBVIOUS
<1>0. DOMAIN g = DOMAIN f \cup {k} /\ g[k] = v /\ \A x \in DOMAIN f : x # k => g[x] = f[x]
  BY DEF Put
<1> SUFFICES ASSUME NEW x \in DOMAIN g PROVE JumpRight(s, x, g[x])
  OBVIOUS
<1>1. x \in DOMAIN f \/ x = k
  BY <1>0
<1>2. CASE x = k
  BY <1>0, <1>2
<1>3. CASE x # k
  BY <1>0, <1>1, <1>3
<1> QED
  BY <1>2, <1>3

\* The jump of a leave.
LEMMA LeaveJumps ==
  ASSUME NEW s \in Seq(Statement), BlocksWellFormed(s), LeaveBeforeBlocks(s),
         LeavesSomething(s), NEW k \in DOMAIN s, s[k].op \in Leaves,
         LeaveEnds(s, k + 1, s[k].arg) # {}
  PROVE  /\ First(LeaveEnds(s, k + 1, s[k].arg)) = EndLeft(s, k, s[k].arg)
         /\ EndLeft(s, k, s[k].arg) \in DOMAIN s
         /\ s[EndLeft(s, k, s[k].arg)].op \in Closers
<1>1. s[k] \in Statement
  BY ElementOfSeq, LinesOf
<1>2. s[k].arg \in Nat /\ s[k].arg >= 1
  BY <1>1 DEF Statement, LeavesSomething, Leaves
<1>3. s[k].op \notin Openers /\ s[k].op \notin Closers
  BY DEF Openers, Closers, Leaves
<1>4. \A q \in LeaveEnds(s, k + 1, s[k].arg) : Count(s, Openers, k + 1, q) = 0
  BY DEF LeaveBeforeBlocks, Leaves
<1>5. PICK n \in Nat : n = s[k].arg
  BY <1>2
<1>6. /\ First(LeaveEnds(s, k + 1, n)) = EndLeft(s, k, n)
      /\ First(LeaveEnds(s, k + 1, n)) \in DOMAIN s
      /\ s[First(LeaveEnds(s, k + 1, n))].op \in Closers
  BY <1>2, <1>3, <1>4, <1>5, LeaveScan
<1> QED
  BY <1>5, <1>6

\* Every handler of the test stores the jump that the blocks ask for.
LEMMA TablesStep ==
  ASSUME TypeOK, Sound(lines), LeaveBeforeBlocks(lines), WellFormed(lines), TablesRight,
         CheckStatement
  PROVE  TablesRight'
<1>1. index < Len(lines) /\ lines' = lines
  BY DEF CheckStatement, CheckPlain, CheckBad, CheckIf, CheckIfWithElse,
         CheckIfWithoutEnd, CheckWhile, CheckWhileWithoutEnd, CheckElse, CheckEnd,
         CheckMisplaced, CheckStray, CheckLeave, CheckLeaveWithoutEnd, CheckScript,
         CheckScriptWithoutEnd, CheckScriptTwice, CheckScriptLast, At, Undefined
<1>2. /\ lines \in Seq(Statement) /\ Line \in Nat /\ Len(lines) \in Nat
      /\ Line \in DOMAIN lines /\ lines[index + 1] = lines[Line]
      /\ BodiesPlain(lines) /\ LeavesSomething(lines) /\ BlocksWellFormed(lines)
  BY <1>1, LineFacts DEF Sound, WellFormed
<1>3. CASE UNCHANGED tables
  <2>1. ifData' = ifData /\ singleEnd' = singleEnd
    BY <1>3 DEF tables
  <2> QED
    BY <1>1, <2>1 DEF TablesRight
<1>4. ASSUME CheckIf \/ CheckIfWithElse
      PROVE  \A k \in DOMAIN ifData' : IfRight(lines, k, ifData'[k])
  <2>1. PICK v : /\ lines[Line].op = "if" /\ ifData' = Put(ifData, Line, v)
                 /\ \/ /\ lines[First(IfEnds)].op = "endif"
                       /\ v = [elseLine |-> 0, endLine |-> First(IfEnds)]
                    \/ /\ lines[First(IfEnds)].op = "else"
                       /\ v = [elseLine |-> First(IfEnds), endLine |-> First(ElseEnds(First(IfEnds)))]
    BY <1>2, <1>4 DEF CheckIf, CheckIfWithElse, At
  <2>2. IfRight(lines, Line, v)
    <3>1. lines[First(IfEnds)].op = "endif" =>
            ElsesOf(lines, Line) = {} /\ First(IfEnds) = EndOf(lines, Line)
      BY <1>1, <1>2, <2>1, EndsFound
    <3>2. lines[First(IfEnds)].op = "else" =>
            /\ ElsesOf(lines, Line) # {}
            /\ First(IfEnds) = First(ElsesOf(lines, Line))
            /\ First(ElseEnds(First(IfEnds))) = EndOf(lines, Line)
      BY <1>1, <1>2, <2>1, EndsFound
    <3> QED
      BY <2>1, <3>1, <3>2 DEF IfRight
  <2>3. /\ DOMAIN ifData' = DOMAIN ifData \cup {Line} /\ ifData'[Line] = v
        /\ \A k \in DOMAIN ifData : k # Line => ifData'[k] = ifData[k]
    BY <2>1 DEF Put
  <2> TAKE k \in DOMAIN ifData'
  <2>4. CASE k = Line
    BY <2>2, <2>3, <2>4
  <2>5. CASE k # Line
    BY <2>3, <2>5 DEF TablesRight
  <2> QED
    BY <2>4, <2>5
<1>5. CASE CheckIf
  <2>1. singleEnd' = singleEnd
    BY <1>5 DEF CheckIf
  <2> QED
    BY <1>1, <1>4, <1>5, <2>1 DEF TablesRight
<1>6. CASE CheckIfWithElse
  <2>1. /\ lines[Line].op = "if" /\ lines[First(IfEnds)].op = "else"
        /\ singleEnd' = Put(singleEnd, First(IfEnds), First(ElseEnds(First(IfEnds))))
    BY <1>2, <1>6 DEF CheckIfWithElse, At
  <2>2. PICK x \in ElsesOf(lines, Line) :
          x = First(IfEnds) /\ First(ElseEnds(x)) = EndOf(lines, Line)
    BY <1>1, <1>2, <2>1, EndsFound
  <2>3. OpenerOf(lines, x) = Line /\ lines[x].op = "else"
    BY <1>2, <2>1, <2>2, ElseOpener
  <2>4. JumpRight(lines, x, First(ElseEnds(x)))
    BY <2>2, <2>3 DEF JumpRight, Leaves
  <2>5. \A k \in DOMAIN singleEnd' : JumpRight(lines, k, singleEnd'[k])
    BY <2>1, <2>2, <2>4, PutJump DEF TablesRight
  <2> QED
    BY <1>1, <1>4, <1>6, <2>5 DEF TablesRight
<1>7. CASE CheckWhile
  <2>1. /\ lines[Line].op = "while" /\ ifData' = ifData
        /\ singleEnd' = Put(Put(singleEnd, Line, First(WhileEnds)), First(WhileEnds), Line - 1)
    BY <1>2, <1>7 DEF CheckWhile, At
  <2>2. First(WhileEnds) = EndOf(lines, Line)
    BY <1>1, <1>2, <2>1, EndsFound
  <2>3. lines[Line].op \in Openers
    BY <2>1 DEF Openers
  <2>4. lines[EndOf(lines, Line)].op = "endwhile"
    BY <1>2, <2>1, <2>3, BlockFacts DEF CloserOf
  <2>5. OpenerOf(lines, EndOf(lines, Line)) = Line
    BY <1>2, <2>3, EndOpener
  <2>6. JumpRight(lines, Line, EndOf(lines, Line))
    BY <2>1 DEF JumpRight, Leaves
  <2>7. JumpRight(lines, EndOf(lines, Line), Line - 1)
    <3>1. Line - 1 + 1 = Line
      BY <1>2
    <3> QED
      BY <2>4, <2>5, <3>1 DEF JumpRight, Leaves
  <2>8. \A k \in DOMAIN Put(singleEnd, Line, EndOf(lines, Line)) :
          JumpRight(lines, k, Put(singleEnd, Line, EndOf(lines, Line))[k])
    BY <2>6, PutJump DEF TablesRight
  <2>9. \A k \in DOMAIN singleEnd' : JumpRight(lines, k, singleEnd'[k])
    BY <2>1, <2>2, <2>7, <2>8, PutJump
  <2> QED
    BY <1>1, <2>1, <2>9 DEF TablesRight
<1>8. CASE CheckLeave
  <2>1. /\ lines[Line].op \in Leaves /\ ifData' = ifData /\ Targets # {}
        /\ singleEnd' = Put(singleEnd, Line, First(Targets))
    BY <1>2, <1>8 DEF CheckLeave, At
  <2>2. First(Targets) = EndLeft(lines, Line, lines[Line].arg)
    BY <1>2, <2>1, LeaveJumps DEF Targets
  <2>3. JumpRight(lines, Line, First(Targets))
    BY <2>1, <2>2 DEF JumpRight, Leaves
  <2>4. \A k \in DOMAIN singleEnd' : JumpRight(lines, k, singleEnd'[k])
    BY <2>1, <2>3, PutJump DEF TablesRight
  <2> QED
    BY <1>1, <2>1, <2>4 DEF TablesRight
<1>9. CASE CheckScript
  <2>1. /\ lines[Line].op = "script" /\ ifData' = ifData /\ EndScripts # {}
        /\ singleEnd' = Put(singleEnd, Line, First(EndScripts))
    BY <1>2, <1>9 DEF CheckScript, At
  <2>2. First(EndScripts) = BodyEnd(lines, Line)
    BY <1>1, <1>2, <2>1, BodyFound DEF LastLine
  <2>3. JumpRight(lines, Line, First(EndScripts))
    BY <2>1, <2>2 DEF JumpRight, Leaves
  <2>4. \A k \in DOMAIN singleEnd' : JumpRight(lines, k, singleEnd'[k])
    BY <2>1, <2>3, PutJump DEF TablesRight
  <2> QED
    BY <1>1, <2>1, <2>4 DEF TablesRight
<1>10. \/ UNCHANGED tables \/ CheckIf \/ CheckIfWithElse \/ CheckWhile \/ CheckLeave \/ CheckScript
  BY DEF CheckStatement, CheckPlain, CheckBad, CheckIf, CheckIfWithElse,
         CheckIfWithoutEnd, CheckWhile, CheckWhileWithoutEnd, CheckElse, CheckEnd,
         CheckMisplaced, CheckStray, CheckLeave, CheckLeaveWithoutEnd, CheckScript,
         CheckScriptWithoutEnd, CheckScriptTwice, CheckScriptLast, Undefined, tables
<1> QED
  BY <1>3, <1>5, <1>6, <1>7, <1>8, <1>9, <1>10

------------------------------------------------------------------------------
(* The operators of the instance Structure are those of this module. *)

LEMMA SameCounts ==
  /\ \A s, ops, a, b : Structure!Count(s, ops, a, b) = Count(s, ops, a, b)
  /\ \A S : Structure!First(S) = First(S)
  /\ Structure!Openers = Openers /\ Structure!Closers = Closers
<1>1. ASSUME NEW S PROVE Structure!Cardinality(S) = Cardinality(S)
  BY DEF Structure!Cardinality, Cardinality, Structure!IsFiniteSet, IsFiniteSet
<1>2. \A s, ops, a, b : Structure!Count(s, ops, a, b) = Count(s, ops, a, b)
  BY <1>1 DEF Structure!Count, Count
<1>3. \A S : Structure!First(S) = First(S)
  BY DEF Structure!First, First
<1>4. Structure!Openers = Openers /\ Structure!Closers = Closers
  BY DEF Structure!Openers, Openers, Structure!Closers, Closers
<1> QED
  BY <1>2, <1>3, <1>4

\* The operators of the instance are those of this module: what
\* StructuredScript calls well formed and next is about the same lines.
LEMMA SameSizes == \A S : Structure!Cardinality(S) = Cardinality(S)
BY DEF Structure!Cardinality, Cardinality, Structure!IsFiniteSet, IsFiniteSet

LEMMA SameEnd ==
  ASSUME NEW s, NEW i
  PROVE  Structure!EndOf(s, i) = EndOf(s, i)
BY SameCounts DEF Structure!EndOf, EndOf

LEMMA SameAround ==
  ASSUME NEW s, NEW k
  PROVE  Structure!Around(s, k) = Around(s, k)
BY SameCounts, SameEnd DEF Structure!Around, Around

LEMMA SameInnermost ==
  ASSUME NEW S
  PROVE  Structure!Innermost(S) = Innermost(S)
BY DEF Structure!Innermost, Innermost

LEMMA SameElses ==
  ASSUME NEW s, NEW i
  PROVE  Structure!ElsesOf(s, i) = ElsesOf(s, i)
BY SameEnd, SameAround, SameInnermost DEF Structure!ElsesOf, ElsesOf

LEMMA SameLeft ==
  ASSUME NEW s, NEW k, NEW n
  PROVE  Structure!EndLeft(s, k, n) = EndLeft(s, k, n)
BY SameEnd, SameAround, SameSizes DEF Structure!EndLeft, EndLeft

LEMMA SameBodyEnd ==
  ASSUME NEW s, NEW k
  PROVE  Structure!BodyEnd(s, k) = BodyEnd(s, k)
BY SameCounts DEF Structure!BodyEnd, BodyEnd

LEMMA SameStatements ==
  ASSUME NEW s
  PROVE  Structure!Statements(s) = Statements(s)
BY SameBodyEnd DEF Structure!Statements, Statements

LEMMA SameBlocks ==
  ASSUME NEW s
  PROVE  Structure!BlocksWellFormed(s) <=> BlocksWellFormed(s)
BY SameCounts, SameEnd, SameElses, SameAround, SameSizes
   DEF Structure!BlocksWellFormed, BlocksWellFormed

LEMMA SameWellFormed ==
  ASSUME NEW s
  PROVE  Structure!WellFormed(s) <=> WellFormed(s)
<1>1. Structure!StatementsWellFormed(s) <=> StatementsWellFormed(s)
  BY SameStatements, SameBodyEnd, SameAround, SameSizes
     DEF Structure!StatementsWellFormed, StatementsWellFormed
<1> QED
  BY <1>1, SameBlocks DEF Structure!WellFormed, WellFormed

LEMMA SameOpener ==
  ASSUME NEW k
  PROVE  Structure!Opener(k) = OpenerOf(lines, k)
BY SameCounts, SameEnd DEF Structure!Opener, OpenerOf

\* The successors that the language allows, per keyword, as the scans of the
\* code give them.
LEMMA SuccessorsOf ==
  ASSUME NEW k
  PROVE  /\ lines[k].op = "if" => Structure!Successors(k) =
              {k + 1, IF ElsesOf(lines, k) = {} THEN EndOf(lines, k) + 1
                      ELSE First(ElsesOf(lines, k)) + 1}
         /\ lines[k].op = "while" => Structure!Successors(k) = {k + 1, EndOf(lines, k) + 1}
         /\ lines[k].op = "else" =>
              Structure!Successors(k) = {EndOf(lines, OpenerOf(lines, k)) + 1}
         /\ lines[k].op = "endwhile" => Structure!Successors(k) = {OpenerOf(lines, k)}
         /\ lines[k].op = "leave" =>
              Structure!Successors(k) = {EndLeft(lines, k, lines[k].arg) + 1}
         /\ lines[k].op = "leaveif" =>
              Structure!Successors(k) = {k + 1, EndLeft(lines, k, lines[k].arg) + 1}
         /\ lines[k].op = "exit" => Structure!Successors(k) = {Len(lines) + 1}
         /\ lines[k].op \in {"here", "script"} =>
              Structure!Successors(k) = {BodyEnd(lines, k) + 1}
         /\ lines[k].op \in {"plain", "endscript", "endif"} =>
              Structure!Successors(k) = {k + 1}
<1>1. /\ Structure!ElsesOf(lines, k) = ElsesOf(lines, k)
      /\ Structure!EndOf(lines, k) = EndOf(lines, k)
      /\ Structure!EndLeft(lines, k, lines[k].arg) = EndLeft(lines, k, lines[k].arg)
      /\ Structure!BodyEnd(lines, k) = BodyEnd(lines, k)
      /\ Structure!Opener(k) = OpenerOf(lines, k)
      /\ Structure!EndOf(lines, OpenerOf(lines, k)) = EndOf(lines, OpenerOf(lines, k))
      /\ Structure!First(ElsesOf(lines, k)) = First(ElsesOf(lines, k))
  BY SameElses, SameEnd, SameLeft, SameBodyEnd, SameOpener, SameCounts
<1>2. lines[k].op \in {"plain", "endscript", "endif"} =>
        Structure!Successors(k) = {Structure!After(lines, k)}
  BY DEF Structure!Successors
<1> QED
  BY <1>1 DEF Structure!Successors, Structure!After

------------------------------------------------------------------------------
(* The run pass *)

\* The line of a word of blocks is a statement, and so is the one behind it.
LEMMA BehindKeyword ==
  ASSUME NEW s \in Seq(Statement), BodiesPlain(s), NEW q \in DOMAIN s, s[q].op \in Blocks
  PROVE  q \in Statements(s) /\ AtStatement(s, q)
<1>1. s[q].op \notin {"plain", "marker", "endscript"} /\ s[q].op \notin {"here", "script"}
  BY DEF Blocks
<1>2. q \in Statements(s)
  BY <1>1, KeywordIsStatement
<1>3. q < Len(s) => q + 1 \in Statements(s)
  BY <1>1, <1>2, StatementNext
<1> QED
  BY <1>2, <1>3 DEF AtStatement

\* Every jump of a well formed script leads to a statement.
LEMMA JumpTargets ==
  ASSUME NEW s \in Seq(Statement), Sound(s), LeaveBeforeBlocks(s), WellFormed(s),
         NEW k \in Statements(s)
  PROVE  /\ s[k].op \in Openers => AtStatement(s, EndOf(s, k))
         /\ s[k].op = "if" /\ ElsesOf(s, k) # {} =>
              First(ElsesOf(s, k)) # 0 /\ AtStatement(s, First(ElsesOf(s, k)))
         /\ s[k].op = "else" => AtStatement(s, EndOf(s, OpenerOf(s, k)))
         /\ s[k].op = "endwhile" => OpenerOf(s, k) \in Statements(s)
         /\ s[k].op \in {"here", "script"} =>
              BodyEnd(s, k) # 0 /\ AtStatement(s, BodyEnd(s, k))
         /\ s[k].op \in Leaves => AtStatement(s, EndLeft(s, k, s[k].arg))
<1>1. /\ k \in DOMAIN s /\ BodiesPlain(s) /\ LeavesSomething(s)
      /\ BlocksWellFormed(s) /\ StatementsWellFormed(s)
  BY DEF Sound, WellFormed, Statements
<1>2. Closers \subseteq Blocks /\ Openers \subseteq Blocks /\ "else" \in Blocks
  BY DEF Closers, Openers, Blocks
<1>3. ASSUME NEW i \in DOMAIN s, s[i].op \in Openers
      PROVE  AtStatement(s, EndOf(s, i))
  <2>1. EndOf(s, i) \in DOMAIN s /\ s[EndOf(s, i)].op \in Closers
    BY <1>1, <1>3, BlockFacts
  <2> QED
    BY <1>1, <1>2, <2>1, BehindKeyword
<1>4. ASSUME s[k].op = "if", ElsesOf(s, k) # {}
      PROVE  First(ElsesOf(s, k)) # 0 /\ AtStatement(s, First(ElsesOf(s, k)))
  <2>1. PICK x \in ElsesOf(s, k) : TRUE
    BY <1>4
  <2>2. x \in Nat /\ x \in DOMAIN s /\ s[x].op = "else" /\ First(ElsesOf(s, k)) = x
    BY <1>1, <1>4, <2>1, ElsesFacts
  <2>3. AtStatement(s, x)
    BY <1>1, <1>2, <2>2, BehindKeyword
  <2>4. x # 0
    BY <2>2, LinesOf
  <2> QED
    BY <2>2, <2>3, <2>4
<1>5. ASSUME s[k].op = "else" PROVE AtStatement(s, EndOf(s, OpenerOf(s, k)))
  <2>1. PICK i \in Around(s, k) : s[i].op = "if" /\ ElsesOf(s, i) = {k}
    BY <1>1, <1>5, ElseBelongs
  <2>2. i \in DOMAIN s /\ k \in ElsesOf(s, i)
    BY <1>1, <2>1, AroundFacts
  <2>3. OpenerOf(s, k) = i
    BY <1>1, <2>1, <2>2, ElseOpener
  <2>4. s[i].op \in Openers
    BY <2>1 DEF Openers
  <2> QED
    BY <1>3, <2>2, <2>3, <2>4
<1>6. ASSUME s[k].op = "endwhile" PROVE OpenerOf(s, k) \in Statements(s)
  <2>1. s[k].op \in Closers
    BY <1>6 DEF Closers
  <2>2. PICK i \in 1 .. k : s[i].op \in Openers /\ EndOf(s, i) = k
    BY <1>1, <2>1 DEF BlocksWellFormed
  <2>3. i \in DOMAIN s
    BY <1>1, LinesOf
  <2>4. OpenerOf(s, k) = i
    BY <1>1, <2>2, <2>3, EndOpener
  <2> QED
    BY <1>1, <1>2, <2>2, <2>3, <2>4, BehindKeyword
<1>7. ASSUME s[k].op \in {"here", "script"}
      PROVE  BodyEnd(s, k) # 0 /\ AtStatement(s, BodyEnd(s, k))
  <2>1. BodyEnd(s, k) # 0
    BY <1>1, <1>7 DEF StatementsWellFormed
  <2>2. BodyEnd(s, k) < Len(s) => BodyEnd(s, k) + 1 \in Statements(s)
    BY <1>1, <2>1, StatementAfter
  <2> QED
    BY <2>1, <2>2 DEF AtStatement
<1>8. ASSUME s[k].op \in Leaves PROVE AtStatement(s, EndLeft(s, k, s[k].arg))
  <2>1. LeaveEnds(s, k + 1, s[k].arg) # {}
    BY <1>1, <1>8, StatementPasses DEF Passes
  <2>2. /\ EndLeft(s, k, s[k].arg) \in DOMAIN s
        /\ s[EndLeft(s, k, s[k].arg)].op \in Closers
    BY <1>1, <1>8, <2>1, LeaveJumps
  <2> QED
    BY <1>1, <1>2, <2>2, BehindKeyword
<1> QED
  BY <1>1, <1>3, <1>4, <1>5, <1>6, <1>7, <1>8

\* A step of the run pass goes to a successor of the statement.
Follows == index' + 1 \in Structure!Successors(Line) /\ AtStatement(lines, index')

\* Every handler of the run moves to a successor that the language allows, or
\* ends the run as a statement may.
LEMMA RunStep ==
  ASSUME TypeOK, Sound(lines), LeaveBeforeBlocks(lines), WellFormed(lines),
         AtStatement(lines, index), TablesRight, phase = "run", RunInv, tested,
         RunStatement \/ HereDocument \/ HereDocumentWithoutMarker
  PROVE  /\ phase' = "run" => Follows
         /\ phase' = "done" => lines[Line].op \in Structure!MayFail
<1>1. index < Len(lines) /\ lines' = lines
  BY DEF RunStatement, RunPlain, RunFails, RunExit, RunIf, RunWhile, RunWhileEnter,
         RunJump, RunLeaveIf, RunLeaveIfStay, RunEndWhile, RunEndWhileWithoutEntry,
         RunWithoutEntry, HereDocument, HereDocumentWithoutMarker, At, Undefined
<1>2. /\ lines \in Seq(Statement) /\ Line \in Nat /\ Len(lines) \in Nat
      /\ Line \in DOMAIN lines /\ lines[index + 1] = lines[Line]
      /\ Line \in Statements(lines) /\ Line <= Len(lines)
  BY <1>1, LineFacts
<1>3. BodiesPlain(lines) /\ LeavesSomething(lines) /\ Stored(Line)
  BY <1>2 DEF Sound, RunInv
<1>4. Passes(lines, Line)
  BY <1>2, <1>3, StatementPasses
<1>5. lines[Line].op \notin {"here", "script"} => AtStatement(lines, Line)
  BY <1>2, StatementNext DEF AtStatement
<1>6. /\ \A k \in DOMAIN ifData : IfRight(lines, k, ifData[k])
      /\ \A k \in DOMAIN singleEnd : JumpRight(lines, k, singleEnd[k])
  BY DEF TablesRight
<1>7. CASE RunPlain
  <2>1. /\ lines[Line].op \in {"plain", "endscript", "endif"}
        /\ index' = Line /\ phase' = phase
    BY <1>2, <1>7 DEF RunPlain, At
  <2> QED
    BY <1>5, <2>1, SuccessorsOf DEF Follows
<1>8. CASE RunFails
  <2>1. /\ lines[Line].op \in {"plain", "bad", "marker", "if", "while", "leave", "leaveif",
                               "exit", "abort"}
        /\ phase' = "done"
    BY <1>2, <1>8 DEF RunFails, At, Leaves, Stops
  <2>2. lines[Line].op \notin {"bad", "marker"}
    BY <1>4 DEF Passes
  <2> QED
    BY <2>1, <2>2 DEF Structure!MayFail
<1>9. CASE RunExit
  <2>1. lines[Line].op = "exit" /\ index' = Len(lines) /\ phase' = phase
    BY <1>2, <1>9 DEF RunExit, At
  <2>2. AtStatement(lines, Len(lines))
    BY <1>2 DEF AtStatement
  <2> QED
    BY <2>1, <2>2, SuccessorsOf DEF Follows
<1>10. CASE RunIf
  <2>1. /\ lines[Line].op = "if" /\ Line \in DOMAIN ifData /\ phase' = phase
        /\ index' \in {Line, IF ifData[Line].elseLine = 0 THEN ifData[Line].endLine
                                                        ELSE ifData[Line].elseLine}
    BY <1>2, <1>10 DEF RunIf, At
  <2>2. IfRight(lines, Line, ifData[Line])
    BY <1>6, <2>1
  <2>3. /\ AtStatement(lines, EndOf(lines, Line))
        /\ ElsesOf(lines, Line) # {} =>
             /\ First(ElsesOf(lines, Line)) # 0
             /\ AtStatement(lines, First(ElsesOf(lines, Line)))
    <3>1. lines[Line].op \in Openers
      BY <2>1 DEF Openers
    <3> QED
      BY <1>2, <2>1, <3>1, JumpTargets
  <2>4. index' = Line \/ index' = IF ElsesOf(lines, Line) = {} THEN EndOf(lines, Line)
                                  ELSE First(ElsesOf(lines, Line))
    BY <2>1, <2>2, <2>3 DEF IfRight
  <2>5. AtStatement(lines, index')
    BY <1>5, <2>1, <2>3, <2>4
  <2>6. index' + 1 \in {Line + 1, IF ElsesOf(lines, Line) = {} THEN EndOf(lines, Line) + 1
                                  ELSE First(ElsesOf(lines, Line)) + 1}
    BY <2>4
  <2> QED
    BY <2>1, <2>5, <2>6, SuccessorsOf DEF Follows
<1>11. CASE RunWhile \/ RunWhileEnter
  <2>1. /\ lines[Line].op = "while" /\ phase' = phase
        /\ index' = Line \/ (Line \in DOMAIN singleEnd /\ index' = singleEnd[Line])
    BY <1>2, <1>11 DEF RunWhile, RunWhileEnter, At
  <2>2. index' = Line \/ index' = EndOf(lines, Line)
    BY <1>6, <2>1 DEF JumpRight
  <2>3. lines[Line].op \in Openers
    BY <2>1 DEF Openers
  <2>4. AtStatement(lines, index')
    BY <1>2, <1>5, <2>1, <2>2, <2>3, JumpTargets
  <2> QED
    BY <2>1, <2>2, <2>4, SuccessorsOf DEF Follows
<1>12. CASE RunJump
  <2>1. /\ lines[Line].op \in {"else", "leave", "script"} /\ phase' = phase
        /\ Line \in DOMAIN singleEnd /\ index' = singleEnd[Line]
    BY <1>2, <1>12 DEF RunJump, At
  <2>2. JumpRight(lines, Line, index')
    BY <1>6, <2>1
  <2>3. CASE lines[Line].op = "else"
    <3>1. index' = EndOf(lines, OpenerOf(lines, Line))
      BY <2>2, <2>3 DEF JumpRight
    <3>2. AtStatement(lines, index')
      BY <1>2, <2>3, <3>1, JumpTargets
    <3>3. Structure!Successors(Line) = {index' + 1}
      BY <2>3, <3>1, SuccessorsOf
    <3> QED
      BY <2>1, <3>2, <3>3 DEF Follows
  <2>4. CASE lines[Line].op = "leave"
    <3>1. index' = EndLeft(lines, Line, lines[Line].arg) /\ lines[Line].op \in Leaves
      BY <2>2, <2>4 DEF JumpRight, Leaves
    <3>2. AtStatement(lines, index')
      BY <1>2, <2>4, <3>1, JumpTargets
    <3>3. Structure!Successors(Line) = {index' + 1}
      BY <2>4, <3>1, SuccessorsOf
    <3> QED
      BY <2>1, <3>2, <3>3 DEF Follows
  <2>5. CASE lines[Line].op = "script"
    <3>1. index' = BodyEnd(lines, Line)
      BY <2>2, <2>5 DEF JumpRight
    <3>2. AtStatement(lines, index')
      BY <1>2, <2>5, <3>1, JumpTargets
    <3>3. Structure!Successors(Line) = {index' + 1}
      BY <2>5, <3>1, SuccessorsOf
    <3> QED
      BY <2>1, <3>2, <3>3 DEF Follows
  <2> QED
    BY <2>1, <2>3, <2>4, <2>5
<1>13. CASE RunLeaveIf \/ RunLeaveIfStay
  <2>1. /\ lines[Line].op = "leaveif" /\ phase' = phase
        /\ index' = Line \/ (Line \in DOMAIN singleEnd /\ index' = singleEnd[Line])
    BY <1>2, <1>13 DEF RunLeaveIf, RunLeaveIfStay, At
  <2>2. lines[Line].op \in Leaves
    BY <2>1 DEF Leaves
  <2>3. index' = Line \/ index' = EndLeft(lines, Line, lines[Line].arg)
    BY <1>6, <2>1, <2>2 DEF JumpRight
  <2>4. AtStatement(lines, index')
    BY <1>2, <1>5, <2>1, <2>2, <2>3, JumpTargets
  <2> QED
    BY <2>1, <2>3, <2>4, SuccessorsOf DEF Follows
<1>14. CASE RunEndWhile
  <2>1. /\ lines[Line].op = "endwhile" /\ phase' = phase
        /\ Line \in DOMAIN singleEnd /\ index' = singleEnd[Line]
    BY <1>2, <1>14 DEF RunEndWhile, At
  <2>2. index' + 1 = OpenerOf(lines, Line)
    BY <1>6, <2>1 DEF JumpRight
  <2>3. OpenerOf(lines, Line) \in Statements(lines)
    BY <1>2, <2>1, JumpTargets
  <2> QED
    BY <2>1, <2>2, <2>3, SuccessorsOf DEF Follows, AtStatement
<1>15. CASE RunEndWhileWithoutEntry \/ RunWithoutEntry
  BY <1>2, <1>3, <1>15 DEF RunEndWhileWithoutEntry, RunWithoutEntry, Undefined, Stored, At
<1>16. CASE HereDocument
  <2>1. /\ lines[Line].op = "here" /\ Markers # {} /\ index' = First(Markers)
    BY <1>2, <1>16 DEF HereDocument, At
  <2>2. index' = BodyEnd(lines, Line)
    BY <1>1, <1>3, <2>1, BodyFound DEF LastLine
  <2>3. AtStatement(lines, index')
    BY <1>2, <2>1, <2>2, JumpTargets
  <2> QED
    BY <2>1, <2>2, <2>3, SuccessorsOf DEF Follows, Structure!MayFail
<1>17. CASE HereDocumentWithoutMarker
  <2>1. /\ lines[Line].op = "here" /\ Markers = {}
    BY <1>2, <1>17 DEF HereDocumentWithoutMarker, At
  <2>2. BodyEnd(lines, Line) = 0
    BY <1>1, <1>3, <2>1, BodyFound
  <2> QED
    BY <1>4, <2>1, <2>2 DEF Passes
<1> QED
  BY <1>7, <1>8, <1>9, <1>10, <1>11, <1>12, <1>13, <1>14, <1>15, <1>16, <1>17 DEF RunStatement

------------------------------------------------------------------------------
(* The refinement *)

\* No restart after a failed check, and scripts that check() can handle.
Handled == ~ Retry /\ \A s \in Scripts : Sound(s) /\ LeaveBeforeBlocks(s)

RefinementInv ==
  /\ lines \in Scripts
  /\ ~ resumed
  /\ phase = "idle" => known = {}
  /\ phase = "check" => CheckInv
  /\ phase \in {"run", "done"} => WellFormed(lines)
  /\ phase = "run" => AtStatement(lines, index)
  /\ WellFormed(lines) => TablesRight

\* The phases seen from outside, before and behind a step.
LEMMA StatusIs ==
  /\ phase \in {"idle", "check"} => Status = "ready"
  /\ phase = "run" => Status = "running"
  /\ phase = "done" => Status = "finished"
  /\ phase = "failed" => Status = "rejected"
BY DEF Status

LEMMA StatusBecomes ==
  /\ phase' \in {"idle", "check"} => Status' = "ready"
  /\ phase' = "run" => Status' = "running"
  /\ phase' = "done" => Status' = "finished"
  /\ phase' = "failed" => Status' = "rejected"
BY DEF Status

\* What a step of each kind is in StructuredScript.
LEMMA TestGoesOn ==
  ASSUME phase \in {"idle", "check"}, phase' \in {"idle", "check"}, lines' = lines
  PROVE  UNCHANGED Structure!svars
BY StatusIs, StatusBecomes DEF Structure!svars

LEMMA TestAccepts ==
  ASSUME phase = "check", phase' = "run", index' = 0, lines' = lines, WellFormed(lines)
  PROVE  Structure!Accept
<1>1. Status = "ready" /\ Status' = "running" /\ Structure!WellFormed(lines)
  BY StatusIs, StatusBecomes, SameWellFormed
<1> QED
  BY <1>1 DEF Structure!Accept

LEMMA TestRejects ==
  ASSUME phase = "check", phase' = "failed", lines' = lines, ~ WellFormed(lines)
  PROVE  Structure!Reject
<1>1. Status = "ready" /\ Status' = "rejected" /\ ~ Structure!WellFormed(lines)
  BY StatusIs, StatusBecomes, SameWellFormed
<1> QED
  BY <1>1 DEF Structure!Reject

LEMMA RunGoesOn ==
  ASSUME TypeOK, phase = "run", phase' = "run", lines' = lines, index < Len(lines), Follows
  PROVE  Structure!Step
<1>1. Status = "running" /\ Status' = "running"
  BY StatusIs, StatusBecomes
<1>2. Line = index + 1 /\ index + 1 <= Len(lines)
  BY LineFacts
<1> QED
  BY <1>1, <1>2 DEF Structure!Step, Follows

LEMMA RunStops ==
  ASSUME TypeOK, phase = "run", phase' = "done", lines' = lines,
         index >= Len(lines) \/ lines[index + 1].op \in Structure!MayFail
  PROVE  Structure!Finish
<1>1. Status = "running" /\ Status' = "finished"
  BY StatusIs, StatusBecomes
<1>2. index >= Len(lines) => index + 1 > Len(lines)
  BY TypeFacts
<1> QED
  BY <1>1, <1>2 DEF Structure!Finish

LEMMA RunsAgain ==
  ASSUME phase = "done", phase' = "run", index' = 0, lines' = lines
  PROVE  Structure!Again
<1>1. Status = "finished" /\ Status' = "running"
  BY StatusIs, StatusBecomes
<1> QED
  BY <1>1 DEF Structure!Again

\* The initial states are initial states of StructuredScript.
LEMMA RefinementInit ==
  ASSUME Init
  PROVE  RefinementInv /\ Structure!Init
<1>1. lines \in Scripts /\ ~ resumed /\ phase = "idle" /\ known = {}
  BY DEF Init
<1>2. DOMAIN ifData = {} /\ DOMAIN singleEnd = {}
  BY DEF Init
<1>3. TablesRight
  BY <1>2 DEF TablesRight
<1>4. RefinementInv
  BY <1>1, <1>3 DEF RefinementInv
<1>5. Structure!Init
  BY <1>1, StatusIs DEF Structure!Init
<1> QED
  BY <1>4, <1>5

\* Every step is one of StructuredScript or leaves its state alone.
LEMMA RefinementNext ==
  ASSUME Handled, FlowInv, RefinementInv, Next
  PROVE  RefinementInv' /\ [Structure!Next]_(Structure!svars)
<1>1. /\ TypeOK /\ PassInv /\ lines \in Scripts /\ ~ resumed
      /\ Sound(lines) /\ LeaveBeforeBlocks(lines)
      /\ phase # "undefined" /\ RunInv
  BY DEF FlowInv, RefinementInv, Handled
<1>2. FlowInv' /\ TypeOK'
  BY FlowNext DEF FlowInv
<1>3. CASE StartCheck
  <2>1. /\ phase = "idle" /\ phase' = "check" /\ ~ resumed' /\ index = 0
        /\ openBlocks = <<>> /\ known = {}
        /\ UNCHANGED <<lines, index, tables, openBlocks, known>>
    BY <1>1, <1>3 DEF StartCheck, Handled, PassInv, RefinementInv
  <2>2. CheckInv
    BY <1>1, <2>1, CheckBegins
  <2>3. CheckInv'
    BY <2>1, <2>2 DEF CheckInv
  <2>4. WellFormed(lines) => TablesRight'
    BY <2>1 DEF RefinementInv, TablesRight, tables
  <2>5. RefinementInv'
    BY <1>1, <2>1, <2>3, <2>4 DEF RefinementInv
  <2> QED
    BY <2>1, <2>5, TestGoesOn
<1>4. CASE EndCheck
  <2>1. /\ phase = "check" /\ phase' = "run" /\ index >= Len(lines) /\ openBlocks = <<>>
        /\ index' = 0 /\ UNCHANGED <<lines, tables, resumed>>
    BY <1>4 DEF EndCheck
  <2>2. WellFormed(lines)
    BY <1>1, <2>1, CheckDone DEF RefinementInv
  <2>3. TablesRight'
    BY <2>1, <2>2 DEF RefinementInv, TablesRight, tables
  <2>4. AtStatement(lines, 0)
    BY <1>1, FirstStatement DEF TypeOK
  <2>5. RefinementInv'
    BY <1>1, <2>1, <2>2, <2>3, <2>4 DEF RefinementInv
  <2>6. Structure!Accept
    BY <2>1, <2>2, TestAccepts
  <2> QED
    BY <2>5, <2>6 DEF Structure!Next
<1>5. CASE EndCheckOpen
  <2>1. /\ phase = "check" /\ phase' = "failed" /\ index >= Len(lines) /\ openBlocks # <<>>
        /\ UNCHANGED <<lines, tables, resumed>>
    BY <1>5 DEF EndCheckOpen
  <2>2. ~ WellFormed(lines)
    BY <1>1, <2>1, CheckDone DEF RefinementInv
  <2>3. RefinementInv'
    BY <1>1, <2>1, <2>2 DEF RefinementInv
  <2>4. Structure!Reject
    BY <2>1, <2>2, TestRejects
  <2> QED
    BY <2>3, <2>4 DEF Structure!Next
<1>6. CASE StartRun
  <2>1. phase = "done" /\ phase' = "run" /\ index' = 0 /\ UNCHANGED <<lines, tables, resumed>>
    BY <1>6 DEF StartRun
  <2>2. WellFormed(lines) /\ TablesRight
    BY <2>1 DEF RefinementInv
  <2>3. TablesRight'
    BY <2>1, <2>2 DEF TablesRight, tables
  <2>4. AtStatement(lines, 0)
    BY <1>1, FirstStatement DEF TypeOK
  <2>5. RefinementInv'
    BY <1>1, <2>1, <2>2, <2>3, <2>4 DEF RefinementInv
  <2>6. Structure!Again
    BY <2>1, RunsAgain
  <2> QED
    BY <2>5, <2>6 DEF Structure!Next
<1>7. CASE EndRun
  <2>1. phase = "run" /\ phase' = "done" /\ index >= Len(lines)
        /\ UNCHANGED <<lines, tables, resumed>>
    BY <1>7 DEF EndRun
  <2>2. WellFormed(lines) /\ TablesRight
    BY <2>1 DEF RefinementInv
  <2>3. TablesRight'
    BY <2>1, <2>2 DEF TablesRight, tables
  <2>4. RefinementInv'
    BY <1>1, <2>1, <2>2, <2>3 DEF RefinementInv
  <2>5. Structure!Finish
    BY <1>1, <2>1, RunStops
  <2> QED
    BY <2>4, <2>5 DEF Structure!Next
<1>8. CASE CheckStatement \/ ((HereDocument \/ HereDocumentWithoutMarker) /\ phase = "check")
  <2>1. /\ phase = "check" /\ UNCHANGED <<lines, resumed>>
        /\ phase' \in {"check", "failed", "undefined"}
    BY <1>8, StepPhases
  <2>2. phase' # "undefined"
    BY <1>1, <1>2, <2>1 DEF FlowInv
  <2>3. CheckInv
    BY <2>1 DEF RefinementInv
  <2>4. (phase' = "check" => CheckInv') /\ (phase' = "failed" => ~ WellFormed(lines))
    BY <1>1, <1>8, <2>1, <2>3, CheckStep
  <2>5. ASSUME WellFormed(lines) PROVE TablesRight'
    <3>1. TablesRight
      BY <2>5 DEF RefinementInv
    <3>2. CASE CheckStatement
      BY <1>1, <2>5, <3>1, <3>2, TablesStep
    <3>3. CASE HereDocument \/ HereDocumentWithoutMarker
      <4>1. UNCHANGED tables
        BY <3>3 DEF HereDocument, HereDocumentWithoutMarker
      <4> QED
        BY <2>1, <3>1, <4>1 DEF TablesRight, tables
    <3> QED
      BY <1>8, <3>2, <3>3
  <2>6. RefinementInv'
    BY <1>1, <2>1, <2>2, <2>4, <2>5 DEF RefinementInv
  <2>7. CASE phase' = "check"
    BY <2>1, <2>6, <2>7, TestGoesOn
  <2>8. CASE phase' = "failed"
    <3>1. Structure!Reject
      BY <2>1, <2>4, <2>8, TestRejects
    <3> QED
      BY <2>6, <3>1 DEF Structure!Next
  <2> QED
    BY <2>1, <2>2, <2>7, <2>8
<1>9. CASE RunStatement \/ ((HereDocument \/ HereDocumentWithoutMarker) /\ phase = "run")
  <2>1. /\ phase = "run" /\ UNCHANGED <<lines, resumed>> /\ tested
        /\ phase' \in {"run", "done", "undefined"}
    BY <1>1, <1>9, StepPhases DEF PassInv
  <2>2. phase' # "undefined" /\ UNCHANGED tables
    BY <1>1, <1>9, <2>1, RunTracks
  <2>3. WellFormed(lines) /\ TablesRight /\ AtStatement(lines, index)
    BY <2>1 DEF RefinementInv
  <2>4. TablesRight'
    BY <2>1, <2>2, <2>3 DEF TablesRight, tables
  <2>5. /\ phase' = "run" => Follows
        /\ phase' = "done" => lines[Line].op \in Structure!MayFail
    BY <1>1, <1>9, <2>1, <2>3, RunStep
  <2>6. RefinementInv'
    BY <1>1, <2>1, <2>2, <2>3, <2>4, <2>5 DEF RefinementInv, Follows
  <2>7. index < Len(lines) /\ lines[index + 1] = lines[Line]
    BY <1>9 DEF RunStatement, RunPlain, RunFails, RunExit, RunIf, RunWhile, RunWhileEnter,
         RunJump, RunLeaveIf, RunLeaveIfStay, RunEndWhile, RunEndWhileWithoutEntry,
         RunWithoutEntry, HereDocument, HereDocumentWithoutMarker, At, Undefined, Line
  <2>8. CASE phase' = "run"
    <3>1. Structure!Step
      BY <1>1, <2>1, <2>5, <2>7, <2>8, RunGoesOn
    <3> QED
      BY <2>6, <3>1 DEF Structure!Next
  <2>9. CASE phase' = "done"
    <3>1. Structure!Finish
      BY <1>1, <2>1, <2>5, <2>7, <2>9, RunStops
    <3> QED
      BY <2>6, <3>1 DEF Structure!Next
  <2> QED
    BY <2>1, <2>2, <2>8, <2>9
<1>10. HereDocument \/ HereDocumentWithoutMarker => phase = "check" \/ phase = "run"
  BY StepPhases
<1> QED
  BY <1>3, <1>4, <1>5, <1>6, <1>7, <1>8, <1>9, <1>10 DEF Next

\* A step that changes nothing changes nothing there.
LEMMA RefinementStutters ==
  ASSUME RefinementInv, UNCHANGED vars
  PROVE  RefinementInv' /\ UNCHANGED Structure!svars
<1>1. /\ lines' = lines /\ phase' = phase /\ index' = index /\ ifData' = ifData
      /\ singleEnd' = singleEnd /\ openBlocks' = openBlocks /\ known' = known
      /\ resumed' = resumed
  BY DEF vars
<1>2. RefinementInv'
  BY <1>1 DEF RefinementInv, CheckInv, TablesRight
<1>3. Status' = Status
  BY <1>1 DEF Status
<1> QED
  BY <1>1, <1>2, <1>3 DEF Structure!svars

\* A script runs if and only if it is well formed, and then its statements follow each
\* other as its blocks say (Script::check and Script::run, with their jump tables and
\* the stack of blocks, against doc/scripting/basic_statements.md), for scripts of any
\* length and any nesting: provided that they are Sound, that no block begins between a
\* leave and the end it leaves to, and that a script is not started again after its
\* check failed.  MCScriptFlow shows what happens without these provisions.
THEOREM SpecFollowsStructure ==
  ASSUME ~ Retry, \A s \in Scripts : Sound(s) /\ LeaveBeforeBlocks(s)
  PROVE  Spec => FollowsStructure
<1>1. Handled
  BY DEF Handled
<1>2. Init => RefinementInv /\ Structure!Init
  BY RefinementInit
<1>3. FlowInv /\ RefinementInv /\ [Next]_vars =>
        RefinementInv' /\ [Structure!Next]_(Structure!svars)
  BY <1>1, RefinementNext, RefinementStutters
<1> QED
  BY <1>2, <1>3, FlowInvariant, PTL DEF Spec, FollowsStructure, Structure!Spec

==============================================================================
