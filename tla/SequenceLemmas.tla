---------------------------- MODULE SequenceLemmas ----------------------------
(***************************************************************************)
(* Lemmas that the proofs about texts share: least elements of sets of     *)
(* numbers, pieces of sequences, and FlattenSeq of the community modules.  *)
(***************************************************************************)
EXTENDS Integers, Sequences, SequencesExt, FiniteSetTheorems, SequenceTheorems,
        WellFoundedInduction, TLAPS

------------------------------------------------------------------------------
(* Least elements.  Inductions over lines and blocks are stated with them: a *)
(* set of counterexamples would have a least one.                            *)

\* Every non-empty set of natural numbers has a least element.
LEMMA HasLeast ==
  ASSUME NEW S, S \subseteq Nat, S # {}
  PROVE  \E q \in S : \A k \in S : q <= k
<1> DEFINE T == {0 .. q : q \in S}
<1>1. T \subseteq FiniteSubsetsOf(Nat) /\ T # {}
  <2>1. ASSUME NEW q \in S PROVE 0 .. q \in SUBSET Nat /\ IsFiniteSet(0 .. q)
    BY FS_Interval
  <2> QED
    BY <2>1 DEF FiniteSubsetsOf
<1>2. PICK x \in T : \A y \in T : ~ (<<y, x>> \in StrictSubsetOrdering(Nat))
  BY <1>1, FS_StrictSubsetOrderingWellFounded, WFMin, Zenon
<1>3. PICK q \in S : x = 0 .. q
  OBVIOUS
<1>4. ASSUME NEW r \in S, r < q PROVE FALSE
  <2>1. 0 .. r \subseteq 0 .. q /\ 0 .. r # 0 .. q
    <3>1. q \in 0 .. q /\ q \notin 0 .. r
      BY <1>4
    <3> QED
      BY <1>4, <3>1
  <2>2. <<0 .. r, 0 .. q>> \in StrictSubsetOrdering(Nat)
    BY <2>1 DEF StrictSubsetOrdering
  <2> QED
    BY <2>2, <1>2, <1>3
<1>5. q \in S /\ \A r \in S : q <= r
  BY <1>4
<1> QED
  BY <1>5

------------------------------------------------------------------------------
(* Pieces of sequences. *)

LEMMA PieceFacts ==
  ASSUME NEW S, NEW s \in Seq(S), NEW a \in Nat, a >= 1, NEW b \in Nat, b <= Len(s)
  PROVE  /\ SubSeq(s, a, b) \in Seq(S)
         /\ Len(SubSeq(s, a, b)) = IF a <= b THEN b - a + 1 ELSE 0
         /\ \A i \in 1 .. Len(SubSeq(s, a, b)) : SubSeq(s, a, b)[i] = s[a + i - 1]
OBVIOUS

LEMMA PieceEmpty ==
  ASSUME NEW S, NEW s \in Seq(S), NEW a \in Nat, a >= 1, NEW b \in Nat, b <= Len(s), b < a
  PROVE  SubSeq(s, a, b) = <<>>
BY PieceFacts

\* Two pieces that follow each other are one.
LEMMA PiecesJoin ==
  ASSUME NEW S, NEW s \in Seq(S), NEW a \in Nat, a >= 1, NEW b \in Nat, NEW c \in Nat,
         a <= b + 1, b <= c, c <= Len(s)
  PROVE  SubSeq(s, a, b) \o SubSeq(s, b + 1, c) = SubSeq(s, a, c)
<1> DEFINE x == SubSeq(s, a, b)
           y == SubSeq(s, b + 1, c)
           z == SubSeq(s, a, c)
<1>1. x \in Seq(S) /\ y \in Seq(S) /\ z \in Seq(S)
  BY PieceFacts
<1>2. Len(x) = b - a + 1 /\ Len(y) = c - b /\ Len(z) = c - a + 1
  BY PieceFacts
<1>3. \A i \in 1 .. Len(z) : (x \o y)[i] = z[i]
  BY <1>1, <1>2, PieceFacts
<1>4. x \o y \in Seq(S) /\ Len(x \o y) = Len(z)
  BY <1>1, <1>2
<1> QED
  BY <1>1, <1>3, <1>4, SeqEqual

\* A piece of a piece.
LEMMA PieceOfPiece ==
  ASSUME NEW S, NEW s \in Seq(S), NEW a \in Nat, a >= 1, NEW b \in Nat, b <= Len(s),
         NEW c \in Nat, c >= 1, NEW d \in Nat, d <= b - a + 1, c <= d + 1
  PROVE  SubSeq(SubSeq(s, a, b), c, d) = SubSeq(s, a + c - 1, a + d - 1)
<1> DEFINE x == SubSeq(s, a, b)
           y == SubSeq(x, c, d)
           z == SubSeq(s, a + c - 1, a + d - 1)
<1>1. x \in Seq(S) /\ Len(x) = (IF a <= b THEN b - a + 1 ELSE 0)
      /\ \A i \in 1 .. Len(x) : x[i] = s[a + i - 1]
  BY PieceFacts
<1>2. y \in Seq(S) /\ Len(y) = d - c + 1 /\ \A i \in 1 .. Len(y) : y[i] = x[c + i - 1]
  <2> HIDE DEF x
  <2>1. d <= Len(x)
    BY <1>1
  <2> QED
    BY <1>1, <2>1, PieceFacts
<1>3. z \in Seq(S) /\ Len(z) = d - c + 1
      /\ \A i \in 1 .. Len(z) : z[i] = s[a + c - 1 + i - 1]
  BY PieceFacts
<1>4. \A i \in 1 .. Len(z) : y[i] = z[i]
  <2> TAKE i \in 1 .. Len(z)
  <2> HIDE DEF x, y, z
  <2>1. c + i - 1 \in 1 .. Len(x)
    BY <1>1, <1>3
  <2> QED
    BY <1>1, <1>2, <1>3, <2>1
<1> HIDE DEF x, y, z
<1>5. y = z
  BY <1>2, <1>3, <1>4, SeqEqual
<1> QED
  BY <1>5 DEF x, y, z

------------------------------------------------------------------------------
(* FlattenSeq: its recursive function exists, and what it computes. *)

\* There is a function that is built from its own value before.
LEMMA FlattenExists ==
  ASSUME NEW s, NEW n \in Nat
  PROVE  \E f : f = [i \in 1 .. n |-> IF i = 1 THEN s[i] ELSE f[i - 1] \o s[i]]
<1> DEFINE Is(f, m) == f = [i \in 1 .. m |-> IF i = 1 THEN s[i] ELSE f[i - 1] \o s[i]]
           Bad == {m \in Nat : ~ \E f : Is(f, m)}
<1>1. SUFFICES ASSUME Bad # {} PROVE FALSE
  OBVIOUS
<1>2. PICK m \in Bad : \A k \in Bad : m <= k
  BY <1>1, HasLeast
<1>3. m # 0
  <2>1. Is([i \in 1 .. 0 |-> 0], 0)
    OBVIOUS
  <2> QED
    BY <2>1, <1>2
<1>4. m - 1 \in Nat /\ ~ (m <= m - 1)
  BY <1>2, <1>3
<1>5. PICK f : Is(f, m - 1)
  <2>1. m - 1 \notin Bad
    <3> HIDE DEF Bad
    <3> QED
      BY <1>2, <1>4
  <2> QED
    BY <2>1, <1>4
<1> DEFINE g == [i \in 1 .. m |-> IF i < m THEN f[i]
                                  ELSE IF i = 1 THEN s[i] ELSE f[i - 1] \o s[i]]
<1>6. ASSUME NEW i \in 1 .. m
      PROVE  g[i] = IF i = 1 THEN s[i] ELSE g[i - 1] \o s[i]
  <2>1. CASE i = m
    BY <2>1, <1>2
  <2>2. CASE i < m
    <3>1. i \in 1 .. m - 1
      BY <2>2, <1>2
    <3>2. f[i] = IF i = 1 THEN s[i] ELSE f[i - 1] \o s[i]
      BY <3>1, <1>5
    <3>3. i # 1 => g[i - 1] = f[i - 1]
      BY <3>1, <1>2
    <3> QED
      BY <3>1, <3>2, <3>3, <2>2
  <2> QED
    BY <2>1, <2>2, <1>2
<1>7. Is(g, m)
  BY <1>6, Zenon
<1> QED
  BY <1>2, <1>7

\* The values of the function: what the first i sequences are together.
IsFlattening(f, s) ==
  /\ f[1] = s[1]
  /\ \A i \in 2 .. Len(s) : f[i] = f[i - 1] \o s[i]

LEMMA FlattenUnfolds ==
  ASSUME NEW s, NEW n \in Nat, Len(s) = n, n # 0
  PROVE  \E f : FlattenSeq(s) = f[n] /\ IsFlattening(f, s)
<1> DEFINE Is(h) == h = [i \in 1 .. n |-> IF i = 1 THEN s[i] ELSE h[i - 1] \o s[i]]
           f == CHOOSE h : Is(h)
<1>1. FlattenSeq(s) = f[n]
  BY DEF FlattenSeq
<1>2. Is(f)
  BY FlattenExists
<1> HIDE DEF f
<1>3. \A i \in 1 .. n : f[i] = IF i = 1 THEN s[i] ELSE f[i - 1] \o s[i]
  BY <1>2, Zenon
<1>4. f[1] = s[1]
  <2>1. 1 \in 1 .. n
    OBVIOUS
  <2> QED
    BY <1>3, <2>1, Zenon
<1>5. ASSUME NEW i \in 2 .. n PROVE f[i] = f[i - 1] \o s[i]
  <2>1. i \in 1 .. n /\ i # 1
    OBVIOUS
  <2> QED
    BY <1>3, <2>1, Zenon
<1> QED
  BY <1>1, <1>4, <1>5 DEF IsFlattening


\* What a flattening says of the first sequences depends on them alone.
LEMMA FlattenAgrees ==
  ASSUME NEW s, NEW t, NEW n \in Nat, Len(s) = n, Len(t) = n + 1,
         \A i \in 1 .. n : s[i] = t[i],
         NEW f, IsFlattening(f, s), NEW g, IsFlattening(g, t)
  PROVE  \A i \in 1 .. n : f[i] = g[i]
<1> DEFINE Bad == {i \in 1 .. n : f[i] # g[i]}
<1>1. SUFFICES ASSUME Bad # {} PROVE FALSE
  OBVIOUS
<1>2. PICK m \in Bad : \A k \in Bad : m <= k
  <2>1. Bad \subseteq Nat
    OBVIOUS
  <2> HIDE DEF Bad
  <2> QED
    BY <1>1, <2>1, HasLeast
<1>3. m \in 1 .. n /\ f[m] # g[m]
  BY <1>2
<1>4. m # 1
  BY <1>3 DEF IsFlattening
<1>5. m - 1 \in 1 .. n /\ m \in 2 .. Len(s) /\ m \in 2 .. Len(t)
  BY <1>3, <1>4
<1>6. f[m - 1] = g[m - 1]
  <2>1. m - 1 \notin Bad
    <3> HIDE DEF Bad
    <3> QED
      BY <1>2, <1>3, <1>5
  <2> QED
    BY <2>1, <1>5
<1>7. f[m] = f[m - 1] \o s[m] /\ g[m] = g[m - 1] \o t[m]
  BY <1>5 DEF IsFlattening
<1> QED
  BY <1>3, <1>6, <1>7

LEMMA FlattenLonger ==
  ASSUME NEW s, NEW t, NEW n \in Nat, n # 0, Len(s) = n, Len(t) = n + 1,
         \A i \in 1 .. n : s[i] = t[i]
  PROVE  FlattenSeq(t) = FlattenSeq(s) \o t[n + 1]
<1>1. PICK f : FlattenSeq(s) = f[n] /\ IsFlattening(f, s)
  BY FlattenUnfolds
<1>2. PICK m \in Nat : m = n + 1
  OBVIOUS
<1>3. PICK g : FlattenSeq(t) = g[m] /\ IsFlattening(g, t)
  <2>1. Len(t) = m /\ m # 0
    BY <1>2
  <2> QED
    BY <2>1, FlattenUnfolds
<1>4. f[n] = g[n]
  <2>1. n \in 1 .. n
    OBVIOUS
  <2>2. \A i \in 1 .. n : f[i] = g[i]
    BY <1>1, <1>3, <2>1, FlattenAgrees
  <2> QED
    BY <2>1, <2>2
<1>5. g[m] = g[m - 1] \o t[m]
  <2>1. m \in 2 .. Len(t)
    BY <1>2
  <2> QED
    BY <1>3, <2>1, Zenon DEF IsFlattening
<1>6. m - 1 = n
  BY <1>2
<1> QED
  BY <1>1, <1>2, <1>3, <1>4, <1>5, <1>6

LEMMA FlattenOne ==
  ASSUME NEW s, Len(s) = 1
  PROVE  FlattenSeq(s) = s[1]
<1>1. PICK f : FlattenSeq(s) = f[1] /\ IsFlattening(f, s)
  <2>1. 1 \in Nat /\ 1 # 0
    OBVIOUS
  <2> QED
    BY <2>1, FlattenUnfolds
<1> QED
  BY <1>1 DEF IsFlattening

LEMMA FlattenAppend ==
  ASSUME NEW S, NEW s \in Seq(Seq(S)), NEW e \in Seq(S)
  PROVE  FlattenSeq(Append(s, e)) = FlattenSeq(s) \o e
<1>1. PICK t : t = Append(s, e)
  OBVIOUS
<1>2. PICK n : n = Len(s)
  OBVIOUS
<1>3. n \in Nat /\ Len(t) = n + 1 /\ t[n + 1] = e /\ \A i \in 1 .. n : s[i] = t[i]
  BY <1>1, <1>2, AppendProperties
<1>4. CASE n = 0
  <2>1. s = <<>>
    BY <1>2, <1>4, EmptySeq
  <2>2. FlattenSeq(s) = <<>>
    BY <2>1, EmptySeq DEF FlattenSeq
  <2>3. FlattenSeq(t) = e
    BY <1>3, <1>4, FlattenOne
  <2> QED
    BY <1>1, <2>2, <2>3, ConcatEmptySeq
<1>5. CASE n # 0
  <2>1. FlattenSeq(t) = FlattenSeq(s) \o t[n + 1]
    BY <1>2, <1>3, <1>5, FlattenLonger
  <2> QED
    BY <1>1, <1>3, <2>1
<1> QED
  BY <1>4, <1>5, <1>3

==============================================================================
