--------------------------- MODULE LineReaderProofs ----------------------------
(***************************************************************************)
(* Proofs about LineReader: its types, and that the block in memory is     *)
(* the part of the file before the file handle, for all files, all lengths *)
(* of the blocks and every order of the calls.  The second part proves     *)
(* from them that the lines delivered are those of the file (LineSource).  *)
(***************************************************************************)
EXTENDS LineReader, SequenceLemmas

------------------------------------------------------------------------------
\* Least returns the least element.
LEMMA LeastIsLeast ==
  ASSUME NEW S, S \subseteq Nat, S # {}
  PROVE  Least(S) \in S /\ \A k \in S : Least(S) <= k
BY HasLeast DEF Least

------------------------------------------------------------------------------
(* Arithmetic *)
LEMMA Divides ==
  ASSUME NEW b \in Nat, b > 0, NEW d \in Nat, d % b = 0
  PROVE \E m \in Nat : d = m * b
OBVIOUS

LEMMA Divided ==
  ASSUME NEW b \in Nat, b > 0, NEW m \in Nat
  PROVE (m * b) % b = 0
OBVIOUS

LEMMA Multiples ==
  ASSUME NEW b \in Nat, b > 0, NEW m \in Nat, NEW k \in Nat, k * b <= m * b, m * b < (k + 1) * b
  PROVE m = k
OBVIOUS

------------------------------------------------------------------------------
(* The blocks of a file that are read one behind the other. *)

\* The block b is the part of the file before p.
Follows(b, p) == Len(b) <= p /\ b = SubSeq(file, p - Len(b) + 1, p)

\* What is known of the state of the reading: the block before the handle holds the
\* part of the file before it, unless the cursor is null.
ReadingOK(r) ==
  /\ r \in [pos : 0 .. Len(file), block : Seq(Chars), cursor : Nat, line : Seq(Chars)]
  /\ r.cursor <= Len(r.block)
  /\ r.cursor # 0 => Follows(r.block, r.pos)

Constants == file \in Seq(Chars) /\ blockSize \in Nat \ {0} /\ remove \in BOOLEAN

\* The end of the block behind p.
BlockEnd(p) == Smaller(p + blockSize, Len(file))

LEMMA BlockFacts ==
  ASSUME Constants, NEW p \in Nat, p <= Len(file)
  PROVE  /\ BlockEnd(p) \in Nat /\ p <= BlockEnd(p) /\ BlockEnd(p) <= Len(file)
         /\ p < Len(file) => p < BlockEnd(p)
         /\ BlockAt(p) = SubSeq(file, p + 1, BlockEnd(p))
         /\ BlockAt(p) \in Seq(Chars)
         /\ Len(BlockAt(p)) = BlockEnd(p) - p
         /\ \A i \in 1 .. Len(BlockAt(p)) : BlockAt(p)[i] = file[p + i]
<1>1. /\ BlockEnd(p) \in Nat /\ p <= BlockEnd(p) /\ BlockEnd(p) <= Len(file)
      /\ p < Len(file) => p < BlockEnd(p)
  BY DEF BlockEnd, Smaller, Constants
<1>2. BlockAt(p) = SubSeq(file, p + 1, BlockEnd(p))
  BY DEF BlockAt, BlockEnd
<1> HIDE DEF BlockEnd
<1>3. /\ BlockAt(p) \in Seq(Chars)
      /\ Len(BlockAt(p)) = IF p + 1 <= BlockEnd(p) THEN BlockEnd(p) - (p + 1) + 1 ELSE 0
      /\ \A i \in 1 .. Len(BlockAt(p)) : BlockAt(p)[i] = file[p + 1 + i - 1]
  BY <1>1, <1>2, PieceFacts DEF Constants
<1>4. Len(BlockAt(p)) = BlockEnd(p) - p
  BY <1>1, <1>3
<1>5. \A i \in 1 .. Len(BlockAt(p)) : BlockAt(p)[i] = file[p + i]
  <2> TAKE i \in 1 .. Len(BlockAt(p))
  <2>1. p + 1 + i - 1 = p + i
    BY <1>1, <1>4
  <2> QED
    BY <1>3, <2>1
<1> QED
  BY <1>1, <1>2, <1>3, <1>4, <1>5

LEMMA ChoppedType ==
  ASSUME NEW part \in Seq(Chars)
  PROVE  /\ Chopped(part) \in Seq(Chars)
         /\ Chopped(part) = part \/ Chopped(part) = Front(part)
BY DEF Chopped, Front

\* readBlock() keeps what is known.
LEMMA FilledOK ==
  ASSUME Constants, NEW r, ReadingOK(r)
  PROVE  /\ ReadingOK(Filled(r))
         /\ Filled(r).line = r.line
         /\ r.cursor # 0 => Filled(r) = r
         /\ r.cursor = 0 =>
              /\ Filled(r).pos = BlockEnd(r.pos)
              /\ Filled(r).block = BlockAt(r.pos)
              /\ Filled(r).cursor = IF r.pos < Len(file) THEN 1 ELSE 0
<1>1. CASE r.cursor # 0
  BY <1>1 DEF Filled
<1>2. CASE r.cursor = 0
  <2> DEFINE b == BlockAt(r.pos)
             e == BlockEnd(r.pos)
             c == IF r.pos < Len(file) THEN 1 ELSE 0
  <2>1. r.pos \in Nat /\ r.pos <= Len(file) /\ Len(file) \in Nat
    BY DEF ReadingOK, Constants
  <2>2. b \in Seq(Chars) /\ b = SubSeq(file, r.pos + 1, e)
    BY <2>1, BlockFacts
  <2>3. Len(b) = e - r.pos /\ e \in Nat /\ r.pos <= e /\ e <= Len(file)
        /\ (r.pos < Len(file) => r.pos < e)
    BY <2>1, BlockFacts
  <2> HIDE DEF b, e
  <2>4. b = <<>> <=> Len(b) = 0
    <3>1. b \in Seq(Chars)
      BY <2>2
    <3> QED
      BY <3>1, EmptySeq
  <2>5. b = <<>> <=> ~ (r.pos < Len(file))
    BY <2>1, <2>3, <2>4
  <2>6. Filled(r) = [pos |-> r.pos + Len(b), block |-> b, cursor |-> c, line |-> r.line]
    BY <1>2, <2>5 DEF Filled, AfterReadBlock, b, ReadingOK
  <2>7. r.pos + Len(b) = e /\ e - Len(b) + 1 = r.pos + 1 /\ Len(b) <= e /\ e \in 0 .. Len(file)
    BY <2>1, <2>3
  <2>8. c \in Nat /\ c <= Len(b)
    BY <2>1, <2>3
  <2>9. Filled(r) = [pos |-> e, block |-> b, cursor |-> c, line |-> r.line]
    BY <2>6, <2>7
  <2>10. r.line \in Seq(Chars)
    BY DEF ReadingOK
  <2>11. Len(b) <= e /\ b = SubSeq(file, e - Len(b) + 1, e)
    BY <2>2, <2>7
  <2> HIDE DEF c
  <2>12. b \in Seq(Chars) /\ e \in 0 .. Len(file) /\ c \in Nat /\ c <= Len(b)
    BY <2>2, <2>7, <2>8
  <2>13. Follows(b, e)
    BY <2>11 DEF Follows
  <2>14. ReadingOK(Filled(r))
    BY <2>9, <2>10, <2>12, <2>13 DEF ReadingOK
  <2> QED
    BY <1>2, <2>9, <2>14 DEF b, c, e
<1> QED
  BY <1>1, <1>2


\* What a division leaves: the least number of blocks that cover d bytes.
LEMMA BlocksNeeded ==
  ASSUME NEW b \in Nat, b > 0, NEW d \in Nat
  PROVE  \E k \in Nat : d <= k * b /\ (k = 0 \/ (k - 1) * b < d)
<1> DEFINE S == {k \in Nat : d <= k * b}
<1>1. d \in S
  OBVIOUS
<1>2. PICK k \in S : \A j \in S : k <= j
  <2>1. S \subseteq Nat /\ S # {}
    BY <1>1
  <2> HIDE DEF S
  <2> QED
    BY <2>1, LeastIsLeast
<1>3. k = 0 \/ (k - 1) * b < d
  <2> SUFFICES ASSUME k # 0, ~ ((k - 1) * b < d) PROVE FALSE
    OBVIOUS
  <2>1. k - 1 \in Nat /\ (k - 1) * b \in Nat
    OBVIOUS
  <2>2. d <= (k - 1) * b
    BY <2>1
  <2> QED
    BY <1>2, <2>1, <2>2
<1> QED
  BY <1>3

OffsetsBefore(p, q) == {x \in Offsets(p) : x < q}

\* The number of offsets before the k-th one.
LEMMA OffsetCount ==
  ASSUME Constants, NEW p \in Nat, NEW n \in Nat, n = 0 \/ p + (n - 1) * blockSize < Len(file)
  PROVE  /\ IsFiniteSet(OffsetsBefore(p, p + n * blockSize))
         /\ Cardinality(OffsetsBefore(p, p + n * blockSize)) = n
<1> DEFINE b == blockSize
           Right(k) == /\ IsFiniteSet(OffsetsBefore(p, p + k * b))
                       /\ Cardinality(OffsetsBefore(p, p + k * b)) = k
           Bad == {k \in Nat : (k = 0 \/ p + (k - 1) * b < Len(file)) /\ ~ Right(k)}
<1>0. b \in Nat /\ b > 0 /\ Len(file) \in Nat
  BY DEF Constants
<1> HIDE DEF b
<1>1. SUFFICES ASSUME Bad # {} PROVE FALSE
  BY DEF b
<1>2. PICK k \in Bad : \A j \in Bad : k <= j
  <2>1. Bad \subseteq Nat
    OBVIOUS
  <2> HIDE DEF Bad
  <2> QED
    BY <1>1, <2>1, LeastIsLeast
<1>3. k # 0
  <2>1. \A x \in Offsets(p) : ~ (x < p + 0 * b)
    BY <1>0 DEF Offsets
  <2>2. OffsetsBefore(p, p + 0 * b) = {}
    BY <2>1 DEF OffsetsBefore
  <2>3. Right(0)
    BY <2>2, FS_EmptySet
  <2> QED
    BY <1>2, <2>3
<1>4. k - 1 \in Nat /\ p + (k - 1) * b < Len(file) /\ ~ Right(k)
  BY <1>2, <1>3
<1> DEFINE x == p + (k - 1) * b
<1>5. Right(k - 1)
  <2>1. (k - 1) - 1 \in Nat => p + ((k - 1) - 1) * b < Len(file)
    BY <1>0, <1>4
  <2>2. ~ (k <= k - 1)
    BY <1>4
  <2>3. k - 1 \notin Bad
    <3> HIDE DEF Bad
    <3> QED
      BY <1>2, <2>2, <1>4
  <2>4. k - 1 = 0 \/ (k - 1) - 1 \in Nat
    BY <1>4
  <2> HIDE DEF Right
  <2> QED
    BY <1>4, <2>1, <2>3, <2>4
<1>6. x \in Nat /\ p <= x /\ p + k * b = x + b /\ x - p = (k - 1) * b
  BY <1>0, <1>4
<1>7. x \in Offsets(p)
  <2>1. (x - p) % b = 0
    BY <1>0, <1>4, <1>6, Divided
  <2> HIDE DEF x
  <2> QED
    BY <1>0, <1>4, <1>6, <2>1 DEF Offsets, b, x
<1>8. OffsetsBefore(p, p + k * b) = OffsetsBefore(p, x) \cup {x}
  <2>1. ASSUME NEW y \in Offsets(p), x <= y, y < x + b
        PROVE  y = x
    <3>1. y \in Nat /\ p <= y /\ (y - p) % b = 0 /\ y - p \in Nat
      BY <2>1 DEF Offsets, b, Constants
    <3>2. PICK m \in Nat : y - p = m * b
      BY <1>0, <3>1, Divides
    <3>3. (k - 1) * b <= m * b /\ m * b < ((k - 1) + 1) * b
      BY <1>0, <1>4, <1>6, <2>1, <3>1, <3>2
    <3>4. m = k - 1
      BY <1>0, <1>4, <3>3, Multiples
    <3> QED
      BY <1>0, <1>4, <3>1, <3>2, <3>4
  <2>2. \A y \in Offsets(p) : y \in Nat
    BY DEF Offsets, Constants
  <2> HIDE DEF x
  <2>3. \A y \in Offsets(p) : y < x + b <=> y < x \/ y = x
    BY <1>0, <1>6, <2>1, <2>2
  <2>4. p + k * b = x + b
    BY <1>6
  <2> QED
    BY <1>7, <2>3, <2>4 DEF OffsetsBefore
<1>9. x \notin OffsetsBefore(p, x)
  <2> HIDE DEF x
  <2> QED
    BY <1>6 DEF OffsetsBefore
<1>10. Right(k)
  <2>1. IsFiniteSet(OffsetsBefore(p, x)) /\ Cardinality(OffsetsBefore(p, x)) = k - 1
    BY <1>5
  <2> HIDE DEF x
  <2>2. /\ IsFiniteSet(OffsetsBefore(p, p + k * b))
        /\ Cardinality(OffsetsBefore(p, p + k * b)) = k - 1 + 1
    BY <1>8, <1>9, <2>1, FS_AddElement
  <2> QED
    BY <1>4, <2>2
<1> QED
  BY <1>4, <1>10

\* Between two offsets there are as many blocks as it takes to cover the bytes between.
LEMMA BlocksBefore ==
  ASSUME Constants, NEW p \in Nat, NEW q \in Nat, p <= q, q <= Len(file),
         NEW n, n = Cardinality({x \in Offsets(p) : x < q})
  PROVE  /\ n \in Nat
         /\ q <= p + n * blockSize
         /\ n = 0 \/ p + (n - 1) * blockSize < q
         /\ q \in Offsets(p) => q = p + n * blockSize
<1> DEFINE b == blockSize
<1>0. b \in Nat /\ b > 0 /\ Len(file) \in Nat
  BY DEF Constants
<1>1. PICK k \in Nat : q - p <= k * b /\ (k = 0 \/ (k - 1) * b < q - p)
  <2>1. q - p \in Nat
    OBVIOUS
  <2> HIDE DEF b
  <2> QED
    BY <1>0, <2>1, BlocksNeeded
<1>2. k * b \in Nat /\ q <= p + k * b /\ (k = 0 \/ p + (k - 1) * b < q)
  <2> HIDE DEF b
  <2>1. (k - 1) * b \in Int
    BY <1>0
  <2> QED
    BY <1>0, <1>1, <2>1
<1>3. ASSUME NEW x \in Offsets(p), q <= x, x < p + k * b PROVE FALSE
  <2>1. x \in Nat /\ p <= x /\ (x - p) % b = 0 /\ x - p \in Nat
    BY DEF Offsets, Constants
  <2> HIDE DEF b
  <2>2. PICK m \in Nat : x - p = m * b
    BY <1>0, <2>1, Divides
  <2>3. m * b < k * b
    BY <1>0, <1>2, <1>3, <2>1, <2>2
  <2>4. m < k
    BY <1>0, <2>3
  <2>5. m * b <= (k - 1) * b
    BY <1>0, <2>4
  <2> QED
    BY <1>0, <1>1, <1>3, <2>1, <2>2, <2>4, <2>5
<1>4. {x \in Offsets(p) : x < q} = OffsetsBefore(p, p + k * b)
  <2>1. \A x \in Offsets(p) : x \in Nat
    BY DEF Offsets, Constants
  <2>2. \A x \in Offsets(p) : x < q <=> x < p + k * b
    <3> HIDE DEF b
    <3> QED
      BY <1>2, <1>3, <2>1
  <2> QED
    BY <2>2 DEF OffsetsBefore
<1>5. n = k
  <2>1. k = 0 \/ p + (k - 1) * b < Len(file)
    <3> HIDE DEF b
    <3>1. (k - 1) * b \in Int
      BY <1>0
    <3> QED
      BY <1>0, <1>2, <3>1
  <2> QED
    BY <1>4, <2>1, OffsetCount
<1>6. ASSUME q \in Offsets(p) PROVE q = p + k * b
  <2>1. (q - p) % b = 0 /\ q - p \in Nat
    BY <1>6 DEF Offsets
  <2> HIDE DEF b
  <2>2. PICK m \in Nat : q - p = m * b
    BY <1>0, <2>1, Divides
  <2>3. m * b <= k * b /\ (k = 0 \/ (k - 1) * b < m * b)
    BY <1>1, <2>2
  <2>4. m = k
    BY <1>0, <2>3
  <2> QED
    BY <2>2, <2>4
<1> QED
  BY <1>2, <1>5, <1>6


\* The i-th block behind p that begins before q: blocks are read one behind the other.
LEMMA BlockPlaces ==
  ASSUME Constants, NEW p \in Nat, NEW q \in Nat, p <= q, q <= Len(file),
         NEW n \in Nat, n # 0, p + (n - 1) * blockSize < q,
         q \in Offsets(p) \/ q = Len(file), q <= p + n * blockSize,
         q \in Offsets(p) => q = p + n * blockSize, NEW i \in 1 .. n
  PROVE  /\ p + (i - 1) * blockSize \in Nat
         /\ p + (i - 1) * blockSize < q
         /\ i = 1 => p + (i - 1) * blockSize = p
         /\ i = n => BlockEnd(p + (i - 1) * blockSize) = q
         /\ i < n => BlockEnd(p + (i - 1) * blockSize) = p + ((i + 1) - 1) * blockSize
<1> DEFINE b == blockSize
           c == p + (i - 1) * b
<1>0. b \in Nat /\ b > 0 /\ Len(file) \in Nat
  BY DEF Constants
<1> HIDE DEF b
<1>1. i - 1 \in Nat /\ n - 1 \in Nat /\ i - 1 <= n - 1 /\ i \in Nat
  OBVIOUS
<1>2. (i - 1) * b \in Nat /\ (n - 1) * b \in Nat /\ (i - 1) * b <= (n - 1) * b
  BY <1>0, <1>1
<1>3. c \in Nat /\ c < q
  BY <1>0, <1>2 DEF b
<1>4. i = 1 => c = p
  BY <1>0
<1>5. c + b = p + i * b /\ i * b \in Nat
  BY <1>0, <1>1
<1>6. (i + 1) - 1 = i
  BY <1>1
<1>7. i = n => BlockEnd(c) = q
  <2> HIDE DEF c
  <2>1. SUFFICES ASSUME i = n PROVE BlockEnd(c) = q
    OBVIOUS
  <2>2. q <= c + b /\ (q \in Offsets(p) => q = c + b)
    BY <1>5, <2>1 DEF b
  <2> QED
    BY <1>0, <1>3, <2>2 DEF BlockEnd, Smaller, b
<1>8. i < n => BlockEnd(c) = p + i * b
  <2>1. SUFFICES ASSUME i < n PROVE BlockEnd(c) = p + i * b
    OBVIOUS
  <2>2. i * b <= (n - 1) * b
    BY <1>0, <1>1, <2>1
  <2>3. p + i * b < q
    BY <1>0, <1>2, <1>5, <2>2 DEF b
  <2>4. c + b <= Len(file)
    BY <1>0, <1>5, <2>3
  <2> HIDE DEF c
  <2> QED
    BY <1>0, <1>5, <2>4 DEF BlockEnd, Smaller, b
<1> QED
  BY <1>3, <1>4, <1>6, <1>7, <1>8 DEF b

\* The blocks between two offsets, put together.
LEMMA BetweenType ==
  ASSUME Constants, NEW p \in Nat, NEW q \in Nat, p <= q, q <= Len(file)
  PROVE  Between(p, q) \in Seq(Chars)
<1> DEFINE n == Cardinality({x \in Offsets(p) : x < q})
           s == [i \in 1 .. n |-> Chopped(BlockAt(p + (i - 1) * blockSize))]
<1>1. n \in Nat /\ (n = 0 \/ p + (n - 1) * blockSize < q)
  BY BlocksBefore
<1>2. Between(p, q) = FlattenSeq(s)
  BY DEF Between
<1> HIDE DEF n
<1>3. ASSUME NEW i \in 1 .. n PROVE s[i] \in Seq(Chars)
  <2> DEFINE c == p + (i - 1) * blockSize
  <2>1. c \in Nat /\ c <= Len(file)
    <3>1. blockSize \in Nat /\ i - 1 \in Nat /\ n - 1 \in Nat /\ i - 1 <= n - 1
          /\ Len(file) \in Nat /\ n # 0
      BY <1>1 DEF Constants
    <3>2. (i - 1) * blockSize <= (n - 1) * blockSize /\ (i - 1) * blockSize \in Nat
          /\ (n - 1) * blockSize \in Nat
      BY <3>1
    <3> QED
      BY <1>1, <3>1, <3>2
  <2> HIDE DEF c
  <2>2. BlockAt(c) \in Seq(Chars)
    BY <2>1, BlockFacts
  <2>3. Chopped(BlockAt(c)) \in Seq(Chars)
    BY <2>2, ChoppedType
  <2> QED
    BY <2>3 DEF c
<1>4. s \in Seq(Seq(Chars)) /\ Len(s) = n
  <2>1. s \in [1 .. n -> Seq(Chars)]
    BY <1>3
  <2> QED
    BY <1>1, <2>1
<1> HIDE DEF s
<1>5. CASE n = 0
  <2>1. Len(s) = 0 /\ s = <<>>
    BY <1>4, <1>5, EmptySeq
  <2> QED
    BY <1>2, <2>1, EmptySeq DEF FlattenSeq
<1>6. CASE n # 0
  <2>1. PICK f : FlattenSeq(s) = f[n] /\ IsFlattening(f, s)
    <3>1. n \in Nat /\ Len(s) = n /\ n # 0
      BY <1>1, <1>4, <1>6
    <3> QED
      BY <3>1, FlattenUnfolds
  <2> DEFINE Bad == {i \in 1 .. n : f[i] \notin Seq(Chars)}
  <2>2. Bad = {}
    <3> SUFFICES ASSUME Bad # {} PROVE FALSE
      OBVIOUS
    <3>1. PICK i \in Bad : \A j \in Bad : i <= j
      <4>1. Bad \subseteq Nat
        OBVIOUS
      <4> HIDE DEF Bad
      <4> QED
        BY <4>1, LeastIsLeast
    <3>2. i \in 1 .. n /\ f[i] \notin Seq(Chars)
      OBVIOUS
    <3>3. i # 1
      BY <1>3, <2>1, <3>2 DEF IsFlattening
    <3>4. i - 1 \in 1 .. n /\ ~ (i <= i - 1) /\ i \in 2 .. n
      BY <1>1, <3>2, <3>3
    <3>5. i - 1 \notin Bad
      <4> HIDE DEF Bad
      <4> QED
        BY <3>1, <3>4
    <3>6. f[i - 1] \in Seq(Chars) /\ s[i] \in Seq(Chars)
      BY <1>3, <3>2, <3>4, <3>5
    <3>7. f[i - 1] \o s[i] \in Seq(Chars)
      BY <3>6, ConcatProperties
    <3> QED
      BY <1>4, <2>1, <3>2, <3>4, <3>7 DEF IsFlattening
  <2> QED
    BY <1>1, <1>2, <1>6, <2>1, <2>2
<1> QED
  BY <1>5, <1>6

LEMMA StripType ==
  ASSUME NEW l \in Seq(Chars), NEW b
  PROVE  Strip(l, b) \in Seq(Chars)
<1> DEFINE Cut(s, c) == IF s # <<>> /\ Last(s) = c THEN Front(s) ELSE s
<1>1. ASSUME NEW s \in Seq(Chars), NEW c PROVE Cut(s, c) \in Seq(Chars)
  BY DEF Front
<1>2. Strip(l, b) = IF b THEN Cut(Cut(l, LF), CR) ELSE l
  BY DEF Strip
<1>3. Cut(l, LF) \in Seq(Chars)
  BY <1>1
<1> HIDE DEF Cut
<1>4. Cut(Cut(l, LF), CR) \in Seq(Chars)
  BY <1>1, <1>3
<1> QED
  BY <1>2, <1>4


------------------------------------------------------------------------------
(* readLine(): types *)

LEMMA VisibleLeast ==
  ASSUME NEW b \in Seq(Chars), NEW c \in Nat, Visible(b, c) # {}
  PROVE  /\ Least(Visible(b, c)) \in c .. Len(b)
         /\ b[Least(Visible(b, c))] = LF
         /\ \A j \in c .. Len(b) : j \in Visible(b, c) => Least(Visible(b, c)) <= j
<1>1. Visible(b, c) \subseteq Nat
  BY DEF Visible
<1>2. Least(Visible(b, c)) \in Visible(b, c)
      /\ \A j \in Visible(b, c) : Least(Visible(b, c)) <= j
  BY <1>1, LeastIsLeast
<1>3. \A j \in Visible(b, c) : j \in c .. Len(b) /\ b[j] = LF
  BY DEF Visible
<1> QED
  BY <1>2, <1>3

LEMMA StopFacts ==
  ASSUME Constants, NEW p \in Nat, p <= Len(file), Stops(p) # {}
  PROVE  /\ Least(Stops(p)) \in Offsets(p)
         /\ Least(Stops(p)) \in Nat /\ p <= Least(Stops(p)) /\ Least(Stops(p)) < Len(file)
         /\ Visible(BlockAt(Least(Stops(p))), 1) # {}
         /\ \A x \in Offsets(p) : x < Least(Stops(p)) => Visible(BlockAt(x), 1) = {}
<1>1. Stops(p) \subseteq Nat /\ \A x \in Stops(p) : p <= x /\ x < Len(file) /\ x \in Nat
  BY DEF Stops, Offsets, Constants
<1>2. Least(Stops(p)) \in Stops(p) /\ \A x \in Stops(p) : Least(Stops(p)) <= x
  BY <1>1, LeastIsLeast
<1> DEFINE q == Least(Stops(p))
<1> HIDE DEF q
<1>3. q \in Stops(p) /\ q \in Nat /\ \A x \in Stops(p) : q <= x
  BY <1>1, <1>2 DEF q
<1>4. ASSUME NEW x \in Offsets(p), x < q PROVE Visible(BlockAt(x), 1) = {}
  <2>1. x \in Nat
    BY DEF Offsets, Constants
  <2>2. x \notin Stops(p)
    BY <1>3, <1>4, <2>1
  <2> QED
    BY <2>2 DEF Stops
<1> QED
  BY <1>1, <1>3, <1>4 DEF q, Stops

\* What readLine() leaves when it finds the end of the line in the block b.
LEMMA CompletedOK ==
  ASSUME Constants, NEW r, NEW done \in Seq(Chars), NEW p \in 0 .. Len(file),
         NEW b \in Seq(Chars), NEW c \in 1 .. Len(b), Visible(b, c) # {},
         Follows(b, p)
  PROVE  ReadingOK(Completed(r, done, p, b, c))
<1> DEFINE end == Least(Visible(b, c))
           l == done \o Strip(SubSeq(b, c, end), remove)
<1>1. end \in c .. Len(b)
  BY VisibleLeast
<1>2. Completed(r, done, p, b, c) =
        [pos |-> p, block |-> b, cursor |-> CursorAfter(b, end), line |-> l]
  BY DEF Completed
<1> HIDE DEF end
<1>3. l \in Seq(Chars)
  <2>1. SubSeq(b, c, end) \in Seq(Chars)
    BY <1>1, PieceFacts
  <2> QED
    BY <2>1, StripType, ConcatProperties
<1>4. CursorAfter(b, end) \in Nat /\ CursorAfter(b, end) <= Len(b)
  <2>1. end \in Nat /\ end <= Len(b) /\ Len(b) \in Nat
    BY <1>1, LenProperties
  <2> QED
    BY <2>1 DEF CursorAfter
<1> HIDE DEF l
<1> QED
  BY <1>2, <1>3, <1>4 DEF ReadingOK

LEMMA AfterReadLineOK ==
  ASSUME Constants, NEW r, ReadingOK(r)
  PROVE  ReadingOK(AfterReadLine(r))
<1> DEFINE part == Chopped(SubSeq(r.block, r.cursor, Len(r.block)))
           first == IF r.cursor = 0 THEN <<>> ELSE part
           stop == Least(Stops(r.pos))
<1>1. /\ r.pos \in Nat /\ r.pos <= Len(file) /\ r.pos \in 0 .. Len(file)
      /\ r.block \in Seq(Chars) /\ r.cursor \in Nat /\ r.cursor <= Len(r.block)
      /\ Len(file) \in Nat /\ Len(r.block) \in Nat
  BY DEF ReadingOK, Constants
<1>2. first \in Seq(Chars)
  <2>1. CASE r.cursor = 0
    BY <2>1, EmptySeq
  <2>2. CASE r.cursor # 0
    <3>1. SubSeq(r.block, r.cursor, Len(r.block)) \in Seq(Chars)
      BY <1>1, <2>2, PieceFacts
    <3> QED
      BY <2>2, <3>1, ChoppedType
  <2> QED
    BY <2>1, <2>2
<1>3. CASE r.cursor # 0 /\ Visible(r.block, r.cursor) # {}
  <2>1. AfterReadLine(r) = Completed(r, <<>>, r.pos, r.block, r.cursor)
    BY <1>3 DEF AfterReadLine
  <2>2. r.cursor \in 1 .. Len(r.block) /\ Follows(r.block, r.pos)
    BY <1>1, <1>3 DEF ReadingOK
  <2> QED
    BY <1>1, <1>3, <2>1, <2>2, CompletedOK, EmptySeq
<1>4. CASE ~ (r.cursor # 0 /\ Visible(r.block, r.cursor) # {}) /\ Stops(r.pos) # {}
  <2> DEFINE b == BlockAt(stop)
             done == first \o Between(r.pos, stop)
             p == stop + Len(b)
  <2>1. AfterReadLine(r) = Completed(r, done, p, b, 1)
    BY <1>4 DEF AfterReadLine
  <2>2. stop \in Nat /\ r.pos <= stop /\ stop < Len(file) /\ Visible(b, 1) # {}
    BY <1>1, <1>4, StopFacts
  <2> HIDE DEF first, stop
  <2>3. done \in Seq(Chars)
    <3>1. Between(r.pos, stop) \in Seq(Chars)
      BY <1>1, <2>2, BetweenType
    <3> QED
      BY <1>2, <3>1, ConcatProperties
  <2>4. b \in Seq(Chars) /\ Len(b) = BlockEnd(stop) - stop /\ BlockEnd(stop) \in Nat
        /\ stop < BlockEnd(stop) /\ BlockEnd(stop) <= Len(file)
        /\ b = SubSeq(file, stop + 1, BlockEnd(stop))
    <3>1. stop \in Nat /\ stop <= Len(file) /\ stop < Len(file)
      BY <1>1, <2>2
    <3> HIDE <1>1, <2>1, <2>2
    <3> QED
      BY <3>1, BlockFacts
  <2> HIDE DEF done, b
  <2>5. p \in 0 .. Len(file) /\ p = BlockEnd(stop) /\ p - Len(b) + 1 = stop + 1 /\ 1 \in 1 .. Len(b)
        /\ Len(b) <= p
    BY <1>1, <2>2, <2>4
  <2>6. Follows(b, p)
    BY <2>4, <2>5 DEF Follows
  <2> HIDE DEF p
  <2> QED
    BY <2>1, <2>2, <2>3, <2>4, <2>5, <2>6, CompletedOK
<1>5. CASE ~ (r.cursor # 0 /\ Visible(r.block, r.cursor) # {}) /\ Stops(r.pos) = {}
  <2> DEFINE l == first \o Between(r.pos, Len(file))
  <2>1. AfterReadLine(r) = [pos |-> Len(file), block |-> <<>>, cursor |-> 0, line |-> l]
    BY <1>5 DEF AfterReadLine
  <2> HIDE DEF first
  <2>2. l \in Seq(Chars)
    <3>1. Between(r.pos, Len(file)) \in Seq(Chars)
      BY <1>1, BetweenType
    <3> QED
      BY <1>2, <3>1, ConcatProperties
  <2> HIDE DEF l
  <2>3. <<>> \in Seq(Chars) /\ Len(<<>>) = 0 /\ Len(file) \in 0 .. Len(file)
    BY <1>1, EmptySeq
  <2> QED
    BY <2>1, <2>2, <2>3 DEF ReadingOK
<1> QED
  BY <1>3, <1>4, <1>5


------------------------------------------------------------------------------
(* lookahead(): its recursive function exists. *)

Follow(h, i) == IF i = 0 THEN Filled(Reading) ELSE AfterReadLine(Filled(h[i - 1]))

LEMMA ReadsExist ==
  ASSUME NEW n \in Nat
  PROVE  \E h : h = [i \in 0 .. n |-> Follow(h, i)]
<1> DEFINE Is(h, m) == h = [i \in 0 .. m |-> Follow(h, i)]
           Bad == {m \in Nat : ~ \E h : Is(h, m)}
<1>1. SUFFICES ASSUME Bad # {} PROVE FALSE
  OBVIOUS
<1>2. PICK m \in Bad : \A k \in Bad : m <= k
  <2>1. Bad \subseteq Nat
    OBVIOUS
  <2> HIDE DEF Bad
  <2> QED
    BY <1>1, <2>1, LeastIsLeast
<1>3. m # 0
  <2> DEFINE h == [i \in 0 .. 0 |-> Filled(Reading)]
  <2>1. \A i \in 0 .. 0 : Follow(h, i) = Filled(Reading)
    BY DEF Follow
  <2> HIDE DEF h
  <2>2. [i \in 0 .. 0 |-> Filled(Reading)] = [i \in 0 .. 0 |-> Follow(h, i)]
    BY <2>1
  <2>3. Is(h, 0)
    BY <2>2 DEF h
  <2> QED
    BY <2>3, <1>2
<1>4. m - 1 \in Nat /\ ~ (m <= m - 1) /\ m \in Nat
  BY <1>2, <1>3
<1>5. PICK h : Is(h, m - 1)
  <2>1. m - 1 \notin Bad
    <3> HIDE DEF Bad
    <3> QED
      BY <1>2, <1>4
  <2> QED
    BY <2>1, <1>4
<1> DEFINE g == [i \in 0 .. m |-> IF i < m THEN h[i] ELSE Follow(h, i)]
<1>6. ASSUME NEW i \in 0 .. m PROVE g[i] = Follow(g, i)
  <2>0. i # 0 => g[i - 1] = h[i - 1]
    BY <1>4
  <2>1. Follow(g, i) = Follow(h, i)
    <3> HIDE DEF g
    <3> QED
      BY <2>0 DEF Follow
  <2>2. CASE i = m
    BY <2>1, <2>2, <1>4
  <2>3. CASE i < m
    <3>1. i \in 0 .. m - 1
      BY <2>3, <1>4
    <3>2. h[i] = Follow(h, i)
      BY <3>1, <1>5, Zenon
    <3> QED
      BY <2>1, <2>3, <3>1, <3>2
  <2> QED
    BY <2>2, <2>3, <1>4
<1>7. g = [i \in 0 .. m |-> g[i]]
  OBVIOUS
<1>8. Is(g, m)
  <2> HIDE DEF g
  <2>1. [i \in 0 .. m |-> g[i]] = [i \in 0 .. m |-> Follow(g, i)]
    BY <1>6
  <2> QED
    BY <1>7, <2>1
<1> QED
  BY <1>2, <1>8

\* The states of the reading that lookahead(n) goes through.
IsReads(h, n) ==
  /\ h[0] = Filled(Reading)
  /\ \A i \in 1 .. n : h[i] = AfterReadLine(Filled(h[i - 1]))

LookaheadBy(h, n) ==
  /\ IF h[0].cursor = 0
     THEN ahead' = <<>> /\ Set(h[0])
     ELSE ahead' = [i \in 1 .. n |-> h[i].line] /\ Set(h[n])
  /\ UNCHANGED <<file, blockSize, remove, binary, ended, endReached>>

LEMMA LookaheadUnfolds ==
  ASSUME NEW n \in Nat, Lookahead(n)
  PROVE  \E h : IsReads(h, n) /\ LookaheadBy(h, n)
<1> DEFINE Is(f) == f = [i \in 0 .. n |-> IF i = 0 THEN Filled(Reading)
                                          ELSE AfterReadLine(Filled(f[i - 1]))]
           h == CHOOSE f : Is(f)
<1>1. LookaheadBy(h, n)
  BY DEF Lookahead, LookaheadBy
<1>2. Is(h)
  <2>1. \E f : f = [i \in 0 .. n |-> Follow(f, i)]
    BY ReadsExist
  <2>2. \E f : Is(f)
    BY <2>1 DEF Follow
  <2> QED
    BY <2>2
<1> HIDE DEF h
<1>3. \A i \in 0 .. n : h[i] = IF i = 0 THEN Filled(Reading)
                                ELSE AfterReadLine(Filled(h[i - 1]))
  BY <1>2, Zenon
<1>4. IsReads(h, n)
  <2>1. 0 \in 0 .. n /\ \A i \in 1 .. n : i \in 0 .. n /\ i # 0
    OBVIOUS
  <2> HIDE DEF Is
  <2> QED
    BY <1>3, <2>1, Zenon DEF IsReads
<1> QED
  BY <1>1, <1>4


------------------------------------------------------------------------------
(* The invariant *)

ReaderInv ==
  /\ file \in Files
  /\ blockSize \in BlockSizes
  /\ {remove, binary, ended, endReached} \subseteq BOOLEAN
  /\ ahead \in Seq(Seq(Chars))
  /\ ReadingOK(Reading)

LEMMA InvConstants ==
  ASSUME ReaderInv
  PROVE  Constants
BY FilesAssumption, SizesAssumption DEF ReaderInv, Constants

LEMMA ReadingNow ==
  /\ Reading.pos = pos /\ Reading.block = block /\ Reading.cursor = cursor
  /\ Reading.line = line
BY DEF Reading

LEMMA SetReading ==
  ASSUME NEW s, ReadingOK(s), Set(s)
  PROVE  Reading' = s
BY DEF ReadingOK, Set, Reading

LEMMA SetOK ==
  ASSUME NEW s, ReadingOK(s), Set(s), file' = file
  PROVE  ReadingOK(Reading)'
<1>1. Reading' = s
  BY SetReading
<1>2. ReadingOK(s)'
  BY DEF ReadingOK, Follows
<1> QED
  BY <1>1, <1>2 DEF ReadingOK, Follows

\* The states of a lookahead() are states of the reading.
LEMMA ReadsOK ==
  ASSUME Constants, ReadingOK(Reading), NEW n \in Nat, NEW h, IsReads(h, n)
  PROVE  \A i \in 0 .. n : ReadingOK(h[i])
<1> DEFINE Bad == {i \in 0 .. n : ~ ReadingOK(h[i])}
<1>1. SUFFICES ASSUME Bad # {} PROVE FALSE
  OBVIOUS
<1>2. PICK i \in Bad : \A j \in Bad : i <= j
  <2>1. Bad \subseteq Nat
    OBVIOUS
  <2> HIDE DEF Bad
  <2> QED
    BY <1>1, <2>1, LeastIsLeast
<1>3. i \in 0 .. n /\ ~ ReadingOK(h[i])
  OBVIOUS
<1>4. i # 0
  BY <1>3, FilledOK DEF IsReads
<1>5. i - 1 \in 0 .. n /\ ~ (i <= i - 1) /\ i \in 1 .. n
  BY <1>3, <1>4
<1>6. i - 1 \notin Bad
  <2> HIDE DEF Bad
  <2> QED
    BY <1>2, <1>5
<1>7. ReadingOK(h[i - 1])
  BY <1>5, <1>6
<1>8. ReadingOK(AfterReadLine(Filled(h[i - 1])))
  BY <1>7, FilledOK, AfterReadLineOK
<1> QED
  BY <1>3, <1>5, <1>8 DEF IsReads

LEMMA ReaderInit ==
  ASSUME Init
  PROVE  ReaderInv
<1>1. Constants /\ 0 \in Nat /\ 0 <= Len(file)
  BY FilesAssumption, SizesAssumption DEF Init, Constants
<1> DEFINE e == BlockEnd(0)
<1>2. /\ block = BlockAt(0) /\ block \in Seq(Chars) /\ Len(block) = e - 0
      /\ e \in Nat /\ e <= Len(file) /\ block = SubSeq(file, 0 + 1, e)
  BY <1>1, BlockFacts DEF Init
<1> HIDE DEF e
<1>3. pos = Len(block) /\ pos = e /\ cursor = (IF block = <<>> THEN 0 ELSE 1) /\ line = <<>>
  BY <1>2 DEF Init
<1>4. Follows(block, pos)
  <2>1. pos - Len(block) + 1 = 0 + 1 /\ Len(block) <= pos
    BY <1>2, <1>3
  <2> QED
    BY <1>2, <1>3, <2>1 DEF Follows
<1>5. block = <<>> \/ Len(block) >= 1
  <2>1. block \in Seq(Chars)
    BY <1>2
  <2> QED
    BY <2>1, EmptySeq
<1>6. cursor \in Nat /\ cursor <= Len(block) /\ pos \in 0 .. Len(file)
  BY <1>1, <1>2, <1>3, <1>5 DEF Constants
<1>7. ReadingOK(Reading)
  <2>1. line \in Seq(Chars) /\ block \in Seq(Chars)
    BY <1>2, <1>3
  <2> QED
    BY <1>4, <1>6, <2>1 DEF ReadingOK, Reading
<1>8. ahead \in Seq(Seq(Chars))
  BY DEF Init
<1> QED
  BY <1>7, <1>8 DEF Init, ReaderInv

\* Only the reading and the queue have changed.
LEMMA ReadStep ==
  ASSUME ReaderInv, NEW s, ReadingOK(s), Set(s), ahead' \in Seq(Seq(Chars)),
         UNCHANGED <<file, blockSize, remove>>,
         {binary', ended', endReached'} \subseteq BOOLEAN
  PROVE  ReaderInv'
<1>1. ReadingOK(Reading)'
  BY SetOK
<1> QED
  BY <1>1 DEF ReaderInv

LEMMA ReaderStep ==
  ASSUME ReaderInv, Next
  PROVE  ReaderInv'
<1>0. Constants /\ ReadingOK(Reading) /\ ahead \in Seq(Seq(Chars))
      /\ {binary, ended, endReached} \subseteq BOOLEAN
  BY InvConstants DEF ReaderInv
<1> DEFINE f == Filled(Reading)
<1>1. ReadingOK(f) /\ f.line = line
  BY <1>0, FilledOK, ReadingNow
<1>2. ReadingOK(AfterReadLine(Reading)) /\ ReadingOK(AfterReadLine(f))
  BY <1>0, <1>1, AfterReadLineOK
<1> HIDE DEF f
<1>3. ASSUME ahead # <<>>
      PROVE  Head(ahead) \in Seq(Chars) /\ Tail(ahead) \in Seq(Seq(Chars))
  BY <1>0, <1>3, HeadTailProperties
<1>4. CASE NextLine
  <2>1. CASE ahead # <<>>
    <3>1. ReadingOK(Reading)'
      BY <1>0, <1>3, <1>4, <2>1 DEF NextLine, buffer, ReadingOK, Reading, Follows
    <3> QED
      BY <1>3, <1>4, <2>1, <3>1 DEF NextLine, ReaderInv
  <2>2. CASE ahead = <<>>
    BY <1>0, <1>2, <1>4, <2>2, ReadStep DEF NextLine
  <2> QED
    BY <2>1, <2>2
<1>5. CASE EndOfFile
  BY <1>0, <1>1, <1>5, ReadStep DEF EndOfFile, f
<1>6. CASE Look
  <2>1. PICK n \in 1 .. MaxAhead : Lookahead(n)
    BY <1>6 DEF Look
  <2>2. n \in Nat
    BY <2>1, SizesAssumption
  <2>3. PICK h : IsReads(h, n) /\ LookaheadBy(h, n)
    BY <2>1, <2>2, LookaheadUnfolds
  <2>4. \A i \in 0 .. n : ReadingOK(h[i])
    BY <1>0, <2>2, <2>3, ReadsOK
  <2>5. [i \in 1 .. n |-> h[i].line] \in Seq(Seq(Chars))
    <3>1. \A i \in 1 .. n : h[i].line \in Seq(Chars)
      BY <2>4 DEF ReadingOK
    <3> QED
      BY <2>2, <3>1
  <2>6. /\ UNCHANGED <<file, blockSize, remove>>
        /\ {binary', ended', endReached'} \subseteq BOOLEAN
    BY <1>0, <2>3 DEF LookaheadBy
  <2>7. ReadingOK(h[0]) /\ ReadingOK(h[n])
    BY <2>2, <2>4
  <2>8. CASE h[0].cursor = 0
    <3>1. ahead' = <<>> /\ Set(h[0]) /\ <<>> \in Seq(Seq(Chars))
      BY <2>3, <2>8 DEF LookaheadBy
    <3> QED
      BY <2>6, <2>7, <3>1, ReadStep
  <2>9. CASE h[0].cursor # 0
    <3>1. ahead' \in Seq(Seq(Chars)) /\ Set(h[n])
      BY <2>3, <2>5, <2>9 DEF LookaheadBy
    <3> QED
      BY <2>6, <2>7, <3>1, ReadStep
  <2> QED
    BY <2>8, <2>9
<1>7. CASE Fetch
  <2> DEFINE end == f.cursor = 0 /\ ahead = <<>>
  <2>1. /\ UNCHANGED <<file, blockSize, remove>>
        /\ {binary', ended', endReached'} \subseteq BOOLEAN
    BY <1>0, <1>7 DEF Fetch
  <2>2. CASE ahead # <<>>
    <3>1. ReadingOK([f EXCEPT !.line = Head(ahead)])
      BY <1>1, <1>3, <2>2 DEF ReadingOK
    <3>2. Set([f EXCEPT !.line = Head(ahead)]) /\ ahead' = Tail(ahead)
      BY <1>7, <2>2 DEF Fetch, f
    <3> QED
      BY <1>3, <2>1, <2>2, <3>1, <3>2, ReadStep
  <2>3. CASE ahead = <<>>
    <3>1. Set(IF end THEN f ELSE AfterReadLine(f)) /\ ahead' = ahead
      BY <1>7, <2>3 DEF Fetch, f
    <3>2. ReadingOK(IF end THEN f ELSE AfterReadLine(f))
      BY <1>1, <1>2
    <3> HIDE DEF end
    <3> QED
      BY <1>0, <2>1, <3>1, <3>2, ReadStep
  <2> QED
    BY <2>2, <2>3
<1>8. CASE EstimateLineCount
  BY <1>0, <1>1, <1>8, ReadStep DEF EstimateLineCount, f
<1>9. CASE HasBinaryData
  <2>1. CASE UNCHANGED <<buffer, line, binary>>
    BY <1>0, <1>9, <2>1 DEF HasBinaryData, buffer, ReaderInv, ReadingOK, Reading, Follows
  <2>2. CASE Set(f) /\ binary' = (binary \/ \E k \in DOMAIN block' : block'[k] \in {NUL, "0"})
    <3>1. binary' \in BOOLEAN
      BY <2>2
    <3>2. UNCHANGED <<file, blockSize, remove, ahead, ended, endReached>>
      BY <1>9 DEF HasBinaryData
    <3> QED
      BY <1>0, <1>1, <2>2, <3>1, <3>2, ReadStep
  <2> QED
    BY <1>9, <2>1, <2>2 DEF HasBinaryData, f
<1>10. CASE Reset
  <2>1. pos' \in 0 .. Len(file) /\ block' \in Seq(Chars) /\ cursor' = 0 /\ Len(block') = 0
        /\ line' \in Seq(Chars) /\ ahead' \in Seq(Seq(Chars)) /\ file' = file
    BY <1>0, <1>10 DEF Reset, Constants
  <2>2. ReadingOK(Reading)'
    BY <2>1 DEF ReadingOK, Reading
  <2> QED
    BY <1>10, <2>1, <2>2 DEF Reset, ReaderInv
<1>11. CASE OpenFile
  <2>1. file' \in Files /\ Len(file') \in Nat
    BY <1>11, FilesAssumption DEF OpenFile
  <2>2. pos' \in 0 .. Len(file') /\ block' \in Seq(Chars) /\ cursor' = 0 /\ 0 <= Len(block')
        /\ line' \in Seq(Chars) /\ ahead' \in Seq(Seq(Chars))
    BY <1>0, <1>11, <2>1, ReadingNow DEF OpenFile, ReadingOK
  <2>3. ReadingOK(Reading)'
    BY <2>2 DEF ReadingOK, Reading
  <2> QED
    BY <1>11, <2>1, <2>2, <2>3 DEF OpenFile, ReaderInv
<1>12. CASE SetBufferSize \/ SetRemoveNewline
  <2>1. ReadingOK(Reading)'
    BY <1>0, <1>12 DEF SetBufferSize, SetRemoveNewline, buffer, ReadingOK, Reading, Follows
  <2> QED
    BY <1>12, <2>1 DEF SetBufferSize, SetRemoveNewline, ReaderInv
<1> QED
  BY <1>4, <1>5, <1>6, <1>7, <1>8, <1>9, <1>10, <1>11, <1>12 DEF Next

LEMMA ReaderStutter ==
  ASSUME ReaderInv, UNCHANGED vars
  PROVE  ReaderInv'
BY DEF vars, buffer, ReaderInv, ReadingOK, Reading, Follows

LEMMA ReaderInvariant == Spec => []ReaderInv
<1>1. Init => ReaderInv
  BY ReaderInit
<1>2. ReaderInv /\ [Next]_vars => ReaderInv'
  BY ReaderStep, ReaderStutter
<1> QED
  BY <1>1, <1>2, PTL DEF Spec

\* In every state of the reader the cursor is null or stands on a byte of the block, and
\* the handle is inside the file (LineReader::readBlock and readLine).
THEOREM ReaderTypeOK == Spec => []TypeOK
<1>1. ReaderInv => TypeOK
  <2> SUFFICES ASSUME ReaderInv PROVE TypeOK
    OBVIOUS
  <2>1. /\ pos \in 0 .. Len(file) /\ block \in Seq(Chars) /\ line \in Seq(Chars)
        /\ cursor \in Nat /\ cursor <= Len(block)
    BY ReadingNow DEF ReaderInv, ReadingOK
  <2> QED
    BY <2>1 DEF ReaderInv, TypeOK
<1> QED
  BY <1>1, ReaderInvariant, PTL

\* The block that is still read from is the part of the file right before the handle
\* (LineReader::readBlock): no byte is lost or read twice, whatever is called.
THEOREM ReaderBlockFollowsFile == Spec => []BlockFollowsFile
<1>1. ReaderInv => BlockFollowsFile
  BY ReadingNow DEF ReaderInv, ReadingOK, Follows, BlockFollowsFile
<1> QED
  BY <1>1, ReaderInvariant, PTL

(***************************************************************************)
(* LineReader implements LineSource: for every text, every length of the   *)
(* blocks and every order of the calls the reader delivers the lines of    *)
(* the file, and where a block ends does not show.                         *)
(***************************************************************************)

------------------------------------------------------------------------------
(* What readLine() delivers.  Everything that is not read is the rest of the *)
(* file from an offset on, and a line ends at the next LF or with the file.  *)

Off(r) == IF r.cursor = 0 THEN r.pos ELSE r.pos - Len(r.block) + r.cursor - 1

Rest(o) == SubSeq(file, o + 1, Len(file))

EndsBehind(o) == {k \in (o + 1) .. Len(file) : file[k] = LF}

LineEnd(o) == IF EndsBehind(o) # {} THEN Least(EndsBehind(o)) ELSE Len(file)

LEMMA LineEndFacts ==
  ASSUME Constants, NEW o \in Nat, o <= Len(file)
  PROVE  /\ LineEnd(o) \in Nat /\ o <= LineEnd(o) /\ LineEnd(o) <= Len(file)
         /\ o < Len(file) => o < LineEnd(o)
         /\ \A k \in Nat : o < k /\ k < LineEnd(o) => file[k] # LF
         /\ LineEnd(o) < Len(file) => file[LineEnd(o)] = LF /\ o < LineEnd(o)
<1>0. Len(file) \in Nat
  BY DEF Constants
<1>1. CASE EndsBehind(o) # {}
  <2>1. EndsBehind(o) \subseteq Nat
    BY DEF EndsBehind
  <2>2. LineEnd(o) \in EndsBehind(o) /\ \A k \in EndsBehind(o) : LineEnd(o) <= k
    BY <1>1, <2>1, LeastIsLeast DEF LineEnd
  <2>3. LineEnd(o) \in Nat /\ o + 1 <= LineEnd(o) /\ LineEnd(o) <= Len(file)
        /\ file[LineEnd(o)] = LF
    BY <1>0, <2>2 DEF EndsBehind
  <2>4. ASSUME NEW k \in Nat, o < k, k < LineEnd(o) PROVE file[k] # LF
    <3>1. k \in (o + 1) .. Len(file)
      BY <1>0, <2>3, <2>4
    <3>2. k \notin EndsBehind(o)
      BY <2>2, <2>3, <2>4
    <3> QED
      BY <3>1, <3>2 DEF EndsBehind
  <2> QED
    BY <1>0, <2>3, <2>4
<1>2. CASE EndsBehind(o) = {}
  <2>1. LineEnd(o) = Len(file)
    BY <1>2 DEF LineEnd
  <2>2. ASSUME NEW k \in Nat, o < k, k < Len(file) PROVE file[k] # LF
    <3>1. k \in (o + 1) .. Len(file)
      BY <1>0, <2>2
    <3> QED
      BY <1>2, <3>1 DEF EndsBehind
  <2> QED
    BY <1>0, <2>1, <2>2
<1> QED
  BY <1>1, <1>2

\* What determines the end of a line.
LEMMA LineEndIs ==
  ASSUME Constants, NEW o \in Nat, NEW e \in Nat, o <= e, e <= Len(file),
         \A k \in Nat : o < k /\ k < e => file[k] # LF,
         (o < e /\ file[e] = LF) \/ e = Len(file)
  PROVE  LineEnd(o) = e
<1>1. /\ LineEnd(o) \in Nat /\ o <= LineEnd(o) /\ LineEnd(o) <= Len(file)
      /\ \A k \in Nat : o < k /\ k < LineEnd(o) => file[k] # LF
      /\ LineEnd(o) < Len(file) => file[LineEnd(o)] = LF /\ o < LineEnd(o)
  BY LineEndFacts
<1>2. Len(file) \in Nat
  BY DEF Constants
<1>3. ~ (LineEnd(o) < e)
  BY <1>1, <1>2
<1>4. ~ (e < LineEnd(o))
  BY <1>1, <1>2
<1> QED
  BY <1>1, <1>3, <1>4

\* In a text without NUL strchr() finds every line end of a block.
LEMMA VisibleIs ==
  ASSUME Constants, IsText(file), NEW u \in Nat, NEW b \in Seq(Chars),
         u + Len(b) <= Len(file), \A i \in 1 .. Len(b) : b[i] = file[u + i],
         NEW c \in Nat, 1 <= c
  PROVE  Visible(b, c) = {k \in c .. Len(b) : file[u + k] = LF}
<1>0. Len(file) \in Nat /\ Len(b) \in Nat /\ DOMAIN file = 1 .. Len(file)
  BY DEF Constants
<1>1. ASSUME NEW k \in 1 .. Len(b) PROVE b[k] # NUL
  <2>1. u + k \in DOMAIN file
    BY <1>0
  <2>2. file[u + k] # NUL
    BY <2>1 DEF IsText
  <2> QED
    BY <2>2
<1>2. \A k \in c .. Len(b) : k \in 1 .. Len(b) /\ c .. k \subseteq 1 .. Len(b)
  BY <1>0
<1>3. \A k \in c .. Len(b) : b[k] = file[u + k] /\ \A j \in c .. k : b[j] # NUL
  BY <1>1, <1>2
<1> QED
  BY <1>3 DEF Visible

\* No line end before q: a CR before q is the last byte before it.
LEMMA NoReturn ==
  ASSUME Constants, IsText(file), NEW k \in Nat, 1 <= k, k < Len(file), file[k + 1] # LF
  PROVE  file[k] # CR
<1>1. k \in DOMAIN file
  BY DEF Constants
<1> QED
  BY <1>1 DEF IsText

LEMMA FrontFacts ==
  ASSUME NEW S, NEW s \in Seq(S), s # <<>>
  PROVE  /\ Len(s) \in Nat \ {0}
         /\ Front(s) \in Seq(S) /\ Len(Front(s)) = Len(s) - 1
         /\ \A i \in 1 .. Len(s) - 1 : Front(s)[i] = s[i]
         /\ Last(s) = s[Len(s)]
<1>1. Len(s) \in Nat \ {0}
  BY EmptySeq
<1>2. Front(s) = SubSeq(s, 1, Len(s) - 1)
  BY DEF Front
<1> DEFINE m == Len(s) - 1
<1>3. m \in Nat /\ m <= Len(s)
  BY <1>1
<1> HIDE DEF m
<1>4. /\ SubSeq(s, 1, m) \in Seq(S)
      /\ Len(SubSeq(s, 1, m)) = IF 1 <= m THEN m - 1 + 1 ELSE 0
      /\ \A i \in 1 .. Len(SubSeq(s, 1, m)) : SubSeq(s, 1, m)[i] = s[1 + i - 1]
  BY <1>3, PieceFacts
<1>5. Len(SubSeq(s, 1, m)) = m
  <2>1. (IF 1 <= m THEN m - 1 + 1 ELSE 0) = m
    BY <1>3
  <2> QED
    BY <1>4, <2>1
<1>6. \A i \in 1 .. m : 1 + i - 1 = i
  BY <1>3
<1> QED
  BY <1>1, <1>2, <1>4, <1>5, <1>6 DEF Last, m

\* Front of two sequences one behind the other.
LEMMA FrontOfJoin ==
  ASSUME NEW S, NEW x \in Seq(S), NEW y \in Seq(S), y # <<>>
  PROVE  /\ x \o y # <<>> /\ Last(x \o y) = Last(y)
         /\ Front(x \o y) = x \o Front(y)
<1> DEFINE z == x \o y
<1>1. /\ z \in Seq(S) /\ Len(z) = Len(x) + Len(y) /\ Len(x) \in Nat
      /\ \A i \in 1 .. Len(x) + Len(y) : z[i] = IF i <= Len(x) THEN x[i] ELSE y[i - Len(x)]
  BY ConcatProperties, LenProperties
<1>2. /\ Len(y) \in Nat \ {0} /\ Front(y) \in Seq(S) /\ Len(Front(y)) = Len(y) - 1
      /\ \A i \in 1 .. Len(y) - 1 : Front(y)[i] = y[i]
      /\ Last(y) = y[Len(y)]
  BY FrontFacts
<1> HIDE DEF z
<1>3. z # <<>>
  BY <1>1, <1>2, EmptySeq
<1>4. /\ Len(z) \in Nat \ {0} /\ Front(z) \in Seq(S) /\ Len(Front(z)) = Len(z) - 1
      /\ \A i \in 1 .. Len(z) - 1 : Front(z)[i] = z[i]
      /\ Last(z) = z[Len(z)]
  BY <1>1, <1>3, FrontFacts
<1>5. Last(z) = Last(y)
  <2>1. Len(z) \in 1 .. Len(x) + Len(y) /\ ~ (Len(z) <= Len(x)) /\ Len(z) - Len(x) = Len(y)
    BY <1>1, <1>2
  <2>2. z[Len(z)] = y[Len(z) - Len(x)]
    BY <1>1, <2>1
  <2> QED
    BY <1>2, <1>4, <2>1, <2>2
<1>6. /\ x \o Front(y) \in Seq(S) /\ Len(x \o Front(y)) = Len(x) + (Len(y) - 1)
      /\ \A i \in 1 .. Len(x) + (Len(y) - 1) :
           (x \o Front(y))[i] = IF i <= Len(x) THEN x[i] ELSE Front(y)[i - Len(x)]
  <2> DEFINE w == Front(y)
  <2>1. w \in Seq(S) /\ Len(w) = Len(y) - 1
    BY <1>2
  <2> HIDE DEF w
  <2>2. /\ x \o w \in Seq(S)
        /\ Len(x \o w) = Len(x) + Len(w)
        /\ \A i \in 1 .. Len(x) + Len(w) :
             (x \o w)[i] = IF i <= Len(x) THEN x[i] ELSE w[i - Len(x)]
    BY <2>1, ConcatProperties
  <2> QED
    BY <2>1, <2>2 DEF w
<1>7. Len(Front(z)) = Len(x \o Front(y))
  BY <1>1, <1>2, <1>4, <1>6
<1>8. ASSUME NEW i \in 1 .. Len(Front(z)) PROVE Front(z)[i] = (x \o Front(y))[i]
  <2>1. i \in 1 .. Len(z) - 1 /\ i \in 1 .. Len(x) + Len(y) /\ i \in 1 .. Len(x) + (Len(y) - 1)
    BY <1>1, <1>2, <1>4
  <2>2. CASE i <= Len(x)
    BY <1>1, <1>4, <1>6, <2>1, <2>2
  <2>3. CASE ~ (i <= Len(x))
    <3>1. i - Len(x) \in 1 .. Len(y) - 1
      BY <1>1, <1>2, <2>1, <2>3
    <3>2. Front(y)[i - Len(x)] = y[i - Len(x)]
      BY <1>2, <3>1
    <3> QED
      BY <1>1, <1>4, <1>6, <2>1, <2>3, <3>2
  <2> QED
    BY <2>2, <2>3
<1>9. Front(z) = x \o Front(y)
  BY <1>4, <1>6, <1>7, <1>8, SeqEqual
<1> QED
  BY <1>3, <1>5, <1>9 DEF z

\* Chopping the carriage return at the end of each block leaves what chopping it at the
\* end of all of them leaves.
LEMMA ChoppedJoin ==
  ASSUME Constants, IsText(file), NEW a \in Nat, NEW c \in Nat, NEW e \in Nat,
         a <= c, c < e, e <= Len(file), file[c + 1] # LF
  PROVE  Chopped(SubSeq(file, a + 1, c)) \o Chopped(SubSeq(file, c + 1, e)) =
           Chopped(SubSeq(file, a + 1, e))
<1> DEFINE x == SubSeq(file, a + 1, c)
           y == SubSeq(file, c + 1, e)
<1>0. file \in Seq(Chars) /\ Len(file) \in Nat
  BY DEF Constants
<1>1. x \in Seq(Chars) /\ Len(x) = (IF a + 1 <= c THEN c - (a + 1) + 1 ELSE 0)
      /\ \A i \in 1 .. Len(x) : x[i] = file[a + 1 + i - 1]
  BY <1>0, PieceFacts
<1>2. y \in Seq(Chars) /\ Len(y) = e - c
  BY <1>0, PieceFacts
<1>3. x \o y = SubSeq(file, a + 1, e)
  BY <1>0, PiecesJoin
<1> HIDE DEF x, y
<1>4. Chopped(x) = x
  <2>1. SUFFICES ASSUME x # <<>>, Last(x) = CR PROVE FALSE
    BY DEF Chopped
  <2>2. Len(x) \in Nat \ {0} /\ Last(x) = x[Len(x)]
    BY <1>1, <2>1, FrontFacts
  <2>3. Len(x) = c - a /\ a < c /\ a + 1 + Len(x) - 1 = c
    BY <1>1, <2>2
  <2>4. x[Len(x)] = file[c]
    BY <1>1, <2>2, <2>3
  <2>5. file[c] # CR
    BY <1>0, <2>3, NoReturn
  <2> QED
    BY <2>1, <2>2, <2>4, <2>5
<1>5. y # <<>>
  BY <1>2, EmptySeq
<1>6. /\ x \o y # <<>> /\ Last(x \o y) = Last(y)
      /\ Front(x \o y) = x \o Front(y)
  BY <1>1, <1>2, <1>5, FrontOfJoin
<1>7. x \o Chopped(y) = Chopped(x \o y)
  BY <1>5, <1>6 DEF Chopped
<1> QED
  BY <1>3, <1>4, <1>7 DEF x, y


\* Where the i-th block behind p starts.
BlockStart(p, i) == p + (i - 1) * blockSize

LEMMA BlockStarts ==
  ASSUME Constants, NEW p \in Nat, NEW q \in Nat, p <= q, q <= Len(file),
         NEW n \in Nat, n # 0, p + (n - 1) * blockSize < q,
         q \in Offsets(p) \/ q = Len(file), q <= p + n * blockSize,
         q \in Offsets(p) => q = p + n * blockSize, NEW i \in 1 .. n
  PROVE  /\ BlockStart(p, i) \in Nat /\ p <= BlockStart(p, i) /\ BlockStart(p, i) < q
         /\ i = 1 => BlockStart(p, i) = p
         /\ i = n => BlockEnd(BlockStart(p, i)) = q
         /\ i < n => BlockEnd(BlockStart(p, i)) = BlockStart(p, i + 1)
<1>1. p <= p + (i - 1) * blockSize
  <2>1. i - 1 \in Nat /\ blockSize \in Nat
    BY DEF Constants
  <2>2. (i - 1) * blockSize \in Nat
    BY <2>1
  <2> QED
    BY <2>2
<1>2. p + (i - 1) * blockSize \in Nat
  BY BlockPlaces
<1>3. p + (i - 1) * blockSize < q
  BY BlockPlaces
<1>4. i = 1 => p + (i - 1) * blockSize = p
  BY BlockPlaces
<1>5. i = n => BlockEnd(p + (i - 1) * blockSize) = q
  BY BlockPlaces
<1>6. i < n => BlockEnd(p + (i - 1) * blockSize) = p + ((i + 1) - 1) * blockSize
  BY BlockPlaces
<1> QED
  BY <1>1, <1>2, <1>3, <1>4, <1>5, <1>6 DEF BlockStart

LEMMA Associative ==
  ASSUME NEW x \in Seq(Chars), NEW y \in Seq(Chars), NEW z \in Seq(Chars)
  PROVE  (x \o y) \o z = x \o (y \o z)
BY ConcatAssociative

\* What was joined behind first is, with it, the part of the file between a and c.
Joined(first, x, a, c) ==
  x \in Seq(Chars) /\ first \o x = Chopped(SubSeq(file, a + 1, c))

LEMMA JoinOneMore ==
  ASSUME Constants, IsText(file), NEW a \in Nat, NEW c \in Nat, NEW e \in Nat,
         a <= c, c < e, e <= Len(file), file[c + 1] # LF,
         NEW first \in Seq(Chars), NEW x, Joined(first, x, a, c)
  PROVE  Joined(first, x \o Chopped(SubSeq(file, c + 1, e)), a, e)
<1> DEFINE y == Chopped(SubSeq(file, c + 1, e))
<1>1. Len(file) \in Nat /\ file \in Seq(Chars)
  BY DEF Constants
<1>2. y \in Seq(Chars)
  <2>1. SubSeq(file, c + 1, e) \in Seq(Chars)
    BY <1>1, PieceFacts
  <2> QED
    BY <2>1, ChoppedType
<1>3. x \in Seq(Chars) /\ first \o x = Chopped(SubSeq(file, a + 1, c))
  BY DEF Joined
<1>4. Chopped(SubSeq(file, a + 1, c)) \o y = Chopped(SubSeq(file, a + 1, e))
  BY ChoppedJoin
<1> HIDE DEF y
<1>5. (first \o x) \o y = first \o (x \o y)
  BY <1>2, <1>3, Associative, Zenon
<1>6. x \o y \in Seq(Chars)
  BY <1>2, <1>3, ConcatProperties
<1>7. first \o (x \o y) = Chopped(SubSeq(file, a + 1, e))
  BY <1>3, <1>4, <1>5
<1>8. Joined(first, x \o y, a, e)
  BY <1>6, <1>7 DEF Joined
<1> QED
  BY <1>8 DEF y

\* The blocks between two offsets without a line end are the part of the file there.
LEMMA BetweenIs ==
  ASSUME Constants, IsText(file), NEW a \in Nat, NEW p \in Nat, NEW q \in Nat,
         a <= p, p <= q, q <= Len(file), q \in Offsets(p) \/ q = Len(file),
         \A k \in Nat : a < k /\ k <= q => file[k] # LF
  PROVE  Chopped(SubSeq(file, a + 1, p)) \o Between(p, q) = Chopped(SubSeq(file, a + 1, q))
<1> DEFINE n == Cardinality({x \in Offsets(p) : x < q})
           At(i) == BlockStart(p, i)
           s == [i \in 1 .. n |-> Chopped(BlockAt(At(i)))]
           first == Chopped(SubSeq(file, a + 1, p))
<1>0. Len(file) \in Nat /\ file \in Seq(Chars)
  BY DEF Constants
<1>1. /\ n \in Nat /\ q <= p + n * blockSize
      /\ n = 0 \/ p + (n - 1) * blockSize < q
      /\ q \in Offsets(p) => q = p + n * blockSize
  BY BlocksBefore
<1>2. Between(p, q) = FlattenSeq(s)
  BY DEF Between, BlockStart
<1>3. first \in Seq(Chars)
  <2>1. SubSeq(file, a + 1, p) \in Seq(Chars)
    BY <1>0, PieceFacts
  <2> QED
    BY <2>1, ChoppedType
<1> HIDE DEF n, first
<1>4. ASSUME NEW i \in 1 .. n
      PROVE  /\ At(i) \in Nat /\ a <= At(i) /\ At(i) < q /\ BlockEnd(At(i)) \in Nat
             /\ At(i) < BlockEnd(At(i)) /\ BlockEnd(At(i)) <= Len(file)
             /\ s[i] = Chopped(SubSeq(file, At(i) + 1, BlockEnd(At(i))))
             /\ s[i] \in Seq(Chars)
             /\ file[At(i) + 1] # LF
             /\ i = 1 => At(i) = p
             /\ i = n => BlockEnd(At(i)) = q
             /\ i < n => BlockEnd(At(i)) = At(i + 1)
  <2>1. /\ At(i) \in Nat /\ p <= At(i) /\ At(i) < q
        /\ i = 1 => At(i) = p
        /\ i = n => BlockEnd(At(i)) = q
        /\ i < n => BlockEnd(At(i)) = At(i + 1)
    <3>1. n \in Nat /\ n # 0 /\ p + (n - 1) * blockSize < q
          /\ q <= p + n * blockSize /\ (q \in Offsets(p) => q = p + n * blockSize)
      BY <1>1
    <3> HIDE DEF At
    <3>2. /\ BlockStart(p, i) \in Nat /\ p <= BlockStart(p, i) /\ BlockStart(p, i) < q
          /\ i = 1 => BlockStart(p, i) = p
          /\ i = n => BlockEnd(BlockStart(p, i)) = q
          /\ i < n => BlockEnd(BlockStart(p, i)) = BlockStart(p, i + 1)
      BY <3>1, BlockStarts
    <3> QED
      BY <3>2 DEF At
  <2>2. s[i] = Chopped(BlockAt(At(i)))
    OBVIOUS
  <2> HIDE DEF At, s
  <2>3. At(i) <= Len(file) /\ At(i) < Len(file) /\ a <= At(i)
        /\ At(i) + 1 \in Nat /\ a < At(i) + 1 /\ At(i) + 1 <= q
    BY <1>0, <2>1
  <2>4. /\ BlockEnd(At(i)) \in Nat /\ BlockEnd(At(i)) <= Len(file) /\ At(i) < BlockEnd(At(i))
        /\ BlockAt(At(i)) = SubSeq(file, At(i) + 1, BlockEnd(At(i)))
        /\ BlockAt(At(i)) \in Seq(Chars)
    BY <2>1, <2>3, BlockFacts
  <2>5. Chopped(BlockAt(At(i))) \in Seq(Chars)
    BY <2>4, ChoppedType
  <2>6. file[At(i) + 1] # LF
    BY <2>3
  <2> QED
    BY <2>1, <2>2, <2>3, <2>4, <2>5, <2>6
<1>5. Len(s) = n
  BY <1>1
<1> HIDE DEF s, At
<1>6. CASE n = 0
  <2>1. p = q
    BY <1>1, <1>6 DEF Constants
  <2>2. s = <<>>
    BY <1>5, <1>6 DEF s
  <2>3. FlattenSeq(s) = <<>>
    BY <2>2, EmptySeq DEF FlattenSeq
  <2> QED
    BY <1>2, <1>3, <2>1, <2>3, ConcatEmptySeq DEF first
<1>7. CASE n # 0
  <2>1. PICK f : FlattenSeq(s) = f[n] /\ IsFlattening(f, s)
    <3>1. n \in Nat /\ Len(s) = n /\ n # 0
      BY <1>1, <1>5, <1>7
    <3> QED
      BY <3>1, FlattenUnfolds
  <2> DEFINE Right(i) == Joined(first, f[i], a, BlockEnd(At(i)))
             Bad == {i \in 1 .. n : ~ Right(i)}
  <2> HIDE DEF Right
  <2>2. Bad = {}
    <3> SUFFICES ASSUME Bad # {} PROVE FALSE
      OBVIOUS
    <3>1. PICK i \in Bad : \A j \in Bad : i <= j
      <4>1. Bad \subseteq Nat
        BY <1>1
      <4> HIDE DEF Bad
      <4> QED
        BY <4>1, LeastIsLeast
    <3>2. i \in 1 .. n /\ ~ Right(i) /\ i \in Nat
      BY <1>1
    <3>3. /\ At(i) \in Nat /\ a <= At(i) /\ At(i) < BlockEnd(At(i))
          /\ BlockEnd(At(i)) <= Len(file) /\ BlockEnd(At(i)) \in Nat /\ s[i] \in Seq(Chars)
          /\ s[i] = Chopped(SubSeq(file, At(i) + 1, BlockEnd(At(i))))
          /\ file[At(i) + 1] # LF
      BY <1>4, <3>2
    <3>4. CASE i = 1
      <4>1. f[i] = s[i] /\ At(i) = p
        BY <1>4, <2>1, <3>2, <3>4 DEF IsFlattening
      <4>2. Chopped(SubSeq(file, a + 1, At(i)))
              \o Chopped(SubSeq(file, At(i) + 1, BlockEnd(At(i))))
            = Chopped(SubSeq(file, a + 1, BlockEnd(At(i))))
        BY <3>3, ChoppedJoin
      <4>3. first = Chopped(SubSeq(file, a + 1, At(i)))
        BY <4>1 DEF first
      <4> QED
        BY <3>2, <3>3, <4>1, <4>2, <4>3 DEF Right, Joined
    <3>5. CASE i # 1
      <4>1. i - 1 \in 1 .. n /\ ~ (i <= i - 1) /\ i \in 2 .. n /\ i - 1 < n /\ i - 1 + 1 = i
        BY <1>1, <3>2, <3>5
      <4>2. i - 1 \notin Bad
        <5> HIDE DEF Bad
        <5> QED
          BY <3>1, <4>1
      <4>3. Right(i - 1)
        BY <4>1, <4>2
      <4>4. f[i] = f[i - 1] \o s[i]
        BY <1>5, <2>1, <4>1 DEF IsFlattening
      <4>5. BlockEnd(At(i - 1)) = At(i)
        BY <1>4, <4>1
      <4>6. Joined(first, f[i - 1], a, At(i))
        BY <4>3, <4>5 DEF Right
      <4>7. Joined(first, f[i - 1] \o Chopped(SubSeq(file, At(i) + 1, BlockEnd(At(i)))),
                   a, BlockEnd(At(i)))
        BY <1>3, <3>3, <4>6, JoinOneMore
      <4> QED
        BY <3>2, <3>3, <4>4, <4>7 DEF Right
    <3> QED
      BY <3>4, <3>5
  <2>3. n \in 1 .. n
    BY <1>1, <1>7
  <2>4. Right(n)
    BY <2>2, <2>3
  <2> QED
    BY <1>2, <1>4, <2>1, <2>3, <2>4 DEF Right, Joined, first
<1> QED
  BY <1>6, <1>7

\* A line that ends with LF is stripped of it and of a CR before it.
LEMMA StripIs ==
  ASSUME Constants, NEW o \in Nat, NEW e \in Nat, o < e, e <= Len(file), file[e] = LF, remove
  PROVE  Strip(SubSeq(file, o + 1, e), remove) = Chopped(SubSeq(file, o + 1, e - 1))
<1> DEFINE l == SubSeq(file, o + 1, e)
           x == SubSeq(file, o + 1, e - 1)
           Cut(s, c) == IF s # <<>> /\ Last(s) = c THEN Front(s) ELSE s
<1>0. file \in Seq(Chars) /\ Len(file) \in Nat /\ e - 1 \in Nat
  BY DEF Constants
<1>1. l \in Seq(Chars) /\ Len(l) = e - o /\ \A i \in 1 .. Len(l) : l[i] = file[o + 1 + i - 1]
  BY <1>0, PieceFacts
<1>2. Strip(l, remove) = Cut(Cut(l, LF), CR)
  BY DEF Strip
<1>3. Chopped(x) = Cut(x, CR)
  BY DEF Chopped
<1>4. SubSeq(l, 1, e - o - 1) = x
  <2>1. e - o - 1 \in Nat /\ e - o - 1 <= e - (o + 1) + 1 /\ o + 1 \in Nat
        /\ o + 1 + 1 - 1 = o + 1 /\ o + 1 + (e - o - 1) - 1 = e - 1
    BY <1>0
  <2> QED
    BY <1>0, <2>1, PieceOfPiece
<1> HIDE DEF l
<1>5. l # <<>>
  BY <1>1, EmptySeq
<1>6. Last(l) = LF
  <2>1. Last(l) = l[Len(l)]
    BY <1>1, <1>5, FrontFacts
  <2>2. Len(l) \in 1 .. Len(l) /\ o + 1 + Len(l) - 1 = e
    BY <1>1
  <2> QED
    BY <1>1, <2>1, <2>2
<1>7. Front(l) = x
  <2>1. Front(l) = SubSeq(l, 1, Len(l) - 1)
    BY DEF Front
  <2> QED
    BY <1>1, <1>4, <2>1
<1>8. Cut(l, LF) = x
  BY <1>5, <1>6, <1>7
<1> HIDE DEF Cut
<1>9. Strip(l, remove) = Chopped(x)
  BY <1>2, <1>3, <1>8
<1> QED
  BY <1>9 DEF l

\* The part before the last block and the line end in it make a line.
LEMMA StripJoin ==
  ASSUME Constants, IsText(file), NEW a \in Nat, NEW c \in Nat, NEW e \in Nat,
         a <= c, c < e, e <= Len(file), file[e] = LF,
         \A k \in Nat : a < k /\ k < e => file[k] # LF
  PROVE  Chopped(SubSeq(file, a + 1, c)) \o Strip(SubSeq(file, c + 1, e), remove) =
           Strip(SubSeq(file, a + 1, e), remove)
<1>0. file \in Seq(Chars) /\ Len(file) \in Nat /\ e - 1 \in Nat
  BY DEF Constants
<1>1. CASE ~ remove
  <2>1. /\ Chopped(SubSeq(file, a + 1, c)) = SubSeq(file, a + 1, c)
        /\ Strip(SubSeq(file, c + 1, e), remove) = SubSeq(file, c + 1, e)
        /\ Strip(SubSeq(file, a + 1, e), remove) = SubSeq(file, a + 1, e)
    BY <1>1 DEF Chopped, Strip
  <2>2. SubSeq(file, a + 1, c) \o SubSeq(file, c + 1, e) = SubSeq(file, a + 1, e)
    BY <1>0, PiecesJoin
  <2> QED
    BY <2>1, <2>2
<1>2. CASE remove
  <2>1. /\ Strip(SubSeq(file, c + 1, e), remove) = Chopped(SubSeq(file, c + 1, e - 1))
        /\ Strip(SubSeq(file, a + 1, e), remove) = Chopped(SubSeq(file, a + 1, e - 1))
    <3>1. a < e
      OBVIOUS
    <3>2. Strip(SubSeq(file, c + 1, e), remove) = Chopped(SubSeq(file, c + 1, e - 1))
      BY <1>2, StripIs, Zenon
    <3>3. Strip(SubSeq(file, a + 1, e), remove) = Chopped(SubSeq(file, a + 1, e - 1))
      BY <1>2, <3>1, StripIs, Zenon
    <3> QED
      BY <3>2, <3>3
  <2>2. CASE c < e - 1
    <3>1. file[c + 1] # LF
      BY <2>2
    <3>2. e - 1 <= Len(file)
      BY <1>0
    <3>3. Chopped(SubSeq(file, a + 1, c)) \o Chopped(SubSeq(file, c + 1, e - 1))
            = Chopped(SubSeq(file, a + 1, e - 1))
      BY <1>0, <2>2, <3>1, <3>2, ChoppedJoin
    <3> QED
      BY <2>1, <3>3
  <2>3. CASE c = e - 1
    <3>1. SubSeq(file, c + 1, e - 1) = <<>>
      BY <1>0, <2>3, PieceEmpty
    <3>2. Chopped(<<>>) = <<>>
      BY DEF Chopped
    <3>3. SubSeq(file, a + 1, c) \in Seq(Chars)
      BY <1>0, PieceFacts
    <3>4. Chopped(SubSeq(file, a + 1, c)) \in Seq(Chars)
      BY <3>3, ChoppedType
    <3>5. Chopped(SubSeq(file, a + 1, c)) \o <<>> = Chopped(SubSeq(file, a + 1, c))
      BY <3>4, ConcatEmptySeq
    <3> QED
      BY <2>1, <2>3, <3>1, <3>2, <3>5
  <2> QED
    BY <1>0, <2>2, <2>3
<1> QED
  BY <1>1, <1>2, Zenon

\* Strip() and the chopping agree on a line without LF.
LEMMA StripNoEnd ==
  ASSUME Constants, NEW o \in Nat, NEW e \in Nat, o <= e, e <= Len(file),
         \A k \in Nat : o < k /\ k <= e => file[k] # LF
  PROVE  Strip(SubSeq(file, o + 1, e), remove) = Chopped(SubSeq(file, o + 1, e))
<1> DEFINE l == SubSeq(file, o + 1, e)
           Cut(s, c) == IF s # <<>> /\ Last(s) = c THEN Front(s) ELSE s
<1>0. file \in Seq(Chars) /\ Len(file) \in Nat
  BY DEF Constants
<1>1. /\ l \in Seq(Chars) /\ Len(l) = (IF o + 1 <= e THEN e - (o + 1) + 1 ELSE 0)
      /\ \A i \in 1 .. Len(l) : l[i] = file[o + 1 + i - 1]
  BY <1>0, PieceFacts
<1>2. Strip(l, remove) = IF remove THEN Cut(Cut(l, LF), CR) ELSE l
  BY DEF Strip
<1>3. Chopped(l) = IF remove THEN Cut(l, CR) ELSE l
  BY DEF Chopped
<1> HIDE DEF l
<1>4. ASSUME l # <<>> PROVE Last(l) # LF
  <2>1. Last(l) = l[Len(l)] /\ Len(l) \in Nat \ {0}
    BY <1>1, <1>4, FrontFacts
  <2>2. o < e /\ Len(l) \in 1 .. Len(l) /\ o + 1 + Len(l) - 1 = e
    BY <1>1, <2>1
  <2> QED
    BY <1>1, <2>1, <2>2
<1>5. Cut(l, LF) = l
  BY <1>4
<1> HIDE DEF Cut
<1>6. Strip(l, remove) = Chopped(l)
  BY <1>2, <1>3, <1>5
<1> QED
  BY <1>6 DEF l

\* Every byte behind p is in one of the blocks that are read from there on.
LEMMA BlockOf ==
  ASSUME Constants, NEW p \in Nat, NEW k \in Nat, p < k, k <= Len(file)
  PROVE  \E x \in Offsets(p) : x \in Nat /\ p <= x /\ x < k /\ k <= BlockEnd(x)
<1> DEFINE b == blockSize
<1>0. b \in Nat /\ b > 0 /\ Len(file) \in Nat
  BY DEF Constants
<1>1. PICK m \in Nat : k - p <= m * b /\ (m = 0 \/ (m - 1) * b < k - p)
  <2>1. k - p \in Nat
    OBVIOUS
  <2> QED
    BY <1>0, <2>1, BlocksNeeded
<1>2. m # 0
  <2>1. m = 0 => m * b = 0
    BY <1>0
  <2> QED
    BY <1>1, <2>1
<1> DEFINE d == (m - 1) * b
           x == p + d
<1>3. d \in Nat /\ d % b = 0 /\ d + b = m * b
  <2>1. m - 1 \in Nat
    BY <1>2
  <2>2. d \in Nat /\ d % b = 0
    BY <1>0, <2>1, Divided
  <2>3. (m - 1) * b + b = m * b
    BY <1>0, <2>1
  <2> QED
    BY <2>2, <2>3
<1> HIDE DEF d
<1>4. d < k - p /\ k - p <= d + b
  BY <1>1, <1>2, <1>3 DEF d
<1>5. x \in Nat /\ p <= x /\ x < k /\ k <= x + b /\ x - p = d
  BY <1>0, <1>3, <1>4
<1> HIDE DEF x
<1>6. x \in Offsets(p)
  BY <1>0, <1>3, <1>5 DEF Offsets
<1>7. k <= BlockEnd(x)
  BY <1>0, <1>5 DEF BlockEnd, Smaller
<1> QED
  BY <1>5, <1>6, <1>7

LEMMA PieceAt ==
  ASSUME Constants, NEW u \in Nat, NEW p \in Nat, p <= Len(file), NEW b,
         b = SubSeq(file, u + 1, p)
  PROVE  \A i \in 1 .. Len(b) : b[i] = file[u + i]
<1>1. file \in Seq(Chars)
  BY DEF Constants
<1>2. /\ b \in Seq(Chars)
      /\ \A i \in 1 .. Len(b) : b[i] = file[u + 1 + i - 1]
  BY <1>1, PieceFacts
<1>3. Len(b) \in Nat
  BY <1>2
<1>4. ASSUME NEW i \in 1 .. Len(b) PROVE b[i] = file[u + i]
  <2>1. u + 1 + i - 1 = u + i
    BY <1>3
  <2> QED
    BY <1>2, <2>1
<1> QED
  BY <1>4

LEMMA OffFacts ==
  ASSUME Constants, NEW r, ReadingOK(r)
  PROVE  /\ Off(r) \in Nat /\ Off(r) <= r.pos /\ r.pos \in Nat /\ r.pos <= Len(file)
         /\ r.cursor = 0 => Off(r) = r.pos
         /\ r.cursor # 0 =>
              /\ r.block \in Seq(Chars) /\ r.cursor \in 1 .. Len(r.block)
              /\ r.pos - Len(r.block) \in Nat
              /\ r.block = SubSeq(file, r.pos - Len(r.block) + 1, r.pos)
              /\ \A i \in 1 .. Len(r.block) : r.block[i] = file[r.pos - Len(r.block) + i]
              /\ Off(r) = r.pos - Len(r.block) + r.cursor - 1
              /\ Off(r) < r.pos
<1>1. /\ r.pos \in Nat /\ r.pos <= Len(file) /\ Len(file) \in Nat /\ r.block \in Seq(Chars)
      /\ Len(r.block) \in Nat /\ r.cursor \in Nat /\ r.cursor <= Len(r.block)
      /\ file \in Seq(Chars)
  BY DEF ReadingOK, Constants
<1>2. CASE r.cursor = 0
  BY <1>1, <1>2 DEF Off
<1>3. CASE r.cursor # 0
  <2>1. Len(r.block) <= r.pos /\ r.block = SubSeq(file, r.pos - Len(r.block) + 1, r.pos)
    BY <1>3 DEF ReadingOK, Follows
  <2> DEFINE u == r.pos - Len(r.block)
  <2>2. u \in Nat /\ u + 1 \in Nat /\ u + 1 >= 1
    BY <1>1, <2>1
  <2>3. Off(r) = u + r.cursor - 1
    BY <1>3 DEF Off
  <2>4. r.block = SubSeq(file, u + 1, r.pos)
    BY <2>1
  <2> HIDE DEF u
  <2>5. r.pos = u + Len(r.block)
    BY <1>1, <2>2 DEF u
  <2>6. /\ Off(r) \in Nat /\ Off(r) < r.pos /\ Off(r) <= r.pos /\ r.cursor \in 1 .. Len(r.block)
    BY <1>1, <1>3, <2>2, <2>3, <2>5
  <2>7. \A i \in 1 .. Len(r.block) : r.block[i] = file[u + i]
    <3> DEFINE b == r.block
               p == r.pos
    <3>1. b = SubSeq(file, u + 1, p) /\ p \in Nat /\ p <= Len(file)
      BY <1>1, <2>4
    <3> HIDE DEF b, p
    <3>2. \A i \in 1 .. Len(b) : b[i] = file[u + i]
      BY <2>2, <3>1, PieceAt
    <3> QED
      BY <3>2 DEF b
  <2> QED
    BY <1>1, <1>3, <2>1, <2>2, <2>3, <2>6, <2>7 DEF u
<1> QED
  BY <1>2, <1>3

\* The block b is the part of the file between u and p.
Covers(b, u, p) == b = SubSeq(file, u + 1, p) /\ p = u + Len(b)

LEMMA CoversAt ==
  ASSUME Constants, NEW u \in Nat, NEW p \in Nat, p <= Len(file), NEW b, Covers(b, u, p)
  PROVE  \A i \in 1 .. Len(b) : b[i] = file[u + i]
BY PieceAt DEF Covers

\* A piece of a block is a piece of the file.
LEMMA PieceOfBlock ==
  ASSUME Constants, NEW u \in Nat, NEW p \in Nat, p <= Len(file), u <= p, NEW c \in Nat, c >= 1,
         NEW d \in Nat, d <= p - u, c <= d + 1, NEW b, b = SubSeq(file, u + 1, p)
  PROVE  SubSeq(b, c, d) = SubSeq(file, u + c, u + d)
<1>0. file \in Seq(Chars) /\ Len(file) \in Nat
  BY DEF Constants
<1>1. /\ u + 1 + c - 1 = u + c /\ u + 1 + d - 1 = u + d
      /\ d <= p - (u + 1) + 1 /\ u + 1 \in Nat /\ u + 1 >= 1
  BY <1>0
<1>2. SubSeq(SubSeq(file, u + 1, p), c, d) = SubSeq(file, u + 1 + c - 1, u + 1 + d - 1)
  BY <1>0, <1>1, PieceOfPiece
<1> QED
  BY <1>1, <1>2

LEMMA CoversPiece ==
  ASSUME Constants, NEW u \in Nat, NEW p \in Nat, p <= Len(file), NEW b, Len(b) \in Nat,
         Covers(b, u, p), NEW c \in Nat, c >= 1, NEW d \in Nat, d <= Len(b), c <= d + 1
  PROVE  SubSeq(b, c, d) = SubSeq(file, u + c, u + d)
<1>1. b = SubSeq(file, u + 1, p)
  BY Zenon DEF Covers
<1>2. p = u + Len(b)
  BY Zenon DEF Covers
<1>3. u <= p /\ d <= p - u
  BY <1>2
<1> QED
  BY <1>1, <1>3, PieceOfBlock

\* The line is found in the block b, which starts at u; the parts before it are done.
\* From c on the block b, which starts at u, shows a line end; the part of the line
\* before c, from o on, is done.
EndSeen(done, o, u, p, b, c) ==
  /\ o \in Nat /\ u \in Nat /\ p \in Nat /\ p <= Len(file)
  /\ b \in Seq(Chars) /\ p = u + Len(b) /\ Covers(b, u, p)
  /\ c \in 1 .. Len(b) /\ Visible(b, c) # {}
  /\ o <= u + c - 1 /\ \A k \in Nat : o < k /\ k <= u + c - 1 => file[k] # LF
  /\ done = Chopped(SubSeq(file, o + 1, u + c - 1))

LEMMA CompletedReads ==
  ASSUME Constants, IsText(file), NEW r, NEW done, NEW o, NEW u, NEW p, NEW b, NEW c,
         EndSeen(done, o, u, p, b, c)
  PROVE  /\ Off(Completed(r, done, p, b, c)) = LineEnd(o)
         /\ Completed(r, done, p, b, c).line = Strip(SubSeq(file, o + 1, LineEnd(o)), remove)
<1> USE DEF EndSeen
<1> DEFINE end == Least(Visible(b, c))
           e == u + end
           l == done \o Strip(SubSeq(b, c, end), remove)
           s == Completed(r, done, p, b, c)
<1>0. file \in Seq(Chars) /\ Len(file) \in Nat /\ Len(b) \in Nat /\ c \in Nat /\ 1 <= c
      /\ c <= Len(b)
  BY DEF Constants
<1>13. p = u + Len(b)
  BY DEF Covers
<1>1. s = [pos |-> p, block |-> b, cursor |-> CursorAfter(b, end), line |-> l]
  BY DEF Completed
<1>2. end \in c .. Len(b) /\ \A j \in c .. Len(b) : j \in Visible(b, c) => end <= j
  BY <1>0, VisibleLeast
<1>3. end \in Visible(b, c)
  <2>1. Visible(b, c) \subseteq Nat
    BY <1>0 DEF Visible
  <2> QED
    BY <2>1, LeastIsLeast
<1>4. SubSeq(b, c, end) = SubSeq(file, u + c, u + end)
  <2>1. end \in Nat /\ end <= Len(b) /\ c <= end + 1 /\ c >= 1
    BY <1>0, <1>2
  <2>2. u \in Nat /\ p \in Nat /\ p <= Len(file) /\ Covers(b, u, p)
    OBVIOUS
  <2> HIDE DEF end, EndSeen
  <2> QED
    BY <1>0, <2>1, <2>2, CoversPiece, SMTT(60)
<1>5. \A i \in 1 .. Len(b) : b[i] = file[u + i]
  BY CoversAt
<1>6. Visible(b, c) = {k \in c .. Len(b) : file[u + k] = LF}
  BY <1>0, <1>5, <1>13, VisibleIs
<1> HIDE DEF end, s
<1>7. /\ e \in Nat /\ u + c - 1 \in Nat /\ u + c - 1 < e /\ e <= Len(file) /\ file[e] = LF
      /\ o < e /\ end \in Nat /\ end <= Len(b)
  BY <1>0, <1>2, <1>3, <1>6, <1>13
<1>8. ASSUME NEW k \in Nat, o < k, k < e PROVE file[k] # LF
  <2>1. CASE k <= u + c - 1
    BY <1>8, <2>1
  <2>2. CASE ~ (k <= u + c - 1)
    <3>1. k - u \in c .. Len(b) /\ ~ (end <= k - u) /\ u + (k - u) = k
      BY <1>0, <1>7, <1>8, <2>2
    <3>2. k - u \notin Visible(b, c)
      BY <1>2, <3>1
    <3> QED
      BY <1>6, <3>1, <3>2
  <2> QED
    BY <2>1, <2>2
<1>9. LineEnd(o) = e
  BY <1>7, <1>8, LineEndIs
<1>10. Off(s) = e
  <2>1. CASE end = Len(b)
    BY <1>1, <1>13, <2>1 DEF Off, CursorAfter
  <2>2. CASE end # Len(b)
    <3>1. s.pos = p /\ s.block = b /\ s.cursor = end + 1
      BY <1>1, <2>2 DEF CursorAfter
    <3>2. Off(s) = p - Len(b) + (end + 1) - 1
      BY <1>7, <3>1 DEF Off
    <3> QED
      BY <1>0, <1>7, <1>13, <3>2
  <2> QED
    BY <2>1, <2>2
<1>11. l = Strip(SubSeq(file, o + 1, e), remove)
  <2> DEFINE m == u + c - 1
  <2>1. /\ m \in Nat /\ o <= m /\ m < e /\ m + 1 = u + c
        /\ done = Chopped(SubSeq(file, o + 1, m))
    BY <1>0, <1>7
  <2> HIDE DEF m, e
  <2>2. Chopped(SubSeq(file, o + 1, m)) \o Strip(SubSeq(file, m + 1, e), remove) =
          Strip(SubSeq(file, o + 1, e), remove)
    BY <1>7, <1>8, <2>1, StripJoin
  <2> QED
    BY <1>4, <2>1, <2>2 DEF e
<1>12. s.line = l
  BY <1>1
<1> HIDE DEF l, e
<1> QED
  BY <1>9, <1>10, <1>11, <1>12 DEF s

\* Where readLine() sees no line end there is none.
LEMMA NoneSeen ==
  ASSUME Constants, IsText(file), NEW r, ReadingOK(r),
         ~ (r.cursor # 0 /\ Visible(r.block, r.cursor) # {}),
         NEW q \in Nat, r.pos <= q, q <= Len(file),
         \A x \in Offsets(r.pos) : x < q => Visible(BlockAt(x), 1) = {}
  PROVE  \A k \in Nat : Off(r) < k /\ k <= q => file[k] # LF
<1> SUFFICES ASSUME NEW k \in Nat, Off(r) < k, k <= q PROVE file[k] # LF
  OBVIOUS
<1>0. Len(file) \in Nat /\ Off(r) \in Nat /\ r.pos \in Nat /\ r.pos <= Len(file)
  BY OffFacts DEF Constants
<1>1. CASE k <= r.pos
  <2>1. r.cursor # 0
    BY <1>0, <1>1, OffFacts
  <2> DEFINE b == r.block
             u == r.pos - Len(b)
             c == r.cursor
  <2>2. /\ b \in Seq(Chars) /\ c \in 1 .. Len(b) /\ u \in Nat
        /\ \A i \in 1 .. Len(b) : b[i] = file[u + i]
        /\ Off(r) = u + c - 1
    BY <2>1, OffFacts
  <2>3. Visible(b, c) = {}
    BY <2>1
  <2>4. Len(b) \in Nat /\ r.pos = u + Len(b)
    BY <1>0, <2>2
  <2> HIDE DEF b, u, c
  <2>5. c \in Nat /\ 1 <= c /\ u + Len(b) <= Len(file)
    BY <1>0, <2>2, <2>4
  <2>6. Visible(b, c) = {i \in c .. Len(b) : file[u + i] = LF}
    BY <2>2, <2>5, VisibleIs
  <2>7. k - u \in c .. Len(b) /\ u + (k - u) = k
    BY <1>1, <2>2, <2>4, <2>5
  <2> QED
    BY <2>3, <2>6, <2>7
<1>2. CASE r.pos < k
  <2>1. PICK x \in Offsets(r.pos) : x \in Nat /\ r.pos <= x /\ x < k /\ k <= BlockEnd(x)
    <3> DEFINE p == r.pos
    <3>1. p \in Nat /\ p < k /\ k <= Len(file)
      BY <1>0, <1>2
    <3> HIDE DEF p
    <3>2. \E x \in Offsets(p) : x \in Nat /\ p <= x /\ x < k /\ k <= BlockEnd(x)
      BY <3>1, BlockOf
    <3> QED
      BY <3>2 DEF p
  <2>2. Visible(BlockAt(x), 1) = {}
    BY <2>1
  <2> DEFINE b == BlockAt(x)
  <2>3. /\ b \in Seq(Chars) /\ Len(b) = BlockEnd(x) - x /\ BlockEnd(x) \in Nat
        /\ BlockEnd(x) <= Len(file) /\ \A i \in 1 .. Len(b) : b[i] = file[x + i]
    <3>1. x <= Len(file)
      BY <1>0, <2>1
    <3> QED
      BY <2>1, <3>1, BlockFacts
  <2> HIDE DEF b
  <2>4. x + Len(b) <= Len(file) /\ Len(b) \in Nat
    BY <1>0, <2>1, <2>3
  <2>5. Visible(b, 1) = {i \in 1 .. Len(b) : file[x + i] = LF}
    <3> DEFINE c == 1
    <3>1. c \in Nat /\ 1 <= c /\ x \in Nat
      BY <2>1
    <3> HIDE DEF c
    <3>2. Visible(b, c) = {i \in c .. Len(b) : file[x + i] = LF}
      BY <2>3, <2>4, <3>1, VisibleIs
    <3> QED
      BY <3>2 DEF c
  <2>6. k - x \in 1 .. Len(b) /\ x + (k - x) = k
    BY <2>1, <2>3
  <2> QED
    BY <2>2, <2>5, <2>6 DEF b
<1> QED
  BY <1>0, <1>1, <1>2

\* readLine(): it delivers the line behind the offset, and stands behind it then.
LEMMA ReadLine ==
  ASSUME Constants, IsText(file), NEW r, ReadingOK(r)
  PROVE  /\ Off(AfterReadLine(r)) = LineEnd(Off(r))
         /\ AfterReadLine(r).line = Strip(SubSeq(file, Off(r) + 1, LineEnd(Off(r))), remove)
<1> DEFINE part == Chopped(SubSeq(r.block, r.cursor, Len(r.block)))
           first == IF r.cursor = 0 THEN <<>> ELSE part
           stop == Least(Stops(r.pos))
           o == Off(r)
           p == r.pos
           Seen == r.cursor # 0 /\ Visible(r.block, r.cursor) # {}
           s == AfterReadLine(r)
<1>0. file \in Seq(Chars) /\ Len(file) \in Nat
  BY DEF Constants
<1>1. o \in Nat /\ o <= p /\ p \in Nat /\ p <= Len(file)
  BY OffFacts
<1>2. first = Chopped(SubSeq(file, o + 1, p))
  <2>1. CASE r.cursor = 0
    <3>1. SubSeq(file, o + 1, p) = <<>>
      <4>1. o = p
        BY <2>1, OffFacts
      <4> HIDE DEF o, p
      <4> QED
        BY <1>0, <1>1, <4>1, PieceEmpty
    <3> QED
      BY <2>1, <3>1 DEF Chopped
  <2>2. CASE r.cursor # 0
    <3> DEFINE b == r.block
               u == p - Len(b)
               c == r.cursor
    <3>1. /\ b \in Seq(Chars) /\ c \in 1 .. Len(b) /\ u \in Nat
          /\ b = SubSeq(file, u + 1, p) /\ o = u + c - 1
      BY <2>2, OffFacts
    <3>2. Len(b) \in Nat /\ p = u + Len(b)
      BY <1>1, <3>1, SMTT(60)
    <3>3. Covers(b, u, p)
      BY <3>1, <3>2, Zenon DEF Covers
    <3>4. first = Chopped(SubSeq(b, c, Len(b)))
      BY <2>2
    <3>5. c \in Nat /\ c >= 1 /\ c <= Len(b) + 1 /\ Len(b) <= Len(b) /\ c \in 1 .. Len(b)
          /\ u \in Nat /\ o = u + c - 1
      BY <3>1, <3>2
    <3> HIDE DEF b, u, c, o, p, first
    <3>6. SubSeq(b, c, Len(b)) = SubSeq(file, u + c, u + Len(b))
      BY <1>1, <3>2, <3>3, <3>5, CoversPiece, SMTT(60)
    <3>7. u + c = o + 1
      BY <3>5
    <3> QED
      BY <3>2, <3>4, <3>6, <3>7
  <2> QED
    BY <2>1, <2>2
<1>3. CASE Seen
  <2> DEFINE b == r.block
             u == p - Len(b)
             c == r.cursor
  <2>1. /\ b \in Seq(Chars) /\ c \in 1 .. Len(b) /\ u \in Nat
        /\ b = SubSeq(file, u + 1, p) /\ o = u + c - 1
    BY <1>3, OffFacts
  <2>2. Len(b) \in Nat /\ p = u + Len(b)
    BY <1>1, <2>1
  <2>3. Covers(b, u, p)
    BY <2>1, <2>2, Zenon DEF Covers
  <2>4. s = Completed(r, <<>>, p, b, c) /\ Visible(b, c) # {}
    BY <1>3 DEF AfterReadLine
  <2> HIDE DEF b, u, c, o, p, s
  <2>5. o <= u + c - 1 /\ \A k \in Nat : o < k /\ k <= u + c - 1 => file[k] # LF
    BY <1>1, <2>1, <2>2
  <2>6. <<>> = Chopped(SubSeq(file, o + 1, u + c - 1))
    <3>1. SubSeq(file, o + 1, o) = <<>>
      BY <1>0, <1>1, PieceEmpty
    <3> QED
      BY <2>1, <3>1 DEF Chopped
  <2>7. /\ Off(Completed(r, <<>>, p, b, c)) = LineEnd(o)
        /\ Completed(r, <<>>, p, b, c).line = Strip(SubSeq(file, o + 1, LineEnd(o)), remove)
    <3>1. EndSeen(<<>>, o, u, p, b, c)
      BY <1>1, <2>1, <2>2, <2>3, <2>4, <2>5, <2>6, Zenon DEF EndSeen
    <3> QED
      BY <3>1, CompletedReads
  <2> QED
    BY <2>4, <2>7 DEF o, s
<1>4. CASE ~ Seen /\ Stops(r.pos) # {}
  <2> DEFINE b == BlockAt(stop)
             q == stop + Len(b)
             done == first \o Between(p, stop)
  <2>1. s = Completed(r, done, q, b, 1)
    BY <1>4 DEF AfterReadLine
  <2>2. /\ stop \in Offsets(p) /\ stop \in Nat /\ p <= stop /\ stop < Len(file)
        /\ Visible(b, 1) # {}
        /\ \A x \in Offsets(p) : x < stop => Visible(BlockAt(x), 1) = {}
    BY <1>1, <1>4, StopFacts
  <2>3. /\ b \in Seq(Chars) /\ Len(b) = BlockEnd(stop) - stop /\ BlockEnd(stop) \in Nat
        /\ BlockEnd(stop) <= Len(file) /\ stop < BlockEnd(stop)
        /\ b = SubSeq(file, stop + 1, BlockEnd(stop))
    <3> HIDE DEF stop
    <3>1. stop \in Nat /\ stop <= Len(file) /\ stop < Len(file)
      BY <1>0, <2>2
    <3> QED
      BY <3>1, BlockFacts
  <2>4. \A k \in Nat : o < k /\ k <= stop => file[k] # LF
    <3>1. stop <= Len(file)
      BY <1>0, <2>2
    <3> HIDE DEF stop
    <3> QED
      BY <1>4, <2>2, <3>1, NoneSeen
  <2> HIDE DEF stop, o, p, s, first, b
  <2>5. q = BlockEnd(stop) /\ q \in Nat /\ q <= Len(file) /\ 1 \in 1 .. Len(b)
    BY <2>2, <2>3
  <2>6. Covers(b, stop, q)
    BY <2>3, <2>5 DEF Covers
  <2>7. done = Chopped(SubSeq(file, o + 1, stop))
    <3>1. stop <= Len(file) /\ stop \in Nat
      BY <1>0, <2>2
    <3>2. Chopped(SubSeq(file, o + 1, p)) \o Between(p, stop)
            = Chopped(SubSeq(file, o + 1, stop))
      BY <1>1, <2>2, <2>4, <3>1, BetweenIs
    <3> QED
      BY <1>2, <3>2
  <2> HIDE DEF q, done
  <2>8. /\ stop + 1 - 1 = stop /\ o <= stop
    BY <1>1, <2>2
  <2> DEFINE c == 1
  <2>9. /\ c \in 1 .. Len(b) /\ Visible(b, c) # {} /\ o <= stop + c - 1
        /\ \A k \in Nat : o < k /\ k <= stop + c - 1 => file[k] # LF
        /\ done = Chopped(SubSeq(file, o + 1, stop + c - 1))
        /\ q = stop + Len(b)
    BY <2>2, <2>4, <2>5, <2>7, <2>8 DEF q
  <2>10. s = Completed(r, done, q, b, c)
    BY <2>1
  <2> HIDE DEF c
  <2>11. /\ Off(Completed(r, done, q, b, c)) = LineEnd(o)
         /\ Completed(r, done, q, b, c).line = Strip(SubSeq(file, o + 1, LineEnd(o)), remove)
    <3>1. EndSeen(done, o, stop, q, b, c)
      BY <1>1, <2>2, <2>3, <2>5, <2>6, <2>9, Zenon DEF EndSeen
    <3> QED
      BY <3>1, CompletedReads
  <2> QED
    BY <2>10, <2>11 DEF o, s
<1>5. CASE ~ Seen /\ Stops(r.pos) = {}
  <2> DEFINE end == Len(file)
             l == first \o Between(p, end)
  <2>1. s = [pos |-> end, block |-> <<>>, cursor |-> 0, line |-> l]
    BY <1>5 DEF AfterReadLine
  <2>2. \A x \in Offsets(p) : Visible(BlockAt(x), 1) = {}
    BY <1>5 DEF Stops
  <2>3. \A k \in Nat : o < k /\ k <= end => file[k] # LF
    <3>1. end \in Nat /\ p <= end /\ end <= Len(file)
      BY <1>0, <1>1
    <3> HIDE DEF end
    <3> QED
      BY <1>5, <2>2, <3>1, NoneSeen
  <2> HIDE DEF o, p, s, first
  <2>4. o <= end /\ end \in Nat /\ end = Len(file) /\ p <= end /\ end <= Len(file)
    BY <1>0, <1>1
  <2> HIDE DEF end
  <2>5. l = Chopped(SubSeq(file, o + 1, end))
    <3>1. Chopped(SubSeq(file, o + 1, p)) \o Between(p, end) = Chopped(SubSeq(file, o + 1, end))
      BY <1>1, <2>3, <2>4, BetweenIs
    <3> QED
      BY <1>2, <3>1
  <2>6. Strip(SubSeq(file, o + 1, end), remove) = Chopped(SubSeq(file, o + 1, end))
    BY <1>1, <2>3, <2>4, StripNoEnd
  <2>7. LineEnd(o) = end
    <3>1. \A k \in Nat : o < k /\ k < end => file[k] # LF
      BY <2>3, <2>4
    <3> QED
      BY <1>1, <2>4, <3>1, LineEndIs
  <2>8. Off(s) = end /\ s.line = l
    BY <2>1 DEF Off
  <2> QED
    BY <2>5, <2>6, <2>7, <2>8 DEF o, s
<1> QED
  BY <1>3, <1>4, <1>5

------------------------------------------------------------------------------
(* The lines of a text, counted by their ends. *)

Upto(text, k) == {j \in Ends(text) : j <= k}

NextEnd(text, m) ==
  LET behind == {k \in Ends(text) : m < k}
  IN IF behind # {} THEN Least(behind) ELSE Len(text)

LEMMA EndsFacts ==
  ASSUME NEW text \in Seq(Chars)
  PROVE  /\ Len(text) \in Nat
         /\ Ends(text) \subseteq 1 .. Len(text) /\ Ends(text) \subseteq Nat
         /\ IsFiniteSet(Ends(text))
         /\ Cardinality(Ends(text)) \in Nat /\ Cardinality(Ends(text)) <= Len(text)
         /\ \A k : IsFiniteSet(Upto(text, k)) /\ Cardinality(Upto(text, k)) \in Nat
<1>1. Len(text) \in Nat /\ DOMAIN text = 1 .. Len(text)
  OBVIOUS
<1>2. Ends(text) \subseteq 1 .. Len(text)
  BY <1>1 DEF Ends
<1>3. IsFiniteSet(1 .. Len(text)) /\ Cardinality(1 .. Len(text)) = Len(text)
  BY <1>1, FS_Interval
<1>4. IsFiniteSet(Ends(text)) /\ Cardinality(Ends(text)) <= Cardinality(1 .. Len(text))
  BY <1>2, <1>3, FS_Subset
<1>5. Cardinality(Ends(text)) \in Nat
  BY <1>4, FS_CardinalityType
<1>6. \A k : IsFiniteSet(Upto(text, k))
  <2>1. \A k : Upto(text, k) \in SUBSET Ends(text)
    BY DEF Upto
  <2> QED
    BY <1>4, <2>1, FS_Subset
<1>7. \A k : Cardinality(Upto(text, k)) \in Nat
  BY <1>6, FS_CardinalityType
<1> QED
  BY <1>1, <1>2, <1>3, <1>4, <1>5, <1>6, <1>7

\* Behind a line end there is one more.
LEMMA UptoGrows ==
  ASSUME NEW text \in Seq(Chars), NEW j \in Nat, NEW k \in Nat
  PROVE  /\ j <= k => Cardinality(Upto(text, j)) <= Cardinality(Upto(text, k))
         /\ j < k /\ k \in Ends(text) =>
              Cardinality(Upto(text, j)) < Cardinality(Upto(text, k))
<1>1. /\ \A i : IsFiniteSet(Upto(text, i)) /\ Cardinality(Upto(text, i)) \in Nat
      /\ Ends(text) \subseteq Nat
  BY EndsFacts
<1>2. ASSUME j <= k
      PROVE  /\ Upto(text, j) \in SUBSET Upto(text, k)
             /\ Cardinality(Upto(text, j)) <= Cardinality(Upto(text, k))
             /\ Cardinality(Upto(text, k)) = Cardinality(Upto(text, j)) =>
                  Upto(text, k) = Upto(text, j)
  <2>1. Upto(text, j) \in SUBSET Upto(text, k)
    BY <1>1, <1>2 DEF Upto
  <2> QED
    BY <1>1, <2>1, FS_Subset
<1>3. ASSUME j < k, k \in Ends(text)
      PROVE  Cardinality(Upto(text, j)) < Cardinality(Upto(text, k))
  <2>1. k \in Upto(text, k) /\ k \notin Upto(text, j)
    BY <1>3 DEF Upto
  <2>2. j <= k
    BY <1>3
  <2> QED
    BY <1>1, <1>2, <2>1, <2>2
<1> QED
  BY <1>2, <1>3

\* The least end behind m is the one after those up to m.
LEMMA NextEndCounts ==
  ASSUME NEW text \in Seq(Chars), NEW m \in Nat, NEW e \in Ends(text), m < e,
         \A k \in Ends(text) : m < k => e <= k
  PROVE  Cardinality(Upto(text, e)) = Cardinality(Upto(text, m)) + 1
<1>1. e \in Nat /\ Ends(text) \subseteq Nat /\ IsFiniteSet(Upto(text, m))
  BY EndsFacts
<1>2. Upto(text, e) = Upto(text, m) \cup {e}
  BY <1>1 DEF Upto
<1>3. e \notin Upto(text, m)
  BY <1>1 DEF Upto
<1> QED
  BY <1>1, <1>2, <1>3, FS_AddElement

\* A set of positions in a text has a greatest element.
LEMMA HasGreatest ==
  ASSUME NEW n \in Nat, NEW S, S \subseteq 0 .. n, S # {}
  PROVE  \E k \in S : \A j \in S : j <= k
<1> DEFINE T == {n - j : j \in S}
<1>1. T \subseteq Nat /\ T # {}
  OBVIOUS
<1>2. PICK t \in T : \A x \in T : t <= x
  <2> HIDE DEF T
  <2> QED
    BY <1>1, LeastIsLeast
<1>3. PICK k \in S : t = n - k
  OBVIOUS
<1>4. ASSUME NEW j \in S PROVE j <= k
  <2>1. n - j \in T
    OBVIOUS
  <2>2. t <= n - j
    BY <1>2, <2>1
  <2> QED
    BY <1>3, <2>2
<1> QED
  BY <1>4

\* The end of line n in words of numbers of line ends.
LEMMA EndOfLineIs ==
  ASSUME NEW text \in Seq(Chars), NEW n \in Nat, n # 0
  PROVE  /\ \A k \in Ends(text) : Cardinality(Upto(text, k)) = n => EndOfLine(text, n) = k
         /\ (\A k \in Ends(text) : Cardinality(Upto(text, k)) # n) =>
              EndOfLine(text, n) = Len(text)
<1> DEFINE P(k) == k \in Ends(text) /\ Cardinality(Upto(text, k)) = n
<1>1. EndOfLine(text, n) =
        IF \E k \in Ends(text) : Cardinality(Upto(text, k)) = n
        THEN CHOOSE k \in Ends(text) : Cardinality(Upto(text, k)) = n ELSE Len(text)
  BY DEF EndOfLine, Upto
<1>2. ASSUME NEW k \in Ends(text), Cardinality(Upto(text, k)) = n PROVE EndOfLine(text, n) = k
  <2> DEFINE c == CHOOSE i \in Ends(text) : Cardinality(Upto(text, i)) = n
  <2>1. c \in Ends(text) /\ Cardinality(Upto(text, c)) = n
    BY <1>2
  <2>2. EndOfLine(text, n) = c
    BY <1>1, <1>2
  <2> HIDE DEF c
  <2>3. k \in Nat /\ c \in Nat
    BY <2>1, EndsFacts
  <2>4. ~ (c < k) /\ ~ (k < c)
    BY <1>2, <2>1, <2>3, UptoGrows
  <2> QED
    BY <2>2, <2>3, <2>4
<1> QED
  BY <1>1, <1>2

LEMMA EndOfLineNext ==
  ASSUME NEW text \in Seq(Chars), NEW n \in Nat
  PROVE  /\ EndOfLine(text, n) \in Nat /\ EndOfLine(text, n) <= Len(text)
         /\ EndOfLine(text, n + 1) = NextEnd(text, EndOfLine(text, n))
<1> DEFINE m == EndOfLine(text, n)
           behind == {k \in Ends(text) : m < k}
<1>0. Len(text) \in Nat /\ Ends(text) \subseteq 1 .. Len(text) /\ Ends(text) \subseteq Nat
  BY EndsFacts
<1>1. CASE m \in Nat /\ m <= Len(text) /\ Cardinality(Upto(text, m)) = n
  <2> HIDE DEF m
  <2>1. CASE behind = {}
    <3>1. NextEnd(text, m) = Len(text)
      BY <2>1 DEF NextEnd
    <3>2. ASSUME NEW k \in Ends(text) PROVE Cardinality(Upto(text, k)) # n + 1
      <4>1. k \in Nat /\ k <= m
        BY <1>0, <1>1, <2>1
      <4>2. Cardinality(Upto(text, k)) <= n
        BY <1>1, <4>1, UptoGrows
      <4> QED
        BY <4>2
    <3>3. EndOfLine(text, n + 1) = Len(text)
      BY <3>2, EndOfLineIs
    <3> QED
      BY <1>1, <3>1, <3>3 DEF m
  <2>2. CASE behind # {}
    <3> DEFINE e == Least(behind)
    <3>1. NextEnd(text, m) = e
      BY <2>2 DEF NextEnd
    <3>2. e \in behind /\ \A k \in behind : e <= k
      <4>1. behind \subseteq Nat
        BY <1>0
      <4> HIDE DEF behind
      <4> QED
        BY <2>2, <4>1, LeastIsLeast
    <3> HIDE DEF e
    <3>3. e \in Ends(text) /\ m < e /\ \A k \in Ends(text) : m < k => e <= k
      BY <3>2
    <3>4. Cardinality(Upto(text, e)) = n + 1
      BY <1>1, <3>3, NextEndCounts
    <3>5. EndOfLine(text, n + 1) = e
      BY <3>3, <3>4, EndOfLineIs
    <3> QED
      BY <1>1, <3>1, <3>5 DEF m
  <2> QED
    BY <2>1, <2>2
<1>2. CASE n = 0
  <2>1. m = 0
    BY <1>2 DEF EndOfLine
  <2>2. Upto(text, 0) = {}
    BY <1>0 DEF Upto
  <2>3. Cardinality(Upto(text, m)) = n
    BY <1>2, <2>1, <2>2, FS_EmptySet
  <2>4. m \in Nat /\ m <= Len(text)
    BY <1>0, <2>1
  <2> QED
    BY <1>1, <2>3, <2>4
<1>3. CASE n # 0 /\ \E k \in Ends(text) : Cardinality(Upto(text, k)) = n
  <2>1. PICK k \in Ends(text) : Cardinality(Upto(text, k)) = n
    BY <1>3
  <2>2. m = k
    BY <1>3, <2>1, EndOfLineIs
  <2> QED
    BY <1>0, <1>1, <2>1, <2>2
<1>4. CASE n # 0 /\ \A k \in Ends(text) : Cardinality(Upto(text, k)) # n
  <2>1. m = Len(text)
    BY <1>4, EndOfLineIs
  <2>2. NextEnd(text, m) = Len(text)
    <3>1. behind = {}
      BY <1>0, <2>1
    <3> QED
      BY <3>1 DEF NextEnd
  <2>3. ASSUME NEW k \in Ends(text), Cardinality(Upto(text, k)) = n + 1 PROVE FALSE
    <3> DEFINE S == Upto(text, k - 1)
    <3>1. k \in Nat /\ k \in 1 .. Len(text) /\ k - 1 \in Nat
      BY <1>0
    <3>2. Upto(text, k) = S \cup {k} /\ k \notin S
      BY <1>0, <3>1 DEF Upto
    <3>3. IsFiniteSet(S) /\ Cardinality(S) \in Nat
      BY EndsFacts
    <3>4. Cardinality(S) = n
      <4> HIDE DEF S
      <4>1. Cardinality(S \cup {k}) = Cardinality(S) + 1
        BY <3>2, <3>3, FS_AddElement
      <4> QED
        BY <2>3, <3>2, <3>3, <4>1
    <3>5. S # {}
      BY <1>4, <3>4, FS_EmptySet
    <3>6. S \subseteq 0 .. Len(text)
      BY <1>0 DEF Upto
    <3> HIDE DEF S
    <3>7. PICK g \in S : \A j \in S : j <= g
      BY <1>0, <3>5, <3>6, HasGreatest
    <3>8. g \in Ends(text) /\ g \in Nat /\ g <= k - 1
      BY <1>0, <3>7 DEF S, Upto
    <3>9. Upto(text, g) = S
      <4>1. \A j \in Ends(text) : j <= g <=> j <= k - 1
        <5>1. \A j \in Ends(text) : j <= k - 1 => j \in S
          BY DEF S, Upto
        <5> QED
          BY <1>0, <3>1, <3>7, <3>8, <5>1
      <4> QED
        BY <4>1 DEF S, Upto
    <3> QED
      BY <1>4, <3>4, <3>8, <3>9
  <2>4. EndOfLine(text, n + 1) = Len(text)
    BY <2>3, EndOfLineIs
  <2> QED
    BY <1>0, <2>1, <2>2, <2>4
<1> QED
  BY <1>2, <1>3, <1>4

------------------------------------------------------------------------------
(* What is left of the file, and its lines. *)

LEMMA RestFacts ==
  ASSUME Constants, NEW o \in Nat, o <= Len(file)
  PROVE  /\ Rest(o) \in Seq(Chars)
         /\ Len(Rest(o)) = Len(file) - o
         /\ \A i \in 1 .. Len(Rest(o)) : Rest(o)[i] = file[o + i]
         /\ Rest(o) = <<>> <=> o = Len(file)
<1>0. file \in Seq(Chars) /\ Len(file) \in Nat
  BY DEF Constants
<1> DEFINE n == Len(file)
           w == SubSeq(file, o + 1, n)
<1>1. n \in Nat /\ n <= Len(file) /\ o + 1 \in Nat /\ o + 1 >= 1
  BY <1>0
<1>2. /\ w \in Seq(Chars)
      /\ Len(w) = IF o + 1 <= n THEN n - (o + 1) + 1 ELSE 0
  <2> HIDE DEF n
  <2> QED
    BY <1>0, <1>1, PieceFacts
<1>3. Len(w) = Len(file) - o
  BY <1>0, <1>2
<1>4. \A i \in 1 .. Len(w) : w[i] = file[o + i]
  <2> HIDE DEF n
  <2> QED
    BY <1>1, PieceAt
<1>5. Rest(o) = w
  BY DEF Rest
<1> HIDE DEF w
<1>6. w = <<>> <=> Len(w) = 0
  BY <1>2, EmptySeq
<1> QED
  BY <1>0, <1>2, <1>3, <1>4, <1>5, <1>6

\* The line ends of the rest are those of the file behind it.
LEMMA RestNext ==
  ASSUME Constants, NEW o \in Nat, NEW m \in Nat, o + m <= Len(file)
  PROVE  o + NextEnd(Rest(o), m) = LineEnd(o + m)
<1> DEFINE t == Rest(o)
           behind == {k \in Ends(t) : m < k}
           e == NextEnd(t, m)
<1>0. Len(file) \in Nat /\ o <= Len(file)
  BY DEF Constants
<1>1. /\ t \in Seq(Chars) /\ Len(t) = Len(file) - o
      /\ \A i \in 1 .. Len(t) : t[i] = file[o + i]
  BY <1>0, RestFacts
<1> HIDE DEF t
<1>2. Len(t) \in Nat /\ Ends(t) \subseteq 1 .. Len(t) /\ DOMAIN t = 1 .. Len(t)
  <2>1. Len(t) \in Nat /\ DOMAIN t = 1 .. Len(t)
    BY <1>1
  <2> QED
    BY <2>1 DEF Ends
<1>3. \A k \in 1 .. Len(t) : k \in Ends(t) <=> file[o + k] = LF
  BY <1>1, <1>2 DEF Ends
<1>4. CASE behind = {}
  <2>1. e = Len(t)
    BY <1>4 DEF NextEnd
  <2>2. ASSUME NEW k \in Nat, o + m < k, k < Len(file) PROVE file[k] # LF
    <3>1. k - o \in 1 .. Len(t) /\ m < k - o /\ o + (k - o) = k
      BY <1>0, <1>1, <2>2
    <3>2. k - o \notin Ends(t)
      BY <1>4, <3>1
    <3> QED
      BY <1>3, <3>1, <3>2
  <2>3. LineEnd(o + m) = Len(file)
    <3> DEFINE a == o + m
               z == Len(file)
    <3>1. a \in Nat /\ z \in Nat /\ a <= z /\ z <= Len(file) /\ z = Len(file)
          /\ \A k \in Nat : a < k /\ k < z => file[k] # LF
      BY <1>0, <2>2
    <3> HIDE DEF a, z
    <3>2. LineEnd(a) = z
      BY <3>1, LineEndIs
    <3> QED
      BY <3>2 DEF a, z
  <2> HIDE DEF e
  <2> QED
    BY <1>0, <1>1, <2>1, <2>3 DEF e, t
<1>5. CASE behind # {}
  <2>1. e = Least(behind)
    BY <1>5 DEF NextEnd
  <2>2. e \in behind /\ \A k \in behind : e <= k
    <3>1. behind \subseteq Nat
      BY <1>2
    <3> HIDE DEF behind
    <3> QED
      BY <1>5, <2>1, <3>1, LeastIsLeast
  <2> HIDE DEF e
  <2>3. e \in 1 .. Len(t) /\ e \in Ends(t) /\ m < e
    BY <1>2, <2>2
  <2>4. ASSUME NEW k \in Nat, o + m < k, k < o + e PROVE file[k] # LF
    <3>1. k - o \in 1 .. Len(t) /\ m < k - o /\ o + (k - o) = k /\ ~ (e <= k - o)
      BY <1>0, <1>1, <2>3, <2>4
    <3>2. k - o \notin Ends(t)
      BY <2>2, <3>1
    <3> QED
      BY <1>3, <3>1, <3>2
  <2> DEFINE a == o + m
             z == o + e
  <2>5. a \in Nat /\ z \in Nat /\ a <= z /\ z <= Len(file) /\ a < z /\ file[z] = LF
        /\ \A k \in Nat : a < k /\ k < z => file[k] # LF
    BY <1>0, <1>1, <1>3, <2>3, <2>4
  <2> HIDE DEF a, z
  <2>6. LineEnd(a) = z
    BY <2>5, LineEndIs
  <2> QED
    BY <2>6 DEF a, z, e, t
<1> QED
  BY <1>4, <1>5 DEF t

\* Line by line through the rest: where a line of it ends the next one begins.
LEMMA RestLines ==
  ASSUME Constants, NEW o \in Nat, o <= Len(file), NEW n \in Nat
  PROVE  /\ EndOfLine(Rest(o), n) \in Nat /\ o + EndOfLine(Rest(o), n) <= Len(file)
         /\ o + EndOfLine(Rest(o), n + 1) = LineEnd(o + EndOfLine(Rest(o), n))
         /\ NthLine(Rest(o), n + 1) = SubSeq(file, o + EndOfLine(Rest(o), n) + 1,
                                             o + EndOfLine(Rest(o), n + 1))
         /\ AfterLines(Rest(o), n) = Rest(o + EndOfLine(Rest(o), n))
<1> DEFINE t == Rest(o)
           m == EndOfLine(t, n)
           e == EndOfLine(t, n + 1)
<1>0. file \in Seq(Chars) /\ Len(file) \in Nat /\ n + 1 \in Nat
  BY DEF Constants
<1>1. t \in Seq(Chars) /\ Len(t) = Len(file) - o /\ Len(t) \in Nat
  BY <1>0, RestFacts
<1>2. t = SubSeq(file, o + 1, Len(file))
  BY DEF Rest
<1> HIDE DEF t
<1>3. /\ m \in Nat /\ m <= Len(t) /\ e = NextEnd(t, m)
      /\ e \in Nat /\ e <= Len(t)
  BY <1>0, <1>1, EndOfLineNext
<1>4. NthLine(t, n + 1) = SubSeq(t, m + 1, e)
  <2>1. n + 1 - 1 = n
    BY <1>0
  <2> DEFINE k == n + 1
  <2>2. NthLine(t, k) = SubSeq(t, EndOfLine(t, k - 1) + 1, EndOfLine(t, k))
    BY DEF NthLine
  <2>3. k - 1 = n
    BY <2>1
  <2> HIDE DEF k
  <2>4. NthLine(t, k) = SubSeq(t, EndOfLine(t, n) + 1, EndOfLine(t, k))
    BY <2>2, <2>3
  <2> QED
    BY <2>4 DEF k
<1>5. AfterLines(t, n) = SubSeq(t, m + 1, Len(t))
  BY DEF AfterLines
<1> HIDE DEF m, e
<1>6. o + m \in Nat /\ o + m <= Len(file)
  BY <1>0, <1>1, <1>3
<1>7. o + e = LineEnd(o + m)
  BY <1>0, <1>3, <1>6, RestNext DEF t
<1>8. m <= e
  <2>1. o + m <= LineEnd(o + m) /\ LineEnd(o + m) \in Nat
    BY <1>6, LineEndFacts
  <2> QED
    BY <1>3, <1>7, <2>1
<1>9. ASSUME NEW d \in Nat, m <= d, d <= Len(t)
      PROVE  SubSeq(t, m + 1, d) = SubSeq(file, o + m + 1, o + d)
  <2> DEFINE c == m + 1
             p == Len(file)
  <2>1. c \in Nat /\ c >= 1 /\ c <= d + 1 /\ p \in Nat /\ p <= Len(file) /\ o <= p /\ d <= p - o
        /\ o + c = o + m + 1
    BY <1>0, <1>1, <1>3, <1>9
  <2>2. t = SubSeq(file, o + 1, p)
    BY <1>2
  <2> HIDE DEF c, p
  <2>3. SubSeq(t, c, d) = SubSeq(file, o + c, o + d)
    BY <2>1, <2>2, PieceOfBlock
  <2> QED
    BY <2>1, <2>3 DEF c
<1>10. NthLine(t, n + 1) = SubSeq(file, o + m + 1, o + e)
  BY <1>3, <1>4, <1>8, <1>9
<1>11. AfterLines(t, n) = Rest(o + m)
  <2>1. Len(t) \in Nat /\ m <= Len(t) /\ Len(t) <= Len(t) /\ o + Len(t) = Len(file)
    BY <1>0, <1>1, <1>3
  <2>2. SubSeq(t, m + 1, Len(t)) = SubSeq(file, o + m + 1, o + Len(t))
    BY <1>9, <2>1
  <2> QED
    BY <1>5, <2>1, <2>2 DEF Rest
<1> QED
  BY <1>3, <1>6, <1>7, <1>10, <1>11 DEF m, e, t

\* A text has at most as many lines as characters.
LEMMA LinesBound ==
  ASSUME NEW text \in Seq(Chars)
  PROVE  CountLines(text) \in Nat /\ CountLines(text) <= Len(text)
<1>1. /\ Len(text) \in Nat /\ Ends(text) \subseteq 1 .. Len(text) /\ IsFiniteSet(Ends(text))
      /\ Cardinality(Ends(text)) \in Nat /\ Cardinality(Ends(text)) <= Len(text)
  BY EndsFacts
<1>2. CASE text # <<>> /\ Last(text) # LF
  <2>1. Len(text) \in Nat \ {0} /\ Last(text) = text[Len(text)]
    BY <1>2, FrontFacts
  <2> DEFINE m == Len(text) - 1
  <2>2. Len(text) \notin Ends(text)
    BY <1>2, <2>1 DEF Ends
  <2>3. Ends(text) \subseteq 1 .. m /\ m \in Nat
    BY <1>1, <2>1, <2>2
  <2> HIDE DEF m
  <2>4. IsFiniteSet(1 .. m) /\ Cardinality(1 .. m) = m
    BY <2>3, FS_Interval
  <2>5. Cardinality(Ends(text)) <= m
    BY <2>3, <2>4, FS_Subset
  <2> QED
    BY <1>1, <1>2, <2>1, <2>5 DEF CountLines, m
<1>3. CASE ~ (text # <<>> /\ Last(text) # LF)
  BY <1>1, <1>3 DEF CountLines
<1> QED
  BY <1>2, <1>3

------------------------------------------------------------------------------
(* The refinement: the state of the reading stands for what is left. *)

UnreadOf(f, p, b, c) ==
  (IF c = 0 THEN <<>> ELSE SubSeq(b, c, Len(b))) \o SubSeq(f, p + 1, Len(f))

LEMMA UnreadIs ==
  ASSUME Constants, NEW s, ReadingOK(s)
  PROVE  UnreadOf(file, s.pos, s.block, s.cursor) = Rest(Off(s))
<1> DEFINE o == Off(s)
           p == s.pos
           b == s.block
           c == s.cursor
<1>0. file \in Seq(Chars) /\ Len(file) \in Nat
  BY DEF Constants
<1>1. o \in Nat /\ o <= p /\ p \in Nat /\ p <= Len(file)
  BY OffFacts
<1>2. CASE c = 0
  <2>1. o = p
    BY <1>2, OffFacts
  <2>2. UnreadOf(file, p, b, c) = <<>> \o Rest(p)
    BY <1>2 DEF UnreadOf, Rest
  <2>3. Rest(p) \in Seq(Chars)
    <3> HIDE DEF p
    <3> QED
      BY <1>1, RestFacts
  <2>4. <<>> \o Rest(p) = Rest(p)
    BY <2>3, ConcatEmptySeq
  <2> QED
    BY <2>1, <2>2, <2>4
<1>3. CASE c # 0
  <2> DEFINE u == p - Len(b)
  <2>1. /\ b \in Seq(Chars) /\ c \in 1 .. Len(b) /\ u \in Nat
        /\ b = SubSeq(file, u + 1, p) /\ o = u + c - 1
    BY <1>3, OffFacts
  <2>2. Len(b) \in Nat /\ p = u + Len(b)
    BY <1>1, <2>1
  <2>3. Covers(b, u, p)
    BY <2>1, <2>2, Zenon DEF Covers
  <2>4. UnreadOf(file, p, b, c) = SubSeq(b, c, Len(b)) \o SubSeq(file, p + 1, Len(file))
    BY <1>3 DEF UnreadOf
  <2>5. c \in Nat /\ c >= 1 /\ c <= Len(b) + 1 /\ Len(b) <= Len(b) /\ u \in Nat
        /\ u + c = o + 1
    BY <2>1, <2>2
  <2> HIDE DEF u, b, c, o, p
  <2>6. SubSeq(b, c, Len(b)) = SubSeq(file, u + c, u + Len(b))
    <3> DEFINE d == Len(b)
    <3>1. d \in Nat /\ d <= Len(b) /\ c <= d + 1 /\ Len(b) \in Nat /\ c \in Nat /\ c >= 1
          /\ u \in Nat /\ p \in Nat /\ p <= Len(file)
      BY <1>1, <2>2, <2>5
    <3> HIDE DEF d
    <3>2. SubSeq(b, c, d) = SubSeq(file, u + c, u + d)
      BY <2>3, <3>1, CoversPiece
    <3> QED
      BY <3>2 DEF d
  <2>7. SubSeq(b, c, Len(b)) = SubSeq(file, o + 1, p)
    BY <2>2, <2>5, <2>6
  <2>8. SubSeq(file, o + 1, p) \o SubSeq(file, p + 1, Len(file)) = Rest(o)
    <3> DEFINE a == o + 1
               n == Len(file)
    <3>1. a \in Nat /\ a >= 1 /\ a <= p + 1 /\ p <= n /\ n \in Nat /\ n <= Len(file)
      BY <1>0, <1>1
    <3> HIDE DEF a, n
    <3>2. SubSeq(file, a, p) \o SubSeq(file, p + 1, n) = SubSeq(file, a, n)
      BY <1>0, <1>1, <3>1, PiecesJoin
    <3> QED
      BY <3>2 DEF a, n, Rest
  <2> QED
    BY <2>4, <2>7, <2>8 DEF o, p, b, c
<1> QED
  BY <1>2, <1>3

\* Reading a block leaves as much as there was.
LEMMA OffFilled ==
  ASSUME Constants, NEW r, ReadingOK(r)
  PROVE  /\ ReadingOK(Filled(r)) /\ Filled(r).line = r.line
         /\ Off(Filled(r)) = Off(r)
         /\ Filled(r).cursor = 0 <=> Rest(Off(r)) = <<>>
<1>0. Len(file) \in Nat
  BY DEF Constants
<1>1. ReadingOK(Filled(r)) /\ Filled(r).line = r.line
  BY FilledOK
<1>2. Off(r) \in Nat /\ Off(r) <= r.pos /\ r.pos \in Nat /\ r.pos <= Len(file)
      /\ (r.cursor = 0 => Off(r) = r.pos) /\ (r.cursor # 0 => Off(r) < r.pos)
  BY OffFacts
<1>3. Rest(Off(r)) = <<>> <=> Off(r) = Len(file)
  <2> DEFINE o == Off(r)
  <2>1. o \in Nat /\ o <= Len(file)
    BY <1>0, <1>2
  <2> HIDE DEF o
  <2>2. Rest(o) = <<>> <=> o = Len(file)
    BY <2>1, RestFacts
  <2> QED
    BY <2>2 DEF o
<1>4. CASE r.cursor # 0
  <2>1. Filled(r) = r
    BY <1>4, FilledOK
  <2> QED
    BY <1>0, <1>1, <1>2, <1>3, <1>4, <2>1
<1>5. CASE r.cursor = 0
  <2> DEFINE p == r.pos
             b == BlockAt(p)
             s == Filled(r)
  <2>1. s.pos = BlockEnd(p) /\ s.block = b /\ s.cursor = IF p < Len(file) THEN 1 ELSE 0
    BY <1>5, FilledOK
  <2>2. p \in Nat /\ p <= Len(file) /\ Off(r) = p
    BY <1>2, <1>5
  <2> HIDE DEF p
  <2>3. /\ Len(b) = BlockEnd(p) - p /\ BlockEnd(p) \in Nat /\ p <= BlockEnd(p)
        /\ BlockEnd(p) <= Len(file)
    BY <2>2, BlockFacts
  <2> HIDE DEF b, s
  <2>4. Off(s) = p
    <3>1. CASE p < Len(file)
      <4>1. s.cursor = 1 /\ Off(s) = s.pos - Len(s.block) + s.cursor - 1
        BY <2>1, <3>1 DEF Off
      <4>2. Off(s) = BlockEnd(p) - (BlockEnd(p) - p) + 1 - 1
        BY <2>1, <2>3, <4>1
      <4> QED
        BY <2>2, <2>3, <4>2
    <3>2. CASE ~ (p < Len(file))
      <4>1. s.cursor = 0 /\ Off(s) = s.pos
        BY <2>1, <3>2 DEF Off
      <4> QED
        BY <1>0, <2>1, <2>2, <2>3, <3>2, <4>1
    <3> QED
      BY <3>1, <3>2
  <2>5. s.cursor = 0 <=> p = Len(file)
    BY <1>0, <2>1, <2>2
  <2> QED
    BY <1>1, <1>3, <2>2, <2>4, <2>5 DEF s
<1> QED
  BY <1>4, <1>5

\* The lines of a lookahead() are the next lines of the rest.
LEMMA ReadsLines ==
  ASSUME Constants, IsText(file), ReadingOK(Reading), NEW n \in Nat, NEW h, IsReads(h, n),
         NEW o, o = Off(Reading)
  PROVE  /\ \A i \in 0 .. n : Off(h[i]) = o + EndOfLine(Rest(o), i)
         /\ \A i \in 1 .. n : h[i].line = Strip(NthLine(Rest(o), i), remove)
<1> DEFINE Right(i) == Off(h[i]) = o + EndOfLine(Rest(o), i)
           Bad == {i \in 0 .. n : ~ Right(i)}
<1> HIDE DEF Right
<1>0. o \in Nat /\ o <= Len(file) /\ Len(file) \in Nat
  <2>1. Len(file) \in Nat /\ Off(Reading) \in Nat /\ Off(Reading) <= Reading.pos
        /\ Reading.pos <= Len(file) /\ Reading.pos \in Nat
    BY OffFacts DEF Constants
  <2> QED
    BY <2>1
<1>1. \A i \in 0 .. n : ReadingOK(h[i])
  BY ReadsOK
<1>2. ASSUME NEW i \in 0 .. n, i + 1 \in 1 .. n, Right(i)
      PROVE  Right(i + 1) /\ h[i + 1].line = Strip(NthLine(Rest(o), i + 1), remove)
  <2> DEFINE f == Filled(h[i])
             m == EndOfLine(Rest(o), i)
             e == EndOfLine(Rest(o), i + 1)
  <2>1. i + 1 - 1 = i /\ i \in Nat
    OBVIOUS
  <2>2. h[i + 1] = AfterReadLine(f)
    <3> DEFINE j == i + 1
    <3>1. j \in 1 .. n /\ j - 1 = i
      BY <1>2, <2>1
    <3> HIDE DEF j
    <3>2. h[j] = AfterReadLine(Filled(h[j - 1]))
      BY <3>1 DEF IsReads
    <3> QED
      BY <3>1, <3>2 DEF j
  <2>3. ReadingOK(h[i])
    BY <1>1
  <2>4. ReadingOK(f) /\ Off(f) = Off(h[i])
    BY <2>3, OffFilled
  <2>5. Off(f) = o + m
    BY <1>2, <2>4 DEF Right
  <2> HIDE DEF f
  <2>6. /\ Off(AfterReadLine(f)) = LineEnd(Off(f))
        /\ AfterReadLine(f).line = Strip(SubSeq(file, Off(f) + 1, LineEnd(Off(f))), remove)
    BY <2>4, ReadLine
  <2>7. o + e = LineEnd(o + m)
        /\ NthLine(Rest(o), i + 1) = SubSeq(file, o + m + 1, o + e)
    BY <1>0, <2>1, RestLines
  <2> HIDE DEF m, e
  <2>8. Off(h[i + 1]) = o + e
    BY <2>2, <2>5, <2>6, <2>7
  <2>9. h[i + 1].line = Strip(NthLine(Rest(o), i + 1), remove)
    BY <2>2, <2>5, <2>6, <2>7
  <2> QED
    BY <2>8, <2>9 DEF Right, e
<1>3. Bad = {}
  <2> SUFFICES ASSUME Bad # {} PROVE FALSE
    OBVIOUS
  <2>1. PICK i \in Bad : \A j \in Bad : i <= j
    <3>1. Bad \subseteq Nat
      OBVIOUS
    <3> HIDE DEF Bad
    <3> QED
      BY <3>1, LeastIsLeast
  <2>2. i \in 0 .. n /\ ~ Right(i)
    OBVIOUS
  <2>3. Right(0)
    <3>1. h[0] = Filled(Reading)
      BY DEF IsReads
    <3>2. Off(h[0]) = o
      BY <3>1, OffFilled
    <3>3. EndOfLine(Rest(o), 0) = 0
      BY DEF EndOfLine
    <3> QED
      BY <1>0, <3>2, <3>3 DEF Right
  <2>4. i # 0
    BY <2>2, <2>3
  <2>5. i - 1 \in 0 .. n /\ ~ (i <= i - 1) /\ i - 1 + 1 \in 1 .. n /\ i - 1 + 1 = i
    BY <2>2, <2>4
  <2>6. Right(i - 1)
    <3>1. i - 1 \notin Bad
      <4> HIDE DEF Bad
      <4> QED
        BY <2>1, <2>5
    <3> QED
      BY <2>5, <3>1
  <2>7. Right(i - 1 + 1)
    BY <1>2, <2>5, <2>6
  <2> QED
    BY <2>2, <2>5, <2>7
<1>4. ASSUME NEW i \in 1 .. n PROVE h[i].line = Strip(NthLine(Rest(o), i), remove)
  <2>1. i - 1 \in 0 .. n /\ i - 1 + 1 \in 1 .. n /\ i - 1 + 1 = i
    OBVIOUS
  <2>2. Right(i - 1)
    BY <1>3, <2>1
  <2>3. h[i - 1 + 1].line = Strip(NthLine(Rest(o), i - 1 + 1), remove)
    BY <1>2, <2>1, <2>2
  <2> QED
    BY <2>1, <2>3
<1> QED
  BY <1>3, <1>4 DEF Right

\* The names of LineSource mean what they mean in LineReader.
LEMMA Names ==
  ASSUME NEW t, NEW n
  PROVE  /\ Source!Strip(t, n) = Strip(t, n)
         /\ Source!NthLine(t, n) = NthLine(t, n)
         /\ Source!AfterLines(t, n) = AfterLines(t, n)
         /\ Source!FirstLine(t) = NthLine(t, 1)
         /\ Source!AfterLine(t) = AfterLines(t, 1)
         /\ Source!CountLines(t) = CountLines(t)
         /\ Source!Last(t) = t[Len(t)]
<1>1. \A l, b : Source!Strip(l, b) = Strip(l, b)
  BY DEF Source!Strip, Strip, Source!Last, Source!Front, Last, Front
<1>2. Source!Ends(t) = Ends(t)
  BY DEF Source!Ends, Ends
<1>8. ASSUME NEW s PROVE Source!Cardinality(s) = Cardinality(s)
  BY DEF Source!Cardinality, Cardinality
<1>3. ASSUME NEW m PROVE Source!EndOfLine(t, m) = EndOfLine(t, m)
  BY <1>2, <1>8 DEF Source!EndOfLine, EndOfLine
<1>4. ASSUME NEW m PROVE Source!NthLine(t, m) = NthLine(t, m)
  <2>1. Source!EndOfLine(t, m) = EndOfLine(t, m)
        /\ Source!EndOfLine(t, m - 1) = EndOfLine(t, m - 1)
    BY <1>3
  <2> QED
    BY <2>1 DEF Source!NthLine, NthLine
<1>5. ASSUME NEW m PROVE Source!AfterLines(t, m) = AfterLines(t, m)
  BY <1>3 DEF Source!AfterLines, AfterLines
<1>6. Source!Last(t) = t[Len(t)]
  BY DEF Source!Last
<1>7. Source!CountLines(t) = CountLines(t)
  BY <1>2, <1>8, <1>6 DEF Source!CountLines, CountLines, Last
<1> QED
  BY <1>1, <1>4, <1>5, <1>6, <1>7 DEF Source!FirstLine, Source!AfterLine

\* What the mapping shows of the state.
LEMMA UnreadNow ==
  ASSUME ReaderInv
  PROVE  /\ Unread = Rest(Off(Reading)) /\ Unread = UnreadOf(file, pos, block, cursor)
         /\ Off(Reading) \in Nat /\ Off(Reading) <= Len(file)
<1>1. Constants /\ ReadingOK(Reading)
  BY InvConstants DEF ReaderInv
<1>2. UnreadOf(file, Reading.pos, Reading.block, Reading.cursor) = Rest(Off(Reading))
  BY <1>1, UnreadIs
<1>3. Unread = UnreadOf(file, pos, block, cursor)
  BY DEF Unread, UnreadOf
<1>4. Off(Reading) \in Nat /\ Off(Reading) <= Len(file)
  <2>1. Off(Reading) \in Nat /\ Off(Reading) <= Reading.pos /\ Reading.pos <= Len(file)
        /\ Reading.pos \in Nat /\ Len(file) \in Nat
    BY <1>1, OffFacts DEF Constants
  <2> QED
    BY <2>1
<1> QED
  BY <1>2, <1>3, <1>4, ReadingNow

\* ... and of the state behind a step that sets the reading to s.
LEMMA UnreadThen ==
  ASSUME ReaderInv, NEW s, ReadingOK(s), Set(s), file' = file
  PROVE  Unread' = Rest(Off(s)) /\ line' = s.line
<1>1. Constants
  BY InvConstants
<1>2. Unread' = UnreadOf(file', pos', block', cursor')
  BY DEF Unread, UnreadOf
<1>3. Unread' = UnreadOf(file, s.pos, s.block, s.cursor)
  BY <1>2 DEF Set
<1> QED
  BY <1>1, <1>3, UnreadIs DEF Set

\* A line is read from the state r, at the offset of the rest.
LEMMA LineThen ==
  ASSUME ReaderInv, IsText(file), NEW r, ReadingOK(r), Off(r) = Off(Reading),
         Set(AfterReadLine(r)), file' = file
  PROVE  /\ line' = Source!Strip(Source!FirstLine(Unread), remove)
         /\ Unread' = Source!AfterLine(Unread)
<1> DEFINE o == Off(Reading)
           s == AfterReadLine(r)
<1>0. Constants
  BY InvConstants
<1>1. Unread = Rest(o) /\ o \in Nat /\ o <= Len(file)
  BY UnreadNow
<1>2. /\ Off(s) = LineEnd(o)
      /\ s.line = Strip(SubSeq(file, o + 1, LineEnd(o)), remove)
  BY <1>0, ReadLine
<1>3. ReadingOK(s)
  BY <1>0, AfterReadLineOK
<1>4. Unread' = Rest(Off(s)) /\ line' = s.line
  BY <1>3, UnreadThen
<1> HIDE DEF o, s
<1>5. /\ o + EndOfLine(Rest(o), 1) = LineEnd(o)
      /\ NthLine(Rest(o), 1) = SubSeq(file, o + 1, LineEnd(o))
      /\ AfterLines(Rest(o), 1) = Rest(LineEnd(o))
  <2>1. EndOfLine(Rest(o), 0) = 0
    BY DEF EndOfLine
  <2> DEFINE z == 0
  <2>2. z \in Nat /\ z + 1 \in Nat
    OBVIOUS
  <2>3. EndOfLine(Rest(o), z) = 0 /\ o + 0 = o /\ z + 1 = 1
    BY <1>1, <2>1
  <2> HIDE DEF z
  <2>4. /\ o + EndOfLine(Rest(o), z + 1) = LineEnd(o + EndOfLine(Rest(o), z))
        /\ NthLine(Rest(o), z + 1) = SubSeq(file, o + EndOfLine(Rest(o), z) + 1,
                                            o + EndOfLine(Rest(o), z + 1))
        /\ AfterLines(Rest(o), z + 1) = Rest(o + EndOfLine(Rest(o), z + 1))
    BY <1>0, <1>1, <2>2, RestLines
  <2>5. o + EndOfLine(Rest(o), 1) = LineEnd(o)
    BY <2>3, <2>4
  <2> QED
    BY <2>3, <2>4, <2>5
<1> QED
  BY <1>1, <1>2, <1>4, <1>5, Names

------------------------------------------------------------------------------
(* Every step of the reader is one of LineSource or shows nothing. *)

LSteps == Source!Next \/ Source!EndOfFile \/ Source!Look \/ Source!Rewind \/ Source!Open
            \/ Source!SetRemove

Shown == <<file, Unread, ahead, remove, line, endReached>>

LEMMA NextLineDelivers ==
  ASSUME ReaderInv, IsText(file), NextLine
  PROVE  Source!Next
<1>0. Constants /\ ReadingOK(Reading)
  BY InvConstants DEF ReaderInv
<1>1. CASE ahead # <<>>
  <2>1. Unread' = Unread
    BY <1>1 DEF NextLine, buffer, Unread
  <2> QED
    BY <1>1, <2>1 DEF NextLine, Source!Next
<1>2. CASE ~ (ahead # <<>>)
  <2>1. Set(AfterReadLine(Reading)) /\ file' = file /\ ahead' = ahead
    BY <1>2 DEF NextLine
  <2>2. /\ line' = Source!Strip(Source!FirstLine(Unread), remove)
        /\ Unread' = Source!AfterLine(Unread)
    BY <1>0, <2>1, LineThen
  <2> QED
    BY <1>2, <2>1, <2>2 DEF NextLine, Source!Next
<1> QED
  BY <1>1, <1>2

\* What reading a block shows: nothing, and its cursor tells whether anything is left.
LEMMA FilledShows ==
  ASSUME ReaderInv, Set(Filled(Reading)), file' = file
  PROVE  /\ Unread' = Unread /\ line' = line
         /\ cursor' = 0 <=> Unread = <<>>
<1>0. Constants /\ ReadingOK(Reading)
  BY InvConstants DEF ReaderInv
<1> DEFINE s == Filled(Reading)
<1>1. /\ ReadingOK(s) /\ s.line = line /\ Off(s) = Off(Reading)
      /\ s.cursor = 0 <=> Rest(Off(Reading)) = <<>>
  BY <1>0, OffFilled, ReadingNow
<1>2. Set(s)
  OBVIOUS
<1> HIDE DEF s
<1>3. Unread' = Rest(Off(s)) /\ line' = s.line
  BY <1>1, <1>2, UnreadThen
<1> QED
  BY <1>1, <1>2, <1>3, UnreadNow DEF Set

LEMMA EndOfFileDelivers ==
  ASSUME ReaderInv, EndOfFile
  PROVE  Source!EndOfFile
<1>1. Set(Filled(Reading)) /\ file' = file
  BY DEF EndOfFile
<1>2. /\ Unread' = Unread /\ line' = line
      /\ cursor' = 0 <=> Unread = <<>>
  BY <1>1, FilledShows
<1> QED
  BY <1>2 DEF EndOfFile, Source!EndOfFile, Source!AtEnd

LEMMA FilledDelivers ==
  ASSUME ReaderInv, EstimateLineCount \/ HasBinaryData
  PROVE  UNCHANGED Shown
<1>1. UNCHANGED <<file, ahead, remove, endReached>>
  BY DEF EstimateLineCount, HasBinaryData
<1>2. CASE Set(Filled(Reading))
  BY <1>1, <1>2, FilledShows DEF Shown
<1>3. CASE UNCHANGED <<buffer, line>>
  BY <1>1, <1>3 DEF Shown, Unread, buffer
<1> QED
  BY <1>2, <1>3 DEF EstimateLineCount, HasBinaryData

LEMMA FetchDelivers ==
  ASSUME ReaderInv, IsText(file), Fetch
  PROVE  Source!Next \/ Source!EndOfFile
<1>0. Constants /\ ReadingOK(Reading)
  BY InvConstants DEF ReaderInv
<1> DEFINE r == Filled(Reading)
           end == r.cursor = 0 /\ ahead = <<>>
<1>1. /\ ReadingOK(r) /\ r.line = line /\ Off(r) = Off(Reading)
      /\ r.cursor = 0 <=> Rest(Off(Reading)) = <<>>
  BY <1>0, OffFilled, ReadingNow
<1>2. Unread = Rest(Off(Reading))
  BY UnreadNow
<1>3. /\ endReached' = end /\ UNCHANGED <<file, remove>>
      /\ ahead # <<>> => ahead' = Tail(ahead) /\ Set([r EXCEPT !.line = Head(ahead)])
      /\ ahead = <<>> => ahead' = ahead
      /\ ahead = <<>> /\ end => Set(r)
      /\ ahead = <<>> /\ ~ end => Set(AfterReadLine(r))
  BY DEF Fetch
<1>4. end <=> Unread = <<>> /\ ahead = <<>>
  BY <1>1, <1>2
<1>5. end \in BOOLEAN
  OBVIOUS
<1> HIDE DEF r, end
<1>6. CASE ahead # <<>>
  <2> DEFINE s == [r EXCEPT !.line = Head(ahead)]
  <2>1. Head(ahead) \in Seq(Chars)
    <3>1. ahead \in Seq(Seq(Chars))
      BY DEF ReaderInv
    <3> QED
      BY <1>6, <3>1, HeadTailProperties
  <2>2. ReadingOK(s) /\ Off(s) = Off(r) /\ s.line = Head(ahead)
    BY <1>1, <2>1 DEF ReadingOK, Off
  <2>3. Set(s)
    BY <1>3, <1>6
  <2> HIDE DEF s
  <2>4. Unread' = Rest(Off(s)) /\ line' = s.line
    BY <1>3, <2>2, <2>3, UnreadThen
  <2>5. Unread' = Unread /\ line' = Head(ahead)
    BY <1>1, <1>2, <2>2, <2>4
  <2>6. endReached' = FALSE
    BY <1>3, <1>4, <1>5, <1>6
  <2> QED
    BY <1>3, <1>6, <2>5, <2>6 DEF Source!Next
<1>7. CASE ahead = <<>> /\ end
  <2>1. Unread' = Rest(Off(r)) /\ line' = r.line
    BY <1>1, <1>3, <1>7, UnreadThen
  <2>2. Unread' = Unread /\ line' = line
    BY <1>1, <1>2, <2>1
  <2>3. endReached' = Source!AtEnd
    BY <1>3, <1>4, <1>5, <1>7 DEF Source!AtEnd
  <2> QED
    BY <1>3, <1>7, <2>2, <2>3 DEF Source!EndOfFile
<1>8. CASE ahead = <<>> /\ ~ end
  <2>1. Set(AfterReadLine(r)) /\ file' = file
    BY <1>3, <1>8
  <2>2. /\ line' = Source!Strip(Source!FirstLine(Unread), remove)
        /\ Unread' = Source!AfterLine(Unread)
    BY <1>1, <2>1, LineThen
  <2>3. endReached' = FALSE
    BY <1>3, <1>5, <1>8
  <2> QED
    BY <1>3, <1>8, <2>2, <2>3 DEF Source!Next
<1> QED
  BY <1>6, <1>7, <1>8

LEMMA LookDelivers ==
  ASSUME ReaderInv, IsText(file), Look
  PROVE  Source!Look
<1>0. Constants /\ ReadingOK(Reading)
  BY InvConstants DEF ReaderInv
<1>1. PICK n \in 1 .. MaxAhead : LooksCarefully(n) /\ Lookahead(n)
  BY DEF Look
<1>2. n \in Nat \ {0}
  BY SizesAssumption
<1>3. PICK h : IsReads(h, n) /\ LookaheadBy(h, n)
  BY <1>1, <1>2, LookaheadUnfolds
<1> DEFINE o == Off(Reading)
           t == Rest(o)
<1>4. Unread = t /\ o \in Nat /\ o <= Len(file)
  BY UnreadNow
<1>5. /\ \A i \in 0 .. n : Off(h[i]) = o + EndOfLine(t, i)
      /\ \A i \in 1 .. n : h[i].line = Strip(NthLine(t, i), remove)
  <2> HIDE DEF o
  <2>1. o = Off(Reading)
    BY DEF o
  <2> QED
    BY <1>0, <1>2, <1>3, <2>1, ReadsLines
<1>6. \A i \in 0 .. n : ReadingOK(h[i])
  BY <1>0, <1>2, <1>3, ReadsOK
<1>7. h[0] = Filled(Reading)
  BY <1>3 DEF IsReads
<1>8. h[0].cursor = 0 <=> t = <<>>
  BY <1>0, <1>7, OffFilled
<1> HIDE DEF o
<1>9. t \in Seq(Chars) /\ Len(t) \in Nat
  <2>1. t \in Seq(Chars)
    BY <1>0, <1>4, RestFacts
  <2> QED
    BY <2>1
<1>10. \A k \in 0 .. n : AfterLines(t, k) = Rest(o + EndOfLine(t, k))
  BY <1>0, <1>4, RestLines
<1>11. ahead = <<>> /\ UNCHANGED <<file, remove, endReached>>
  BY <1>1, <1>3 DEF LooksCarefully, LookaheadBy
<1> HIDE DEF t
<1>12. CASE h[0].cursor = 0
  <2>1. ahead' = <<>> /\ Set(h[0])
    BY <1>3, <1>12 DEF LookaheadBy
  <2>2. Unread' = Unread /\ line' = line
    BY <1>7, <1>11, <2>1, FilledShows
  <2> DEFINE k == 0
             q == [i \in 1 .. k |-> Source!Strip(Source!NthLine(Unread, i), remove)]
  <2>3. k \in 0 .. Len(Unread) /\ k <= Source!CountLines(Unread)
    <3>1. CountLines(t) \in Nat
      BY <1>9, LinesBound
    <3>2. Source!CountLines(Unread) = CountLines(t) /\ Len(Unread) = Len(t)
      BY <1>4, Names
    <3> QED
      BY <1>9, <3>1, <3>2
  <2>4. ahead' = q
    BY <2>1
  <2>5. Unread' = Source!AfterLines(Unread, k)
    <3>1. EndOfLine(t, 0) = 0
      BY DEF EndOfLine
    <3>2. AfterLines(t, 0) = Rest(o)
      BY <1>2, <1>4, <1>10, <3>1
    <3> QED
      BY <1>4, <2>2, <3>2, Names DEF t
  <2> HIDE DEF q
  <2>6. line' = IF k = 0 THEN line ELSE Source!Last(ahead')
    BY <2>2
  <2> HIDE DEF k
  <2> QED
    BY <1>11, <2>3, <2>4, <2>5, <2>6, Zenon DEF Source!Look, q
<1>13. CASE h[0].cursor # 0
  <2>1. ahead' = [i \in 1 .. n |-> h[i].line] /\ Set(h[n])
    BY <1>3, <1>13 DEF LookaheadBy
  <2>2. n <= CountLines(t) /\ CountLines(t) <= Len(t) /\ CountLines(t) \in Nat
    BY <1>1, <1>4, <1>8, <1>9, <1>13, LinesBound DEF LooksCarefully
  <2>3. n \in 0 .. Len(Unread) /\ n <= Source!CountLines(Unread)
    <3>1. Source!CountLines(Unread) = CountLines(t) /\ Len(Unread) = Len(t)
      BY <1>4, Names
    <3> QED
      BY <1>2, <2>2, <3>1
  <2>4. ahead' = [i \in 1 .. n |-> Source!Strip(Source!NthLine(Unread, i), remove)]
    <3>1. \A i \in 1 .. n : h[i].line = Source!Strip(Source!NthLine(Unread, i), remove)
      BY <1>4, <1>5, Names
    <3> QED
      BY <2>1, <3>1
  <2>5. n \in 0 .. n /\ n \in 1 .. n
    BY <1>2
  <2>6. Unread' = Rest(Off(h[n])) /\ line' = h[n].line
    BY <1>6, <1>11, <2>1, <2>5, UnreadThen
  <2>7. Unread' = Source!AfterLines(Unread, n)
    BY <1>4, <1>5, <1>10, <2>5, <2>6, Names
  <2>8. line' = Source!Last(ahead')
    <3>1. Source!Last(ahead') = ahead'[Len(ahead')]
      BY Names
    <3>2. Len(ahead') = n /\ ahead'[n] = h[n].line
      BY <1>2, <2>1, <2>5
    <3> QED
      BY <2>6, <3>1, <3>2
  <2>9. line' = IF n = 0 THEN line ELSE Source!Last(ahead')
    BY <1>2, <2>8
  <2> QED
    BY <1>11, <2>3, <2>4, <2>7, <2>9, Zenon DEF Source!Look
<1> QED
  BY <1>12, <1>13

\* Nothing and the text from its start on is the text.
LEMMA WholeText ==
  ASSUME NEW f \in Seq(Chars)
  PROVE  <<>> \o SubSeq(f, 0 + 1, Len(f)) = f
<1> DEFINE n == Len(f)
           a == 0 + 1
           w == SubSeq(f, a, n)
<1>1. n \in Nat /\ n <= Len(f) /\ a \in Nat /\ a >= 1 /\ n = Len(f) /\ a = 1
  OBVIOUS
<1> HIDE DEF n, a
<1>2. /\ w \in Seq(Chars)
      /\ Len(w) = IF a <= n THEN n - a + 1 ELSE 0
      /\ \A i \in 1 .. Len(w) : w[i] = f[a + i - 1]
  BY <1>1, PieceFacts
<1> HIDE DEF w
<1>3. Len(w) = Len(f)
  BY <1>1, <1>2
<1>4. \A i \in 1 .. Len(w) : w[i] = f[i]
  <2>1. \A i \in 1 .. Len(w) : a + i - 1 = i
    BY <1>1
  <2> QED
    BY <1>2, <2>1
<1>5. w = f
  BY <1>2, <1>3, <1>4, SeqEqual
<1>6. <<>> \o w = w
  BY <1>2, ConcatEmptySeq
<1> QED
  BY <1>5, <1>6 DEF w, n, a

LEMMA RewindDelivers ==
  ASSUME ReaderInv, Reset
  PROVE  Source!Rewind
<1>1. file \in Seq(Chars)
  BY InvConstants DEF Constants
<1>2. Unread' = <<>> \o SubSeq(file, 0 + 1, Len(file))
  BY DEF Reset, Unread
<1>3. Unread' = file
  BY <1>1, <1>2, WholeText
<1> QED
  BY <1>3 DEF Reset, Source!Rewind

LEMMA OpenDelivers ==
  ASSUME ReaderInv, OpenFile
  PROVE  Source!Open
<1>1. file' \in Seq(Chars)
  BY FilesAssumption DEF OpenFile
<1>2. Unread' = <<>> \o SubSeq(file', 0 + 1, Len(file'))
  BY DEF OpenFile, Unread
<1>3. Unread' = file'
  BY <1>1, <1>2, WholeText
<1> QED
  BY <1>3 DEF OpenFile, Source!Open

LEMMA StepDelivers ==
  ASSUME ReaderInv, IsText(file), [Next]_vars
  PROVE  LSteps \/ UNCHANGED Shown
<1>1. CASE NextLine
  BY <1>1, NextLineDelivers DEF LSteps
<1>2. CASE EndOfFile
  BY <1>2, EndOfFileDelivers DEF LSteps
<1>3. CASE Look
  BY <1>3, LookDelivers DEF LSteps
<1>4. CASE Fetch
  BY <1>4, FetchDelivers DEF LSteps
<1>5. CASE EstimateLineCount \/ HasBinaryData
  BY <1>5, FilledDelivers
<1>6. CASE Reset
  BY <1>6, RewindDelivers DEF LSteps
<1>7. CASE OpenFile
  BY <1>7, OpenDelivers DEF LSteps
<1>8. CASE SetBufferSize
  BY <1>8 DEF SetBufferSize, buffer, Shown, Unread
<1>9. CASE SetRemoveNewline
  BY <1>9 DEF SetRemoveNewline, buffer, Unread, LSteps, Source!SetRemove
<1>10. CASE UNCHANGED vars
  BY <1>10 DEF vars, buffer, Shown, Unread
<1> QED
  BY <1>1, <1>2, <1>3, <1>4, <1>5, <1>6, <1>7, <1>8, <1>9, <1>10 DEF Next

LEMMA InitDelivers ==
  ASSUME Init
  PROVE  Source!Init
<1>1. ReaderInv
  BY ReaderInit
<1>2. Constants /\ file \in Seq(Chars) /\ Len(block) \in Nat
  BY <1>1, InvConstants DEF Constants, ReaderInv, ReadingOK, Reading
<1>3. Unread = Rest(Off(Reading))
  BY <1>1, UnreadNow
<1>4. Off(Reading) = 0
  <2>1. pos = Len(block) /\ cursor = (IF block = <<>> THEN 0 ELSE 1)
    BY DEF Init
  <2>2. CASE block = <<>>
    BY <2>1, <2>2, EmptySeq, ReadingNow DEF Off
  <2>3. CASE block # <<>>
    BY <1>2, <2>1, <2>3, ReadingNow DEF Off
  <2> QED
    BY <2>2, <2>3
<1>5. Rest(0) = file
  <2> DEFINE w == SubSeq(file, 0 + 1, Len(file))
  <2>1. <<>> \o w = file
    BY <1>2, WholeText
  <2>2. w \in Seq(Chars)
    <3>1. 0 \in Nat /\ 0 <= Len(file) /\ Rest(0) = w
      BY <1>2 DEF Rest
    <3> HIDE DEF w
    <3> QED
      BY <1>2, <3>1, RestFacts
  <2> HIDE DEF w
  <2>3. <<>> \o w = w
    BY <2>2, ConcatEmptySeq
  <2> QED
    BY <2>1, <2>3 DEF w, Rest
<1>6. Unread = file
  BY <1>3, <1>4, <1>5
<1> QED
  BY <1>6 DEF Init, Source!Init

\* For every text, every length of the blocks and every order of the calls the reader
\* delivers the lines of the file, as LineSource promises them: where a block ends does
\* not show, not in the lines, not in endOfFile() (LineReader::readLine).
THEOREM ReaderDeliversLines ==
  ASSUME \A f \in Files : IsText(f)
  PROVE  Spec => DeliversLines
<1>1. Init => Source!Init
  BY InitDelivers
<1>2. ReaderInv /\ [Next]_vars => [LSteps]_Shown
  <2> SUFFICES ASSUME ReaderInv, [Next]_vars PROVE [LSteps]_Shown
    OBVIOUS
  <2>1. IsText(file)
    BY DEF ReaderInv
  <2> QED
    BY <2>1, StepDelivers
<1>3. ReaderInv /\ [Next]_vars =>
        [Source!Next \/ Source!EndOfFile \/ Source!Look \/ Source!Rewind \/ Source!Open
           \/ Source!SetRemove]_(Source!lvars)
  BY <1>2 DEF LSteps, Shown, Source!lvars
<1> QED
  BY <1>1, <1>3, ReaderInvariant, PTL DEF Spec, DeliversLines, Source!LSpec

==============================================================================
