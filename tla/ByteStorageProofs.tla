-------------------------- MODULE ByteStorageProofs ---------------------------
(***************************************************************************)
(* What the owners of blocks write is kept, and the lengths of the blocks  *)
(* are what sizeOf(), check() and statistics() find, for every radix,      *)
(* every capacity and every number of blocks.  The invariant speaks of any *)
(* list of buffers and blocks, since a block is placed into a list that    *)
(* has got a new buffer in the same step.                                  *)
(***************************************************************************)
EXTENDS ByteStorage, SequenceLemmas

Buffer == [size : 0 .. capacity, bytes : [Offsets -> Byte]]
Block == [buffer : Nat, at : Nat, size : Nat, fill : Byte \cup {Radix}]

\* A block lies in the used part of its buffer, at most one block at a place.
Placed(buffers, owned) ==
  \A b \in DOMAIN owned :
    /\ owned[b].buffer \in DOMAIN buffers
    /\ owned[b].at + owned[b].size <= buffers[owned[b].buffer].size
Disjoint(owned) ==
  \A b, c \in DOMAIN owned :
    b # c /\ owned[b].buffer = owned[c].buffer =>
      \/ owned[b].at + owned[b].size <= owned[c].at
      \/ owned[c].at + owned[c].size <= owned[b].at
Kept(buffers, owned) ==
  \A b \in DOMAIN owned :
    owned[b].fill \in Byte =>
      \A k \in owned[b].at .. owned[b].at + owned[b].size - 1 :
        buffers[owned[b].buffer].bytes[k] = owned[b].fill
Contents(buffers, owned) ==
  /\ buffers \in Seq(Buffer) /\ owned \in Seq(Block)
  /\ Placed(buffers, owned) /\ Disjoint(owned) /\ Kept(buffers, owned)

--------------------------------------------------------------------------------
\* The length field has one to three bytes.
LEMMA WidthBounds == LengthWidth \in 1 .. 3
BY DEF LengthWidth

\* Every byte of a length is a byte.
LEMMA DigitIsByte ==
  ASSUME NEW n \in Nat, NEW i \in 0 .. 2
  PROVE  DigitOf(n, i) \in Byte
<1>1. Radix \in Nat /\ Radix > 0
  BY StorageAssumption
<1>2. Radix * Radix \in Nat /\ Radix * Radix > 0
  BY <1>1
<1>3. \A m \in Nat : m % Radix \in Byte
  BY <1>1 DEF Byte
<1>4. n \div Radix \in Nat /\ n \div (Radix * Radix) \in Nat
  BY <1>1, <1>2
<1> QED
  BY <1>3, <1>4 DEF DigitOf

\* A new buffer is one.
LEMMA NewBufferType ==
  ASSUME capacity \in Nat, NEW bytes \in Uninitialized
  PROVE  NewBuffer(bytes) \in Buffer /\ NewBuffer(bytes).size = 0
BY StorageAssumption DEF NewBuffer, Buffer, Uninitialized, Byte

\* A block that fits leaves a buffer, with the bytes below it as they were.
LEMMA MarkedType ==
  ASSUME capacity \in Nat, NEW b \in Buffer, NEW size \in Nat, Fits(b, size)
  PROVE  /\ Marked(b, size) \in Buffer
         /\ b.size + LengthWidth + size <= Marked(b, size).size
         /\ b.size <= Marked(b, size).size
         /\ \A k \in 0 .. b.size - 1 : Marked(b, size).bytes[k] = b.bytes[k]
<1> DEFINE data == b.size + LengthWidth
           byte(k) == CASE k \in b.size .. data - 1 -> DigitOf(size, k - b.size)
                        [] k = data + size -> 0
                        [] k = data + size + 1 -> Radix - 1
                        [] OTHER -> b.bytes[k]
<1>1. b.size \in 0 .. capacity /\ b.bytes \in [Offsets -> Byte]
  BY DEF Buffer
<1>2. b.size + size + LengthWidth + 2 \in 0 .. capacity
  BY <1>1, WidthBounds DEF Fits, NeededBytes
<1>3. 0 \in Byte /\ Radix - 1 \in Byte
  BY StorageAssumption DEF Byte
<1>4. ASSUME NEW k \in Offsets PROVE byte(k) \in Byte
  <2>1. CASE k \in b.size .. data - 1
    <3>1. k - b.size \in 0 .. 2
      BY <2>1, <1>1, WidthBounds DEF Offsets
    <3>2. DigitOf(size, k - b.size) \in Byte
      BY <3>1, DigitIsByte
    <3>3. k # data + size /\ k # data + size + 1
      BY <2>1, <1>1, WidthBounds
    <3> QED
      BY <2>1, <3>2, <3>3, Zenon
  <2>2. CASE k \notin b.size .. data - 1
    <3>1. data \in Int /\ b.bytes[k] \in Byte
      BY <1>1, WidthBounds
    <3> QED
      BY <2>2, <3>1, <1>3
  <2> QED
    BY <2>1, <2>2
<1>5. Marked(b, size) = [size |-> b.size + size + NeededBytes, bytes |-> [k \in Offsets |-> byte(k)]]
  BY DEF Marked
<1>6. ASSUME NEW k \in 0 .. b.size - 1 PROVE k \in Offsets /\ byte(k) = b.bytes[k]
  <2>1. k \in Offsets /\ k \notin b.size .. data - 1
    BY <1>1 DEF Offsets
  <2>2. k # data + size /\ k # data + size + 1
    BY <1>1, WidthBounds
  <2> QED
    BY <2>1, <2>2, Zenon
<1> HIDE DEF byte
<1>7. Marked(b, size) \in Buffer
  BY <1>2, <1>4, <1>5, <1>1, WidthBounds DEF Buffer, NeededBytes
<1> QED
  BY <1>1, <1>2, <1>5, <1>6, <1>7, WidthBounds DEF NeededBytes

--------------------------------------------------------------------------------
\* A further buffer changes nothing.
LEMMA ContentsAppend ==
  ASSUME NEW buffers, NEW owned, Contents(buffers, owned), NEW b \in Buffer
  PROVE  Contents(Append(buffers, b), owned)
<1> DEFINE more == Append(buffers, b)
<1>1. /\ more \in Seq(Buffer)
      /\ DOMAIN buffers \subseteq DOMAIN more
      /\ \A i \in DOMAIN buffers : more[i] = buffers[i]
  BY AppendProperties DEF Contents
<1> HIDE DEF more
<1> QED
  BY <1>1 DEF Contents, Placed, Kept

\* A buffer that replaces the last one.
LEMMA ReplacedLast ==
  ASSUME NEW buffers \in Seq(Buffer), buffers # <<>>, NEW b \in Buffer
  PROVE  LET more == Append(Front(buffers), b)
         IN /\ more \in Seq(Buffer) /\ Len(more) = Len(buffers)
            /\ more[Len(buffers)] = b
            /\ \A i \in 1 .. Len(buffers) - 1 : more[i] = buffers[i]
            /\ Len(buffers) \in Nat \ {0} /\ Last(buffers) \in Buffer
<1>1. Len(buffers) \in Nat \ {0} /\ buffers[Len(buffers)] \in Buffer
  OBVIOUS
<1>2. /\ Front(buffers) \in Seq(Buffer) /\ Len(Front(buffers)) = Len(buffers) - 1
      /\ \A i \in 1 .. Len(buffers) - 1 : Front(buffers)[i] = buffers[i]
  <2> DEFINE m == Len(buffers) - 1
  <2>1. m \in Int /\ 1 \in Int /\ \A i \in 1 .. m : buffers[i] \in Buffer
    BY <1>1
  <2> HIDE DEF m
  <2>2. /\ SubSeq(buffers, 1, m) \in Seq(Buffer)
        /\ Len(SubSeq(buffers, 1, m)) = IF 1 <= m THEN m - 1 + 1 ELSE 0
        /\ \A i \in 1 .. m - 1 + 1 : SubSeq(buffers, 1, m)[i] = buffers[1 + i - 1]
    BY <2>1, SubSeqProperties
  <2>3. m = Len(buffers) - 1 /\ Len(buffers) \in Nat \ {0}
    BY <1>1 DEF m
  <2>4. Len(SubSeq(buffers, 1, m)) = m
    BY <2>2, <2>3
  <2>5. ASSUME NEW i \in 1 .. m PROVE SubSeq(buffers, 1, m)[i] = buffers[i]
    <3>1. i \in 1 .. m - 1 + 1 /\ 1 + i - 1 = i
      BY <2>3
    <3> QED
      BY <2>2, <3>1
  <2>6. Front(buffers) = SubSeq(buffers, 1, m)
    BY DEF Front, m
  <2> QED
    BY <2>2, <2>3, <2>4, <2>5, <2>6
<1> QED
  BY <1>1, <1>2, AppendProperties DEF Last

\* A block that fits into the last buffer lies behind all others.
LEMMA ContentsOwned ==
  ASSUME capacity \in Nat, NEW buffers, NEW owned, Contents(buffers, owned), buffers # <<>>,
         NEW size \in Nat, Fits(Last(buffers), size)
  PROVE  Contents(Append(Front(buffers), Marked(Last(buffers), size)),
              Append(owned, [buffer |-> Len(buffers), at |-> Last(buffers).size + LengthWidth,
                             size |-> size, fill |-> Radix]))
<1> DEFINE n == Len(buffers)
           last == Last(buffers)
           marked == Marked(last, size)
           more == Append(Front(buffers), marked)
           block == [buffer |-> n, at |-> last.size + LengthWidth, size |-> size, fill |-> Radix]
           all == Append(owned, block)
<1>1. buffers \in Seq(Buffer) /\ owned \in Seq(Block) /\ n \in Nat \ {0} /\ last \in Buffer
      /\ last = buffers[n]
  BY DEF Contents, Last
<1>2. /\ marked \in Buffer
      /\ last.size + LengthWidth + size <= marked.size /\ last.size <= marked.size
      /\ \A k \in 0 .. last.size - 1 : marked.bytes[k] = last.bytes[k]
  BY <1>1, MarkedType
<1>3. /\ more \in Seq(Buffer) /\ Len(more) = n /\ more[n] = marked
      /\ \A i \in 1 .. n - 1 : more[i] = buffers[i]
  BY <1>1, <1>2, ReplacedLast
<1>4. last.size \in Nat /\ marked.size \in Nat /\ LengthWidth \in Nat
  BY <1>1, <1>2, WidthBounds DEF Buffer
<1>5. block \in Block /\ Radix \notin Byte
  BY <1>1, <1>4, StorageAssumption DEF Block, Byte
<1>6. /\ all \in Seq(Block) /\ Len(all) = Len(owned) + 1 /\ all[Len(owned) + 1] = block
      /\ \A b \in 1 .. Len(owned) : all[b] = owned[b]
  BY <1>1, <1>5, AppendProperties
<1>7. DOMAIN all = 1 .. Len(owned) + 1 /\ DOMAIN owned = 1 .. Len(owned) /\ Len(owned) \in Nat
      /\ DOMAIN more = 1 .. n /\ DOMAIN buffers = 1 .. n
  BY <1>1, <1>3, <1>6
<1>8. /\ block.buffer = n /\ block.at = last.size + LengthWidth
      /\ block.size = size /\ block.fill = Radix
  OBVIOUS
<1> HIDE DEF n, last, marked, more, block, all
<1>9. ASSUME NEW b \in DOMAIN owned
      PROVE  /\ owned[b] \in Block /\ owned[b].buffer \in 1 .. n
             /\ owned[b].at \in Nat /\ owned[b].size \in Nat
             /\ owned[b].at + owned[b].size <= buffers[owned[b].buffer].size
             /\ owned[b].buffer = n => owned[b].at + owned[b].size <= last.size
  <2>1. owned[b] \in Block
    BY <1>1
  <2>2. /\ owned[b].buffer \in 1 .. n
        /\ owned[b].at + owned[b].size <= buffers[owned[b].buffer].size
    BY <1>7 DEF Contents, Placed
  <2> QED
    BY <2>1, <2>2, <1>1 DEF Block
<1>10. Placed(more, all)
  <2> SUFFICES ASSUME NEW b \in DOMAIN all
               PROVE  /\ all[b].buffer \in DOMAIN more
                      /\ all[b].at + all[b].size <= more[all[b].buffer].size
    BY DEF Placed
  <2>1. CASE b = Len(owned) + 1
    BY <2>1, <1>1, <1>2, <1>3, <1>4, <1>6, <1>7, <1>8
  <2>2. CASE b \in DOMAIN owned
    <3>1. all[b] = owned[b]
      BY <2>2, <1>6, <1>7
    <3>2. CASE owned[b].buffer = n
      BY <3>1, <3>2, <2>2, <1>1, <1>2, <1>3, <1>4, <1>7, <1>9, SMTT(60)
    <3>3. CASE owned[b].buffer \in 1 .. n - 1
      BY <3>1, <3>3, <2>2, <1>1, <1>3, <1>7, <1>9
    <3> QED
      BY <3>2, <3>3, <2>2, <1>1, <1>9
  <2> QED
    BY <2>1, <2>2, <1>7
<1>11. Disjoint(all)
  <2>1. ASSUME NEW b \in DOMAIN owned, owned[b].buffer = block.buffer
        PROVE  owned[b].at + owned[b].size <= block.at
    BY <2>1, <1>4, <1>8, <1>9
  <2> SUFFICES ASSUME NEW b \in DOMAIN all, NEW c \in DOMAIN all, b # c,
                      all[b].buffer = all[c].buffer
               PROVE  \/ all[b].at + all[b].size <= all[c].at
                      \/ all[c].at + all[c].size <= all[b].at
    BY DEF Disjoint
  <2>2. CASE b \in DOMAIN owned /\ c \in DOMAIN owned
    BY <2>2, <1>6, <1>7 DEF Contents, Disjoint
  <2>3. CASE b = Len(owned) + 1
    BY <2>1, <2>3, <1>6, <1>7
  <2>4. CASE c = Len(owned) + 1
    BY <2>1, <2>4, <1>6, <1>7
  <2> QED
    BY <2>2, <2>3, <2>4, <1>7
<1>12. Kept(more, all)
  <2> SUFFICES ASSUME NEW b \in DOMAIN all, all[b].fill \in Byte,
                      NEW k \in all[b].at .. all[b].at + all[b].size - 1
               PROVE  more[all[b].buffer].bytes[k] = all[b].fill
    BY DEF Kept
  <2>1. b \in DOMAIN owned /\ all[b] = owned[b]
    BY <1>5, <1>6, <1>7, <1>8
  <2>2. buffers[owned[b].buffer].bytes[k] = owned[b].fill
    BY <2>1 DEF Contents, Kept
  <2>3. CASE owned[b].buffer = n
    <3>1. k \in 0 .. last.size - 1
      BY <2>1, <2>3, <1>4, <1>9, SMTT(60)
    <3> QED
      BY <3>1, <2>1, <2>2, <2>3, <1>1, <1>2, <1>3
  <2>4. CASE owned[b].buffer \in 1 .. n - 1
    BY <2>1, <2>2, <2>4, <1>3
  <2> QED
    BY <2>1, <2>3, <2>4, <1>1, <1>9
<1> QED
  BY <1>3, <1>6, <1>10, <1>11, <1>12 DEF Contents, n, last, marked, more, block, all

--------------------------------------------------------------------------------
\* What a list of buffers and blocks is depends on the capacity, which stays.
LEMMA ContentsPrime ==
  ASSUME capacity' = capacity, Contents(chain', blocks')
  PROVE  Contents(chain, blocks)'
BY DEF Contents, Placed, Disjoint, Kept, Buffer, Block, Offsets, Byte

\* The owner of a block writes only into it.
LEMMA ContentsFill ==
  ASSUME capacity \in Nat, Contents(chain, blocks), NEW b \in DOMAIN blocks, NEW byte \in Byte, Fill(b, byte)
  PROVE  Contents(chain', blocks')
<1> DEFINE block == blocks[b]
           range == block.at .. block.at + block.size - 1
<1>1. /\ chain \in Seq(Buffer) /\ blocks \in Seq(Block)
      /\ block \in Block /\ block.buffer \in DOMAIN chain
  BY DEF Contents, Placed
<1>2. /\ blocks' \in Seq(Block) /\ DOMAIN blocks' = DOMAIN blocks
      /\ blocks'[b] = [block EXCEPT !.fill = byte]
      /\ \A c \in DOMAIN blocks : c # b => blocks'[c] = blocks[c]
  <2>1. [block EXCEPT !.fill = byte] \in Block
    BY <1>1 DEF Block
  <2> QED
    BY <1>1, <2>1 DEF Fill
<1>3. \A c \in DOMAIN blocks :
        /\ blocks'[c].buffer = blocks[c].buffer
        /\ blocks'[c].at = blocks[c].at /\ blocks'[c].size = blocks[c].size
  BY <1>1, <1>2 DEF Block
<1> DEFINE old == chain[block.buffer]
           new == [old EXCEPT !.bytes = [k \in Offsets |-> IF k \in range THEN byte ELSE @[k]]]
<1>4. /\ new \in Buffer /\ new.size = old.size
      /\ \A k \in Offsets : new.bytes[k] = IF k \in range THEN byte ELSE old.bytes[k]
  <2>1. old \in Buffer
    BY <1>1
  <2>2. [k \in Offsets |-> IF k \in range THEN byte ELSE old.bytes[k]] \in [Offsets -> Byte]
    BY <2>1 DEF Buffer
  <2> QED
    BY <2>1, <2>2 DEF Buffer
<1>5. chain' = [chain EXCEPT ![block.buffer] = new]
  BY DEF Fill
<1>6. /\ chain' \in Seq(Buffer) /\ DOMAIN chain' = DOMAIN chain
      /\ chain'[block.buffer] = new
      /\ \A i \in DOMAIN chain : i # block.buffer => chain'[i] = chain[i]
  BY <1>1, <1>4, <1>5
<1>7. \A i \in DOMAIN chain : chain'[i].size = chain[i].size
  BY <1>4, <1>6
<1>8. Placed(chain', blocks')
  BY <1>2, <1>3, <1>6, <1>7 DEF Contents, Placed
<1>9. Disjoint(blocks')
  BY <1>2, <1>3 DEF Contents, Disjoint
<1>10. Kept(chain', blocks')
  <2> SUFFICES ASSUME NEW c \in DOMAIN blocks, blocks'[c].fill \in Byte,
                      NEW k \in blocks[c].at .. blocks[c].at + blocks[c].size - 1
               PROVE  chain'[blocks[c].buffer].bytes[k] = blocks'[c].fill
    BY <1>2, <1>3 DEF Kept
  <2>1. /\ blocks[c] \in Block /\ blocks[c].buffer \in DOMAIN chain
        /\ blocks[c].at + blocks[c].size <= chain[blocks[c].buffer].size
        /\ chain[blocks[c].buffer] \in Buffer
    BY <1>1 DEF Contents, Placed
  <2>2. k \in Offsets
    BY <2>1 DEF Block, Buffer, Offsets
  <2>3. CASE c = b
    <3>1. blocks'[c].fill = byte
      BY <2>3, <1>1, <1>2 DEF Block
    <3> QED
      BY <3>1, <2>2, <2>3, <1>4, <1>6
  <2>4. CASE c # b
    <3>1. chain[blocks[c].buffer].bytes[k] = blocks'[c].fill
      BY <2>4, <1>2 DEF Contents, Kept
    <3>2. CASE blocks[c].buffer = block.buffer
      <4>1. k \notin range
        <5>1. \/ block.at + block.size <= blocks[c].at
              \/ blocks[c].at + blocks[c].size <= block.at
          BY <2>4, <3>2 DEF Contents, Disjoint
        <5>2. /\ block.at \in Nat /\ block.size \in Nat
              /\ blocks[c].at \in Nat /\ blocks[c].size \in Nat
          BY <2>1, <1>1 DEF Block
        <5> HIDE DEF block
        <5> QED
          BY <5>1, <5>2
      <4> QED
        BY <4>1, <3>1, <3>2, <2>2, <1>4, <1>6
    <3>3. CASE blocks[c].buffer # block.buffer
      BY <3>1, <3>3, <2>1, <1>6
    <3> QED
      BY <3>2, <3>3
  <2> QED
    BY <2>3, <2>4
<1> QED
  BY <1>2, <1>6, <1>8, <1>9, <1>10 DEF Contents

\* No buffers hold no blocks.
LEMMA ContentsEmpty == Contents(<<>>, <<>>)
BY DEF Contents, Placed, Disjoint, Kept

--------------------------------------------------------------------------------
(* Sums. *)

LEMMA TotalExists ==
  ASSUME NEW f, NEW n \in Nat
  PROVE  \E g : g = [k \in 0 .. n |-> IF k = 0 THEN 0 ELSE g[k - 1] + f[k]]
<1> DEFINE Is(g, m) == g = [k \in 0 .. m |-> IF k = 0 THEN 0 ELSE g[k - 1] + f[k]]
           Bad == {m \in Nat : ~ \E g : Is(g, m)}
<1>1. SUFFICES ASSUME Bad # {} PROVE FALSE
  OBVIOUS
<1>2. PICK m \in Bad : \A k \in Bad : m <= k
  <2>1. Bad \subseteq Nat
    OBVIOUS
  <2> HIDE DEF Bad
  <2> QED
    BY <1>1, <2>1, HasLeast
<1>3. m \in Nat /\ ~ \E g : Is(g, m)
  BY <1>2
<1>4. \E f1 : m # 0 => Is(f1, m - 1)
  <2>1. CASE m = 0
    BY <2>1
  <2>2. CASE m # 0
    <3>1. m - 1 \in Nat /\ ~ (m <= m - 1)
      BY <1>3, <2>2
    <3>2. m - 1 \notin Bad
      <4> HIDE DEF Bad
      <4> QED
        BY <1>2, <3>1
    <3> QED
      BY <3>1, <3>2
  <2> QED
    BY <2>1, <2>2
<1>5. PICK h : m # 0 => Is(h, m - 1)
  BY <1>4
<1> DEFINE g == [k \in 0 .. m |-> IF k < m THEN h[k] ELSE IF k = 0 THEN 0 ELSE h[k - 1] + f[k]]
<1>6. ASSUME NEW k \in 0 .. m
      PROVE  g[k] = IF k = 0 THEN 0 ELSE g[k - 1] + f[k]
  <2>1. CASE k = m
    BY <2>1, <1>3
  <2>2. CASE k # m
    <3>1. k \in 0 .. m - 1 /\ m # 0 /\ k < m
      BY <2>2, <1>3
    <3>2. h[k] = IF k = 0 THEN 0 ELSE h[k - 1] + f[k]
      BY <3>1, <1>5
    <3>3. k # 0 => g[k - 1] = h[k - 1]
      BY <3>1, <1>3
    <3> QED
      BY <3>1, <3>2, <3>3
  <2> QED
    BY <2>1, <2>2
<1>7. Is(g, m)
  BY <1>6, Zenon
<1> QED
  BY <1>3, <1>7

\* What the partial sums are.
AreSums(g, f, n) == g[0] = 0 /\ \A k \in 1 .. n : g[k] = g[k - 1] + f[k]

LEMMA TotalUnfolds ==
  ASSUME NEW f, NEW n \in Nat
  PROVE  \E g : Total(f, n) = g[n] /\ AreSums(g, f, n)
<1> DEFINE Is(g) == g = [k \in 0 .. n |-> IF k = 0 THEN 0 ELSE g[k - 1] + f[k]]
           g == CHOOSE h : Is(h)
<1>1. Total(f, n) = g[n]
  BY DEF Total
<1>2. Is(g)
  BY TotalExists
<1> HIDE DEF g
<1>3. \A k \in 0 .. n : g[k] = IF k = 0 THEN 0 ELSE g[k - 1] + f[k]
  BY <1>2, Zenon
<1>4. g[0] = 0
  <2>1. 0 \in 0 .. n
    OBVIOUS
  <2> QED
    BY <1>3, <2>1, Zenon
<1>5. ASSUME NEW k \in 1 .. n PROVE g[k] = g[k - 1] + f[k]
  <2>1. k \in 0 .. n /\ k # 0
    OBVIOUS
  <2> QED
    BY <1>3, <2>1, Zenon
<1> QED
  BY <1>1, <1>4, <1>5 DEF AreSums

\* Sums of the same numbers are the same.
LEMMA SumsAgree ==
  ASSUME NEW f, NEW h, NEW n \in Nat, \A k \in 1 .. n : f[k] = h[k],
         NEW g1, AreSums(g1, f, n), NEW g2, AreSums(g2, h, n)
  PROVE  g1[n] = g2[n]
<1> DEFINE Bad == {k \in 0 .. n : g1[k] # g2[k]}
<1>1. ASSUME Bad # {} PROVE FALSE
  <2>1. PICK k \in Bad : \A j \in Bad : k <= j
    <3>1. Bad \subseteq Nat
      OBVIOUS
    <3> HIDE DEF Bad
    <3> QED
      BY <1>1, <3>1, HasLeast
  <2>2. k \in 0 .. n /\ g1[k] # g2[k]
    BY <2>1
  <2>3. k # 0
    BY <2>2 DEF AreSums
  <2>4. k - 1 \in 0 .. n /\ ~ (k <= k - 1) /\ k \in 1 .. n
    BY <2>2, <2>3
  <2>5. k - 1 \notin Bad
    <3> HIDE DEF Bad
    <3> QED
      BY <2>1, <2>4
  <2>6. g1[k - 1] = g2[k - 1]
    BY <2>4, <2>5
  <2>7. g1[k] = g1[k - 1] + f[k] /\ g2[k] = g2[k - 1] + h[k] /\ f[k] = h[k]
    BY <2>4 DEF AreSums
  <2> QED
    BY <2>2, <2>6, <2>7
<1> QED
  <2>1. n \in 0 .. n
    OBVIOUS
  <2> QED
    BY <1>1, <2>1

LEMMA TotalZero ==
  ASSUME NEW f
  PROVE  Total(f, 0) = 0
BY TotalUnfolds DEF AreSums

LEMMA TotalNext ==
  ASSUME NEW f, NEW n \in Nat
  PROVE  Total(f, n + 1) = Total(f, n) + f[n + 1]
<1>1. PICK m \in Nat : m = n + 1
  OBVIOUS
<1>2. PICK g : Total(f, m) = g[m] /\ AreSums(g, f, m)
  BY TotalUnfolds
<1>3. PICK h : Total(f, n) = h[n] /\ AreSums(h, f, n)
  BY TotalUnfolds
<1>4. g[n] = h[n]
  <2>1. AreSums(g, f, n)
    BY <1>1, <1>2 DEF AreSums
  <2>2. PICK e : e = f
    OBVIOUS
  <2>3. AreSums(h, e, n) /\ \A k \in 1 .. n : f[k] = e[k]
    BY <1>3, <2>2
  <2> QED
    BY <2>1, <2>3, SumsAgree
<1>5. m \in 1 .. m /\ m - 1 = n
  BY <1>1
<1>6. g[m] = g[n] + f[m]
  BY <1>2, <1>5 DEF AreSums
<1> QED
  BY <1>1, <1>2, <1>3, <1>4, <1>6

LEMMA TotalAgrees ==
  ASSUME NEW f, NEW h, NEW n \in Nat, \A k \in 1 .. n : f[k] = h[k]
  PROVE  Total(f, n) = Total(h, n)
<1>1. PICK g1 : Total(f, n) = g1[n] /\ AreSums(g1, f, n)
  BY TotalUnfolds
<1>2. PICK g2 : Total(h, n) = g2[n] /\ AreSums(g2, h, n)
  BY TotalUnfolds
<1>3. g1[n] = g2[n]
  BY <1>1, <1>2, SumsAgree
<1> QED
  BY <1>1, <1>2, <1>3

\* What is used and what is not are the whole of each buffer.
LEMMA TotalsFill ==
  ASSUME NEW f, NEW h, NEW c \in Int, NEW n \in Nat,
         \A k \in 1 .. n : f[k] \in Int /\ h[k] = c - f[k]
  PROVE  /\ Total(f, n) \in Int /\ Total(h, n) \in Int
         /\ Total(f, n) + Total(h, n) = c * n
<1> DEFINE Holds(m) == /\ Total(f, m) \in Int /\ Total(h, m) \in Int
                       /\ Total(f, m) + Total(h, m) = c * m
           Bad == {m \in 0 .. n : ~ Holds(m)}
<1>1. ASSUME Bad # {} PROVE FALSE
  <2>1. PICK k \in Bad : \A j \in Bad : k <= j
    <3>1. Bad \subseteq Nat
      OBVIOUS
    <3> HIDE DEF Bad
    <3> QED
      BY <1>1, <3>1, HasLeast
  <2>2. k \in 0 .. n /\ ~ Holds(k)
    BY <2>1
  <2>3. k # 0
    <3>1. Holds(0)
      BY TotalZero
    <3> HIDE DEF Holds
    <3> QED
      BY <2>2, <3>1
  <2>4. PICK m : m = k - 1
    OBVIOUS
  <2>5. m \in 0 .. n /\ ~ (k <= m) /\ m + 1 = k /\ k \in 1 .. n /\ m \in Nat
    BY <2>2, <2>3, <2>4
  <2>6. m \notin Bad
    <3> HIDE DEF Bad
    <3> QED
      BY <2>1, <2>5
  <2>7. Holds(m)
    <3> HIDE DEF Holds
    <3> QED
      BY <2>5, <2>6
  <2>8. Total(f, k) = Total(f, m) + f[k] /\ Total(h, k) = Total(h, m) + h[k]
    <3>1. Total(f, m + 1) = Total(f, m) + f[m + 1] /\ Total(h, m + 1) = Total(h, m) + h[m + 1]
      BY <2>5, TotalNext
    <3> QED
      BY <2>5, <3>1
  <2>9. c * k = c * m + c
    BY <2>5
  <2> QED
    BY <2>2, <2>5, <2>7, <2>8, <2>9
<1>2. n \in 0 .. n
  OBVIOUS
<1>3. Holds(n)
  <2> HIDE DEF Holds
  <2> QED
    BY <1>1, <1>2
<1> QED
  BY <1>3

--------------------------------------------------------------------------------
(* The digits of a length. *)

LEMMA Division ==
  ASSUME NEW n \in Nat, NEW d \in Nat, d > 0
  PROVE  /\ n \div d \in Nat /\ n % d \in 0 .. d - 1
         /\ n = d * (n \div d) + (n % d)
BY SMT

LEMMA QuotientIs ==
  ASSUME NEW n \in Nat, NEW d \in Nat, d > 0, NEW q \in Nat, NEW t \in 0 .. d - 1, n = d * q + t
  PROVE  n \div d = q
<1>1. PICK p \in Nat : p = n \div d
  BY Division
<1>2. PICK r \in 0 .. d - 1 : n = d * p + r
  BY <1>1, Division
<1>3. d * (p - q) = t - r
  BY <1>2
<1>4. ASSUME p - q >= 1 PROVE FALSE
  <2>1. d * (p - q) >= d
    BY <1>4
  <2> QED
    BY <1>3, <2>1
<1>5. ASSUME q - p >= 1 PROVE FALSE
  <2>1. d * (q - p) >= d
    BY <1>5
  <2>2. d * (q - p) = r - t
    BY <1>2
  <2> QED
    BY <2>1, <2>2
<1> QED
  BY <1>1, <1>4, <1>5

LEMMA SmallRest ==
  ASSUME NEW n \in Nat, NEW d \in Nat, n < d
  PROVE  n % d = n
<1>1. d > 0 /\ 0 \in Nat /\ n \in 0 .. d - 1 /\ n = d * 0 + n
  OBVIOUS
<1>2. n \div d = 0
  BY <1>1, QuotientIs
<1> QED
  BY <1>1, <1>2, Division

LEMMA TwoDigits ==
  ASSUME NEW n \in Nat, NEW r \in Nat, r > 1, n < r * r
  PROVE  n = (n % r) + r * ((n \div r) % r)
<1>1. PICK q \in Nat, t \in 0 .. r - 1 : q = n \div r /\ t = n % r /\ n = r * q + t
  BY Division
<1>2. q < r
  <2>1. ASSUME q >= r PROVE FALSE
    <3>1. r * q >= r * r
      BY <2>1
    <3> QED
      BY <1>1, <3>1
  <2> QED
    BY <2>1
<1>3. q % r = q
  BY <1>2, SmallRest
<1> QED
  BY <1>1, <1>3

LEMMA ThreeDigits ==
  ASSUME NEW n \in Nat, NEW r \in Nat, r > 1, n < r * r * r
  PROVE  n = (n % r) + r * ((n \div r) % r) + r * r * ((n \div (r * r)) % r)
<1>1. PICK q \in Nat, t \in 0 .. r - 1 : q = n \div r /\ t = n % r /\ n = r * q + t
  BY Division
<1>2. PICK p \in Nat, s \in 0 .. r - 1 : p = q \div r /\ s = q % r /\ q = r * p + s
  BY Division
<1>3. PICK d \in Nat : d = r * r /\ d > 0
  OBVIOUS
<1>4. n = d * p + (r * s + t)
  <2>1. r * (r * p + s) = r * (r * p) + r * s
    BY <1>2
  <2>2. r * (r * p) = d * p
    BY <1>2, <1>3
  <2>3. r * q = d * p + r * s
    BY <1>2, <2>1, <2>2
  <2>4. d * p \in Nat /\ r * s \in Nat
    BY <1>2, <1>3
  <2> QED
    BY <1>1, <2>3, <2>4
<1>5. r * s + t \in 0 .. d - 1
  <2>1. r * s <= r * (r - 1)
    BY <1>2
  <2>2. r * (r - 1) = d - r
    BY <1>3
  <2>3. r * s \in Nat
    BY <1>2
  <2> QED
    BY <1>1, <2>1, <2>2, <2>3, <1>3
<1>6. n \div d = p
  BY <1>3, <1>4, <1>5, QuotientIs
<1>7. p < r
  <2>1. ASSUME p >= r PROVE FALSE
    <3>1. d * p >= d * r
      BY <2>1, <1>3
    <3>2. d * r = r * r * r
      BY <1>3
    <3> QED
      BY <1>4, <1>5, <3>1, <3>2
  <2> QED
    BY <2>1
<1>8. p % r = p
  BY <1>7, SmallRest
<1>9. r * r * ((n \div (r * r)) % r) = d * p
  BY <1>3, <1>6, <1>8
<1>10. r * ((n \div r) % r) = r * s
  BY <1>1, <1>2
<1>11. d * p \in Nat /\ r * s \in Nat
  BY <1>2, <1>3
<1> QED
  BY <1>1, <1>4, <1>9, <1>10, <1>11

--------------------------------------------------------------------------------
(* How the blocks lie in the buffers, with their length fields and marks. *)

Start(block) == block.at - LengthWidth
End(block) == block.at + block.size + 2

\* What allocate() writes around a block.
HasMarks(bytes, block) ==
  /\ \A j \in 0 .. LengthWidth - 1 : bytes[Start(block) + j] = DigitOf(block.size, j)
  /\ bytes[block.at + block.size] = 0
  /\ bytes[block.at + block.size + 1] = Radix - 1

StartsAt(owned, i, offset) ==
  \E b \in DOMAIN owned : owned[b].buffer = i /\ Start(owned[b]) = offset

\* The blocks of a buffer follow each other from its start to its used size.
InBuffer(buffers, owned) ==
  \A b \in DOMAIN owned :
    /\ owned[b].buffer \in DOMAIN buffers
    /\ 0 <= Start(owned[b]) /\ End(owned[b]) <= buffers[owned[b].buffer].size
Apart(owned) ==
  \A b, c \in DOMAIN owned :
    b # c /\ owned[b].buffer = owned[c].buffer =>
      End(owned[b]) <= Start(owned[c]) \/ End(owned[c]) <= Start(owned[b])
Begun(buffers, owned) ==
  \A i \in DOMAIN buffers : buffers[i].size > 0 => StartsAt(owned, i, 0)
Followed(buffers, owned) ==
  \A b \in DOMAIN owned :
    End(owned[b]) < buffers[owned[b].buffer].size =>
      StartsAt(owned, owned[b].buffer, End(owned[b]))
AllMarked(buffers, owned) ==
  \A b \in DOMAIN owned : HasMarks(buffers[owned[b].buffer].bytes, owned[b])
Laid(buffers, owned) ==
  /\ buffers \in Seq(Buffer) /\ owned \in Seq(Block)
  /\ InBuffer(buffers, owned) /\ Apart(owned)
  /\ Begun(buffers, owned) /\ Followed(buffers, owned) /\ AllMarked(buffers, owned)

LEMMA BlockFacts ==
  ASSUME NEW block \in Block
  PROVE  /\ block.at \in Nat /\ block.size \in Nat /\ block.buffer \in Nat
         /\ Start(block) \in Int /\ End(block) \in Int /\ LengthWidth \in 1 .. 3
         /\ Start(block) + LengthWidth = block.at /\ End(block) = block.at + block.size + 2
         /\ Start(block) < End(block)
BY WidthBounds DEF Block, Start, End

LEMMA LaidEmpty == Laid(<<>>, <<>>)
BY DEF Laid, InBuffer, Apart, Begun, Followed, AllMarked

\* A new buffer is empty.
LEMMA LaidAppend ==
  ASSUME NEW buffers, NEW owned, Laid(buffers, owned), NEW b \in Buffer, b.size = 0
  PROVE  Laid(Append(buffers, b), owned)
<1> DEFINE more == Append(buffers, b)
<1>1. /\ more \in Seq(Buffer) /\ Len(buffers) \in Nat
      /\ DOMAIN buffers = 1 .. Len(buffers) /\ DOMAIN more = 1 .. Len(buffers) + 1
      /\ \A i \in DOMAIN buffers : more[i] = buffers[i]
      /\ more[Len(buffers) + 1] = b
  BY AppendProperties DEF Laid
<1> HIDE DEF more
<1>2. InBuffer(more, owned)
  BY <1>1 DEF Laid, InBuffer
<1>3. Begun(more, owned)
  <2> SUFFICES ASSUME NEW i \in DOMAIN more, more[i].size > 0 PROVE StartsAt(owned, i, 0)
    BY DEF Begun
  <2>1. i \in DOMAIN buffers
    BY <1>1
  <2> QED
    BY <2>1, <1>1 DEF Laid, Begun
<1>4. Followed(more, owned)
  BY <1>1 DEF Laid, InBuffer, Followed
<1>5. AllMarked(more, owned)
  BY <1>1 DEF Laid, InBuffer, AllMarked
<1> QED
  BY <1>1, <1>2, <1>3, <1>4, <1>5 DEF Laid, more

\* What allocate() writes: the field, the marks, and nothing below them.
LEMMA MarkedBytes ==
  ASSUME capacity \in Nat, NEW b \in Buffer, NEW size \in Nat, Fits(b, size),
         NEW i, NEW fill, NEW block,
         block = [buffer |-> i, at |-> b.size + LengthWidth, size |-> size, fill |-> fill]
  PROVE  /\ Marked(b, size).size = End(block)
         /\ Start(block) = b.size
         /\ HasMarks(Marked(b, size).bytes, block)
<1> DEFINE data == b.size + LengthWidth
           byte(k) == CASE k \in b.size .. data - 1 -> DigitOf(size, k - b.size)
                        [] k = data + size -> 0
                        [] k = data + size + 1 -> Radix - 1
                        [] OTHER -> b.bytes[k]
<1>1. b.size \in 0 .. capacity /\ LengthWidth \in 1 .. 3
  BY WidthBounds DEF Buffer
<1>2. b.size + size + LengthWidth + 2 \in 0 .. capacity
  BY <1>1 DEF Fits, NeededBytes
<1>3. Marked(b, size) = [size |-> b.size + size + NeededBytes, bytes |-> [k \in Offsets |-> byte(k)]]
  BY DEF Marked
<1>4. ASSUME NEW j \in 0 .. LengthWidth - 1
      PROVE  b.size + j \in Offsets /\ byte(b.size + j) = DigitOf(size, j)
  <2>1. PICK k : k = b.size + j
    OBVIOUS
  <2>2. k \in b.size .. data - 1 /\ k - b.size = j /\ k \in Offsets
    BY <1>1, <1>2, <2>1 DEF Offsets
  <2>3. k # data + size /\ k # data + size + 1
    BY <1>1, <2>2
  <2>4. byte(k) = DigitOf(size, k - b.size)
    BY <2>2, <2>3, Zenon
  <2> QED
    BY <2>1, <2>2, <2>4
<1>5. data + size \in Offsets /\ byte(data + size) = 0
  <2>1. PICK k : k = data + size
    OBVIOUS
  <2>2. k \notin b.size .. data - 1 /\ k # data + size + 1 /\ k \in Offsets
    BY <1>1, <1>2, <2>1 DEF Offsets
  <2>3. byte(k) = 0
    BY <2>1, <2>2
  <2> QED
    BY <2>1, <2>2, <2>3
<1>6. data + size + 1 \in Offsets /\ byte(data + size + 1) = Radix - 1
  <2>1. PICK k : k = data + size + 1
    OBVIOUS
  <2>2. k \notin b.size .. data - 1 /\ k # data + size /\ k \in Offsets
    BY <1>1, <1>2, <2>1 DEF Offsets
  <2>3. byte(k) = Radix - 1
    BY <2>1, <2>2
  <2> QED
    BY <2>1, <2>2, <2>3
<1> HIDE DEF byte
<1>7. \A k \in Offsets : Marked(b, size).bytes[k] = byte(k)
  BY <1>3
<1>8. /\ block.at = data /\ block.size = size /\ Start(block) = b.size
      /\ End(block) = data + size + 2
  BY <1>1 DEF Start, End
<1>9. Marked(b, size).size = End(block)
  BY <1>1, <1>3, <1>8 DEF NeededBytes
<1> HIDE DEF data
<1>10. HasMarks(Marked(b, size).bytes, block)
  BY <1>4, <1>5, <1>6, <1>7, <1>8 DEF HasMarks
<1> QED
  BY <1>8, <1>9, <1>10

\* The bytes around a block are as they were.
LEMMA MarksStay ==
  ASSUME capacity \in Nat, NEW block \in Block, 0 <= Start(block), NEW bytes, NEW others,
         HasMarks(bytes, block),
         \A k \in Start(block) .. End(block) - 1 :
           k < block.at \/ k >= block.at + block.size => others[k] = bytes[k]
  PROVE  HasMarks(others, block)
<1>1. /\ block.at \in Nat /\ block.size \in Nat /\ Start(block) \in Int /\ LengthWidth \in 1 .. 3
      /\ Start(block) + LengthWidth = block.at /\ End(block) = block.at + block.size + 2
  BY BlockFacts
<1>2. ASSUME NEW j \in 0 .. LengthWidth - 1
      PROVE  others[Start(block) + j] = bytes[Start(block) + j]
  <2>1. Start(block) + j \in Start(block) .. End(block) - 1 /\ Start(block) + j < block.at
    BY <1>1
  <2> QED
    BY <2>1
<1>3. block.at + block.size \in Start(block) .. End(block) - 1
      /\ block.at + block.size + 1 \in Start(block) .. End(block) - 1
      /\ block.at + block.size >= block.at + block.size
      /\ block.at + block.size + 1 >= block.at + block.size
  BY <1>1
<1>4. others[block.at + block.size] = bytes[block.at + block.size]
      /\ others[block.at + block.size + 1] = bytes[block.at + block.size + 1]
  BY <1>3
<1> QED
  BY <1>2, <1>4 DEF HasMarks

\* A block that is allocated begins where the last one ends.
LEMMA LaidOwned ==
  ASSUME capacity \in Nat, NEW buffers, NEW owned, Laid(buffers, owned), buffers # <<>>,
         NEW size \in Nat, Fits(Last(buffers), size)
  PROVE  Laid(Append(Front(buffers), Marked(Last(buffers), size)),
              Append(owned, [buffer |-> Len(buffers), at |-> Last(buffers).size + LengthWidth,
                             size |-> size, fill |-> Radix]))
<1> DEFINE n == Len(buffers)
           last == Last(buffers)
           marked == Marked(last, size)
           more == Append(Front(buffers), marked)
           block == [buffer |-> n, at |-> last.size + LengthWidth, size |-> size, fill |-> Radix]
           all == Append(owned, block)
           m == Len(owned) + 1
<1>1. buffers \in Seq(Buffer) /\ owned \in Seq(Block) /\ n \in Nat \ {0} /\ last \in Buffer
      /\ last = buffers[n]
  BY DEF Laid, Last
<1>2. /\ marked \in Buffer /\ \A k \in 0 .. last.size - 1 : marked.bytes[k] = last.bytes[k]
  BY <1>1, MarkedType
<1>3. /\ more \in Seq(Buffer) /\ Len(more) = n /\ more[n] = marked
      /\ \A i \in 1 .. n - 1 : more[i] = buffers[i]
  BY <1>1, <1>2, ReplacedLast
<1>4. last.size \in Nat /\ marked.size \in Nat /\ LengthWidth \in Nat
  BY <1>1, <1>2, WidthBounds DEF Buffer
<1>5. block \in Block
  BY <1>1, <1>4, StorageAssumption DEF Block, Byte
<1>6. /\ all \in Seq(Block) /\ Len(all) = m /\ all[m] = block
      /\ \A b \in 1 .. Len(owned) : all[b] = owned[b]
  BY <1>1, <1>5, AppendProperties
<1>7. DOMAIN all = 1 .. m /\ DOMAIN owned = 1 .. Len(owned) /\ Len(owned) \in Nat
      /\ DOMAIN more = 1 .. n /\ DOMAIN buffers = 1 .. n /\ m = Len(owned) + 1
  BY <1>1, <1>3, <1>6
<1>8. /\ marked.size = End(block) /\ Start(block) = last.size /\ HasMarks(marked.bytes, block)
  BY <1>1, MarkedBytes
<1>9. block.buffer = n /\ Start(block) < End(block)
  BY <1>5, BlockFacts
<1> HIDE DEF n, last, marked, more, block, all, m
<1>10. ASSUME NEW b \in DOMAIN owned
       PROVE  /\ owned[b] \in Block /\ owned[b].buffer \in 1 .. n
              /\ Start(owned[b]) \in Int /\ End(owned[b]) \in Int /\ 0 <= Start(owned[b])
              /\ End(owned[b]) <= buffers[owned[b].buffer].size
              /\ owned[b].buffer = n => End(owned[b]) <= last.size
              /\ b \in DOMAIN all /\ all[b] = owned[b]
  <2>1. owned[b] \in Block
    BY <1>1
  <2>2. /\ owned[b].buffer \in 1 .. n /\ 0 <= Start(owned[b])
        /\ End(owned[b]) <= buffers[owned[b].buffer].size
    BY <1>7 DEF Laid, InBuffer
  <2>3. Start(owned[b]) \in Int /\ End(owned[b]) \in Int
    BY <2>1, BlockFacts
  <2>4. b \in DOMAIN all /\ all[b] = owned[b]
    BY <1>6, <1>7
  <2> QED
    BY <2>1, <2>2, <2>3, <2>4, <1>1
<1>11. m \in DOMAIN all /\ \A b \in DOMAIN all : b = m \/ b \in DOMAIN owned
  BY <1>7
<1>12. \A i \in 1 .. n : buffers[i].size \in Nat /\ (i # n => more[i] = buffers[i])
  <2>1. \A i \in 1 .. n : buffers[i] \in Buffer
    BY <1>1, <1>7
  <2> QED
    BY <2>1, <1>1, <1>3 DEF Buffer
<1>13. InBuffer(more, all)
  <2> SUFFICES ASSUME NEW b \in DOMAIN all
               PROVE  /\ all[b].buffer \in DOMAIN more
                      /\ 0 <= Start(all[b]) /\ End(all[b]) <= more[all[b].buffer].size
    BY DEF InBuffer
  <2>1. CASE b = m
    BY <2>1, <1>1, <1>3, <1>4, <1>6, <1>7, <1>8, <1>9
  <2>2. CASE b \in DOMAIN owned /\ owned[b].buffer = n
    <3>1. End(owned[b]) <= last.size /\ last.size <= marked.size
      BY <2>2, <1>4, <1>8, <1>9, <1>10
    <3>2. End(owned[b]) <= marked.size
      BY <2>2, <3>1, <1>4, <1>10
    <3> QED
      BY <2>2, <3>2, <1>3, <1>7, <1>10
  <2>3. CASE b \in DOMAIN owned /\ owned[b].buffer # n
    BY <2>3, <1>7, <1>10, <1>12
  <2> QED
    BY <2>1, <2>2, <2>3, <1>11
<1>14. Apart(all)
  <2> SUFFICES ASSUME NEW b \in DOMAIN all, NEW c \in DOMAIN all, b # c,
                      all[b].buffer = all[c].buffer
               PROVE  End(all[b]) <= Start(all[c]) \/ End(all[c]) <= Start(all[b])
    BY DEF Apart
  <2>1. CASE b \in DOMAIN owned /\ c \in DOMAIN owned
    BY <2>1, <1>10 DEF Laid, Apart
  <2>2. CASE b = m /\ c \in DOMAIN owned
    BY <2>2, <1>6, <1>8, <1>9, <1>10
  <2>3. CASE c = m /\ b \in DOMAIN owned
    BY <2>3, <1>6, <1>8, <1>9, <1>10
  <2> QED
    BY <2>1, <2>2, <2>3, <1>11
<1>15. ASSUME NEW i, NEW o, StartsAt(owned, i, o) PROVE StartsAt(all, i, o)
  BY <1>10, <1>15 DEF StartsAt
<1>16. StartsAt(all, n, last.size)
  BY <1>6, <1>8, <1>9, <1>11 DEF StartsAt
<1>17. Begun(more, all)
  <2> SUFFICES ASSUME NEW i \in DOMAIN more, more[i].size > 0 PROVE StartsAt(all, i, 0)
    BY DEF Begun
  <2>1. CASE i = n /\ last.size = 0
    BY <2>1, <1>16
  <2>2. CASE i = n /\ last.size # 0
    <3>1. StartsAt(owned, n, 0)
      BY <2>2, <1>1, <1>4, <1>7 DEF Laid, Begun
    <3> QED
      BY <2>2, <3>1, <1>15
  <2>3. CASE i # n
    <3>1. StartsAt(owned, i, 0)
      BY <2>3, <1>7, <1>12 DEF Laid, Begun
    <3> QED
      BY <3>1, <1>15
  <2> QED
    BY <2>1, <2>2, <2>3
<1>18. Followed(more, all)
  <2> SUFFICES ASSUME NEW b \in DOMAIN all, End(all[b]) < more[all[b].buffer].size
               PROVE  StartsAt(all, all[b].buffer, End(all[b]))
    BY DEF Followed
  <2>1. b # m
    BY <1>3, <1>4, <1>6, <1>8, <1>9
  <2>2. b \in DOMAIN owned /\ all[b] = owned[b]
    BY <2>1, <1>10, <1>11
  <2>3. CASE owned[b].buffer = n /\ End(owned[b]) = last.size
    BY <2>2, <2>3, <1>16
  <2>4. CASE owned[b].buffer = n /\ End(owned[b]) # last.size
    <3>1. End(owned[b]) < last.size
      BY <2>2, <2>4, <1>4, <1>10
    <3>2. StartsAt(owned, n, End(owned[b]))
      BY <2>2, <2>4, <3>1, <1>1 DEF Laid, Followed
    <3> QED
      BY <2>2, <2>4, <3>2, <1>15
  <2>5. CASE owned[b].buffer # n
    <3>1. StartsAt(owned, owned[b].buffer, End(owned[b]))
      BY <2>2, <2>5, <1>10, <1>12 DEF Laid, Followed
    <3> QED
      BY <2>2, <3>1, <1>15
  <2> QED
    BY <2>3, <2>4, <2>5
<1>19. AllMarked(more, all)
  <2> SUFFICES ASSUME NEW b \in DOMAIN all
               PROVE  HasMarks(more[all[b].buffer].bytes, all[b])
    BY DEF AllMarked
  <2>1. CASE b = m
    BY <2>1, <1>3, <1>6, <1>8, <1>9
  <2>2. CASE b \in DOMAIN owned
    <3>1. HasMarks(buffers[owned[b].buffer].bytes, owned[b])
      BY <2>2 DEF Laid, AllMarked
    <3>2. CASE owned[b].buffer = n
      <4>1. \A k \in Start(owned[b]) .. End(owned[b]) - 1 : marked.bytes[k] = last.bytes[k]
        <5>1. ASSUME NEW k \in Start(owned[b]) .. End(owned[b]) - 1 PROVE k \in 0 .. last.size - 1
          BY <2>2, <3>2, <1>4, <1>10
        <5> QED
          BY <5>1, <1>2
      <4>2. HasMarks(last.bytes, owned[b])
        BY <3>1, <3>2, <1>1
      <4>3. HasMarks(marked.bytes, owned[b])
        BY <2>2, <4>1, <4>2, <1>10, MarksStay
      <4> QED
        BY <2>2, <3>2, <4>3, <1>3, <1>10
    <3>3. CASE owned[b].buffer # n
      BY <2>2, <3>1, <3>3, <1>10, <1>12
    <3> QED
      BY <3>2, <3>3
  <2> QED
    BY <2>1, <2>2, <1>11
<1> QED
  BY <1>3, <1>6, <1>13, <1>14, <1>17, <1>18, <1>19
  DEF Laid, n, last, marked, more, block, all

LEMMA LaidPrime ==
  ASSUME capacity' = capacity, Laid(chain', blocks')
  PROVE  Laid(chain, blocks)'
BY ZenonT(60)
   DEF Laid, InBuffer, Apart, Begun, Followed, AllMarked, StartsAt, HasMarks, Start, End,
       LengthWidth, Buffer, Block, Offsets, Byte, DigitOf

\* The owner of a block writes only between its field and its marks.
LEMMA LaidFill ==
  ASSUME capacity \in Nat, Laid(chain, blocks), NEW b \in DOMAIN blocks, NEW byte \in Byte,
         Fill(b, byte)
  PROVE  Laid(chain', blocks')
<1> DEFINE block == blocks[b]
           range == block.at .. block.at + block.size - 1
           old == chain[block.buffer]
           new == [old EXCEPT !.bytes = [k \in Offsets |-> IF k \in range THEN byte ELSE @[k]]]
<1>1. /\ chain \in Seq(Buffer) /\ blocks \in Seq(Block)
      /\ block \in Block /\ block.buffer \in DOMAIN chain
  BY DEF Laid, InBuffer
<1>2. /\ blocks' \in Seq(Block) /\ DOMAIN blocks' = DOMAIN blocks
      /\ blocks'[b] = [block EXCEPT !.fill = byte]
      /\ \A c \in DOMAIN blocks : c # b => blocks'[c] = blocks[c]
  <2>1. [block EXCEPT !.fill = byte] \in Block
    BY <1>1 DEF Block
  <2> QED
    BY <1>1, <2>1 DEF Fill
<1>3. \A c \in DOMAIN blocks :
        /\ blocks'[c].buffer = blocks[c].buffer
        /\ blocks'[c].at = blocks[c].at /\ blocks'[c].size = blocks[c].size
  BY <1>1, <1>2 DEF Block
<1>4. /\ new \in Buffer /\ new.size = old.size
      /\ \A k \in Offsets : new.bytes[k] = IF k \in range THEN byte ELSE old.bytes[k]
  <2>1. old \in Buffer
    BY <1>1
  <2>2. [k \in Offsets |-> IF k \in range THEN byte ELSE old.bytes[k]] \in [Offsets -> Byte]
    BY <2>1 DEF Buffer
  <2> QED
    BY <2>1, <2>2 DEF Buffer
<1>5. chain' = [chain EXCEPT ![block.buffer] = new]
  BY DEF Fill
<1>6. /\ chain' \in Seq(Buffer) /\ DOMAIN chain' = DOMAIN chain
      /\ chain'[block.buffer] = new
      /\ \A i \in DOMAIN chain : i # block.buffer => chain'[i] = chain[i]
  BY <1>1, <1>4, <1>5
<1> HIDE DEF new
<1>7. \A i \in DOMAIN chain : chain'[i].size = chain[i].size
  BY <1>4, <1>6
<1>8. \A c \in DOMAIN blocks : Start(blocks'[c]) = Start(blocks[c]) /\ End(blocks'[c]) = End(blocks[c])
  BY <1>3 DEF Start, End
<1>9. InBuffer(chain', blocks') /\ Apart(blocks')
  <2>1. ASSUME NEW c \in DOMAIN blocks
        PROVE  /\ blocks[c].buffer \in DOMAIN chain
               /\ 0 <= Start(blocks[c]) /\ End(blocks[c]) <= chain[blocks[c].buffer].size
    BY DEF Laid, InBuffer
  <2>2. ASSUME NEW c \in DOMAIN blocks
        PROVE  /\ blocks'[c].buffer \in DOMAIN chain'
               /\ 0 <= Start(blocks'[c])
               /\ End(blocks'[c]) <= chain'[blocks'[c].buffer].size
    BY <2>1, <1>3, <1>6, <1>7, <1>8
  <2>3. InBuffer(chain', blocks')
    BY <2>2, <1>2 DEF InBuffer
  <2>4. ASSUME NEW c \in DOMAIN blocks, NEW d \in DOMAIN blocks, c # d,
               blocks'[c].buffer = blocks'[d].buffer
        PROVE  \/ End(blocks'[c]) <= Start(blocks'[d])
               \/ End(blocks'[d]) <= Start(blocks'[c])
    <3>1. blocks[c].buffer = blocks[d].buffer
      BY <2>4, <1>3
    <3>2. End(blocks[c]) <= Start(blocks[d]) \/ End(blocks[d]) <= Start(blocks[c])
      BY <2>4, <3>1 DEF Laid, Apart
    <3> QED
      BY <3>2, <1>8
  <2>5. Apart(blocks')
    BY <2>4, <1>2 DEF Apart
  <2> QED
    BY <2>3, <2>5
<1>10. \A i, o : StartsAt(blocks, i, o) => StartsAt(blocks', i, o)
  BY <1>2, <1>3, <1>8 DEF StartsAt
<1>11. Begun(chain', blocks')
  BY <1>6, <1>7, <1>10 DEF Laid, Begun
<1>12. Followed(chain', blocks')
  <2> SUFFICES ASSUME NEW c \in DOMAIN blocks,
                      End(blocks'[c]) < chain'[blocks'[c].buffer].size
               PROVE  StartsAt(blocks', blocks'[c].buffer, End(blocks'[c]))
    BY <1>2 DEF Followed
  <2>1. blocks[c].buffer \in DOMAIN chain
    BY DEF Laid, InBuffer
  <2>2. StartsAt(blocks, blocks[c].buffer, End(blocks[c]))
    BY <2>1, <1>3, <1>7, <1>8 DEF Laid, Followed
  <2> QED
    BY <2>2, <1>3, <1>8, <1>10
<1>13. AllMarked(chain', blocks')
  <2> SUFFICES ASSUME NEW c \in DOMAIN blocks
               PROVE  HasMarks(chain'[blocks[c].buffer].bytes, blocks[c])
    BY <1>2, <1>3 DEF AllMarked, HasMarks, Start
  <2>1. /\ blocks[c] \in Block /\ blocks[c].buffer \in DOMAIN chain
        /\ HasMarks(chain[blocks[c].buffer].bytes, blocks[c])
        /\ 0 <= Start(blocks[c]) /\ End(blocks[c]) <= chain[blocks[c].buffer].size
        /\ chain[blocks[c].buffer] \in Buffer
    BY <1>1 DEF Laid, InBuffer, AllMarked
  <2>2. CASE blocks[c].buffer # block.buffer
    BY <2>1, <2>2, <1>6
  <2>3. CASE blocks[c].buffer = block.buffer
    <3>1. ASSUME NEW k \in Start(blocks[c]) .. End(blocks[c]) - 1,
                 k < blocks[c].at \/ k >= blocks[c].at + blocks[c].size
          PROVE  chain'[blocks[c].buffer].bytes[k] = chain[blocks[c].buffer].bytes[k]
      <4>1. /\ Start(blocks[c]) \in Int /\ End(blocks[c]) \in Int
            /\ blocks[c].at \in Nat /\ blocks[c].size \in Nat
            /\ block.at \in Nat /\ block.size \in Nat /\ LengthWidth \in 1 .. 3
            /\ Start(block) + LengthWidth = block.at /\ End(block) = block.at + block.size + 2
            /\ Start(block) \in Int /\ End(block) \in Int
        BY <2>1, <1>1, BlockFacts
      <4>2. k \in Offsets
        <5>1. chain[blocks[c].buffer].size \in 0 .. capacity
          BY <2>1 DEF Buffer
        <5> QED
          BY <2>1, <4>1, <5>1 DEF Offsets
      <4>3. k \notin range
        <5>1. CASE c = b
          BY <5>1, <3>1, <4>1
        <5>2. CASE c # b
          <6>1. \/ End(block) <= Start(blocks[c])
                \/ End(blocks[c]) <= Start(block)
            BY <5>2, <2>3 DEF Laid, Apart
          <6> HIDE DEF block
          <6> QED
            BY <6>1, <4>1
        <5> QED
          BY <5>1, <5>2
      <4> QED
        BY <2>3, <4>2, <4>3, <1>4, <1>6
    <3> QED
      BY <2>1, <3>1, MarksStay
  <2> QED
    BY <2>2, <2>3
<1> QED
  BY <1>2, <1>6, <1>9, <1>11, <1>12, <1>13 DEF Laid

--------------------------------------------------------------------------------
(* What the statistics count. *)

UsedOf(buffers) == Total([i \in DOMAIN buffers |-> buffers[i].size], Len(buffers))
NeededOf(owned) == Total([b \in DOMAIN owned |-> owned[b].size + NeededBytes], Len(owned))
Counted(buffers, owned) == UsedOf(buffers) = NeededOf(owned)

LEMMA CountedEmpty == Counted(<<>>, <<>>)
BY TotalZero DEF Counted, UsedOf, NeededOf

\* A further member of a list adds its number.
LEMMA TotalLonger ==
  ASSUME NEW f, NEW h, NEW n \in Nat, \A k \in 1 .. n : f[k] = h[k]
  PROVE  Total(h, n + 1) = Total(f, n) + h[n + 1]
<1>1. Total(h, n + 1) = Total(h, n) + h[n + 1]
  BY TotalNext
<1>2. Total(f, n) = Total(h, n)
  BY TotalAgrees
<1> QED
  BY <1>1, <1>2

\* A sum of integers is one.
LEMMA TotalType ==
  ASSUME NEW f, NEW n \in Nat, \A k \in 1 .. n : f[k] \in Int
  PROVE  Total(f, n) \in Int
<1> DEFINE h == [k \in 1 .. n |-> 0 - f[k]]
<1>1. \A k \in 1 .. n : f[k] \in Int /\ h[k] = 0 - f[k]
  OBVIOUS
<1> HIDE DEF h
<1>2. PICK c \in Int : c = 0
  OBVIOUS
<1>3. \A k \in 1 .. n : f[k] \in Int /\ h[k] = c - f[k]
  BY <1>1, <1>2
<1> QED
  BY <1>3, TotalsFill, ZenonT(60)

LEMMA CountedAppend ==
  ASSUME capacity \in Nat, NEW buffers \in Seq(Buffer), NEW owned, Counted(buffers, owned),
         NEW b \in Buffer, b.size = 0
  PROVE  Counted(Append(buffers, b), owned)
<1> DEFINE more == Append(buffers, b)
           n == Len(buffers)
           f == [i \in DOMAIN buffers |-> buffers[i].size]
           h == [i \in DOMAIN more |-> more[i].size]
<1>1. /\ n \in Nat /\ Len(more) = n + 1
      /\ DOMAIN buffers = 1 .. n /\ DOMAIN more = 1 .. n + 1
      /\ \A i \in DOMAIN buffers : more[i] = buffers[i] /\ buffers[i] \in Buffer
      /\ more[n + 1] = b
  BY AppendProperties
<1> HIDE DEF more
<1>2. /\ \A k \in 1 .. n : f[k] = h[k] /\ f[k] \in Int
      /\ h[n + 1] = 0
  BY <1>1 DEF Buffer
<1> HIDE DEF n, f, h
<1>3. Total(h, n + 1) = Total(f, n) + h[n + 1]
  <2>1. n \in Nat /\ \A k \in 1 .. n : f[k] = h[k]
    BY <1>1, <1>2
  <2> QED
    BY <2>1, TotalLonger
<1>4. Total(f, n) \in Int
  BY <1>1, <1>2, TotalType
<1>5. UsedOf(more) = Total(h, n + 1) /\ UsedOf(buffers) = Total(f, n)
  BY <1>1 DEF UsedOf, h, f, n
<1> QED
  BY <1>2, <1>3, <1>4, <1>5 DEF Counted, more

LEMMA CountedOwned ==
  ASSUME capacity \in Nat, NEW buffers \in Seq(Buffer), NEW owned \in Seq(Block),
         Counted(buffers, owned), buffers # <<>>,
         NEW size \in Nat, Fits(Last(buffers), size)
  PROVE  Counted(Append(Front(buffers), Marked(Last(buffers), size)),
                 Append(owned, [buffer |-> Len(buffers), at |-> Last(buffers).size + LengthWidth,
                                size |-> size, fill |-> Radix]))
<1> DEFINE n == Len(buffers)
           last == Last(buffers)
           marked == Marked(last, size)
           more == Append(Front(buffers), marked)
           block == [buffer |-> n, at |-> last.size + LengthWidth, size |-> size, fill |-> Radix]
           all == Append(owned, block)
           o == Len(owned)
           f == [i \in DOMAIN buffers |-> buffers[i].size]
           h == [i \in DOMAIN more |-> more[i].size]
           p == [b \in DOMAIN owned |-> owned[b].size + NeededBytes]
           q == [b \in DOMAIN all |-> all[b].size + NeededBytes]
<1>1. n \in Nat \ {0} /\ last \in Buffer /\ last = buffers[n] /\ DOMAIN buffers = 1 .. n
  BY DEF Last
<1>2. marked \in Buffer /\ marked.size = last.size + size + NeededBytes /\ NeededBytes \in Nat
  BY <1>1, MarkedType, WidthBounds, SMTT(60) DEF Marked, NeededBytes
<1>3. /\ more \in Seq(Buffer) /\ Len(more) = n /\ more[n] = marked
      /\ \A i \in 1 .. n - 1 : more[i] = buffers[i]
  BY <1>1, <1>2, ReplacedLast, ZenonT(60)
<1>4. last.size \in Nat /\ \A i \in 1 .. n : buffers[i].size \in Nat
  <2>1. \A i \in 1 .. n : buffers[i] \in Buffer
    BY <1>1
  <2> QED
    BY <2>1, <1>1 DEF Buffer
<1>5. /\ o \in Nat /\ Len(all) = o + 1 /\ DOMAIN all = 1 .. o + 1 /\ DOMAIN owned = 1 .. o
      /\ all[o + 1] = block /\ \A b \in 1 .. o : all[b] = owned[b]
  <2>1. block \in Block
    BY <1>1, <1>4, WidthBounds, StorageAssumption DEF Block, Byte
  <2> HIDE DEF block
  <2> QED
    BY <2>1, AppendProperties
<1>6. block.size = size
  OBVIOUS
<1> HIDE DEF n, last, marked, more, block, all, o
<1>7. DOMAIN more = 1 .. n
  BY <1>3
<1>8. /\ \A k \in 1 .. n - 1 : f[k] = h[k] /\ f[k] \in Int
      /\ f[n] = last.size /\ h[n] = marked.size
  BY <1>1, <1>3, <1>4, <1>7
<1>9. \A k \in 1 .. o : p[k] = q[k] /\ p[k] \in Int
  <2>1. \A b \in 1 .. o : owned[b] \in Block
    BY <1>5
  <2> QED
    BY <2>1, <1>2, <1>5 DEF Block
<1>10. q[o + 1] = size + NeededBytes
  BY <1>5, <1>6
<1>11. /\ UsedOf(more) = Total(h, n) /\ UsedOf(buffers) = Total(f, n)
       /\ NeededOf(all) = Total(q, o + 1) /\ NeededOf(owned) = Total(p, o)
  BY <1>3, <1>5 DEF UsedOf, NeededOf, n, o
<1> HIDE DEF f, h, p, q
<1>12. Total(q, o + 1) = Total(p, o) + size + NeededBytes
  <2>1. Total(q, o + 1) = Total(p, o) + q[o + 1]
    BY <1>5, <1>9, TotalLonger
  <2>2. Total(p, o) \in Int
    BY <1>5, <1>9, TotalType
  <2> QED
    BY <2>1, <2>2, <1>2, <1>10
<1>13. Total(h, n) = Total(f, n) + size + NeededBytes /\ Total(f, n) \in Int
  <2>1. PICK m \in Nat : m + 1 = n /\ m = n - 1
    BY <1>1
  <2>2. \A k \in 1 .. m : f[k] = h[k] /\ f[k] \in Int
    BY <2>1, <1>8
  <2>3. Total(h, m + 1) = Total(f, m) + h[m + 1]
    BY <2>2, TotalLonger
  <2>4. Total(f, m + 1) = Total(f, m) + f[m + 1]
    BY TotalNext
  <2>5. Total(f, m) \in Int
    BY <2>2, TotalType
  <2> QED
    BY <2>1, <2>3, <2>4, <2>5, <1>2, <1>4, <1>8
<1> QED
  BY <1>11, <1>12, <1>13 DEF Counted, n, last, marked, more, block, all

LEMMA CountedPrime ==
  ASSUME capacity' = capacity, Counted(chain', blocks')
  PROVE  Counted(chain, blocks)'
BY DEF Counted, UsedOf, NeededOf, NeededBytes, LengthWidth

\* The sizes stay when bytes are written.
LEMMA CountedFill ==
  ASSUME chain \in Seq(Buffer), blocks \in Seq(Block), Counted(chain, blocks),
         NEW b \in DOMAIN blocks, blocks[b].buffer \in DOMAIN chain,
         NEW byte \in Byte, Fill(b, byte)
  PROVE  Counted(chain', blocks')
<1>1. /\ DOMAIN chain' = DOMAIN chain /\ Len(chain') = Len(chain)
      /\ \A i \in DOMAIN chain : chain'[i].size = chain[i].size
  BY DEF Fill, Buffer
<1>2. /\ DOMAIN blocks' = DOMAIN blocks /\ Len(blocks') = Len(blocks)
      /\ \A c \in DOMAIN blocks : blocks'[c].size = blocks[c].size
  BY DEF Fill, Block
<1>3. UsedOf(chain') = UsedOf(chain)
  <2>1. [i \in DOMAIN chain' |-> chain'[i].size] = [i \in DOMAIN chain |-> chain[i].size]
    BY <1>1
  <2> QED
    BY <2>1, <1>1, Zenon DEF UsedOf
<1>4. NeededOf(blocks') = NeededOf(blocks)
  <2>1. [c \in DOMAIN blocks' |-> blocks'[c].size + NeededBytes]
          = [c \in DOMAIN blocks |-> blocks[c].size + NeededBytes]
    BY <1>2
  <2> QED
    BY <2>1, <1>2, Zenon DEF NeededOf
<1> QED
  BY <1>3, <1>4 DEF Counted

--------------------------------------------------------------------------------
(* The invariant: contents, layout and numbers. *)

Good(buffers, owned) ==
  Contents(buffers, owned) /\ Laid(buffers, owned) /\ Counted(buffers, owned)

Inv == capacity \in Nat /\ Good(chain, blocks)

LEMMA GoodEmpty == Good(<<>>, <<>>)
BY ContentsEmpty, LaidEmpty, CountedEmpty DEF Good

LEMMA GoodAppend ==
  ASSUME capacity \in Nat, NEW buffers, NEW owned, Good(buffers, owned),
         NEW b \in Buffer, b.size = 0
  PROVE  Good(Append(buffers, b), owned)
<1>1. buffers \in Seq(Buffer)
  BY DEF Good, Contents
<1> QED
  BY <1>1, ContentsAppend, LaidAppend, CountedAppend DEF Good

LEMMA GoodOwned ==
  ASSUME capacity \in Nat, NEW buffers, NEW owned, Good(buffers, owned), buffers # <<>>,
         NEW size \in Nat, Fits(Last(buffers), size)
  PROVE  Good(Append(Front(buffers), Marked(Last(buffers), size)),
              Append(owned, [buffer |-> Len(buffers), at |-> Last(buffers).size + LengthWidth,
                             size |-> size, fill |-> Radix]))
<1>1. buffers \in Seq(Buffer) /\ owned \in Seq(Block)
  BY DEF Good, Contents
<1> QED
  BY <1>1, ContentsOwned, LaidOwned, CountedOwned DEF Good

LEMMA GoodPrime ==
  ASSUME capacity' = capacity, Good(chain', blocks')
  PROVE  Good(chain, blocks)'
<1>1. Contents(chain, blocks)' /\ Laid(chain, blocks)' /\ Counted(chain, blocks)'
  BY ContentsPrime, LaidPrime, CountedPrime DEF Good
<1> QED
  BY <1>1 DEF Good

LEMMA FillKeeps ==
  ASSUME Inv, NEW b \in DOMAIN blocks, NEW byte \in Byte, Fill(b, byte)
  PROVE  Good(chain', blocks')
<1>1. /\ capacity \in Nat /\ Contents(chain, blocks) /\ Laid(chain, blocks)
      /\ Counted(chain, blocks)
  BY DEF Inv, Good
<1>2. chain \in Seq(Buffer) /\ blocks \in Seq(Block) /\ blocks[b].buffer \in DOMAIN chain
  BY <1>1 DEF Laid, InBuffer
<1> QED
  BY <1>1, <1>2, ContentsFill, LaidFill, CountedFill DEF Good

\* Every step keeps the invariant.
LEMMA InvStep == Inv /\ [Next]_vars => Inv'
<1> SUFFICES ASSUME Inv, [Next]_vars PROVE Inv'
  OBVIOUS
<1>1. capacity \in Nat /\ Good(chain, blocks)
  BY DEF Inv
<1>2. capacity' = capacity
  BY DEF Next, Allocate, AllocateInNew, AllocateAgain, Fill, Clear, vars
<1>3. Sizes \subseteq Nat
  BY StorageAssumption
<1> SUFFICES Good(chain', blocks')
  BY <1>1, <1>2, GoodPrime DEF Inv
<1>4. ASSUME NEW size \in Sizes, Allocate(size) PROVE Good(chain', blocks')
  BY <1>1, <1>3, <1>4, GoodOwned DEF Allocate, AllocateIn, Owned
<1>5. ASSUME NEW size \in Sizes, AllocateInNew(size) PROVE Good(chain', blocks')
  <2>1. PICK bytes \in Uninitialized : AllocateIn(Append(chain, NewBuffer(bytes)), size)
    BY <1>5 DEF AllocateInNew
  <2> DEFINE more == Append(chain, NewBuffer(bytes))
  <2>2. Good(more, blocks)
    BY <1>1, NewBufferType, GoodAppend
  <2>3. more # <<>> /\ Last(more) = NewBuffer(bytes)
    BY <1>1 DEF Good, Contents, Last
  <2>4. Fits(Last(more), size)
    BY <2>3, <1>1, <1>3, <1>5, NewBufferType, WidthBounds DEF AllocateInNew, Fits, NeededBytes
  <2> HIDE DEF more
  <2>5. AllocateIn(more, size)
    BY <2>1 DEF more
  <2> QED
    BY <2>2, <2>3, <2>4, <2>5, <1>1, <1>3, GoodOwned DEF AllocateIn, Owned
<1>6. ASSUME NEW size \in Sizes, AllocateAgain(size) PROVE Good(chain', blocks')
  <2>1. PICK bytes \in Uninitialized :
          IF Fits(NewBuffer(bytes), size)
            THEN AllocateIn(<<NewBuffer(bytes)>>, size)
            ELSE chain' = <<NewBuffer(bytes)>> /\ UNCHANGED blocks
    BY <1>6 DEF AllocateAgain
  <2>2. chain = <<>> /\ Append(chain, NewBuffer(bytes)) = <<NewBuffer(bytes)>>
    BY <1>6 DEF AllocateAgain
  <2> DEFINE one == <<NewBuffer(bytes)>>
  <2>3. Good(one, blocks) /\ one # <<>> /\ Last(one) = NewBuffer(bytes)
    BY <2>2, <1>1, NewBufferType, GoodAppend DEF Last
  <2>4. CASE Fits(NewBuffer(bytes), size)
    <3>1. AllocateIn(one, size)
      BY <2>1, <2>4
    <3> HIDE DEF one
    <3> QED
      BY <3>1, <2>3, <2>4, <1>1, <1>3, GoodOwned DEF AllocateIn, Owned
  <2>5. CASE ~Fits(NewBuffer(bytes), size)
    BY <2>1, <2>3, <2>5
  <2> QED
    BY <2>4, <2>5
<1>7. ASSUME NEW b \in DOMAIN blocks, NEW byte \in Byte, Fill(b, byte) PROVE Good(chain', blocks')
  BY <1>7, FillKeeps
<1>8. CASE Clear
  BY <1>8, GoodEmpty DEF Clear
<1>9. CASE UNCHANGED vars
  BY <1>1, <1>9 DEF vars
<1> QED
  BY <1>4, <1>5, <1>6, <1>7, <1>8, <1>9 DEF Next

\* The first buffer is empty.
LEMMA InvInit == Init => Inv
<1> SUFFICES ASSUME Init PROVE Inv
  OBVIOUS
<1>1. capacity \in Nat
  BY StorageAssumption DEF Init
<1>2. PICK bytes \in Uninitialized : chain = Append(<<>>, NewBuffer(bytes))
  BY DEF Init
<1> QED
  BY <1>1, <1>2, NewBufferType, GoodEmpty, GoodAppend DEF Inv, Init

(***************************************************************************)
(* What an owner has written into its block stays there, for every radix   *)
(* of bytes, capacity, size and number of blocks (core/ByteStorage.cpp:45, *)
(* 83, 98): blocks never share a place.                                    *)
(***************************************************************************)
THEOREM ContentsOfBlocksKept == Spec => []ContentsKept
<1>1. Inv => ContentsKept
  BY DEF Inv, Good, Contents, Kept, ContentsKept
<1> QED
  BY <1>1, InvInit, InvStep, PTL DEF Spec

--------------------------------------------------------------------------------
(* sizeOf(), check() and statistics(). *)

\* The field of a block holds its size, when it can.
LEMMA LengthRead ==
  ASSUME capacity \in Nat, NEW block \in Block, NEW bytes, HasMarks(bytes, block),
         Representable(block.size)
  PROVE  LengthAt(bytes, Start(block)) = block.size
<1> DEFINE n == block.size
           o == Start(block)
<1>1. n \in Nat /\ o \in Int
  BY BlockFacts
<1>2. Radix \in Nat /\ Radix > 1
  BY StorageAssumption
<1>3. \A j \in 0 .. LengthWidth - 1 : bytes[o + j] = DigitOf(n, j)
  BY DEF HasMarks
<1>4. n < (CASE LengthWidth = 1 -> Radix [] LengthWidth = 2 -> Radix * Radix
             [] LengthWidth = 3 -> Radix * Radix * Radix)
  <2>1. Radix * Radix \in Nat /\ Radix * Radix * Radix \in Nat
    BY <1>2
  <2> QED
    BY <1>1, <1>2, <2>1, WidthBounds DEF Representable
<1>5. LengthWidth > 0 /\ LengthWidth \in Int /\ o + 0 = o
  BY <1>1, WidthBounds
<1> HIDE DEF n, o
<1>6. bytes[o] = n % Radix
  BY <1>3, <1>5 DEF DigitOf
<1>7. CASE LengthWidth = 1
  <2>1. n % Radix = n
    BY <1>1, <1>2, <1>4, <1>7, SmallRest
  <2>2. LengthAt(bytes, o) = bytes[o] + 0 + 0
    BY <1>7 DEF LengthAt
  <2> QED
    BY <1>1, <1>6, <2>1, <2>2 DEF n, o
<1>8. CASE LengthWidth = 2
  <2>1. bytes[o + 1] = (n \div Radix) % Radix
    BY <1>3, <1>8 DEF DigitOf
  <2>2. n = (n % Radix) + Radix * ((n \div Radix) % Radix)
    BY <1>1, <1>2, <1>4, <1>8, TwoDigits
  <2>3. LengthAt(bytes, o) = bytes[o] + Radix * bytes[o + 1] + 0
    BY <1>8 DEF LengthAt
  <2> QED
    BY <1>1, <1>6, <2>1, <2>2, <2>3 DEF n, o
<1>9. CASE LengthWidth = 3
  <2>1. bytes[o + 1] = (n \div Radix) % Radix
    BY <1>3, <1>9 DEF DigitOf
  <2>2. bytes[o + 2] = (n \div (Radix * Radix)) % Radix
    BY <1>3, <1>9 DEF DigitOf
  <2>3. n = (n % Radix) + Radix * ((n \div Radix) % Radix)
            + Radix * Radix * ((n \div (Radix * Radix)) % Radix)
    BY <1>1, <1>2, <1>4, <1>9, ThreeDigits
  <2>4. LengthAt(bytes, o) = bytes[o] + Radix * bytes[o + 1] + Radix * Radix * bytes[o + 2]
    BY <1>9 DEF LengthAt
  <2> QED
    BY <1>6, <2>1, <2>2, <2>3, <2>4 DEF n, o
<1> QED
  BY <1>7, <1>8, <1>9, WidthBounds

\* What the invariant says of a block.
LEMMA BlockLies ==
  ASSUME Inv, NEW b \in DOMAIN blocks
  PROVE  /\ blocks[b] \in Block /\ blocks[b].buffer \in DOMAIN chain
         /\ chain[blocks[b].buffer] \in Buffer
         /\ chain[blocks[b].buffer].size \in 0 .. capacity
         /\ 0 <= Start(blocks[b])
         /\ End(blocks[b]) <= chain[blocks[b].buffer].size
         /\ HasMarks(chain[blocks[b].buffer].bytes, blocks[b])
<1>1. /\ blocks[b] \in Block /\ blocks[b].buffer \in DOMAIN chain
      /\ 0 <= Start(blocks[b]) /\ End(blocks[b]) <= chain[blocks[b].buffer].size
      /\ HasMarks(chain[blocks[b].buffer].bytes, blocks[b])
  BY DEF Inv, Good, Laid, InBuffer, AllMarked
<1>2. chain[blocks[b].buffer] \in Buffer
  BY <1>1 DEF Inv, Good, Laid
<1> QED
  BY <1>1, <1>2 DEF Buffer

\* sizeOf() is the size.
LEMMA SizeKnown ==
  ASSUME Inv, NEW b \in DOMAIN blocks, Representable(blocks[b].size)
  PROVE  SizeOf(blocks[b]) = blocks[b].size
<1> DEFINE block == blocks[b]
<1>1. capacity \in Nat /\ block \in Block
  BY BlockLies DEF Inv
<1>2. LengthAt(chain[block.buffer].bytes, Start(block)) = block.size
  BY <1>1, BlockLies, LengthRead
<1>3. block.size <= capacity - NeededBytes
  BY <1>1, BlockLies, BlockFacts DEF NeededBytes
<1>4. block.size \in Nat /\ NeededBytes \in Nat
  BY <1>1, BlockFacts DEF NeededBytes
<1> HIDE DEF block
<1> QED
  BY <1>1, <1>2, <1>3, <1>4 DEF SizeOf, Start, block

\* A step of check(), from an offset on.
Passes(b, ok, offset) ==
  \/ offset >= b.size
  \/ LET size == LengthAt(b.bytes, offset)
         data == offset + LengthWidth
     IN /\ offset + NeededBytes < capacity
        /\ size > 0 /\ size <= capacity - offset - NeededBytes
        /\ b.bytes[data + size] = 0
        /\ b.bytes[data + size + 1] = Radix - 1
        /\ ok[data + size + 2]

\* A length that is read is a number.
LEMMA LengthType ==
  ASSUME capacity \in Nat, NEW b \in Buffer, NEW o \in Nat, o + NeededBytes < capacity
  PROVE  LengthAt(b.bytes, o) \in Nat
<1>1. LengthWidth \in 1 .. 3 /\ Radix \in Nat
  BY WidthBounds, StorageAssumption
<1>2. \A j \in 0 .. LengthWidth - 1 : b.bytes[o + j] \in Nat
  <2> SUFFICES ASSUME NEW j \in 0 .. LengthWidth - 1 PROVE b.bytes[o + j] \in Nat
    OBVIOUS
  <2>1. o + j \in Offsets
    BY <1>1 DEF Offsets, NeededBytes
  <2> QED
    BY <2>1, <1>1 DEF Buffer, Byte
<1>3. b.bytes[o] \in Nat
  BY <1>1, <1>2
<1>4. LengthWidth > 1 => Radix * b.bytes[o + 1] \in Nat
  BY <1>1, <1>2
<1>5. LengthWidth > 2 => Radix * Radix * b.bytes[o + 2] \in Nat
  <2>1. LengthWidth > 2 => b.bytes[o + 2] \in Nat
    BY <1>1, <1>2
  <2>2. Radix * Radix \in Nat
    BY <1>1
  <2> QED
    BY <2>1, <2>2
<1> QED
  BY <1>1, <1>3, <1>4, <1>5 DEF LengthAt

\* A step depends only on what comes behind it.
LEMMA PassesAgree ==
  ASSUME capacity \in Nat, NEW b \in Buffer, NEW o \in 0 .. capacity, NEW f, NEW g,
         \A k \in o + 1 .. capacity : f[k] = g[k]
  PROVE  Passes(b, f, o) = Passes(b, g, o)
<1> DEFINE size == LengthAt(b.bytes, o)
           next == o + LengthWidth + size + 2
<1>1. ASSUME o + NeededBytes < capacity, size > 0, size <= capacity - o - NeededBytes
      PROVE  f[next] = g[next]
  <2>1. size \in Nat /\ LengthWidth \in 1 .. 3
    BY <1>1, LengthType, WidthBounds
  <2> HIDE DEF size
  <2>2. next \in o + 1 .. capacity
    BY <1>1, <2>1 DEF NeededBytes
  <2> HIDE DEF next
  <2> QED
    BY <2>2
<1> QED
  BY <1>1, Zenon DEF Passes

LEMMA CheckExists ==
  ASSUME capacity \in Nat, NEW b \in Buffer
  PROVE  \E f : f = [o \in 0 .. capacity |-> Passes(b, f, o)]
<1> DEFINE R(f, o) == Passes(b, f, o)
           Is(f, low) == \A o \in low .. capacity : f[o] = R(f, o)
           Bad == {d \in 0 .. capacity : ~ \E f : Is(f, capacity - d)}
<1>1. ASSUME Bad # {} PROVE FALSE
  <2>1. PICK d \in Bad : \A e \in Bad : d <= e
    <3>1. Bad \subseteq Nat
      OBVIOUS
    <3> HIDE DEF Bad
    <3> QED
      BY <1>1, <3>1, HasLeast
  <2>2. d \in 0 .. capacity /\ ~ \E f : Is(f, capacity - d)
    BY <2>1
  <2>3. PICK low \in 0 .. capacity : low = capacity - d
    BY <2>2
  <2>4. \E f : Is(f, low + 1)
    <3>1. CASE d = 0
      <4>1. \A o : o \notin low + 1 .. capacity
        BY <2>3, <3>1
      <4> QED
        BY <4>1
    <3>2. CASE d # 0
      <4>1. d - 1 \in 0 .. capacity /\ capacity - (d - 1) = low + 1 /\ ~ (d <= d - 1)
        BY <2>2, <2>3, <3>2
      <4>2. d - 1 \notin Bad
        <5> HIDE DEF Bad
        <5> QED
          BY <2>1, <4>1
      <4> HIDE DEF Is
      <4> QED
        BY <4>1, <4>2
    <3> QED
      BY <3>1, <3>2
  <2>5. PICK f : Is(f, low + 1)
    BY <2>4
  <2> DEFINE g == [o \in 0 .. capacity |-> IF o = low THEN R(f, o) ELSE f[o]]
  <2> HIDE DEF R
  <2>6. g[low] = R(f, low) /\ \A o \in low + 1 .. capacity : g[o] = f[o]
    BY <2>3
  <2> HIDE DEF g
  <2>7. ASSUME NEW o \in low .. capacity PROVE g[o] = R(g, o)
    <3>1. o \in 0 .. capacity /\ \A k \in o + 1 .. capacity : f[k] = g[k]
      BY <2>3, <2>6
    <3>2. R(f, o) = R(g, o)
      BY <3>1, PassesAgree DEF R
    <3>3. CASE o = low
      BY <2>6, <3>2, <3>3
    <3>4. CASE o # low
      <4>1. o \in low + 1 .. capacity
        BY <2>3, <3>4
      <4> QED
        BY <2>5, <2>6, <3>2, <4>1
    <3> QED
      BY <3>3, <3>4
  <2>8. Is(g, low)
    BY <2>7
  <2> HIDE DEF Is
  <2> QED
    BY <2>2, <2>3, <2>8
<1>2. \E f : Is(f, 0)
  <2>1. capacity \in 0 .. capacity /\ capacity - capacity = 0
    OBVIOUS
  <2>2. capacity \notin Bad
    BY <1>1
  <2> HIDE DEF Is
  <2> QED
    BY <2>1, <2>2
<1>3. PICK f : Is(f, 0)
  BY <1>2
<1> DEFINE g == [o \in 0 .. capacity |-> f[o]]
<1>4. \A o \in 0 .. capacity : g[o] = f[o]
  OBVIOUS
<1>5. ASSUME NEW o \in 0 .. capacity PROVE f[o] = R(g, o)
  <2>1. \A k \in o + 1 .. capacity : f[k] = g[k]
    BY <1>4
  <2> HIDE DEF g
  <2>2. R(f, o) = R(g, o)
    BY <2>1, PassesAgree
  <2> HIDE DEF R
  <2> QED
    BY <1>3, <2>2
<1>6. g = [o \in 0 .. capacity |-> R(g, o)]
  <2> HIDE DEF R
  <2> QED
    BY <1>5, Zenon
<1> QED
  BY <1>6

\* check() is the first step.
LEMMA CheckIs ==
  ASSUME capacity \in Nat, NEW b \in Buffer
  PROVE  \E f : CheckFrom(b) = f[0] /\ \A o \in 0 .. capacity : f[o] = Passes(b, f, o)
<1> DEFINE f == CHOOSE g : g = [o \in 0 .. capacity |-> Passes(b, g, o)]
<1>1. CheckFrom(b) = f[0]
  BY Zenon DEF CheckFrom, Passes
<1>2. f = [o \in 0 .. capacity |-> Passes(b, f, o)]
  BY CheckExists
<1> HIDE DEF f
<1>3. \A o \in 0 .. capacity : f[o] = Passes(b, f, o)
  BY <1>2, Zenon
<1> QED
  BY <1>1, <1>3

\* The check gets from each block to the next one and to the end.
LEMMA BufferPasses ==
  ASSUME Inv, \A b \in DOMAIN blocks : Representable(blocks[b].size), NEW i \in DOMAIN chain
  PROVE  CheckFrom(chain[i])
<1> DEFINE b == chain[i]
           Here == {o \in 0 .. capacity : o >= b.size \/ StartsAt(blocks, i, o)}
<1>1. capacity \in Nat /\ b \in Buffer
  BY DEF Inv, Good, Laid
<1>2. b.size \in 0 .. capacity
  BY <1>1 DEF Buffer
<1>3. PICK f : CheckFrom(b) = f[0] /\ \A o \in 0 .. capacity : f[o] = Passes(b, f, o)
  BY <1>1, CheckIs
<1> DEFINE Bad == {d \in 0 .. capacity : capacity - d \in Here /\ ~ f[capacity - d]}
<1>4. ASSUME Bad # {} PROVE FALSE
  <2>1. PICK d \in Bad : \A e \in Bad : d <= e
    <3>1. Bad \subseteq Nat
      OBVIOUS
    <3> HIDE DEF Bad
    <3> QED
      BY <1>4, <3>1, HasLeast
  <2>2. PICK o \in 0 .. capacity : o = capacity - d /\ d \in 0 .. capacity /\ o \in Here /\ ~ f[o]
    <3>1. d \in 0 .. capacity /\ capacity - d \in Here /\ ~ f[capacity - d]
      BY <2>1
    <3> QED
      BY <3>1, <1>1
  <2>3. ~ Passes(b, f, o)
    BY <2>2, <1>3
  <2>4. ~ (o >= b.size)
    BY <2>3 DEF Passes
  <2>5. PICK c \in DOMAIN blocks : blocks[c].buffer = i /\ Start(blocks[c]) = o
    BY <2>2, <2>4 DEF StartsAt
  <2> DEFINE block == blocks[c]
             next == End(block)
  <2>6. /\ block \in Block /\ next <= b.size /\ HasMarks(b.bytes, block)
        /\ block.size \in Nat /\ block.at \in Nat /\ LengthWidth \in 1 .. 3
        /\ o + LengthWidth = block.at /\ next = block.at + block.size + 2 /\ o < next
    BY <2>5, BlockLies, BlockFacts
  <2>7. LengthAt(b.bytes, o) = block.size /\ block.size > 0
    <3>1. Representable(block.size)
      OBVIOUS
    <3>2. LengthAt(b.bytes, o) = block.size
      BY <1>1, <2>5, <2>6, <3>1, LengthRead
    <3>3. block.size > 0
      BY <2>6, <3>1 DEF Representable
    <3> QED
      BY <3>2, <3>3
  <2>8. next \in Here
    <3>1. next < b.size => StartsAt(blocks, i, next)
      BY <2>5 DEF Inv, Good, Laid, Followed
    <3> HIDE DEF next, b, block
    <3>2. next \in 0 .. capacity
      BY <2>2, <2>6, <1>1, <1>2, SMTT(60)
    <3> QED
      BY <3>1, <3>2, <1>2
  <2>9. f[next]
    <3> HIDE DEF b, block, next
    <3>1. next \in 0 .. capacity
      BY <2>8
    <3> HIDE DEF Here
    <3>2. PICK e : e = capacity - next
      OBVIOUS
    <3>3. e \in 0 .. capacity /\ capacity - e = next /\ ~ (d <= e)
      BY <3>1, <3>2, <2>2, <2>6, <1>1
    <3>4. e \notin Bad
      <4> HIDE DEF Bad
      <4> QED
        BY <2>1, <3>3
    <3> QED
      BY <3>3, <3>4, <2>8
  <2>10. /\ b.bytes[block.at + block.size] = 0
         /\ b.bytes[block.at + block.size + 1] = Radix - 1
    BY <2>6 DEF HasMarks
  <2> HIDE DEF b, block, next
  <2>11. /\ o + NeededBytes < capacity
         /\ block.size <= capacity - o - NeededBytes
    BY <1>1, <1>2, <2>6, <2>7 DEF NeededBytes
  <2>12. Passes(b, f, o)
    BY <2>6, <2>7, <2>9, <2>10, <2>11 DEF Passes
  <2> QED
    BY <2>3, <2>12
<1>5. 0 \in Here
  <2>1. b.size > 0 => StartsAt(blocks, i, 0)
    BY DEF Inv, Good, Laid, Begun
  <2> HIDE DEF b
  <2> QED
    BY <2>1, <1>1, <1>2
<1>6. f[0]
  <2> HIDE DEF Here
  <2>1. capacity \in 0 .. capacity /\ capacity - capacity = 0
    BY <1>1
  <2>2. capacity \notin Bad
    BY <1>4
  <2> QED
    BY <2>1, <2>2, <1>5
<1> QED
  BY <1>3, <1>6

\* Used and unused bytes do not exceed the buffers.
LEMMA NumbersFit ==
  ASSUME Inv, chain # <<>>
  PROVE  Used + Vasted <= capacity * Len(chain)
<1> DEFINE f == [i \in DOMAIN chain |-> chain[i].size]
           h == [i \in DOMAIN chain |-> capacity - chain[i].size]
<1>1. capacity \in Nat /\ chain \in Seq(Buffer)
  BY SMTT(60) DEF Inv, Good, Laid
<1>2. PICK m \in Nat : Len(chain) = m + 1
  <2>1. Len(chain) \in Nat \ {0}
    BY <1>1
  <2>2. Len(chain) - 1 \in Nat /\ Len(chain) = Len(chain) - 1 + 1
    BY <2>1
  <2> QED
    BY <2>2
<1>3. \A i \in 1 .. m + 1 : chain[i].size \in 0 .. capacity
  <2>1. \A i \in 1 .. m + 1 : chain[i] \in Buffer
    BY <1>1, <1>2
  <2> QED
    BY <2>1 DEF Buffer
<1>4. DOMAIN chain = 1 .. m + 1 /\ Len(chain) - 1 = m
  BY <1>1, <1>2
<1>5. /\ \A k \in 1 .. m : f[k] \in Int /\ h[k] = capacity - f[k]
      /\ f[m + 1] \in 0 .. capacity
  BY <1>3, <1>4
<1>6. Used = Total(f, m + 1) /\ Vasted = Total(h, m)
  BY <1>2, <1>4 DEF Used, Vasted
<1> HIDE DEF f, h
<1>7. Total(f, m + 1) = Total(f, m) + f[m + 1]
  BY TotalNext
<1>8. /\ Total(f, m) \in Int /\ Total(h, m) \in Int
      /\ Total(f, m) + Total(h, m) = capacity * m
  <2>1. capacity \in Int
    BY <1>1
  <2> QED
    BY <2>1, <1>5, TotalsFill
<1>9. capacity * (m + 1) = capacity * m + capacity /\ capacity * m \in Int
  BY <1>1
<1>10. \A sum, rest, whole \in Int, last \in 0 .. capacity :
         sum + rest = whole => sum + last + rest <= whole + capacity
  BY <1>1
<1>11. Total(f, m) + f[m + 1] + Total(h, m) <= capacity * m + capacity
  BY <1>5, <1>8, <1>9, <1>10, Zenon
<1> QED
  BY <1>2, <1>6, <1>7, <1>9, <1>11, Zenon

(***************************************************************************)
(* The lengths of the blocks are what sizeOf() and check() find and what   *)
(* the statistics count (core/ByteStorage.cpp:108, 132, 145), for every    *)
(* radix, capacity and number of blocks: in each buffer the blocks follow  *)
(* one another without a gap, with untouched fields and marks.             *)
(***************************************************************************)
THEOREM LengthsOfBlocksKept == Spec => []LengthsKept
<1>1. ASSUME Inv PROVE LengthsKept
  <2>1. \A b \in DOMAIN blocks :
          Representable(blocks[b].size) => SizeOf(blocks[b]) = blocks[b].size
    BY <1>1, SizeKnown
  <2>2. (\A b \in DOMAIN blocks : Representable(blocks[b].size)) => Check
    BY <1>1, BufferPasses DEF Check
  <2>3. Used = Total([b \in DOMAIN blocks |-> blocks[b].size + NeededBytes], Len(blocks))
    BY <1>1 DEF Inv, Good, Counted, UsedOf, NeededOf, Used
  <2>4. chain # <<>> => Used + Vasted <= capacity * Len(chain)
    BY <1>1, NumbersFit
  <2> QED
    BY <2>1, <2>2, <2>3, <2>4 DEF LengthsKept
<1> QED
  BY <1>1, InvInit, InvStep, PTL DEF Spec
================================================================================
