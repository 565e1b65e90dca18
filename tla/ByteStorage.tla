------------------------------ MODULE ByteStorage ------------------------------
(***************************************************************************)
(* ByteStorage and ByteBuffer (core/ByteStorage.cpp): blocks of bytes in a *)
(* chain of buffers.  The bytes are modelled one by one, with Radix values *)
(* for a byte (256 in the code): the length field in front of a block, its *)
(* bytes, which the owner overwrites, and the two marks behind it.         *)
(***************************************************************************)
EXTENDS Integers, Sequences, FiniteSetsExt, SequencesExt

CONSTANTS Radix,        \* the number of values of a byte
          Capacities,   \* the capacities storages are created with
          Sizes,        \* the sizes clients ask for
          MaxBlocks,    \* bound: the blocks of a storage at a time
          MaxClears     \* bound: how often a storage is cleared

ASSUME StorageAssumption ==
  /\ Radix \in Nat \ {0, 1}
  /\ Capacities \subseteq Nat
  /\ Sizes \subseteq Nat
  /\ MaxBlocks \in Nat /\ MaxClears \in Nat

VARIABLES
  capacity,   \* _capacity of the storage and of every buffer
  chain,      \* the buffers from _first to _last: _size, _buffer
  blocks,     \* history: the blocks of the clients: buffer, place, size,
              \* what the owner has filled it with
  clears      \* how often clear() was called

vars == <<capacity, chain, blocks, clears>>

Byte == 0 .. Radix - 1

LengthWidth ==
  IF capacity >= Radix * Radix * Radix THEN 3 ELSE IF capacity >= Radix * Radix THEN 2 ELSE 1
NeededBytes == LengthWidth + 2

\* What new char[] holds is open.
NewBuffer(bytes) == [size |-> 0, bytes |-> bytes]
Offsets == 0 .. capacity - 1
Uninitialized == {[k \in Offsets |-> byte] : byte \in {0, Radix - 1}}

Init ==
  /\ capacity \in Capacities
  /\ \E bytes \in Uninitialized : chain = <<NewBuffer(bytes)>>
  /\ blocks = <<>>
  /\ clears = 0

--------------------------------------------------------------------------------
\* A mutant: the higher bytes of a length are forgotten.
DigitLost(n, i) == IF i > 0 THEN 0 ELSE n % Radix

\* The i-th byte of a length, the lowest one first.
DigitOf(n, i) ==
  CASE i = 0 -> n % Radix
    [] i = 1 -> (n \div Radix) % Radix
    [] i = 2 -> (n \div (Radix * Radix)) % Radix

LengthAt(bytes, offset) ==
  bytes[offset]
  + (IF LengthWidth > 1 THEN Radix * bytes[offset + 1] ELSE 0)
  + (IF LengthWidth > 2 THEN Radix * Radix * bytes[offset + 2] ELSE 0)

\* ByteBuffer::allocate()
Fits(b, size) == b.size + size + NeededBytes <= capacity

\* A mutant: only the bytes of the block are counted, not those around it.
MarkedShort(b, size) ==
  [size |-> b.size + size,
   bytes |-> [k \in Offsets |->
     IF k \in b.size .. b.size + LengthWidth - 1 THEN DigitOf(size, k - b.size) ELSE b.bytes[k]]]

Marked(b, size) ==
  LET data == b.size + LengthWidth
  IN [size |-> b.size + size + NeededBytes,
      bytes |-> [k \in Offsets |->
        CASE k \in b.size .. data - 1 -> DigitOf(size, k - b.size)
          [] k = data + size -> 0
          [] k = data + size + 1 -> Radix - 1
          [] OTHER -> b.bytes[k]]]

Owned(size, buffers) ==
  Append(blocks, [buffer |-> Len(buffers), at |-> Last(buffers).size + LengthWidth,
                  size |-> size, fill |-> Radix])

\* ByteStorage::allocate(): in the last buffer, else in a new one that the size
\* does not fill.
AllocateIn(buffers, size) ==
  /\ chain' = Append(Front(buffers), Marked(Last(buffers), size))
  /\ blocks' = Owned(size, buffers)

Allocate(size) ==
  /\ Len(blocks) < MaxBlocks
  /\ chain # <<>>
  /\ Fits(Last(chain), size)
  /\ AllocateIn(chain, size)
  /\ UNCHANGED <<capacity, clears>>

AllocateInNew(size) ==
  /\ Len(blocks) < MaxBlocks
  /\ chain # <<>>
  /\ ~Fits(Last(chain), size)
  /\ size < capacity - NeededBytes
  /\ \E bytes \in Uninitialized : AllocateIn(Append(chain, NewBuffer(bytes)), size)
  /\ UNCHANGED <<capacity, clears>>

\* After clear() there is a buffer again, even if the block does not fit into it.
AllocateAgain(size) ==
  /\ chain = <<>>
  /\ \E bytes \in Uninitialized :
       IF Fits(NewBuffer(bytes), size)
         THEN AllocateIn(<<NewBuffer(bytes)>>, size)
         ELSE chain' = <<NewBuffer(bytes)>> /\ UNCHANGED blocks
  /\ UNCHANGED <<capacity, clears>>

\* The owner of a block writes its bytes.
Fill(b, byte) ==
  LET block == blocks[b]
  IN /\ blocks' = [blocks EXCEPT ![b].fill = byte]
     /\ chain' = [chain EXCEPT ![block.buffer].bytes =
                    [k \in Offsets |->
                       IF k \in block.at .. block.at + block.size - 1 THEN byte ELSE @[k]]]
     /\ UNCHANGED <<capacity, clears>>

Clear ==
  /\ clears < MaxClears
  /\ chain' = <<>>
  /\ blocks' = <<>>
  /\ clears' = clears + 1
  /\ UNCHANGED capacity

Next ==
  \/ \E size \in Sizes : Allocate(size) \/ AllocateInNew(size) \/ AllocateAgain(size)
  \/ \E b \in DOMAIN blocks, byte \in Byte : Fill(b, byte)
  \/ Clear

Spec == Init /\ [][Next]_vars

--------------------------------------------------------------------------------
\* sizeOf(), for the data of a block.
SizeOf(block) ==
  LET n == LengthAt(chain[block.buffer].bytes, block.at - LengthWidth)
  IN IF n > capacity - NeededBytes THEN 0 ELSE n

\* ByteBuffer::check(): runs over the blocks up to _size.  Where no block has room no length
\* passes, whatever is read there.
CheckFrom(b) ==
  LET ok[offset \in 0 .. capacity] ==
        \/ offset >= b.size
        \/ LET size == LengthAt(b.bytes, offset)
               data == offset + LengthWidth
           IN /\ offset + NeededBytes < capacity
              /\ size > 0 /\ size <= capacity - offset - NeededBytes
              /\ b.bytes[data + size] = 0
              /\ b.bytes[data + size + 1] = Radix - 1
              /\ ok[data + size + 2]
  IN ok[0]

Check == \A i \in DOMAIN chain : CheckFrom(chain[i])

\* statistics(): the used bytes, and the unused ones before the last buffer.
Total(f, n) == LET sum[k \in 0 .. n] == IF k = 0 THEN 0 ELSE sum[k - 1] + f[k] IN sum[n]
Used == Total([i \in DOMAIN chain |-> chain[i].size], Len(chain))
Vasted == Total([i \in DOMAIN chain |-> capacity - chain[i].size], Len(chain) - 1)

--------------------------------------------------------------------------------
\* The sizes the length field can hold; a block without bytes is no block for check().
Representable(size) ==
  size \in 1 .. (CASE LengthWidth = 1 -> Radix [] LengthWidth = 2 -> Radix * Radix
                   [] LengthWidth = 3 -> Radix * Radix * Radix) - 1

(***************************************************************************)
(* What the owner of a block has written into it stays there, whatever is  *)
(* allocated and written after it and however blocks are spread over       *)
(* buffers, also behind clear() (core/ByteStorage.cpp:45, 83, 98).         *)
(***************************************************************************)
ContentsKept ==
  \A b \in DOMAIN blocks :
    blocks[b].fill \in Byte =>
      \A k \in blocks[b].at .. blocks[b].at + blocks[b].size - 1 :
        chain[blocks[b].buffer].bytes[k] = blocks[b].fill

(***************************************************************************)
(* sizeOf() knows the size of every block its length field can hold        *)
(* (core/ByteStorage.cpp:108), even between others that are too large for  *)
(* it; when there are no others the storage passes its own check (:145).   *)
(* The statistics count every block (:132).                                *)
(***************************************************************************)
LengthsKept ==
  /\ \A b \in DOMAIN blocks :
       Representable(blocks[b].size) => SizeOf(blocks[b]) = blocks[b].size
  /\ (\A b \in DOMAIN blocks : Representable(blocks[b].size)) => Check
  /\ chain # <<>> =>
       /\ Used = Total([b \in DOMAIN blocks |-> blocks[b].size + NeededBytes], Len(blocks))
       /\ Used + Vasted <= capacity * Len(chain)

==============================================================================
