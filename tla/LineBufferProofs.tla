--------------------------- MODULE LineBufferProofs ----------------------------
(***************************************************************************)
(* Proofs about LineBuffer: its types, and that the edits and the searches *)
(* by lines are those of the text as one sequence, for all texts, places   *)
(* and words.                                                              *)
(***************************************************************************)
EXTENDS LineBuffer, SequenceLemmas

------------------------------------------------------------------------------
(* The text of lines. *)

Chars == Letters \cup {NL}

\* A line with its end.
Ended(l) == Append(l, NL)

LEMMA EndedType ==
  ASSUME NEW l \in Seq(Letters)
  PROVE  /\ l \in Seq(Chars) /\ Ended(l) \in Seq(Chars)
         /\ Len(Ended(l)) = Len(l) + 1
         /\ Ended(l) = l \o <<NL>> /\ <<NL>> \in Seq(Chars)
<1>1. l \in Seq(Chars)
  BY SeqMonotonic DEF Chars
<1>2. NL \in Chars
  BY DEF Chars
<1> QED
  BY <1>1, <1>2, AppendProperties, AppendIsConcat DEF Ended

LEMMA FlatIs ==
  ASSUME NEW ls \in Lines
  PROVE  /\ Flat(ls) = FlattenSeq([k \in 1 .. Len(ls) |-> Ended(ls[k])])
         /\ [k \in 1 .. Len(ls) |-> Ended(ls[k])] \in Seq(Seq(Chars))
<1>1. Len(ls) \in Nat /\ DOMAIN ls = 1 .. Len(ls)
  BY DEF Lines
<1>2. ASSUME NEW k \in 1 .. Len(ls) PROVE Ended(ls[k]) \in Seq(Chars)
  <2>1. ls[k] \in Seq(Letters)
    BY DEF Lines
  <2> QED
    BY <2>1, EndedType
<1>3. [k \in 1 .. Len(ls) |-> Ended(ls[k])] \in Seq(Seq(Chars))
  BY <1>1, <1>2, IsASeq
<1> QED
  BY <1>1, <1>3 DEF Flat, Ended

LEMMA FlatEmpty == Flat(<<>>) = <<>>
<1>1. <<>> \in Lines
  BY DEF Lines
<1> DEFINE s == [k \in 1 .. Len(<<>>) |-> Ended(<<>>[k])]
<1>2. s \in Seq(Seq(Chars)) /\ Flat(<<>>) = FlattenSeq(s)
  BY <1>1, FlatIs
<1>3. Len(s) = 0
  OBVIOUS
<1> HIDE DEF s
<1>4. s = <<>>
  BY <1>2, <1>3, EmptySeq
<1> QED
  BY <1>2, <1>3, <1>4 DEF FlattenSeq

\* A line more ends the text.
LEMMA FlatAppend ==
  ASSUME NEW ls \in Lines, NEW l \in Seq(Letters)
  PROVE  Append(ls, l) \in Lines /\ Flat(Append(ls, l)) = Flat(ls) \o Ended(l)
<1> DEFINE n == Len(ls)
           s == [k \in 1 .. n |-> Ended(ls[k])]
           m == Append(ls, l)
           t == [k \in 1 .. Len(m) |-> Ended(m[k])]
<1>1. m \in Lines /\ n \in Nat /\ Len(m) = n + 1 /\ m[n + 1] = l
      /\ \A k \in 1 .. n : m[k] = ls[k]
  BY AppendProperties DEF Lines
<1>2. Flat(ls) = FlattenSeq(s) /\ s \in Seq(Seq(Chars))
  BY FlatIs
<1>3. Flat(m) = FlattenSeq(t) /\ t \in Seq(Seq(Chars))
  <2> HIDE DEF m
  <2> QED
    BY <1>1, FlatIs
<1>4. Ended(l) \in Seq(Chars)
  BY EndedType
<1> HIDE DEF m
<1>5. Len(s) = n /\ Len(t) = n + 1 /\ t[n + 1] = Ended(l) /\ \A k \in 1 .. n : t[k] = s[k]
  BY <1>1
<1> HIDE DEF s, t
<1>6. t = Append(s, Ended(l))
  <2> DEFINE u == Append(s, Ended(l))
  <2>1. u \in Seq(Seq(Chars)) /\ Len(u) = n + 1 /\ u[n + 1] = Ended(l)
        /\ \A k \in 1 .. n : u[k] = s[k]
    BY <1>2, <1>4, <1>5, AppendProperties
  <2> HIDE DEF u, n
  <2>2. \A k \in 1 .. Len(t) : t[k] = u[k]
    BY <1>1, <1>5, <2>1
  <2>3. Len(t) = Len(u)
    BY <1>5, <2>1
  <2>4. t = u
    BY <1>3, <2>1, <2>2, <2>3, SeqEqual
  <2> QED
    BY <2>4 DEF u
<1>7. FlattenSeq(t) = FlattenSeq(s) \o Ended(l)
  BY <1>2, <1>4, <1>6, FlattenAppend
<1> QED
  BY <1>1, <1>2, <1>3, <1>7 DEF m

\* The lines without the last one.
LEMMA LinesFront ==
  ASSUME NEW ls \in Lines, NEW n \in Nat, Len(ls) = n + 1
  PROVE  \E s \in Lines, l \in Seq(Letters) : ls = Append(s, l) /\ Len(s) = n
<1>1. ls # <<>> /\ ls \in Seq(Seq(Letters))
  BY DEF Lines
<1>2. PICK s \in Seq(Seq(Letters)), l \in Seq(Letters) : ls = Append(s, l)
  BY <1>1, SequenceEmptyOrAppend
<1>3. Len(s) \in Nat /\ Len(ls) = Len(s) + 1
  BY <1>2, AppendProperties
<1> QED
  BY <1>2, <1>3 DEF Lines

LEMMA FlatType ==
  ASSUME NEW ls \in Lines
  PROVE  Flat(ls) \in Seq(Chars) /\ Len(Flat(ls)) \in Nat
<1> DEFINE Bad == {n \in Nat : \E s \in Lines : Len(s) = n /\ Flat(s) \notin Seq(Chars)}
<1>1. ASSUME Bad # {} PROVE FALSE
  <2>1. PICK n \in Bad : \A k \in Bad : n <= k
    <3>1. Bad \subseteq Nat
      OBVIOUS
    <3> HIDE DEF Bad
    <3> QED
      BY <1>1, <3>1, HasLeast
  <2>2. PICK s \in Lines : Len(s) = n /\ Flat(s) \notin Seq(Chars)
    BY <2>1
  <2>3. n \in Nat
    BY <2>1
  <2>4. n # 0
    <3>1. ASSUME n = 0 PROVE s = <<>>
      BY <2>2, <3>1, EmptySeq DEF Lines
    <3>2. <<>> \in Seq(Chars)
      BY EmptySeq
    <3> QED
      BY <2>2, <3>1, <3>2, FlatEmpty
  <2>5. n - 1 \in Nat /\ n = (n - 1) + 1
    BY <2>3, <2>4
  <2>6. PICK t \in Lines, l \in Seq(Letters) : s = Append(t, l) /\ Len(t) = n - 1
    BY <2>2, <2>5, LinesFront
  <2>7. Flat(t) \in Seq(Chars)
    <3>1. n - 1 \notin Bad
      <4> HIDE DEF Bad
      <4> QED
        BY <2>1, <2>5
    <3> QED
      BY <2>5, <2>6, <3>1
  <2>8. Ended(l) \in Seq(Chars) /\ Flat(s) = Flat(t) \o Ended(l)
    BY <2>6, FlatAppend, EndedType
  <2>9. Flat(s) \in Seq(Chars)
    BY <2>7, <2>8, ConcatProperties
  <2> QED
    BY <2>2, <2>9
<1> QED
  <2>1. Len(ls) \in Nat
    BY DEF Lines
  <2>2. Flat(ls) \in Seq(Chars)
    BY <1>1, <2>1
  <2> QED
    BY <2>2

\* The text of lines and more lines.
LEMMA FlatJoin ==
  ASSUME NEW a \in Lines, NEW b \in Lines
  PROVE  a \o b \in Lines /\ Flat(a \o b) = Flat(a) \o Flat(b)
<1> DEFINE Bad == {n \in Nat : \E s \in Lines : Len(s) = n /\ Flat(a \o s) # Flat(a) \o Flat(s)}
<1>1. ASSUME Bad # {} PROVE FALSE
  <2>1. PICK n \in Bad : \A k \in Bad : n <= k
    <3>1. Bad \subseteq Nat
      OBVIOUS
    <3> HIDE DEF Bad
    <3> QED
      BY <1>1, <3>1, HasLeast
  <2>2. PICK s \in Lines : Len(s) = n /\ Flat(a \o s) # Flat(a) \o Flat(s)
    BY <2>1
  <2>3. n \in Nat
    BY <2>1
  <2>4. n # 0
    <3>1. ASSUME n = 0 PROVE s = <<>>
      BY <2>2, <3>1, EmptySeq DEF Lines
    <3>2. a \o <<>> = a
      BY ConcatEmptySeq DEF Lines
    <3>3. Flat(a) \o <<>> = Flat(a)
      BY FlatType, ConcatEmptySeq
    <3> QED
      BY <2>2, <3>1, <3>2, <3>3, FlatEmpty
  <2>5. n - 1 \in Nat /\ n = (n - 1) + 1
    BY <2>3, <2>4
  <2>6. PICK t \in Lines, l \in Seq(Letters) : s = Append(t, l) /\ Len(t) = n - 1
    BY <2>2, <2>5, LinesFront
  <2>7. Flat(a \o t) = Flat(a) \o Flat(t)
    <3>1. n - 1 \notin Bad
      <4> HIDE DEF Bad
      <4> QED
        BY <2>1, <2>5
    <3> QED
      BY <2>5, <2>6, <3>1
  <2>8. a \o s = Append(a \o t, l) /\ a \o t \in Lines
    <3>1. a \o t \in Lines
      BY ConcatProperties DEF Lines
    <3>2. Append(a \o t, l) = (a \o t) \o <<l>> /\ Append(t, l) = t \o <<l>> /\ <<l>> \in Lines
      BY <3>1, AppendIsConcat DEF Lines
    <3>3. a \in Seq(Seq(Letters)) /\ t \in Seq(Seq(Letters)) /\ <<l>> \in Seq(Seq(Letters))
      BY <3>2 DEF Lines
    <3>4. (a \o t) \o <<l>> = a \o (t \o <<l>>)
      BY <3>3, ConcatAssociative, SMTT(60)
    <3> QED
      BY <2>6, <3>1, <3>2, <3>4
  <2>9. Flat(a \o s) = (Flat(a) \o Flat(t)) \o Ended(l)
    BY <2>7, <2>8, FlatAppend
  <2>10. Flat(s) = Flat(t) \o Ended(l)
    BY <2>6, FlatAppend
  <2>11. Flat(a) \in Seq(Chars) /\ Flat(t) \in Seq(Chars) /\ Ended(l) \in Seq(Chars)
    BY FlatType, EndedType
  <2>12. (Flat(a) \o Flat(t)) \o Ended(l) = Flat(a) \o (Flat(t) \o Ended(l))
    BY <2>11, ConcatAssociative, SMTT(60)
  <2> QED
    BY <2>2, <2>9, <2>10, <2>12
<1>2. a \o b \in Lines
  BY ConcatProperties DEF Lines
<1> QED
  <2>1. Len(b) \in Nat
    BY DEF Lines
  <2> QED
    BY <1>1, <1>2, <2>1

LEMMA FlatOne ==
  ASSUME NEW l \in Seq(Letters)
  PROVE  <<l>> \in Lines /\ Flat(<<l>>) = Ended(l)
<1>1. <<>> \in Lines /\ Append(<<>>, l) = <<l>>
  BY DEF Lines
<1>2. Ended(l) \in Seq(Chars)
  BY EndedType
<1> QED
  BY <1>1, <1>2, FlatAppend, FlatEmpty, ConcatEmptySeq, ZenonT(60)

------------------------------------------------------------------------------
(* The parts of a sequence before and behind an offset. *)

LEMMA Halves ==
  ASSUME NEW S, NEW s \in Seq(S), NEW n \in Nat, n <= Len(s)
  PROVE  /\ Left(s, n) \in Seq(S) /\ Len(Left(s, n)) = n
         /\ Right(s, n) \in Seq(S) /\ Len(Right(s, n)) = Len(s) - n
         /\ \A i \in 1 .. n : Left(s, n)[i] = s[i]
         /\ \A i \in 1 .. Len(s) - n : Right(s, n)[i] = s[n + i]
<1>0. Len(s) \in Nat
  OBVIOUS
<1>1. Left(s, n) \in Seq(S) /\ Len(Left(s, n)) = n /\ \A i \in 1 .. n : Left(s, n)[i] = s[i]
  BY <1>0, PieceFacts DEF Left
<1>2. n + 1 \in Nat /\ n + 1 >= 1
  OBVIOUS
<1> DEFINE r == SubSeq(s, n + 1, Len(s))
<1>3. r \in Seq(S) /\ Len(r) = IF n + 1 <= Len(s) THEN Len(s) - (n + 1) + 1 ELSE 0
  BY <1>0, <1>2, PieceFacts
<1>4. \A i \in 1 .. Len(r) : r[i] = s[(n + 1) + i - 1]
  BY <1>0, <1>2, PieceFacts
<1> HIDE DEF r
<1>5. Len(r) = Len(s) - n
  BY <1>0, <1>3
<1>6. ASSUME NEW i \in 1 .. Len(s) - n PROVE r[i] = s[n + i]
  <2>1. i \in 1 .. Len(r) /\ (n + 1) + i - 1 = n + i
    BY <1>0, <1>5
  <2> QED
    BY <1>4, <2>1
<1> QED
  BY <1>1, <1>3, <1>5, <1>6 DEF Right, r

LEMMA HalvesJoin ==
  ASSUME NEW S, NEW s \in Seq(S), NEW n \in Nat, n <= Len(s)
  PROVE  Left(s, n) \o Right(s, n) = s
<1> DEFINE x == Left(s, n)
           y == Right(s, n)
           z == x \o y
<1>1. x \in Seq(S) /\ Len(x) = n /\ y \in Seq(S) /\ Len(y) = Len(s) - n /\ Len(s) \in Nat
  BY Halves
<1>2. \A i \in 1 .. n : x[i] = s[i]
  BY Halves
<1>3. \A i \in 1 .. Len(s) - n : y[i] = s[n + i]
  BY Halves
<1> HIDE DEF x, y
<1>4. z \in Seq(S) /\ Len(z) = Len(s)
      /\ \A i \in 1 .. Len(s) : z[i] = IF i <= n THEN x[i] ELSE y[i - n]
  BY <1>1, ConcatProperties
<1> HIDE DEF z
<1>5. ASSUME NEW i \in 1 .. Len(s) PROVE z[i] = s[i]
  <2>1. CASE i <= n
    BY <1>2, <1>4, <2>1
  <2>2. CASE ~ (i <= n)
    <3>1. i - n \in 1 .. Len(s) - n /\ n + (i - n) = i
      BY <1>1, <2>2
    <3> QED
      BY <1>3, <1>4, <2>2, <3>1
  <2> QED
    BY <2>1, <2>2
<1> QED
  BY <1>4, <1>5, SeqEqual DEF z, x, y

\* What stands before and behind an offset of two sequences together.
LEMMA JoinIsHalves ==
  ASSUME NEW S, NEW x \in Seq(S), NEW y \in Seq(S)
  PROVE  Left(x \o y, Len(x)) = x /\ Right(x \o y, Len(x)) = y
<1> DEFINE z == x \o y
           n == Len(x)
           l == Left(z, n)
           r == Right(z, n)
<1>1. n \in Nat /\ Len(y) \in Nat
  OBVIOUS
<1>2. z \in Seq(S) /\ Len(z) = n + Len(y)
      /\ \A i \in 1 .. n + Len(y) : z[i] = IF i <= n THEN x[i] ELSE y[i - n]
  BY ConcatProperties
<1> HIDE DEF z
<1>3. l \in Seq(S) /\ Len(l) = n /\ r \in Seq(S) /\ Len(r) = Len(z) - n
  BY <1>1, <1>2, Halves
<1>4. (\A i \in 1 .. n : l[i] = z[i]) /\ (\A i \in 1 .. Len(z) - n : r[i] = z[n + i])
  <2> HIDE DEF n
  <2>1. z \in Seq(S) /\ n \in Nat /\ n <= Len(z)
    BY <1>1, <1>2
  <2> QED
    BY <2>1, Halves
<1> HIDE DEF l, r, n
<1>5. \A i \in 1 .. n : l[i] = x[i]
  BY <1>1, <1>2, <1>4
<1>6. ASSUME NEW i \in 1 .. Len(y) PROVE r[i] = y[i]
  <2>1. n + i \in 1 .. n + Len(y) /\ ~ (n + i <= n) /\ (n + i) - n = i /\ i \in 1 .. Len(z) - n
    BY <1>1, <1>2
  <2> QED
    BY <1>2, <1>4, <2>1
<1>7. Len(r) = Len(y)
  BY <1>1, <1>2, <1>3
<1>8. Len(x) = n
  BY DEF n
<1> QED
  BY <1>3, <1>5, <1>6, <1>7, <1>8, SeqEqual DEF l, r, n, z

\* A sequence is determined by what it consists of.
LEMMA OffsetInJoin ==
  ASSUME NEW S, NEW x \in Seq(S), NEW y \in Seq(S), NEW n \in Nat, n <= Len(y)
  PROVE  /\ Len(x) + n \in Nat /\ Len(x) + n <= Len(x \o y)
         /\ Left(x \o y, Len(x) + n) = x \o Left(y, n)
         /\ Right(x \o y, Len(x) + n) = Right(y, n)
<1> DEFINE l == Left(y, n)
           r == Right(y, n)
<1>1. l \in Seq(S) /\ r \in Seq(S) /\ Len(l) = n /\ l \o r = y
  BY Halves, HalvesJoin
<1> HIDE DEF l, r
<1>2. x \o y = (x \o l) \o r
  <2>1. l \in Seq(S) /\ r \in Seq(S)
    BY <1>1
  <2>2. (x \o l) \o r = x \o (l \o r)
    BY <2>1, ConcatAssociative, SMTT(60)
  <2> QED
    BY <1>1, <2>2
<1>3. x \o l \in Seq(S) /\ Len(x \o l) = Len(x) + n
  BY <1>1, ConcatProperties
<1>4. Left((x \o l) \o r, Len(x \o l)) = x \o l /\ Right((x \o l) \o r, Len(x \o l)) = r
  BY <1>1, <1>3, JoinIsHalves
<1>5. Len(x) \in Nat /\ Len(y) \in Nat /\ Len(x \o y) = Len(x) + Len(y)
  BY ConcatProperties
<1> QED
  BY <1>2, <1>3, <1>4, <1>5 DEF l, r

LEMMA WholeHalves ==
  ASSUME NEW S, NEW s \in Seq(S)
  PROVE  /\ Left(s, Len(s)) = s /\ Right(s, Len(s)) = <<>>
         /\ Left(s, 0) = <<>> /\ Right(s, 0) = s
<1>1. <<>> \in Seq(S) /\ s \o <<>> = s /\ <<>> \o s = s /\ Len(<<>>) = 0
  BY EmptySeq, ConcatEmptySeq
<1>2. Left(s \o <<>>, Len(s)) = s /\ Right(s \o <<>>, Len(s)) = <<>>
  BY <1>1, JoinIsHalves
<1>3. Left(<<>> \o s, Len(<<>>)) = <<>> /\ Right(<<>> \o s, Len(<<>>)) = s
  BY <1>1, JoinIsHalves
<1> QED
  BY <1>1, <1>2, <1>3

------------------------------------------------------------------------------
(* The places in a text. *)

LEMMA LineFacts ==
  ASSUME NEW ls \in Lines, NEW k \in Nat, k < Len(ls)
  PROVE  /\ ls[k + 1] \in Seq(Letters) /\ ls[k + 1] \in Seq(Chars) /\ Len(ls[k + 1]) \in Nat
         /\ Left(ls, k) \in Lines /\ Right(ls, k + 1) \in Lines
         /\ Len(Left(ls, k)) = k /\ Len(Right(ls, k + 1)) = Len(ls) - (k + 1)
         /\ ls = Left(ls, k) \o (<<ls[k + 1]>> \o Right(ls, k + 1))
<1>1. ls \in Seq(Seq(Letters)) /\ Len(ls) \in Nat
  BY DEF Lines
<1>2. k + 1 \in 1 .. Len(ls)
  BY <1>1
<1>3. ls[k + 1] \in Seq(Letters)
  BY <1>1, <1>2
<1>4. ls[k + 1] \in Seq(Chars) /\ Len(ls[k + 1]) \in Nat
  BY <1>3, EndedType
<1>5. /\ Left(ls, k) \in Seq(Seq(Letters)) /\ Len(Left(ls, k)) = k
      /\ Right(ls, k) \in Seq(Seq(Letters)) /\ Left(ls, k) \o Right(ls, k) = ls
  <2>1. k <= Len(ls)
    BY <1>1
  <2>2. Left(ls, k) \o Right(ls, k) = ls
    BY <1>1, <2>1, HalvesJoin
  <2>3. /\ Left(ls, k) \in Seq(Seq(Letters)) /\ Len(Left(ls, k)) = k
        /\ Right(ls, k) \in Seq(Seq(Letters))
    BY <1>1, <2>1, Halves
  <2> QED
    BY <2>2, <2>3
<1>6. Right(ls, k + 1) \in Seq(Seq(Letters)) /\ Len(Right(ls, k + 1)) = Len(ls) - (k + 1)
  <2>1. k + 1 \in Nat /\ k + 1 <= Len(ls)
    BY <1>1
  <2> QED
    BY <1>1, <2>1, Halves, ZenonT(60)
<1>7. Right(ls, k) = <<ls[k + 1]>> \o Right(ls, k + 1)
  <2>1. k + 1 \in 1 .. Len(ls) /\ Len(ls) \in (k + 1) .. Len(ls) /\ k + 1 + 1 = k + 1 + 1
    BY <1>1, <1>2
  <2>2. SubSeq(ls, k + 1, Len(ls)) = <<ls[k + 1]>> \o SubSeq(ls, (k + 1) + 1, Len(ls))
    BY <1>1, <2>1, SubSeqRecursiveFirst
  <2> QED
    BY <2>2 DEF Right
<1> QED
  BY <1>3, <1>4, <1>5, <1>6, <1>7 DEF Lines

\* The text around a line.
LEMMA TextAround ==
  ASSUME NEW ls \in Lines, NEW k \in Nat, k < Len(ls)
  PROVE  /\ Flat(Left(ls, k)) \in Seq(Chars) /\ Flat(Right(ls, k + 1)) \in Seq(Chars)
         /\ <<NL>> \o Flat(Right(ls, k + 1)) \in Seq(Chars)
         /\ Flat(ls) = Flat(Left(ls, k)) \o (ls[k + 1] \o (<<NL>> \o Flat(Right(ls, k + 1))))
<1> DEFINE a == Left(ls, k)
           l == ls[k + 1]
           b == Right(ls, k + 1)
<1>1. a \in Lines /\ b \in Lines /\ l \in Seq(Letters) /\ ls = a \o (<<l>> \o b)
  BY LineFacts
<1> HIDE DEF a, l, b
<1>2. Flat(a) \in Seq(Chars) /\ Flat(b) \in Seq(Chars)
  BY <1>1, FlatType
<1>3. l \in Seq(Chars) /\ <<NL>> \in Seq(Chars) /\ Ended(l) = l \o <<NL>> /\ Ended(l) \in Seq(Chars)
  BY <1>1, EndedType
<1>4. <<l>> \in Lines /\ Flat(<<l>>) = Ended(l)
  BY <1>1, FlatOne
<1>5. <<l>> \o b \in Lines /\ Flat(<<l>> \o b) = Ended(l) \o Flat(b)
  BY <1>1, <1>4, FlatJoin
<1>6. Flat(ls) = Flat(a) \o (Ended(l) \o Flat(b))
  <2>1. a \in Lines /\ <<l>> \o b \in Lines
    BY <1>1, <1>5
  <2>2. Flat(a \o (<<l>> \o b)) = Flat(a) \o Flat(<<l>> \o b)
    BY <2>1, FlatJoin
  <2> QED
    BY <1>1, <1>5, <2>2
<1>7. (l \o <<NL>>) \o Flat(b) = l \o (<<NL>> \o Flat(b))
  BY <1>2, <1>3, ConcatAssociative
<1>8. <<NL>> \o Flat(b) \in Seq(Chars)
  BY <1>2, <1>3, ConcatProperties
<1> QED
  BY <1>2, <1>3, <1>6, <1>7, <1>8 DEF a, l, b

\* What is before and behind a place in a line.
LEMMA TextAtPlace ==
  ASSUME NEW ls \in Lines, NEW k \in Nat, k < Len(ls), NEW c \in Nat, c <= Len(ls[k + 1]),
         NEW o, o = Len(Flat(Left(ls, k))) + c
  PROVE  /\ o \in Nat /\ o <= Len(Flat(ls))
         /\ Left(Flat(ls), o) = Flat(Left(ls, k)) \o Left(ls[k + 1], c)
         /\ Right(Flat(ls), o) = Right(ls[k + 1], c) \o (<<NL>> \o Flat(Right(ls, k + 1)))
<1> DEFINE x == Flat(Left(ls, k))
           l == ls[k + 1]
           b == <<NL>> \o Flat(Right(ls, k + 1))
           y == l \o b
           t == Flat(ls)
<1>1. x \in Seq(Chars) /\ b \in Seq(Chars) /\ t = x \o y
  BY TextAround
<1>2. l \in Seq(Chars) /\ Len(l) \in Nat /\ c <= Len(l)
  BY LineFacts
<1> HIDE DEF x, l, b, t
<1>3. y \in Seq(Chars) /\ Len(y) = Len(l) + Len(b) /\ Len(b) \in Nat
  BY <1>1, <1>2, ConcatProperties
<1>4. Left(l, c) \in Seq(Chars) /\ Right(l, c) \in Seq(Chars) /\ Len(Left(l, c)) = c
      /\ Left(l, c) \o Right(l, c) = l
  BY <1>2, Halves, HalvesJoin, ZenonT(60)
<1>5. y = Left(l, c) \o (Right(l, c) \o b) /\ Right(l, c) \o b \in Seq(Chars)
  <2>1. (Left(l, c) \o Right(l, c)) \o b = Left(l, c) \o (Right(l, c) \o b)
    <3>1. Left(l, c) \in Seq(Chars) /\ Right(l, c) \in Seq(Chars) /\ b \in Seq(Chars)
      BY <1>1, <1>4
    <3> QED
      BY <3>1, ConcatAssociative, SMTT(60)
  <2>2. Right(l, c) \o b \in Seq(Chars)
    BY <1>1, <1>4, ConcatProperties
  <2> QED
    BY <1>4, <2>1, <2>2
<1>6. Left(y, c) = Left(l, c) /\ Right(y, c) = Right(l, c) \o b
  <2> HIDE DEF y
  <2>1. Left(Left(l, c) \o (Right(l, c) \o b), Len(Left(l, c))) = Left(l, c)
        /\ Right(Left(l, c) \o (Right(l, c) \o b), Len(Left(l, c))) = Right(l, c) \o b
    BY <1>4, <1>5, JoinIsHalves
  <2> QED
    BY <1>4, <1>5, <2>1
<1>7. c <= Len(y)
  BY <1>2, <1>3
<1> HIDE DEF y
<1>8. /\ Len(x) + c \in Nat /\ Len(x) + c <= Len(x \o y)
      /\ Left(x \o y, Len(x) + c) = x \o Left(y, c)
      /\ Right(x \o y, Len(x) + c) = Right(y, c)
  <2>1. x \in Seq(Chars) /\ y \in Seq(Chars) /\ c <= Len(y)
    BY <1>1, <1>3, <1>7
  <2> QED
    BY <2>1, OffsetInJoin, SMTT(60)
<1>9. o = Len(x) + c
  BY DEF x
<1> QED
  BY <1>1, <1>6, <1>8, <1>9 DEF x, l, b, t


LEMMA InLineFacts ==
  ASSUME lines \in Lines, NEW p \in Places
  PROVE  /\ InLine(p) \in Places /\ InLine(p).line = p.line /\ InLine(p).column <= p.column
         /\ p.line < Len(lines) => /\ InLine(p).column <= Len(lines[p.line + 1])
                                   /\ InLine(p).column =
                                        (IF p.column <= Len(lines[p.line + 1]) THEN p.column
                                         ELSE Len(lines[p.line + 1]))
         /\ ~ (p.line < Len(lines)) => InLine(p) = p
<1>1. p.line \in Nat /\ p.column \in Nat /\ p = [line |-> p.line, column |-> p.column]
  BY DEF Places
<1>2. CASE p.line < Len(lines)
  <2>1. Len(lines[p.line + 1]) \in Nat
    BY <1>1, <1>2, LineFacts
  <2> QED
    BY <1>1, <1>2, <2>1 DEF InLine, Place, LineAt, Min2, Places
<1>3. CASE ~ (p.line < Len(lines))
  BY <1>1, <1>3 DEF InLine
<1> QED
  BY <1>2, <1>3

\* A place behind its line counts as the end of the line.
LEMMA PlaceInLine ==
  ASSUME lines \in Lines, NEW p \in Places, p.line < Len(lines)
  PROVE  /\ Offset(lines, p) \in Nat /\ Offset(lines, p) <= Len(Flat(lines))
         /\ Left(Flat(lines), Offset(lines, p)) =
              Flat(Left(lines, p.line)) \o Left(lines[p.line + 1], InLine(p).column)
         /\ Right(Flat(lines), Offset(lines, p)) =
              Right(lines[p.line + 1], InLine(p).column)
              \o (<<NL>> \o Flat(Right(lines, p.line + 1)))
<1> DEFINE k == p.line
           c == InLine(p).column
           o == Offset(lines, p)
<1>1. k \in Nat /\ k < Len(lines) /\ Len(lines) \in Nat /\ p.column \in Nat
  BY DEF Places, Lines
<1>2. Len(lines[k + 1]) \in Nat
  BY <1>1, LineFacts
<1>3. c = (IF p.column <= Len(lines[k + 1]) THEN p.column ELSE Len(lines[k + 1]))
  BY InLineFacts
<1>4. c \in Nat /\ c <= Len(lines[k + 1])
  BY <1>1, <1>2, <1>3
<1>5. o = Len(Flat(Left(lines, k))) + c
  BY <1>1, <1>3 DEF Offset, LineAt, Min2
<1> HIDE DEF k, c, o
<1>6. /\ o \in Nat /\ o <= Len(Flat(lines))
      /\ Left(Flat(lines), o) = Flat(Left(lines, k)) \o Left(lines[k + 1], c)
      /\ Right(Flat(lines), o) =
           Right(lines[k + 1], c) \o (<<NL>> \o Flat(Right(lines, k + 1)))
  <2>1. k \in Nat /\ k < Len(lines)
    BY <1>1
  <2> QED
    BY <2>1, <1>4, <1>5, TextAtPlace, ZenonT(60)
<1> QED
  BY <1>6 DEF k, c, o

LEMMA PlaceAtEnd ==
  ASSUME lines \in Lines, NEW p \in Places, ~ (p.line < Len(lines)),
         NEW o, o = Offset(lines, p)
  PROVE  o = Len(Flat(lines)) /\ Left(Flat(lines), o) = Flat(lines) /\ Right(Flat(lines), o) = <<>>
<1>1. p.line \in Nat /\ Len(lines) \in Nat
  BY DEF Places, Lines
<1>2. o = Len(Flat(lines))
  BY <1>1 DEF Offset
<1>3. Flat(lines) \in Seq(Chars)
  BY FlatType
<1> QED
  BY <1>2, <1>3, WholeHalves

------------------------------------------------------------------------------
(* Deleting. *)

\* The text when a line is put between other ones.
LEMMA LineBetween ==
  ASSUME NEW a \in Lines, NEW l \in Seq(Letters), NEW b \in Lines
  PROVE  /\ (a \o <<l>>) \o b \in Lines
         /\ Flat((a \o <<l>>) \o b) = Flat(a) \o (l \o (<<NL>> \o Flat(b)))
<1>1. <<l>> \in Lines /\ Flat(<<l>>) = Ended(l) /\ Ended(l) = l \o <<NL>>
      /\ l \in Seq(Chars) /\ <<NL>> \in Seq(Chars) /\ Ended(l) \in Seq(Chars)
  BY FlatOne, EndedType
<1>2. Flat(a) \in Seq(Chars) /\ Flat(b) \in Seq(Chars)
  BY FlatType
<1>3. a \o <<l>> \in Lines /\ Flat(a \o <<l>>) = Flat(a) \o Ended(l)
  BY <1>1, FlatJoin
<1> DEFINE c == a \o <<l>>
<1>4. c \o b \in Lines /\ Flat(c \o b) = Flat(c) \o Flat(b)
  <2>1. c \in Lines
    BY <1>3
  <2> HIDE DEF c
  <2> QED
    BY <2>1, FlatJoin
<1>5. (Flat(a) \o Ended(l)) \o Flat(b) = Flat(a) \o (Ended(l) \o Flat(b))
  <2>1. Ended(l) \in Seq(Chars)
    BY <1>1
  <2> QED
    BY <1>2, <2>1, ConcatAssociative, SMTT(60)
<1>6. (l \o <<NL>>) \o Flat(b) = l \o (<<NL>> \o Flat(b))
  <2>1. l \in Seq(Chars) /\ <<NL>> \in Seq(Chars)
    BY <1>1
  <2> QED
    BY <1>2, <2>1, ConcatAssociative
<1> QED
  BY <1>1, <1>3, <1>4, <1>5, <1>6

\* The range between two places is what lines joined like this are without.
LEMMA LinesCut ==
  ASSUME lines \in Lines, NEW s \in Places, NEW e \in Places, InText(lines, s),
         e.line < Len(lines),
         NEW m, m = Left(LineAt(lines, s), s.column) \o Right(LineAt(lines, e), InLine(e).column)
  PROVE  /\ m \in Seq(Letters)
         /\ Flat((Left(lines, s.line) \o <<m>>) \o Right(lines, e.line + 1)) =
              Cut(Text, Offset(lines, s), Offset(lines, e))
<1> DEFINE i == s.line
           j == e.line
           c == InLine(e).column
           x == Left(lines[i + 1], s.column)
           y == Right(lines[j + 1], c)
           a == Left(lines, i)
           b == Right(lines, j + 1)
           z == <<NL>> \o Flat(b)
<1>1. /\ i \in Nat /\ i < Len(lines) /\ s.column \in Nat /\ s.column <= Len(lines[i + 1])
      /\ j \in Nat /\ j < Len(lines) /\ c \in Nat /\ c <= Len(lines[j + 1])
      /\ InLine(s).column = s.column
  BY InLineFacts DEF Places, InText, LineAt
<1>2. m = x \o y
  BY DEF LineAt
<1>3. lines[i + 1] \in Seq(Letters) /\ lines[j + 1] \in Seq(Letters) /\ a \in Lines /\ b \in Lines
  BY <1>1, LineFacts
<1>4. Left(Text, Offset(lines, s)) = Flat(a) \o x
  <2>1. Left(Flat(lines), Offset(lines, s)) =
          Flat(Left(lines, s.line)) \o Left(lines[s.line + 1], InLine(s).column)
    BY <1>1, PlaceInLine
  <2> QED
    BY <1>1, <2>1 DEF Text
<1>5. Right(Text, Offset(lines, e)) = y \o z
  <2>1. Right(Flat(lines), Offset(lines, e)) =
          Right(lines[e.line + 1], InLine(e).column) \o (<<NL>> \o Flat(Right(lines, e.line + 1)))
    BY <1>1, PlaceInLine
  <2> QED
    BY <1>1, <2>1 DEF Text
<1>6. x \in Seq(Letters) /\ y \in Seq(Letters)
  BY <1>1, <1>3, Halves
<1> HIDE DEF a, b, x, y
<1>7. m \in Seq(Letters)
  BY <1>2, <1>6, ConcatProperties
<1>8. Flat((a \o <<m>>) \o b) = Flat(a) \o (m \o z)
  BY <1>3, <1>7, LineBetween
<1>9. x \in Seq(Chars) /\ y \in Seq(Chars) /\ <<NL>> \in Seq(Chars)
  BY <1>6, EndedType
<1>10. Flat(a) \in Seq(Chars) /\ Flat(b) \in Seq(Chars)
  BY <1>3, FlatType
<1>11. z \in Seq(Chars)
  BY <1>9, <1>10, ConcatProperties
<1> HIDE DEF z
<1>12. (x \o y) \o z = x \o (y \o z) /\ y \o z \in Seq(Chars)
  BY <1>9, <1>11, ConcatAssociative, ConcatProperties
<1>13. Flat(a) \o (x \o (y \o z)) = (Flat(a) \o x) \o (y \o z)
  <2>1. PICK w : w = y \o z
    OBVIOUS
  <2>2. w \in Seq(Chars)
    BY <1>12, <2>1
  <2>3. (Flat(a) \o x) \o w = Flat(a) \o (x \o w)
    BY <1>9, <1>10, <2>2, ConcatAssociative, SMTT(60)
  <2> QED
    BY <2>1, <2>3
<1>14. Flat((a \o <<m>>) \o b) = Cut(Text, Offset(lines, s), Offset(lines, e))
  BY <1>2, <1>4, <1>5, <1>8, <1>12, <1>13 DEF Cut
<1> QED
  BY <1>7, <1>14 DEF a, b


\* A line of the buffer with another text.
LEMMA LineChanged ==
  ASSUME lines \in Lines, NEW k \in Nat, k < Len(lines), NEW m \in Seq(Letters)
  PROVE  [lines EXCEPT ![k + 1] = m] = (Left(lines, k) \o <<m>>) \o Right(lines, k + 1)
<1> DEFINE S == Seq(Letters)
           a == Left(lines, k)
           b == Right(lines, k + 1)
           x == a \o <<m>>
           y == x \o b
           z == [lines EXCEPT ![k + 1] = m]
<1>1. lines \in Seq(S) /\ Len(lines) \in Nat /\ k + 1 \in Nat /\ k <= Len(lines)
      /\ k + 1 <= Len(lines) /\ k + 1 \in 1 .. Len(lines)
  BY DEF Lines
<1>2. a \in Seq(S) /\ Len(a) = k /\ \A i \in 1 .. k : a[i] = lines[i]
  BY <1>1, Halves
<1>3. b \in Seq(S) /\ Len(b) = Len(lines) - (k + 1)
  BY <1>1, Halves
<1>4. \A i \in 1 .. Len(lines) - (k + 1) : b[i] = lines[(k + 1) + i]
  BY <1>1, Halves
<1>5. <<m>> \in Seq(S) /\ Len(<<m>>) = 1 /\ <<m>>[1] = m
  OBVIOUS
<1> HIDE DEF a, b
<1>6. x \in Seq(S) /\ Len(x) = k + 1
      /\ \A i \in 1 .. k + 1 : x[i] = IF i <= k THEN a[i] ELSE <<m>>[i - k]
  <2> DEFINE o == <<m>>
  <2>1. o \in Seq(S) /\ Len(o) = 1
    BY <1>5
  <2> HIDE DEF o
  <2>2. a \o o \in Seq(S) /\ Len(a \o o) = Len(a) + Len(o)
        /\ \A i \in 1 .. Len(a) + Len(o) : (a \o o)[i] = IF i <= Len(a) THEN a[i] ELSE o[i - Len(a)]
    BY <1>2, <2>1, ConcatProperties
  <2>3. a \o o \in Seq(S) /\ Len(a \o o) = k + 1
        /\ \A i \in 1 .. k + 1 : (a \o o)[i] = IF i <= k THEN a[i] ELSE o[i - k]
    BY <1>2, <2>1, <2>2
  <2> QED
    BY <2>3 DEF o
<1>7. x[k + 1] = m /\ \A i \in 1 .. k : x[i] = lines[i]
  <2>1. k + 1 - k = 1 /\ ~ (k + 1 <= k) /\ k + 1 \in 1 .. k + 1
    OBVIOUS
  <2>2. x[k + 1] = <<m>>[1]
    BY <1>6, <2>1
  <2>3. ASSUME NEW i \in 1 .. k PROVE x[i] = lines[i]
    <3>1. i \in 1 .. k + 1 /\ i <= k
      OBVIOUS
    <3> HIDE DEF x
    <3> QED
      BY <1>2, <1>6, <3>1
  <2> QED
    BY <1>5, <2>2, <2>3
<1> HIDE DEF x
<1>8. y \in Seq(S) /\ Len(y) = Len(lines)
      /\ \A i \in 1 .. Len(lines) : y[i] = IF i <= k + 1 THEN x[i] ELSE b[i - (k + 1)]
  <2>1. y \in Seq(S) /\ Len(y) = Len(x) + Len(b)
        /\ \A i \in 1 .. Len(x) + Len(b) : y[i] = IF i <= Len(x) THEN x[i] ELSE b[i - Len(x)]
    BY <1>3, <1>6, ConcatProperties
  <2> HIDE DEF y
  <2>2. Len(x) + Len(b) = Len(lines)
    BY <1>1, <1>3, <1>6
  <2> QED
    BY <1>6, <2>1, <2>2
<1>9. z \in Seq(S) /\ Len(z) = Len(lines)
      /\ \A i \in 1 .. Len(lines) : z[i] = IF i = k + 1 THEN m ELSE lines[i]
  BY <1>1, ExceptSeq
<1> HIDE DEF y, z
<1>10. ASSUME NEW i \in 1 .. Len(lines) PROVE y[i] = z[i]
  <2>1. CASE i <= k
    <3>1. i \in 1 .. k /\ i <= k + 1 /\ i # k + 1
      BY <2>1
    <3> QED
      BY <1>7, <1>8, <1>9, <3>1
  <2>2. CASE i = k + 1
    BY <1>7, <1>8, <1>9, <2>2
  <2>3. CASE i > k + 1
    <3>1. i - (k + 1) \in 1 .. Len(lines) - (k + 1) /\ (k + 1) + (i - (k + 1)) = i
          /\ ~ (i <= k + 1) /\ i # k + 1
      BY <1>1, <2>3
    <3> QED
      BY <1>4, <1>8, <1>9, <3>1
  <2> QED
    BY <2>1, <2>2, <2>3
<1>11. z = y
  BY <1>8, <1>9, <1>10, SeqEqual
<1> QED
  BY <1>11 DEF y, z, x, a, b

Outcomes == {"ok", "exception", "undefined"}

\* What an edit leaves is a text again.
IsEdit(result) == result.lines \in Lines /\ result.outcome \in Outcomes

LEMMA EditFacts ==
  ASSUME lines \in Lines
  PROVE  /\ \A how \in Outcomes : IsEdit(Fails(how))
         /\ \A ls \in Lines : IsEdit(Done(ls)) /\ Done(ls).lines = ls /\ Done(ls).outcome = "ok"
BY DEF IsEdit, Fails, Done, Outcomes

LEMMA DeleteInLineCuts ==
  ASSUME lines \in Lines, NEW s \in Places, NEW e \in Places, s.line = e.line
  PROVE  /\ IsEdit(DeleteInLine(s, InLine(e)))
         /\ InText(lines, s) /\ s.column < Len(lines) =>
              /\ DeleteInLine(s, InLine(e)).outcome = "ok"
              /\ Flat(DeleteInLine(s, InLine(e)).lines) =
                   Cut(Text, Offset(lines, s), Offset(lines, e))
<1> DEFINE k == s.line
           m == Left(LineAt(lines, s), s.column) \o Right(LineAt(lines, e), InLine(e).column)
           cut == [lines EXCEPT ![s.line + 1] = Cut(@, s.column, InLine(e).column)]
<1>1. k \in Nat /\ s.column \in Nat /\ Len(lines) \in Nat /\ e.line = k
  BY DEF Places, Lines
<1>2. CASE s.column >= Len(lines)
  <2>1. DeleteInLine(s, InLine(e)) = Done(lines)
    BY <1>2 DEF DeleteInLine
  <2> QED
    BY <1>1, <1>2, <2>1, EditFacts
<1>3. CASE ~ (s.column >= Len(lines)) /\ k >= Len(lines)
  <2>1. DeleteInLine(s, InLine(e)) = Fails("undefined")
    BY <1>3 DEF DeleteInLine
  <2>2. ~ InText(lines, s)
    BY <1>1, <1>3 DEF InText
  <2> QED
    BY <2>1, <2>2, EditFacts DEF Outcomes
<1>4. CASE /\ ~ (s.column >= Len(lines)) /\ ~ (k >= Len(lines))
           /\ s.column > Len(LineAt(lines, s))
  <2>1. DeleteInLine(s, InLine(e)) = Fails("exception")
    BY <1>4 DEF DeleteInLine
  <2>2. Len(LineAt(lines, s)) \in Nat
    BY <1>1, <1>4, LineFacts DEF LineAt
  <2>3. ~ InText(lines, s)
    BY <1>1, <1>4, <2>2 DEF InText
  <2> QED
    BY <2>1, <2>3, EditFacts DEF Outcomes
<1>5. CASE /\ ~ (s.column >= Len(lines)) /\ ~ (k >= Len(lines))
           /\ ~ (s.column > Len(LineAt(lines, s)))
  <2>1. DeleteInLine(s, InLine(e)) = Done(cut)
    BY <1>5 DEF DeleteInLine
  <2>2. Len(LineAt(lines, s)) \in Nat
    BY <1>1, <1>5, LineFacts DEF LineAt
  <2>3. InText(lines, s) /\ e.line < Len(lines) /\ k < Len(lines)
    BY <1>1, <1>5, <2>2 DEF InText
  <2>4. /\ m \in Seq(Letters)
        /\ Flat((Left(lines, s.line) \o <<m>>) \o Right(lines, e.line + 1)) =
             Cut(Text, Offset(lines, s), Offset(lines, e))
    BY <2>3, LinesCut
  <2>5. k + 1 \in DOMAIN lines
    BY <1>1, <2>3 DEF Lines
  <2>6. cut = [lines EXCEPT ![k + 1] = m]
    <3>1. Cut(lines[k + 1], s.column, InLine(e).column) = m
      BY <1>1 DEF Cut, LineAt
    <3> HIDE DEF m
    <3> QED
      BY <2>5, <3>1
  <2>7. cut = (Left(lines, k) \o <<m>>) \o Right(lines, k + 1)
    <3> HIDE DEF m
    <3> QED
      BY <1>1, <2>3, <2>4, <2>6, LineChanged
  <2>8. cut \in Lines
    <3>1. Left(lines, k) \in Lines /\ Right(lines, k + 1) \in Lines
      BY <1>1, <2>3, LineFacts
    <3>2. m \in Seq(Letters)
      BY <2>4
    <3> HIDE DEF m, cut
    <3>3. (Left(lines, k) \o <<m>>) \o Right(lines, k + 1) \in Lines
      BY <3>1, <3>2, LineBetween
    <3> QED
      BY <2>7, <3>3
  <2>9. Flat(cut) = Cut(Text, Offset(lines, s), Offset(lines, e))
    BY <1>1, <2>4, <2>7
  <2> HIDE DEF cut
  <2> QED
    BY <2>1, <2>8, <2>9, EditFacts
<1> QED
  BY <1>2, <1>3, <1>4, <1>5


LEMMA DeleteLinesCuts ==
  ASSUME lines \in Lines, NEW s \in Places, NEW e \in Places, s.line < e.line
  PROVE  /\ IsEdit(DeleteLines(s, InLine(e)))
         /\ IsRange(s, e) =>
              /\ DeleteLines(s, InLine(e)).outcome = "ok"
              /\ Flat(DeleteLines(s, InLine(e)).lines) =
                   Cut(Text, Offset(lines, s), Offset(lines, e))
<1> DEFINE f == InLine(e)
           first == IF s.column > 0 THEN s.line + 1 ELSE s.line
           top == Left(LineAt(lines, s), s.column)
           rest == Right(LineAt(lines, f), f.column)
           d == DeleteLines(s, f)
           U1 == s.column > 0 /\ s.line >= Len(lines)
           U2 == s.column > 0 /\ s.column > Len(LineAt(lines, s))
           U3 == first < f.line /\ f.line > Len(lines)
           U4 == f.line >= Len(lines) /\ (s.column > 0 \/ f.column > 0)
           kept == IF f.line >= Len(lines) THEN Left(lines, s.line)
                   ELSE Left(lines, s.line)
                        \o (IF s.column > 0 THEN Joined(top, rest) ELSE <<rest>>)
                        \o Right(lines, f.line + 1)
<1>1. /\ s.line \in Nat /\ s.column \in Nat /\ e.line \in Nat /\ e.column \in Nat
      /\ Len(lines) \in Nat
  BY DEF Places, Lines
<1>2. f \in Places /\ f.line = e.line /\ f.line \in Nat /\ f.column \in Nat
      /\ f.column <= e.column
  BY InLineFacts DEF Places
<1>3. f.line < Len(lines) => f.column <= Len(LineAt(lines, f))
  BY <1>2, InLineFacts DEF LineAt
<1>4. d = IF U1 THEN Fails("undefined") ELSE IF U2 THEN Fails("exception")
          ELSE IF U3 THEN Fails("undefined") ELSE IF U4 THEN Fails("undefined")
          ELSE Done(kept)
  BY DEF DeleteLines
<1>5. IsEdit(Fails("undefined")) /\ IsEdit(Fails("exception"))
  BY EditFacts DEF Outcomes
<1> HIDE DEF f, d, kept
<1>6. ASSUME ~U1, ~U2, ~U3, ~U4 PROVE d = Done(kept)
  BY <1>4, <1>6
<1>7. ASSUME U1 \/ U2 \/ U3 \/ U4 PROVE IsEdit(d)
  BY <1>4, <1>5, <1>7
<1>8. ASSUME IsRange(s, e) PROVE ~U1 /\ ~U2 /\ ~U3 /\ ~U4
  <2>1. s.line < Len(lines) /\ s.column <= Len(LineAt(lines, s))
        /\ (e.line < Len(lines) \/ (e = Place(Len(lines), 0) /\ s.column = 0))
    BY <1>8 DEF IsRange, InText
  <2>2. Len(LineAt(lines, s)) \in Nat
    BY <1>1, <2>1, LineFacts DEF LineAt
  <2>3. ~U1 /\ ~U2
    BY <1>1, <2>1, <2>2
  <2>4. CASE e.line < Len(lines)
    BY <1>1, <1>2, <2>3, <2>4
  <2>5. CASE e = Place(Len(lines), 0) /\ s.column = 0
    <3>1. e.line = Len(lines) /\ e.column = 0
      BY <2>5 DEF Place
    <3> QED
      BY <1>1, <1>2, <2>3, <2>5, <3>1
  <2> QED
    BY <2>1, <2>4, <2>5
<1>9. ASSUME ~U1, ~U2, ~U3, ~U4
      PROVE  /\ kept \in Lines
             /\ IsRange(s, e) => Flat(kept) = Cut(Text, Offset(lines, s), Offset(lines, e))
  <2>1. CASE f.line >= Len(lines)
    <3>1. s.column = 0 /\ f.column = 0
      BY <1>1, <1>2, <1>9, <2>1
    <3>2. s.line <= Len(lines)
      BY <1>1, <1>2, <1>9, <2>1, <3>1
    <3>3. kept = Left(lines, s.line)
      BY <2>1 DEF kept
    <3>4. Left(lines, s.line) \in Lines
      BY <1>1, <3>2, Halves DEF Lines
    <3>5. ASSUME IsRange(s, e)
          PROVE  Flat(kept) = Cut(Text, Offset(lines, s), Offset(lines, e))
      <4>1. s.line < Len(lines) /\ ~ (e.line < Len(lines))
        BY <1>1, <1>2, <2>1, <3>5 DEF IsRange, InText
      <4>2. InLine(s).column = 0
        BY <1>1, <3>1, InLineFacts DEF Places
      <4>3. Left(Text, Offset(lines, s)) = Flat(Left(lines, s.line)) \o Left(lines[s.line + 1], 0)
        BY <4>1, <4>2, PlaceInLine DEF Text
      <4>4. lines[s.line + 1] \in Seq(Chars)
        BY <1>1, <4>1, LineFacts
      <4>5. Left(lines[s.line + 1], 0) = <<>>
        BY <4>4, WholeHalves
      <4>6. Flat(Left(lines, s.line)) \in Seq(Chars)
        BY <3>4, FlatType
      <4>7. Flat(Left(lines, s.line)) \o <<>> = Flat(Left(lines, s.line))
        BY <4>6, ConcatEmptySeq
      <4>8. Right(Text, Offset(lines, e)) = <<>>
        BY <4>1, PlaceAtEnd DEF Text
      <4> QED
        BY <3>3, <4>3, <4>5, <4>7, <4>8 DEF Cut
    <3> QED
      BY <3>3, <3>4, <3>5
  <2>2. CASE f.line < Len(lines)
    <3> DEFINE m == top \o rest
    <3>1. s.line < Len(lines)
      BY <1>1, <1>2, <2>2
    <3>2. LineAt(lines, s) \in Seq(Letters) /\ Len(LineAt(lines, s)) \in Nat
      BY <1>1, <3>1, LineFacts DEF LineAt
    <3>3. s.column <= Len(LineAt(lines, s))
      BY <1>1, <1>9, <3>2
    <3>4. InText(lines, s) /\ e.line < Len(lines)
      BY <1>2, <2>2, <3>1, <3>3 DEF InText
    <3>5. LineAt(lines, f) = LineAt(lines, e)
      BY <1>2 DEF LineAt
    <3>6. /\ m \in Seq(Letters)
          /\ Flat((Left(lines, s.line) \o <<m>>) \o Right(lines, e.line + 1)) =
               Cut(Text, Offset(lines, s), Offset(lines, e))
      BY <3>4, <3>5, LinesCut DEF f
    <3>7. kept = (Left(lines, s.line) \o <<m>>) \o Right(lines, e.line + 1)
      <4>1. CASE s.column > 0
        <5>1. ~ (f.line >= Len(lines)) /\ f.line = e.line
          BY <1>1, <1>2, <2>2
        <5> HIDE DEF top, rest
        <5>2. kept = (Left(lines, s.line) \o Joined(top, rest)) \o Right(lines, f.line + 1)
          BY <4>1, <5>1 DEF kept
        <5>3. Joined(top, rest) = <<top \o rest>>
          BY DEF Joined
        <5>4. m = top \o rest
          BY DEF m
        <5> HIDE DEF m
        <5> QED
          BY <5>1, <5>2, <5>3, <5>4
      <4>2. CASE s.column = 0
        <5>1. top = <<>>
          BY <3>2, <4>2, WholeHalves
        <5>2. rest \in Seq(Letters)
          <6>1. LineAt(lines, f) \in Seq(Letters)
            BY <1>2, <2>2, LineFacts DEF LineAt
          <6> QED
            BY <1>2, <1>3, <2>2, <6>1, Halves
        <5>3. m = rest
          BY <5>1, <5>2, ConcatEmptySeq
        <5> HIDE DEF m, rest
        <5>4. kept = (Left(lines, s.line) \o <<rest>>) \o Right(lines, f.line + 1)
          BY <1>1, <1>2, <2>2, <4>2, SMTT(60) DEF kept, rest
        <5> QED
          BY <1>2, <5>3, <5>4
      <4>3. s.column > 0 \/ s.column = 0
        BY <1>1
      <4> HIDE DEF m
      <4> QED
        BY <4>1, <4>2, <4>3
    <3>8. Left(lines, s.line) \in Lines /\ Right(lines, e.line + 1) \in Lines
      BY <1>1, <3>1, <3>4, LineFacts
    <3> HIDE DEF m
    <3>9. (Left(lines, s.line) \o <<m>>) \o Right(lines, e.line + 1) \in Lines
      BY <3>6, <3>8, LineBetween
    <3> QED
      BY <3>6, <3>7, <3>9
  <2> QED
    BY <1>1, <1>2, <2>1, <2>2
<1>10. CASE U1 \/ U2 \/ U3 \/ U4
  BY <1>7, <1>8, <1>10 DEF d, f
<1>11. CASE ~U1 /\ ~U2 /\ ~U3 /\ ~U4
  <2>1. d = Done(kept)
    BY <1>6, <1>11
  <2>2. kept \in Lines /\ (IsRange(s, e) => Flat(kept) = Cut(Text, Offset(lines, s), Offset(lines, e)))
    BY <1>9, <1>11
  <2>3. IsEdit(d) /\ d.outcome = "ok" /\ d.lines = kept
    BY <2>1, <2>2, EditFacts
  <2> QED
    BY <2>2, <2>3 DEF d, f
<1> QED
  BY <1>10, <1>11


\* A range is given by its ends in any order.
RangeStart(p, q) == IF Before(q, p) THEN q ELSE p
RangeEnd(p, q) == IF Before(q, p) THEN p ELSE q

LEMMA DeleteRangeCuts ==
  ASSUME lines \in Lines, NEW p \in Places, NEW q \in Places
  PROVE  /\ IsEdit(DeleteRange(p, q))
         /\ IsRange(RangeStart(p, q), RangeEnd(p, q))
            /\ ~ (/\ RangeStart(p, q).line = RangeEnd(p, q).line
                  /\ RangeStart(p, q).column >= Len(lines)) =>
              /\ DeleteRange(p, q).outcome = "ok"
              /\ Flat(DeleteRange(p, q).lines) =
                   Cut(Text, Offset(lines, RangeStart(p, q)), Offset(lines, RangeEnd(p, q)))
<1>1. PICK s \in Places, e \in Places : s = RangeStart(p, q) /\ e = RangeEnd(p, q)
  BY DEF RangeStart, RangeEnd
<1>2. /\ p.line \in Nat /\ q.line \in Nat /\ s.line \in Nat /\ e.line \in Nat
      /\ s.column \in Nat /\ Len(lines) \in Nat
  BY DEF Places, Lines
<1>3. s.line <= e.line
  BY <1>1, <1>2 DEF RangeStart, RangeEnd, Before
<1>4. DeleteRange(p, q) = IF s.line = e.line THEN DeleteInLine(s, InLine(e))
                          ELSE DeleteLines(s, InLine(e))
  <2>1. InLine(e).line = e.line
    BY InLineFacts
  <2> QED
    BY <1>1, <2>1 DEF DeleteRange, RangeStart, RangeEnd
<1>5. CASE s.line = e.line
  <2>1. /\ IsEdit(DeleteInLine(s, InLine(e)))
        /\ InText(lines, s) /\ s.column < Len(lines) =>
             /\ DeleteInLine(s, InLine(e)).outcome = "ok"
             /\ Flat(DeleteInLine(s, InLine(e)).lines) =
                  Cut(Text, Offset(lines, s), Offset(lines, e))
    BY <1>5, DeleteInLineCuts
  <2>2. IsRange(s, e) /\ ~ (s.line = e.line /\ s.column >= Len(lines))
        => InText(lines, s) /\ s.column < Len(lines)
    BY <1>2, <1>5 DEF IsRange
  <2> QED
    BY <1>1, <1>4, <1>5, <2>1, <2>2
<1>6. CASE s.line # e.line
  <2>1. s.line < e.line
    BY <1>2, <1>3, <1>6
  <2>2. /\ IsEdit(DeleteLines(s, InLine(e)))
        /\ IsRange(s, e) =>
             /\ DeleteLines(s, InLine(e)).outcome = "ok"
             /\ Flat(DeleteLines(s, InLine(e)).lines) =
                  Cut(Text, Offset(lines, s), Offset(lines, e))
    BY <2>1, DeleteLinesCuts
  <2> QED
    BY <1>1, <1>4, <1>6, <2>2
<1> QED
  BY <1>5, <1>6

LEMMA DeletionEnds ==
  ASSUME position \in Places, mark \in Places, NEW d \in Deletions
  PROVE  DeleteStart(d) \in Places /\ DeleteEnd(d) \in Places
<1>1. d.start \in Places /\ d.end \in Places /\ d.count \in Nat
  <2>1. CASE d \in [start : {position, mark}, behind : BOOLEAN, mode : {"excluding", "including"},
                    end : {position, mark}, count : {0}]
    BY <2>1
  <2>2. CASE d \in [start : {position, mark}, behind : BOOLEAN, mode : {"count"}, end : {mark},
                    count : Counts]
    BY <2>2, LineBufferAssumption
  <2> QED
    BY <2>1, <2>2 DEF Deletions
<1>2. \A p \in Places : p.line \in Nat /\ p.column \in Nat
  BY DEF Places
<1>3. DeleteStart(d) \in Places
  BY <1>1, <1>2 DEF DeleteStart, Place, Places
<1>4. DeleteStart(d).line \in Nat /\ DeleteStart(d).column \in Nat
  BY <1>2, <1>3
<1>5. Place(DeleteStart(d).line, DeleteStart(d).column + d.count) \in Places
  BY <1>1, <1>4 DEF Place, Places
<1>6. ASSUME d.end.column > 0 PROVE Place(d.end.line, d.end.column - 1) \in Places
  BY <1>1, <1>2, <1>6 DEF Place, Places
<1>7. DeleteEnd(d) \in Places
  BY <1>1, <1>5, <1>6 DEF DeleteEnd
<1> QED
  BY <1>3, <1>7


------------------------------------------------------------------------------
(* The places and the hits stay those of a text. *)

LEMMA PlaceType ==
  ASSUME NEW l \in Nat, NEW c \in Nat
  PROVE  Place(l, c) \in Places
BY DEF Place, Places

LEMMA SetPositionType ==
  ASSUME lines \in Lines, position \in Places, NEW l \in Int, NEW c \in Int
  PROVE  SetPosition(l, c) \in Places
<1>1. position.line \in Nat /\ position.column \in Nat /\ Len(lines) \in Nat
  BY DEF Places, Lines
<1> DEFINE k == IF l >= 0 THEN Min2(Len(lines), l) ELSE position.line
           o == IF k >= Len(lines) THEN 0
                ELSE IF c >= 0 THEN Min2(Len(lines[k + 1]), c) ELSE position.column
<1>2. k \in Nat
  BY <1>1 DEF Min2
<1> HIDE DEF k
<1>3. k < Len(lines) => Len(lines[k + 1]) \in Nat
  BY <1>2, LineFacts
<1>4. o \in Nat
  BY <1>1, <1>2, <1>3 DEF Min2
<1>5. SetPosition(l, c) = Place(k, o)
  BY DEF SetPosition, k
<1> QED
  BY <1>2, <1>4, <1>5, PlaceType

LEMMA SetMarkType ==
  ASSUME lines \in Lines, NEW p \in Places
  PROVE  SetMark(p) \in Places
<1>1. p.line \in Nat /\ p.column \in Nat /\ Len(lines) \in Nat
  BY DEF Places, Lines
<1>2. p.line < Len(lines) => Len(LineAt(lines, p)) \in Nat
  BY <1>1, LineFacts DEF LineAt
<1> QED
  BY <1>1, <1>2 DEF SetMark, Place, Places, Min2

LEMMA NamedType ==
  ASSUME {position, mark, startLastHit} \subseteq Places, lastHit \in Seq(Letters)
  PROVE  Named \subseteq Places
<1>1. startLastHit.line \in Nat /\ startLastHit.column \in Nat /\ Len(lastHit) \in Nat
  BY DEF Places
<1>2. EndLastHit \in Places
  BY <1>1 DEF EndLastHit, Place, Places
<1> QED
  BY <1>2 DEF Named

LEMMA LeastHit ==
  ASSUME NEW S, S \subseteq Nat, S # {}
  PROVE  Min(S) \in S /\ \A x \in S : Min(S) <= x
BY HasLeast DEF Min

LEMMA LastHit ==
  ASSUME NEW S, S \subseteq Nat, S # {}, NEW b \in Nat, \A x \in S : x <= b
  PROVE  Max(S) \in S /\ \A x \in S : Max(S) >= x
<1> DEFINE T == {b - x : x \in S}
<1>1. T \subseteq Nat /\ T # {}
  <2>1. \A x \in S : b - x \in Nat
    OBVIOUS
  <2> QED
    BY <2>1
<1>2. PICK d \in T : \A y \in T : d <= y
  <2> HIDE DEF T
  <2> QED
    BY <1>1, HasLeast
<1>3. PICK q \in S : d = b - q
  OBVIOUS
<1>4. ASSUME NEW x \in S PROVE q >= x
  <2>1. b - q <= b - x
    BY <1>2, <1>3
  <2> QED
    BY <2>1
<1>5. \E m \in S : \A x \in S : m >= x
  BY <1>4
<1> QED
  BY <1>5, Zenon DEF Max

LEMMA HitsType ==
  ASSUME NEW S, NEW w \in Seq(S), NEW t \in Seq(S)
  PROVE  /\ Hits(w, t) \subseteq Nat
         /\ \A h \in Hits(w, t) : h <= Len(t) /\ h + Len(w) <= Len(t)
BY DEF Hits


------------------------------------------------------------------------------
(* Searches. *)

\* A hit lies in a line of the text.
IsHit(hit) ==
  /\ {hit.found, hit.defined} \subseteq BOOLEAN
  /\ hit.found => hit.place \in Places /\ hit.place.line < Len(lines)

LEMMA HitForms ==
  /\ IsHit(NotFound) /\ IsHit(Lost)
  /\ \A l \in Nat, c \in Nat : l < Len(lines) => IsHit(Found(l, c))
BY DEF IsHit, NotFound, Lost, Found, Place, Places

LEMMA QueryFacts ==
  ASSUME NEW q \in Queries
  PROVE  /\ q.word \in Words /\ q.word \in Seq(Letters) /\ Len(q.word) \in Nat
         /\ q.inline \in BOOLEAN /\ q.keep \in BOOLEAN /\ q.isCondition \in BOOLEAN
<1>1. PICK w \in Words, f \in Searches :
        q = [word |-> w, start |-> f.start, inline |-> f.inline, keep |-> f.keep,
             isCondition |-> f.isCondition]
  BY DEF Queries
<1>2. w \in Seq(Letters) /\ {f.inline, f.keep, f.isCondition} \subseteq BOOLEAN
  BY LineBufferAssumption
<1> QED
  BY <1>1, <1>2

LEMMA ForwardStartType ==
  ASSUME lines \in Lines, position \in Places, NEW q
  PROVE  ForwardStart(q) \in Places
<1>1. position.line \in Nat /\ Len(lines) \in Nat /\ Far \in Nat
  BY DEF Places, Lines, Far
<1>2. /\ Place(0, 0) \in Places /\ Place(Len(lines), 0) \in Places
      /\ Place(position.line, 0) \in Places /\ Place(position.line, Far) \in Places
  BY <1>1, PlaceType
<1> HIDE DEF Far
<1> QED
  BY <1>2 DEF ForwardStart

LEMMA HitsInRestType ==
  ASSUME lines \in Lines, position \in Places, NEW q \in Queries
  PROVE  /\ HitsInRest(q) \subseteq Nat
         /\ HitsInRest(q) # {} => Len(lines) > 0 /\ ForwardStart(q).column > 0
<1>1. PICK s \in Places : s = ForwardStart(q)
  BY ForwardStartType
<1>2. CASE IsPartial(s)
  <2>1. s.line \in Nat /\ s.column \in Nat /\ s.line < Len(lines) /\ 0 < s.column
        /\ s.column < Len(LineAt(lines, s)) /\ Len(lines) \in Nat
    BY <1>2 DEF IsPartial, Places, Lines
  <2>2. LineAt(lines, s) \in Seq(Letters) /\ Len(LineAt(lines, s)) \in Nat
    BY <2>1, LineFacts DEF LineAt
  <2>3. Right(LineAt(lines, s), s.column) \in Seq(Letters)
    <3>1. s.column \in Nat /\ s.column <= Len(LineAt(lines, s))
      BY <2>1, <2>2
    <3> QED
      BY <2>2, <3>1, Halves
  <2>4. HitsInRest(q) = Hits(q.word, Right(LineAt(lines, s), s.column))
    BY <1>1, <1>2 DEF HitsInRest
  <2>5. q.word \in Seq(Letters)
    BY QueryFacts
  <2>6. Hits(q.word, Right(LineAt(lines, s), s.column)) \subseteq Nat
    BY <2>3, <2>5, HitsType
  <2> QED
    BY <1>1, <2>1, <2>4, <2>6
<1>3. CASE ~ IsPartial(s)
  BY <1>1, <1>3 DEF HitsInRest
<1> QED
  BY <1>2, <1>3

LEMMA ForwardHit ==
  ASSUME lines \in Lines, position \in Places, NEW q \in Queries
  PROVE  IsHit(Forward(q))
<1> DEFINE s == ForwardStart(q)
           first == IF s.column > 0 THEN s.line + 1 ELSE s.line
           last == IF q.inline THEN Min2(first, Len(lines) - 1) ELSE Len(lines) - 1
           hitLines == {k \in first .. last : Hits(q.word, lines[k + 1]) # {}}
           m == Min(HitsInRest(q))
           n == Min(hitLines)
           o == Min(Hits(q.word, lines[n + 1]))
<1>1. Forward(q) = IF HitsInRest(q) # {} THEN Found(0, s.column + m - 1)
                   ELSE IF hitLines # {} THEN Found(n, o) ELSE NotFound
  BY DEF Forward
<1>2. s \in Places
  BY ForwardStartType
<1>3. s.line \in Nat /\ s.column \in Nat /\ Len(lines) \in Nat
  BY <1>2 DEF Places, Lines
<1> HIDE DEF s
<1>4. first \in Nat /\ last \in Int /\ last < Len(lines)
  BY <1>3 DEF Min2
<1> HIDE DEF first, last
<1>5. hitLines \subseteq Nat /\ \A k \in hitLines : k < Len(lines) /\ Hits(q.word, lines[k + 1]) # {}
  BY <1>3, <1>4
<1>6. CASE HitsInRest(q) # {}
  <2>1. m \in Nat /\ Len(lines) > 0 /\ s.column > 0
    BY <1>6, HitsInRestType, LeastHit DEF s
  <2> HIDE DEF m
  <2>2. s.column + m - 1 \in Nat
    BY <1>3, <2>1
  <2>3. IsHit(Found(0, s.column + m - 1))
    BY <2>1, <2>2, HitForms
  <2> QED
    BY <1>1, <1>6, <2>3
<1>7. CASE HitsInRest(q) = {} /\ hitLines # {}
  <2> HIDE DEF hitLines
  <2>1. n \in hitLines
    BY <1>5, <1>7, LeastHit
  <2> HIDE DEF n
  <2>2. n \in Nat /\ n < Len(lines) /\ Hits(q.word, lines[n + 1]) # {}
    BY <1>5, <2>1
  <2>3. q.word \in Seq(Letters) /\ lines[n + 1] \in Seq(Letters)
    BY <2>2, LineFacts, QueryFacts
  <2>4. Hits(q.word, lines[n + 1]) \subseteq Nat
    BY <2>3, HitsType
  <2>5. o \in Nat
    BY <2>2, <2>4, LeastHit
  <2> HIDE DEF o
  <2>6. IsHit(Found(n, o))
    BY <2>2, <2>5, HitForms
  <2> QED
    BY <1>1, <1>7, <2>6
<1>8. CASE HitsInRest(q) = {} /\ hitLines = {}
  BY <1>1, <1>8, HitForms
<1> QED
  BY <1>6, <1>7, <1>8

LEMMA BackwardHit ==
  ASSUME lines \in Lines, position \in Places, NEW q \in Queries
  PROVE  IsHit(Backward(q))
<1> DEFINE s == BackwardStart(q)
           here == {h \in Hits(q.word, LineAt(lines, s)) : h + Len(q.word) <= s.column}
           above == {k \in 0 .. s.line - 1 : Hits(q.word, lines[k + 1]) # {}}
           a == Max(above)
           o == Max(Hits(q.word, lines[a + 1]))
<1>1. Backward(q) = IF lines = <<>> \/ s = Place(0, 0) THEN NotFound
                    ELSE IF here # {} THEN Found(s.line, Max(here))
                    ELSE IF q.inline \/ s.line = 0 THEN NotFound
                    ELSE IF above = {} THEN Lost ELSE Found(a, o)
  BY DEF Backward
<1>2. CASE lines = <<>>
  BY <1>1, <1>2, HitForms
<1>3. CASE lines # <<>>
  <2>1. position.line \in Nat /\ position.column \in Nat /\ Len(lines) \in Nat /\ Len(lines) > 0
    BY <1>3, EmptySeq DEF Places, Lines
  <2>2. s.line \in Nat /\ s.line < Len(lines)
    BY <2>1 DEF BackwardStart, Place, Min2
  <2> HIDE DEF s
  <2>3. q.word \in Seq(Letters) /\ LineAt(lines, s) \in Seq(Letters)
        /\ Len(LineAt(lines, s)) \in Nat
    BY <2>2, LineFacts, QueryFacts DEF LineAt
  <2>4. here \subseteq Nat /\ \A h \in here : h <= Len(LineAt(lines, s))
    BY <2>3, HitsType
  <2>5. above \subseteq Nat
        /\ \A k \in above : k < Len(lines) /\ k <= s.line /\ Hits(q.word, lines[k + 1]) # {}
    BY <2>1, <2>2
  <2>6. ASSUME here # {} PROVE IsHit(Found(s.line, Max(here)))
    <3> HIDE DEF here
    <3>1. Max(here) \in Nat
      BY <2>3, <2>4, <2>6, LastHit
    <3> QED
      BY <2>2, <3>1, HitForms
  <2>7. ASSUME above # {} PROVE IsHit(Found(a, o))
    <3> HIDE DEF above
    <3>1. a \in above
      BY <2>2, <2>5, <2>7, LastHit
    <3> HIDE DEF a
    <3>2. a \in Nat /\ a < Len(lines) /\ Hits(q.word, lines[a + 1]) # {}
      BY <2>5, <3>1
    <3>3. lines[a + 1] \in Seq(Letters) /\ Len(lines[a + 1]) \in Nat
      BY <3>2, LineFacts
    <3>4. Hits(q.word, lines[a + 1]) \subseteq Nat
          /\ \A h \in Hits(q.word, lines[a + 1]) : h <= Len(lines[a + 1])
      BY <2>3, <3>3, HitsType
    <3>5. o \in Nat
      BY <3>2, <3>3, <3>4, LastHit
    <3> HIDE DEF o
    <3> QED
      BY <3>2, <3>5, HitForms
  <2> HIDE DEF here, above, a, o
  <2> QED
    BY <1>1, <2>6, <2>7, HitForms
<1> QED
  BY <1>2, <1>3


LEMMA HitPlace ==
  ASSUME lines \in Lines, NEW hit, IsHit(hit), hit.found
  PROVE  /\ hit.place.line \in Nat /\ hit.place.column \in Nat
         /\ LineAt(lines, hit.place) \in Seq(Letters) /\ Len(LineAt(lines, hit.place)) \in Nat
<1>1. hit.place.line \in Nat /\ hit.place.column \in Nat /\ hit.place.line < Len(lines)
  BY DEF IsHit, Places
<1> QED
  BY <1>1, LineFacts DEF LineAt

LEMMA ForwardPositionType ==
  ASSUME lines \in Lines, position \in Places, NEW q \in Queries, NEW hit, IsHit(hit)
  PROVE  ForwardPosition(q, hit) \in Places
<1>1. ForwardStart(q) \in Places
  BY ForwardStartType
<1>2. ForwardStart(q).line \in Int /\ Far \in Int
  BY <1>1 DEF Places, Far
<1>3. Len(q.word) \in Nat
  BY QueryFacts
<1>4. SetPosition(ForwardStart(q).line, Far) \in Places
  BY <1>2, SetPositionType
<1>5. ASSUME hit.found
      PROVE  SetPosition(hit.place.line, hit.place.column + Len(q.word)) \in Places
  <2>1. hit.place.line \in Int /\ hit.place.column + Len(q.word) \in Int
    BY <1>3, <1>5, HitPlace
  <2> QED
    BY <2>1, SetPositionType
<1> QED
  BY <1>4, <1>5 DEF ForwardPosition

LEMMA BackwardPositionType ==
  ASSUME lines \in Lines, position \in Places, NEW q \in Queries, NEW hit, IsHit(hit)
  PROVE  BackwardPosition(q, hit) \in Places
<1>1. Len(q.word) \in Nat
  BY QueryFacts
<1>2. ASSUME hit.found
      PROVE  SetPosition(hit.place.line, hit.place.column + Len(q.word) - 1) \in Places
  <2>1. hit.place.line \in Int /\ hit.place.column + Len(q.word) - 1 \in Int
    BY <1>1, <1>2, HitPlace
  <2> QED
    BY <2>1, SetPositionType
<1> QED
  BY <1>2 DEF BackwardPosition

LEMMA SearchType ==
  ASSUME TypeOK, NEW q \in Queries, NEW hit, IsHit(hit), NEW p \in Places, Search(q, hit, p)
  PROVE  TypeOK'
<1>1. lines \in Lines /\ Fits(lines) /\ lines' = lines
  BY DEF TypeOK, Search
<1>2. {position, mark, startLastHit}' \subseteq Places
  BY DEF TypeOK, Search, IsHit
<1>3. outcome' \in {"ok", "exception", "undefined"}
  BY DEF Search, HitOutcome
<1>4. /\ lastHit' \in Seq(Letters)
      /\ \E w \in Words \cup {<<>>} : Len(lastHit') <= Len(w)
  <2>1. CASE hit.found /\ outcome' = "ok"
    <3> DEFINE line == LineAt(lines, hit.place)
               c == hit.place.column
               n == Len(q.word)
               e == Min2(Len(line), c + n)
    <3>1. line \in Seq(Letters) /\ Len(line) \in Nat /\ c \in Nat
      BY <1>1, <2>1, HitPlace
    <3>2. q.word \in Words /\ n \in Nat
      BY QueryFacts
    <3>3. lastHit' = SubSeq(line, c + 1, e)
      BY <2>1 DEF Search, Piece
    <3> HIDE DEF line, c, n
    <3>4. e \in Nat /\ e <= Len(line) /\ e <= c + n
      BY <3>1, <3>2 DEF Min2
    <3> HIDE DEF e
    <3>5. /\ SubSeq(line, c + 1, e) \in Seq(Letters)
          /\ Len(SubSeq(line, c + 1, e)) = IF c + 1 <= e THEN e - (c + 1) + 1 ELSE 0
      <4>1. c + 1 \in Nat /\ c + 1 >= 1
        BY <3>1
      <4> QED
        BY <3>1, <3>4, <4>1, PieceFacts
    <3>6. Len(lastHit') <= n
      BY <3>1, <3>2, <3>3, <3>4, <3>5
    <3> QED
      BY <3>2, <3>3, <3>5, <3>6 DEF n
  <2>2. CASE ~ (hit.found /\ outcome' = "ok")
    BY <2>2 DEF Search, TypeOK
  <2> QED
    BY <2>1, <2>2
<1> QED
  BY <1>1, <1>2, <1>3, <1>4 DEF TypeOK, Fits


------------------------------------------------------------------------------
(* Inserting. *)

AreTexts(a, l, t, r, z) == {a, l, t, r, z} \subseteq Seq(Chars)

LEMMA RegroupOne ==
  ASSUME NEW a, NEW l, NEW t, NEW r, NEW z
  PROVE  AreTexts(a, l, t, r, z)
         => a \o (((l \o t) \o r) \o z) = ((a \o l) \o t) \o (r \o z)
<1>1. ASSUME AreTexts(a, l, t, r, z)
      PROVE  a \o (((l \o t) \o r) \o z) = ((a \o l) \o t) \o (r \o z)
  <2>1. PICK w, x, y, b : w = r \o z /\ x = l \o t /\ y = t \o w /\ b = a \o l
    OBVIOUS
  <2>2. /\ a \in Seq(Chars) /\ l \in Seq(Chars) /\ t \in Seq(Chars)
        /\ r \in Seq(Chars) /\ z \in Seq(Chars)
    BY <1>1 DEF AreTexts
  <2>3. w \in Seq(Chars) /\ x \in Seq(Chars) /\ b \in Seq(Chars)
    BY <2>1, <2>2, ConcatProperties
  <2>4. y \in Seq(Chars)
    BY <2>1, <2>2, <2>3, ConcatProperties
  <2>5. (x \o r) \o z = x \o (r \o z)
    <3>1. x \in Seq(Chars) /\ r \in Seq(Chars) /\ z \in Seq(Chars)
      BY <2>2, <2>3
    <3> QED
      BY <3>1, ConcatAssociative
  <2>6. (l \o t) \o w = l \o (t \o w)
    <3>1. l \in Seq(Chars) /\ t \in Seq(Chars) /\ w \in Seq(Chars)
      BY <2>2, <2>3
    <3> QED
      BY <3>1, ConcatAssociative
  <2>7. (b \o t) \o w = b \o (t \o w)
    <3>1. b \in Seq(Chars) /\ t \in Seq(Chars) /\ w \in Seq(Chars)
      BY <2>2, <2>3
    <3> QED
      BY <3>1, ConcatAssociative
  <2>8. (a \o l) \o y = a \o (l \o y)
    <3>1. a \in Seq(Chars) /\ l \in Seq(Chars) /\ y \in Seq(Chars)
      BY <2>2, <2>4
    <3> QED
      BY <3>1, ConcatAssociative
  <2> QED
    BY <2>1, <2>5, <2>6, <2>7, <2>8
<1> QED
  BY <1>1

LEMMA RegroupTail ==
  ASSUME NEW a, NEW l, NEW t, NEW n, NEW f
  PROVE  AreTexts(a, l, t, n, f)
         => (a \o ((l \o t) \o n)) \o f = (a \o l) \o ((t \o n) \o f)
<1>1. ASSUME AreTexts(a, l, t, n, f)
      PROVE  (a \o ((l \o t) \o n)) \o f = (a \o l) \o ((t \o n) \o f)
  <2>1. PICK u, b, g : u = t \o n /\ b = a \o l /\ g = u \o f
    OBVIOUS
  <2>2. /\ a \in Seq(Chars) /\ l \in Seq(Chars) /\ t \in Seq(Chars) /\ n \in Seq(Chars)
        /\ f \in Seq(Chars)
    BY <1>1 DEF AreTexts
  <2>3. u \in Seq(Chars) /\ b \in Seq(Chars)
    BY <2>1, <2>2, ConcatProperties
  <2>4. (l \o t) \o n = l \o (t \o n)
    <3>1. l \in Seq(Chars) /\ t \in Seq(Chars) /\ n \in Seq(Chars)
      BY <2>2
    <3> QED
      BY <3>1, ConcatAssociative
  <2>5. (a \o l) \o u = a \o (l \o u)
    <3>1. a \in Seq(Chars) /\ l \in Seq(Chars) /\ u \in Seq(Chars)
      BY <2>2, <2>3
    <3> QED
      BY <3>1, ConcatAssociative
  <2>6. (b \o u) \o f = b \o (u \o f)
    <3>1. b \in Seq(Chars) /\ u \in Seq(Chars) /\ f \in Seq(Chars)
      BY <2>2, <2>3
    <3> QED
      BY <3>1, ConcatAssociative
  <2> QED
    BY <2>1, <2>4, <2>5, <2>6
<1> QED
  BY <1>1

LEMMA RegroupType ==
  ASSUME NEW a, NEW l, NEW t, NEW n, NEW f
  PROVE  AreTexts(a, l, t, n, f) => (a \o l) \o ((t \o n) \o f) \in Seq(Chars)
<1>1. ASSUME AreTexts(a, l, t, n, f)
      PROVE  (a \o l) \o ((t \o n) \o f) \in Seq(Chars)
  <2>1. PICK u, b, g : u = t \o n /\ b = a \o l /\ g = u \o f
    OBVIOUS
  <2>2. /\ a \in Seq(Chars) /\ l \in Seq(Chars) /\ t \in Seq(Chars) /\ n \in Seq(Chars)
        /\ f \in Seq(Chars)
    BY <1>1 DEF AreTexts
  <2>3. u \in Seq(Chars) /\ b \in Seq(Chars)
    BY <2>1, <2>2, ConcatProperties
  <2>4. u \o f \in Seq(Chars)
    BY <2>2, <2>3, ConcatProperties
  <2>5. b \o g \in Seq(Chars)
    BY <2>1, <2>3, <2>4, ConcatProperties
  <2> QED
    BY <2>1, <2>5
<1> QED
  BY <1>1

LEMMA RegroupMore ==
  ASSUME NEW a, NEW l, NEW t, NEW n, NEW f, NEW x, NEW z
  PROVE  AreTexts(a, l, t, n, f) /\ AreTexts(a, l, t, x, z)
         => (((a \o ((l \o t) \o n)) \o f) \o x) \o z =
              ((a \o l) \o ((t \o n) \o f)) \o (x \o z)
<1>1. ASSUME AreTexts(a, l, t, n, f), AreTexts(a, l, t, x, z)
      PROVE  (((a \o ((l \o t) \o n)) \o f) \o x) \o z =
               ((a \o l) \o ((t \o n) \o f)) \o (x \o z)
  <2>1. PICK h : h = (a \o l) \o ((t \o n) \o f)
    OBVIOUS
  <2>2. (a \o ((l \o t) \o n)) \o f = h
    BY <1>1, <2>1, RegroupTail, SMTT(60)
  <2>3. h \in Seq(Chars) /\ x \in Seq(Chars) /\ z \in Seq(Chars)
    <3>1. h \in Seq(Chars)
      BY <1>1, <2>1, RegroupType
    <3>2. x \in Seq(Chars) /\ z \in Seq(Chars)
      BY <1>1 DEF AreTexts
    <3> QED
      BY <3>1, <3>2
  <2>4. (h \o x) \o z = h \o (x \o z)
    BY <2>3, ConcatAssociative
  <2> QED
    BY <2>1, <2>2, <2>4
<1> QED
  BY <1>1

LEMMA RightBehind ==
  ASSUME NEW S, NEW s \in Seq(S), NEW n \in Nat, n >= Len(s)
  PROVE  Right(s, n) = <<>>
<1>1. PICK m \in Nat : m = n + 1
  OBVIOUS
<1>2. m >= 1 /\ Len(s) \in Nat /\ Len(s) <= Len(s) /\ Len(s) < m
  BY <1>1
<1>3. SubSeq(s, m, Len(s)) = <<>>
  BY <1>2, PieceEmpty
<1> QED
  BY <1>1, <1>3 DEF Right

LEMMA FirstLine ==
  ASSUME NEW ls \in Lines, ls # <<>>
  PROVE  /\ ls[1] \in Seq(Letters) /\ Right(ls, 1) \in Lines
         /\ Flat(ls) = (ls[1] \o <<NL>>) \o Flat(Right(ls, 1))
<1>1. ls \in Seq(Seq(Letters)) /\ Len(ls) \in Nat /\ 1 <= Len(ls) /\ 1 \in Nat
  BY EmptySeq DEF Lines
<1> DEFINE x == Left(ls, 1)
           y == Right(ls, 1)
<1>2. x \in Seq(Seq(Letters)) /\ Len(x) = 1 /\ y \in Seq(Seq(Letters))
      /\ \A i \in 1 .. 1 : x[i] = ls[i]
  BY <1>1, Halves, ZenonT(60)
<1>3. x \o y = ls
  BY <1>1, HalvesJoin
<1> HIDE DEF x, y
<1>4. ls[1] \in Seq(Letters)
  BY <1>1
<1>5. x = <<ls[1]>>
  <2>1. \A i \in 1 .. Len(x) : x[i] = <<ls[1]>>[i]
    BY <1>2
  <2>2. <<ls[1]>> \in Seq(Seq(Letters)) /\ Len(<<ls[1]>>) = 1
    BY <1>4
  <2> HIDE DEF x
  <2> QED
    BY <1>2, <2>1, <2>2, SeqEqual
<1>6. x \in Lines /\ y \in Lines
  BY <1>2 DEF Lines
<1>7. Flat(x \o y) = Flat(x) \o Flat(y)
  BY <1>6, FlatJoin
<1>8. Flat(x) = ls[1] \o <<NL>>
  BY <1>4, <1>5, FlatOne, EndedType
<1> QED
  BY <1>3, <1>4, <1>6, <1>7, <1>8 DEF y

\* The text of lines without the last line end.
LEMMA FrontOfText ==
  ASSUME NEW ls \in Lines, ls # <<>>
  PROVE  Front(Flat(ls)) \in Seq(Chars) /\ Flat(ls) = Front(Flat(ls)) \o <<NL>>
<1>1. PICK s \in Seq(Seq(Letters)), l \in Seq(Letters) : ls = Append(s, l)
  BY SequenceEmptyOrAppend DEF Lines
<1>2. s \in Lines
  BY DEF Lines
<1>3. Flat(ls) = Flat(s) \o Ended(l)
  BY <1>1, <1>2, FlatAppend
<1>4. Flat(s) \in Seq(Chars) /\ l \in Seq(Chars) /\ <<NL>> \in Seq(Chars) /\ Ended(l) = l \o <<NL>>
  BY <1>2, FlatType, EndedType
<1>5. PICK x \in Seq(Chars) : x = Flat(s) \o l
  BY <1>4, ConcatProperties
<1>6. Flat(ls) = x \o <<NL>>
  BY <1>3, <1>4, <1>5, ConcatAssociative
<1>7. Len(x \o <<NL>>) - 1 = Len(x)
  BY <1>4, ConcatProperties
<1>8. Left(x \o <<NL>>, Len(x)) = x
  BY <1>4, JoinIsHalves
<1>9. Front(Flat(ls)) = x
  BY <1>6, <1>7, <1>8 DEF Front, Left
<1> QED
  BY <1>6, <1>9


\* A line before and behind a place in it.
LinePart(p) == Left(LineAt(lines, p), InLine(p).column)
LineRest(p) == Right(LineAt(lines, p), InLine(p).column)

\* The columns of insert are those of the line.
LEMMA InsertParts ==
  ASSUME lines \in Lines, NEW p \in Places, p.line < Len(lines)
  PROVE  /\ LinePart(p) \in Seq(Letters) /\ LineRest(p) \in Seq(Letters)
         /\ Left(LineAt(lines, p), Min2(p.column, Len(LineAt(lines, p)))) = LinePart(p)
         /\ Right(LineAt(lines, p), p.column) = LineRest(p)
         /\ LineRest(p) = <<>> <=> p.column >= Len(LineAt(lines, p))
<1> DEFINE line == LineAt(lines, p)
           c == InLine(p).column
<1>1. p.line \in Nat /\ p.column \in Nat
  BY DEF Places
<1>2. line \in Seq(Letters) /\ Len(line) \in Nat
  BY <1>1, LineFacts DEF LineAt
<1>3. c = Min2(p.column, Len(line))
  BY DEF InLine, Place
<1> HIDE DEF line, c
<1>4. c \in Nat /\ c <= Len(line) /\ c = (IF p.column <= Len(line) THEN p.column ELSE Len(line))
  BY <1>1, <1>2, <1>3 DEF Min2
<1>5. /\ Left(line, c) \in Seq(Letters) /\ Right(line, c) \in Seq(Letters)
      /\ Len(Right(line, c)) = Len(line) - c
  <2>1. c \in Nat /\ c <= Len(line)
    BY <1>4
  <2> QED
    BY <1>2, <2>1, Halves
<1>6. Right(line, p.column) = Right(line, c)
  <2>1. CASE p.column <= Len(line)
    BY <1>4, <2>1
  <2>2. CASE p.column > Len(line)
    <3>1. Right(line, p.column) = <<>>
      BY <1>1, <1>2, <2>2, RightBehind
    <3>2. Right(line, Len(line)) = <<>>
      BY <1>2, WholeHalves
    <3> QED
      BY <1>1, <1>2, <1>4, <2>2, <3>1, <3>2
  <2> QED
    BY <1>1, <1>2, <2>1, <2>2
<1>7. Right(line, c) = <<>> <=> p.column >= Len(line)
  <2>1. CASE Right(line, c) = <<>>
    <3>1. Len(Right(line, c)) = 0
      BY <2>1, EmptySeq
    <3> QED
      BY <1>1, <1>2, <1>4, <1>5, <2>1, <3>1
  <2>2. CASE Right(line, c) # <<>>
    <3>1. Len(Right(line, c)) # 0
      BY <1>5, <2>2, EmptySeq
    <3> QED
      BY <1>1, <1>2, <1>4, <1>5, <2>2, <3>1
  <2> QED
    BY <2>1, <2>2
<1> QED
  BY <1>3, <1>5, <1>6, <1>7 DEF line, c, LinePart, LineRest

\* A single line goes into a line.
LEMMA InsertInLine ==
  ASSUME lines \in Lines, NEW p \in Places, p.line < Len(lines), NEW text \in Lines,
         Len(text) = 1
  PROVE  /\ (Left(lines, p.line) \o <<(LinePart(p) \o text[1]) \o LineRest(p)>>)
            \o Right(lines, p.line + 1) \in Lines
         /\ Flat((Left(lines, p.line) \o <<(LinePart(p) \o text[1]) \o LineRest(p)>>)
                 \o Right(lines, p.line + 1)) =
              Put(Text, Offset(lines, p), Front(Flat(text)))
<1> DEFINE k == p.line
           a == Left(lines, k)
           b == Right(lines, k + 1)
           z == <<NL>> \o Flat(b)
           t == text[1]
           l == LinePart(p)
           r == LineRest(p)
           m == (l \o t) \o r
           o == Offset(lines, p)
<1>1. k \in Nat
  BY DEF Places
<1>2. a \in Lines /\ b \in Lines
  BY <1>1, LineFacts
<1>3. t \in Seq(Letters) /\ Flat(text) = (t \o <<NL>>) \o Flat(Right(text, 1))
  <2>1. text # <<>>
    <3>1. text = <<>> => Len(text) = 0
      BY EmptySeq
    <3> QED
      BY <3>1
  <2> QED
    BY <2>1, FirstLine
<1>4. Right(text, 1) = <<>>
  <2>1. text \in Seq(Seq(Letters)) /\ 1 \in Nat /\ 1 >= Len(text)
    BY DEF Lines
  <2> QED
    BY <2>1, RightBehind
<1>5. Left(Text, o) = Flat(a) \o l /\ Right(Text, o) = r \o z
  BY PlaceInLine DEF Text, LineAt, LinePart, LineRest
<1>6. l \in Seq(Letters) /\ r \in Seq(Letters)
  BY InsertParts
<1> HIDE DEF a, b, t, k, l, r, o
<1>7. t \in Seq(Chars) /\ <<NL>> \in Seq(Chars) /\ l \in Seq(Chars) /\ r \in Seq(Chars)
  BY <1>3, <1>6, EndedType
<1>8. Front(Flat(text)) = t
  <2>1. t \o <<NL>> \in Seq(Chars) /\ Len(t \o <<NL>>) - 1 = Len(t)
    BY <1>7, ConcatProperties
  <2>2. (t \o <<NL>>) \o <<>> = t \o <<NL>>
    BY <2>1, ConcatEmptySeq
  <2>3. Flat(text) = t \o <<NL>>
    BY <1>3, <1>4, <2>2, FlatEmpty
  <2>4. Left(t \o <<NL>>, Len(t)) = t
    BY <1>7, JoinIsHalves
  <2> QED
    BY <2>1, <2>3, <2>4 DEF Front, Left
<1>9. l \o t \in Seq(Letters)
  BY <1>3, <1>6, ConcatProperties
<1>10. m \in Seq(Letters)
  <2>1. r \in Seq(Letters)
    BY <1>6
  <2> QED
    BY <1>9, <2>1, ConcatProperties
<1> HIDE DEF m
<1>11. (a \o <<m>>) \o b \in Lines /\ Flat((a \o <<m>>) \o b) = Flat(a) \o (m \o z)
  BY <1>2, <1>10, LineBetween
<1>12. Flat(a) \in Seq(Chars) /\ Flat(b) \in Seq(Chars)
  BY <1>2, FlatType
<1>13. z \in Seq(Chars)
  BY <1>7, <1>12, ConcatProperties
<1> HIDE DEF z
<1>14. Flat(a) \o (((l \o t) \o r) \o z) = ((Flat(a) \o l) \o t) \o (r \o z)
  <2>1. PICK x : x = Flat(a)
    OBVIOUS
  <2>2. AreTexts(x, l, t, r, z)
    BY <1>7, <1>12, <1>13, <2>1 DEF AreTexts
  <2>3. x \o (((l \o t) \o r) \o z) = ((x \o l) \o t) \o (r \o z)
    BY <2>2, RegroupOne, SMTT(60)
  <2> QED
    BY <2>1, <2>3
<1>15. Put(Text, o, t) = ((Flat(a) \o l) \o t) \o (r \o z)
  BY <1>5 DEF Put
<1>16. m = (l \o t) \o r
  BY DEF m
<1>17. Flat((a \o <<m>>) \o b) = Put(Text, o, Front(Flat(text)))
  BY <1>8, <1>11, <1>14, <1>15, <1>16
<1> QED
  BY <1>11, <1>17 DEF a, b, m, t, k, l, r, o


\* Several lines before a line.
LEMMA InsertBefore ==
  ASSUME lines \in Lines, NEW p \in Places, p.line < Len(lines), p.column = 0,
         NEW text \in Lines
  PROVE  /\ (Left(lines, p.line) \o text) \o Right(lines, p.line) \in Lines
         /\ Flat((Left(lines, p.line) \o text) \o Right(lines, p.line)) =
              Put(Text, Offset(lines, p), Flat(text))
<1> DEFINE k == p.line
           a == Left(lines, k)
           b == Right(lines, k)
           o == Offset(lines, p)
<1>1. k \in Nat /\ k < Len(lines) /\ Len(lines) \in Nat
  BY DEF Places, Lines
<1>2. a \in Lines /\ b \in Lines /\ a \o b = lines
  <2>1. lines \in Seq(Seq(Letters)) /\ k \in Nat /\ k <= Len(lines)
    BY <1>1 DEF Lines
  <2>2. a \in Seq(Seq(Letters)) /\ b \in Seq(Seq(Letters))
    BY <2>1, Halves
  <2>3. a \o b = lines
    BY <2>1, HalvesJoin
  <2> QED
    BY <2>2, <2>3 DEF Lines
<1>3. o = Len(Flat(a))
  <2>1. LineAt(lines, p) \in Seq(Letters) /\ Len(LineAt(lines, p)) \in Nat
    BY <1>1, LineFacts DEF LineAt
  <2>2. Min2(0, Len(LineAt(lines, p))) = 0
    BY <2>1 DEF Min2
  <2>3. Len(Flat(a)) \in Nat
    BY <1>2, FlatType
  <2>4. o = Len(Flat(a)) + 0
    BY <1>1, <2>2 DEF Offset
  <2> HIDE DEF o, a
  <2> QED
    BY <2>3, <2>4
<1> HIDE DEF a, b, o
<1>4. Flat(a) \in Seq(Chars) /\ Flat(b) \in Seq(Chars) /\ Text = Flat(a) \o Flat(b)
  <2>1. Flat(a \o b) = Flat(a) \o Flat(b)
    BY <1>2, FlatJoin
  <2>2. Flat(a) \in Seq(Chars) /\ Flat(b) \in Seq(Chars)
    BY <1>2, FlatType
  <2> QED
    BY <1>2, <2>1, <2>2 DEF Text
<1>5. Left(Text, o) = Flat(a) /\ Right(Text, o) = Flat(b)
  <2>1. Left(Flat(a) \o Flat(b), Len(Flat(a))) = Flat(a)
        /\ Right(Flat(a) \o Flat(b), Len(Flat(a))) = Flat(b)
    BY <1>4, JoinIsHalves
  <2> QED
    BY <1>3, <1>4, <2>1
<1>6. a \o text \in Lines /\ Flat(a \o text) = Flat(a) \o Flat(text)
  BY <1>2, FlatJoin
<1>7. (a \o text) \o b \in Lines /\ Flat((a \o text) \o b) = Flat(a \o text) \o Flat(b)
  <2>1. PICK c : c = a \o text
    OBVIOUS
  <2>2. c \in Lines
    BY <1>6, <2>1
  <2>3. c \o b \in Lines /\ Flat(c \o b) = Flat(c) \o Flat(b)
    BY <1>2, <2>2, FlatJoin
  <2> QED
    BY <2>1, <2>3
<1>8. Flat((a \o text) \o b) = Put(Text, o, Flat(text))
  BY <1>5, <1>6, <1>7 DEF Put
<1> QED
  BY <1>7, <1>8 DEF a, b, o, k

\* Several lines split a line: what it had behind the place gets a line of its own.
InsertSplits(p, text) ==
  (((Left(lines, p.line) \o <<LinePart(p) \o text[1]>>) \o Right(text, 1))
   \o (IF LineRest(p) = <<>> THEN <<>> ELSE <<LineRest(p)>>)) \o Right(lines, p.line + 1)

LEMMA InsertBehind ==
  ASSUME lines \in Lines, NEW p \in Places, p.line < Len(lines), NEW text \in Lines,
         text # <<>>
  PROVE  /\ InsertSplits(p, text) \in Lines
         /\ Flat(InsertSplits(p, text)) =
              Put(Text, Offset(lines, p),
                  IF LineRest(p) = <<>> THEN Front(Flat(text)) ELSE Flat(text))
<1> DEFINE k == p.line
           a == Left(lines, k)
           b == Right(lines, k + 1)
           t == text[1]
           f == Right(text, 1)
           l == LinePart(p)
           r == LineRest(p)
           x == IF r = <<>> THEN <<>> ELSE <<r>>
           m == l \o t
           o == Offset(lines, p)
           n == <<NL>>
<1>1. k \in Nat
  BY DEF Places
<1>2. a \in Lines /\ b \in Lines
  BY <1>1, LineFacts
<1>3. t \in Seq(Letters) /\ f \in Lines /\ Flat(text) = (t \o n) \o Flat(f)
  BY FirstLine
<1>4. Left(Text, o) = Flat(a) \o l /\ Right(Text, o) = r \o (n \o Flat(b))
  BY PlaceInLine DEF Text, LineAt, LinePart, LineRest
<1>5. l \in Seq(Letters) /\ r \in Seq(Letters)
  BY InsertParts
<1>6. InsertSplits(p, text) = (((a \o <<m>>) \o f) \o x) \o b
  BY DEF InsertSplits
<1> HIDE DEF a, b, t, f, k, l, r, o
<1>7. m \in Seq(Letters)
  BY <1>3, <1>5, ConcatProperties
<1> HIDE DEF m, x
<1>8. n \in Seq(Chars)
  BY DEF Chars
<1> HIDE DEF n
<1>9. x \in Lines /\ (r = <<>> => Flat(x) = <<>>) /\ (r # <<>> => Flat(x) = r \o n)
  <2>1. CASE r = <<>>
    <3>1. x = <<>>
      BY <2>1 DEF x
    <3> QED
      BY <2>1, <3>1, FlatEmpty DEF Lines
  <2>2. CASE r # <<>>
    <3>1. x = <<r>>
      BY <2>2 DEF x
    <3>2. <<r>> \in Lines /\ Flat(<<r>>) = r \o <<NL>>
      BY <1>5, FlatOne, EndedType
    <3> QED
      BY <2>2, <3>1, <3>2 DEF n
  <2> QED
    BY <2>1, <2>2
<1>10. <<m>> \in Lines /\ Flat(<<m>>) = m \o n
  BY <1>7, FlatOne, EndedType DEF n
<1>11. /\ InsertSplits(p, text) \in Lines
       /\ Flat(InsertSplits(p, text)) =
            (((Flat(a) \o (m \o n)) \o Flat(f)) \o Flat(x)) \o Flat(b)
  <2>1. PICK y1, y2, y3, y4 : y1 = <<m>> /\ y2 = a \o y1 /\ y3 = y2 \o f /\ y4 = y3 \o x
    OBVIOUS
  <2>2. y1 \in Lines /\ y2 \in Lines /\ Flat(y2) = Flat(a) \o Flat(y1)
    BY <1>2, <1>10, <2>1, FlatJoin
  <2>3. y3 \in Lines /\ Flat(y3) = Flat(y2) \o Flat(f)
    BY <1>3, <2>1, <2>2, FlatJoin
  <2>4. y4 \in Lines /\ Flat(y4) = Flat(y3) \o Flat(x)
    BY <1>9, <2>1, <2>3, FlatJoin
  <2>5. y4 \o b \in Lines /\ Flat(y4 \o b) = Flat(y4) \o Flat(b)
    BY <1>2, <2>4, FlatJoin
  <2> QED
    BY <1>6, <1>10, <2>1, <2>2, <2>3, <2>4, <2>5
<1>12. /\ Flat(a) \in Seq(Chars) /\ Flat(b) \in Seq(Chars) /\ Flat(f) \in Seq(Chars)
       /\ Flat(x) \in Seq(Chars) /\ Flat(text) \in Seq(Chars)
  BY <1>2, <1>3, <1>9, FlatType
<1>13. l \in Seq(Chars) /\ t \in Seq(Chars) /\ r \in Seq(Chars)
  BY <1>3, <1>5, EndedType
<1>14. (((Flat(a) \o (m \o n)) \o Flat(f)) \o Flat(x)) \o Flat(b) =
         ((Flat(a) \o l) \o Flat(text)) \o (Flat(x) \o Flat(b))
  <2>1. PICK fa, fb, ff, fx : fa = Flat(a) /\ fb = Flat(b) /\ ff = Flat(f) /\ fx = Flat(x)
    OBVIOUS
  <2>2. AreTexts(fa, l, t, n, ff) /\ AreTexts(fa, l, t, fx, fb)
    BY <1>8, <1>12, <1>13, <2>1 DEF AreTexts
  <2>3. (((fa \o ((l \o t) \o n)) \o ff) \o fx) \o fb =
          ((fa \o l) \o ((t \o n) \o ff)) \o (fx \o fb)
    BY <2>2, RegroupMore
  <2>4. m = l \o t
    BY DEF m
  <2> QED
    BY <1>3, <2>1, <2>3, <2>4
<1>15. CASE r # <<>>
  <2>1. (r \o n) \o Flat(b) = r \o (n \o Flat(b))
    <3>1. r \in Seq(Chars) /\ n \in Seq(Chars) /\ Flat(b) \in Seq(Chars)
      BY <1>8, <1>12, <1>13
    <3> QED
      BY <3>1, ConcatAssociative, SMTT(60)
  <2>2. Flat(InsertSplits(p, text)) = Put(Text, o, Flat(text))
    BY <1>4, <1>9, <1>11, <1>14, <1>15, <2>1 DEF Put
  <2> QED
    BY <1>11, <1>15, <2>2 DEF r, o
<1>16. CASE r = <<>>
  <2>1. PICK g, c, fb : g = Front(Flat(text)) /\ c = Flat(a) \o l /\ fb = Flat(b)
    OBVIOUS
  <2>2. g \in Seq(Chars) /\ Flat(text) = g \o n
    BY <2>1, FrontOfText DEF n
  <2>3. c \in Seq(Chars) /\ fb \in Seq(Chars)
    BY <1>12, <1>13, <2>1, ConcatProperties
  <2>4. n \o fb \in Seq(Chars)
    BY <1>8, <2>3, ConcatProperties
  <2>5. <<>> \o (n \o fb) = n \o fb /\ <<>> \o fb = fb
    BY <2>3, <2>4, ConcatEmptySeq
  <2>6. c \o g \in Seq(Chars) /\ c \o (g \o n) = (c \o g) \o n
    <3>1. c \in Seq(Chars) /\ g \in Seq(Chars) /\ n \in Seq(Chars)
      BY <1>8, <2>2, <2>3
    <3> QED
      BY <3>1, ConcatProperties, ConcatAssociative, SMTT(60)
  <2>7. ((c \o g) \o n) \o fb = (c \o g) \o (n \o fb)
    <3>1. PICK h : h = c \o g
      OBVIOUS
    <3>2. h \in Seq(Chars) /\ n \in Seq(Chars) /\ fb \in Seq(Chars)
      BY <1>8, <2>3, <2>6, <3>1
    <3>3. (h \o n) \o fb = h \o (n \o fb)
      BY <3>2, ConcatAssociative, SMTT(60)
    <3> QED
      BY <3>1, <3>3
  <2>8. Flat(InsertSplits(p, text)) = (c \o g) \o (n \o fb)
    BY <1>9, <1>11, <1>14, <1>16, <2>1, <2>2, <2>5, <2>6, <2>7
  <2>9. Put(Text, o, g) = (c \o g) \o (n \o fb)
    BY <1>4, <1>16, <2>1, <2>5 DEF Put
  <2> QED
    BY <1>11, <1>16, <2>1, <2>8, <2>9 DEF r, o
<1> QED
  BY <1>15, <1>16


\* The last line of a text inserted in or at the end of a line ends with that line.
KeepsLineEnd(p, text) ==
  /\ p.line < Len(lines)
  /\ Len(text) = 1 \/ (p.column > 0 /\ p.column >= Len(LineAt(lines, p)))

LEMMA InsertTextPuts ==
  ASSUME lines \in Lines, NEW p \in Places, NEW text \in Lines
  PROVE  /\ IsEdit(InsertText(p, text))
         /\ /\ text # <<>>
            /\ p.line < Len(lines) /\ Len(text) = 1 /\ p.column = 0 => LineAt(lines, p) = <<>>
            => /\ InsertText(p, text).outcome = "ok"
               /\ Flat(InsertText(p, text).lines) =
                    Put(Text, Offset(lines, p),
                        IF KeepsLineEnd(p, text) THEN Front(Flat(text)) ELSE Flat(text))
<1> DEFINE line == LineAt(lines, p)
           tail == IF p.column = 0 THEN <<>> ELSE Right(line, p.column)
           l == Left(line, Min2(p.column, Len(line)))
           below == Right(lines, p.line + 1)
           a == Left(lines, p.line)
           one == (a \o <<l \o text[1] \o tail>>) \o below
           before == (a \o text) \o Right(lines, p.line)
           more == (((a \o <<l \o text[1]>>) \o Right(text, 1))
                    \o (IF tail = <<>> THEN <<>> ELSE <<tail>>)) \o below
           d == InsertText(p, text)
           o == Offset(lines, p)
<1>1. p.line \in Nat /\ p.column \in Nat /\ Len(lines) \in Nat /\ Len(text) \in Nat
  BY DEF Places, Lines
<1>2. d = IF p.line >= Len(lines) THEN Done(lines \o text)
          ELSE IF text = <<>> THEN IF p.column = 0 THEN Done(lines) ELSE Fails("undefined")
          ELSE IF Len(text) = 1 THEN Done(one)
          ELSE IF p.column = 0 THEN Done(before) ELSE Done(more)
  BY DEF InsertText
<1> HIDE DEF d, one, before, more
<1>3. CASE p.line >= Len(lines)
  <2>1. lines \o text \in Lines /\ Flat(lines \o text) = Text \o Flat(text)
    BY FlatJoin DEF Text
  <2>2. ~ KeepsLineEnd(p, text) /\ ~ (p.line < Len(lines))
    BY <1>1, <1>3 DEF KeepsLineEnd
  <2>3. Left(Text, o) = Text /\ Right(Text, o) = <<>>
    BY <2>2, PlaceAtEnd DEF Text
  <2>4. Text \o Flat(text) \in Seq(Chars)
    BY FlatType, ConcatProperties DEF Text
  <2>5. (Text \o Flat(text)) \o <<>> = Text \o Flat(text)
    BY <2>4, ConcatEmptySeq
  <2>6. Flat(lines \o text) = Put(Text, o, Flat(text))
    BY <2>1, <2>3, <2>5 DEF Put
  <2>7. d = Done(lines \o text)
    BY <1>2, <1>3
  <2>8. IsEdit(d) /\ d.outcome = "ok" /\ d.lines = lines \o text
    BY <2>1, <2>7, EditFacts
  <2> QED
    BY <2>2, <2>6, <2>8 DEF d
<1>4. CASE p.line < Len(lines) /\ text = <<>>
  <2>1. d = Done(lines) \/ d = Fails("undefined")
    BY <1>1, <1>2, <1>4
  <2>2. IsEdit(d)
    BY <2>1, EditFacts DEF Outcomes
  <2> QED
    BY <1>4, <2>2 DEF d
<1>5. CASE p.line < Len(lines) /\ text # <<>>
  <2>1. /\ LinePart(p) \in Seq(Letters) /\ LineRest(p) \in Seq(Letters)
        /\ l = LinePart(p) /\ Right(line, p.column) = LineRest(p)
        /\ LineRest(p) = <<>> <=> p.column >= Len(line)
    BY <1>5, InsertParts
  <2>2. line \in Seq(Letters) /\ Len(line) \in Nat /\ a \in Lines /\ below \in Lines
    BY <1>1, <1>5, LineFacts DEF LineAt
  <2>3. text[1] \in Seq(Letters)
    BY <1>5, FirstLine
  <2>4. tail = IF p.column = 0 THEN <<>> ELSE LineRest(p)
    BY <2>1
  <2> HIDE DEF line, l, tail, a, below
  <2>5. CASE Len(text) = 1
    <3>1. d = Done(one)
      BY <1>1, <1>2, <1>5, <2>5
    <3>2. one \in Lines
      <4>1. tail \in Seq(Letters)
        BY <2>1, <2>4
      <4>2. LinePart(p) \o text[1] \in Seq(Letters)
        BY <2>1, <2>3, ConcatProperties
      <4>3. PICK h, m : h = LinePart(p) \o text[1] /\ m = h \o tail
        OBVIOUS
      <4>4. m \in Seq(Letters)
        BY <4>1, <4>2, <4>3, ConcatProperties
      <4>5. (a \o <<m>>) \o below \in Lines
        BY <2>2, <4>4, LineBetween
      <4>6. one = (a \o <<m>>) \o below
        BY <2>1, <4>3 DEF one
      <4> QED
        BY <4>5, <4>6
    <3>3. ASSUME p.column = 0 => line = <<>>
          PROVE  Flat(one) = Put(Text, o, Front(Flat(text)))
      <4>1. tail = LineRest(p)
        <5>1. CASE p.column # 0
          BY <2>4, <5>1
        <5>2. CASE p.column = 0
          <6>1. Len(line) = 0
            BY <3>3, <5>2, EmptySeq
          <6> QED
            BY <2>1, <2>4, <5>2, <6>1
        <5> QED
          BY <5>1, <5>2
      <4>2. one = (a \o <<(LinePart(p) \o text[1]) \o LineRest(p)>>) \o below
        BY <2>1, <4>1 DEF one
      <4> QED
        BY <1>5, <2>5, <4>2, InsertInLine DEF a, below
    <3>4. KeepsLineEnd(p, text)
      BY <1>5, <2>5 DEF KeepsLineEnd
    <3>5. IsEdit(d) /\ d.outcome = "ok" /\ d.lines = one
      BY <3>1, <3>2, EditFacts
    <3> QED
      BY <1>5, <2>5, <3>3, <3>4, <3>5 DEF d, line
  <2>6. CASE Len(text) # 1 /\ p.column = 0
    <3>1. d = Done(before)
      BY <1>1, <1>2, <1>5, <2>6
    <3>2. before \in Lines /\ Flat(before) = Put(Text, o, Flat(text))
      BY <1>5, <2>6, InsertBefore DEF before, a
    <3>3. ~ KeepsLineEnd(p, text)
      BY <2>6 DEF KeepsLineEnd
    <3>4. IsEdit(d) /\ d.outcome = "ok" /\ d.lines = before
      BY <3>1, <3>2, EditFacts
    <3> QED
      BY <3>2, <3>3, <3>4 DEF d
  <2>7. CASE Len(text) # 1 /\ p.column # 0
    <3>1. d = Done(more)
      BY <1>1, <1>2, <1>5, <2>7
    <3>2. tail = LineRest(p)
      BY <2>4, <2>7
    <3>3. more = InsertSplits(p, text)
      BY <2>1, <3>2 DEF more, InsertSplits, a, below
    <3>4. KeepsLineEnd(p, text) <=> LineRest(p) = <<>>
      BY <1>1, <1>5, <2>1, <2>7 DEF KeepsLineEnd, line
    <3>5. /\ more \in Lines
          /\ Flat(more) = Put(Text, o, IF KeepsLineEnd(p, text) THEN Front(Flat(text))
                                       ELSE Flat(text))
      BY <1>5, <3>3, <3>4, InsertBehind
    <3>6. IsEdit(d) /\ d.outcome = "ok" /\ d.lines = more
      BY <3>1, <3>5, EditFacts
    <3> QED
      BY <3>5, <3>6 DEF d
  <2> QED
    BY <2>5, <2>6, <2>7
<1> QED
  BY <1>1, <1>3, <1>4, <1>5


------------------------------------------------------------------------------
(* Copying. *)

\* The parts of a copied range: the rest of its first line, whole lines, the start of its
\* last line up to column n.
CopyFirst(s) == IF s.column > 0 THEN s.line + 1 ELSE s.line
CopyEnd(e) == Min2(e.line, Len(lines))
CopyBehind(e, including) == e.column + (IF including THEN 1 ELSE 0)
CopyTop(s, e, n) ==
  IF s.column = 0 \/ s.column >= Len(LineAt(lines, s)) THEN <<>>
  ELSE IF e.column # 0 /\ s.line = CopyEnd(e)
  THEN <<PartOfLine(LineAt(lines, s), s.column, Min2(Len(LineAt(lines, s)), n))>>
  ELSE <<Right(LineAt(lines, s), s.column)>>
CopyLast(s, e, n) ==
  IF CopyFirst(s) <= CopyEnd(e) /\ e.column # 0
  THEN <<Left(lines[CopyEnd(e) + 1], Min2(Len(lines[CopyEnd(e) + 1]), n))>>
  ELSE <<>>
CopyBody(s, e) == SubSeq(lines, CopyFirst(s) + 1, CopyEnd(e))
CopyFails(s, e) ==
  \/ s.column > 0 /\ s.line >= Len(lines)
  \/ CopyFirst(s) <= CopyEnd(e) /\ e.column # 0 /\ CopyEnd(e) >= Len(lines)

LEMMA CopyIs ==
  ASSUME NEW s, NEW e, NEW including
  PROVE  CopyRange(s, e, including) =
           IF s.line > CopyEnd(e) + 1 THEN [lines |-> <<>>, outcome |-> "exception"]
           ELSE IF CopyFails(s, e) THEN [lines |-> <<>>, outcome |-> "undefined"]
           ELSE [lines |-> (CopyTop(s, e, CopyBehind(e, including)) \o CopyBody(s, e))
                            \o CopyLast(s, e, CopyBehind(e, including)),
                 outcome |-> "ok"]
BY DEF CopyRange, CopyFirst, CopyEnd, CopyBehind, CopyTop, CopyLast, CopyBody, CopyFails

LEMMA CopyPlaces ==
  ASSUME lines \in Lines, NEW s \in Places, NEW e \in Places
  PROVE  /\ s.line \in Nat /\ s.column \in Nat /\ e.line \in Nat /\ e.column \in Nat
         /\ Len(lines) \in Nat /\ CopyFirst(s) \in Nat /\ CopyEnd(e) \in Nat
         /\ CopyEnd(e) <= Len(lines) /\ CopyEnd(e) <= e.line
BY DEF Places, Lines, CopyFirst, CopyEnd, Min2

\* Any part of a line is a line.
LEMMA LineOfPart ==
  ASSUME NEW l \in Seq(Letters), NEW i \in Nat, NEW j \in Nat
  PROVE  /\ i <= Len(l) => /\ Right(l, i) \in Seq(Letters)
                           /\ PartOfLine(l, i, Min2(Len(l), j)) \in Seq(Letters)
         /\ Left(l, Min2(Len(l), j)) \in Seq(Letters)
<1>1. Len(l) \in Nat
  OBVIOUS
<1>2. PICK c : c = Min2(Len(l), j)
  OBVIOUS
<1>3. c \in Nat /\ c <= Len(l)
  BY <1>1, <1>2 DEF Min2
<1>4. Left(l, c) \in Seq(Letters)
  BY <1>3, Halves
<1>5. i <= Len(l) => Right(l, i) \in Seq(Letters)
  BY Halves
<1>6. PICK d : d = IF c < i THEN Len(l) ELSE c
  OBVIOUS
<1>7. d \in Nat /\ d <= Len(l)
  BY <1>1, <1>3, <1>6
<1>8. SubSeq(l, i + 1, d) \in Seq(Letters)
  <2>1. i + 1 \in Nat /\ i + 1 >= 1
    OBVIOUS
  <2> QED
    BY <1>7, <2>1, PieceFacts
<1>9. PartOfLine(l, i, c) = SubSeq(l, i + 1, d)
  BY <1>6 DEF PartOfLine, Piece
<1> QED
  BY <1>2, <1>4, <1>5, <1>8, <1>9

LEMMA CopyRangeType ==
  ASSUME lines \in Lines, NEW s \in Places, NEW e \in Places, NEW including
  PROVE  /\ CopyRange(s, e, including).outcome \in Outcomes
         /\ CopyRange(s, e, including).lines \in Lines
<1> DEFINE n == CopyBehind(e, including)
           top == CopyTop(s, e, n)
           body == CopyBody(s, e)
           last == CopyLast(s, e, n)
           j == CopyEnd(e)
           d == CopyRange(s, e, including)
<1>1. /\ s.line \in Nat /\ s.column \in Nat /\ e.column \in Nat /\ Len(lines) \in Nat
      /\ CopyFirst(s) \in Nat /\ j \in Nat /\ j <= Len(lines)
  BY CopyPlaces
<1>2. n \in Nat
  BY <1>1 DEF CopyBehind
<1>3. d = IF s.line > j + 1 THEN [lines |-> <<>>, outcome |-> "exception"]
          ELSE IF CopyFails(s, e) THEN [lines |-> <<>>, outcome |-> "undefined"]
          ELSE [lines |-> (top \o body) \o last, outcome |-> "ok"]
  BY CopyIs
<1>4. <<>> \in Lines
  BY DEF Lines
<1> HIDE DEF n, j
<1>5. ASSUME ~ CopyFails(s, e) PROVE top \in Lines
  <2>1. CASE s.column = 0 \/ s.column >= Len(LineAt(lines, s))
    BY <1>4, <2>1 DEF CopyTop
  <2>2. CASE ~ (s.column = 0 \/ s.column >= Len(LineAt(lines, s)))
    <3>1. s.line < Len(lines)
      BY <1>1, <1>5, <2>2 DEF CopyFails
    <3>2. LineAt(lines, s) \in Seq(Letters) /\ Len(LineAt(lines, s)) \in Nat
      BY <1>1, <3>1, LineFacts DEF LineAt
    <3>3. s.column <= Len(LineAt(lines, s))
      BY <1>1, <2>2, <3>2
    <3> DEFINE x == PartOfLine(LineAt(lines, s), s.column, Min2(Len(LineAt(lines, s)), n))
               y == Right(LineAt(lines, s), s.column)
    <3>4. x \in Seq(Letters) /\ y \in Seq(Letters)
      BY <1>1, <1>2, <3>2, <3>3, LineOfPart
    <3>5. top = <<x>> \/ top = <<y>>
      BY <2>2 DEF CopyTop
    <3> HIDE DEF x, y, top
    <3>6. <<x>> \in Lines /\ <<y>> \in Lines
      BY <3>4, FlatOne
    <3> QED
      BY <3>5, <3>6
  <2> QED
    BY <2>1, <2>2
<1>6. body \in Lines
  <2>1. CopyFirst(s) + 1 \in Nat /\ CopyFirst(s) + 1 >= 1
    BY <1>1
  <2>2. SubSeq(lines, CopyFirst(s) + 1, j) \in Seq(Seq(Letters))
    BY <1>1, <2>1, PieceFacts DEF Lines
  <2> QED
    BY <2>2 DEF CopyBody, Lines, j
<1>7. ASSUME ~ CopyFails(s, e) PROVE last \in Lines
  <2>1. CASE CopyFirst(s) <= j /\ e.column # 0
    <3>1. j < Len(lines)
      BY <1>1, <1>7, <2>1 DEF CopyFails, j
    <3>2. lines[j + 1] \in Seq(Letters)
      BY <1>1, <3>1, LineFacts
    <3> DEFINE x == Left(lines[j + 1], Min2(Len(lines[j + 1]), n))
    <3>3. x \in Seq(Letters)
      BY <1>2, <3>2, LineOfPart
    <3>4. last = <<x>>
      BY <2>1 DEF CopyLast, j
    <3> HIDE DEF x, last
    <3> QED
      BY <3>3, <3>4, FlatOne
  <2>2. CASE ~ (CopyFirst(s) <= j /\ e.column # 0)
    BY <1>4, <2>2 DEF CopyLast, j
  <2> QED
    BY <2>1, <2>2
<1> HIDE DEF top, body, last, d
<1>8. ASSUME ~ CopyFails(s, e) PROVE (top \o body) \o last \in Lines
  <2>1. top \o body \in Lines
    BY <1>5, <1>6, <1>8, FlatJoin
  <2>2. PICK x : x = top \o body
    OBVIOUS
  <2>3. x \o last \in Lines
    BY <1>7, <1>8, <2>1, <2>2, FlatJoin
  <2> QED
    BY <2>2, <2>3
<1>9. d.outcome \in Outcomes /\ d.lines \in Lines
  BY <1>3, <1>4, <1>8 DEF Outcomes
<1> QED
  BY <1>9 DEF d


\* The lines before the last one continue the text before the start of the range.
LEMMA CopyWhole ==
  ASSUME lines \in Lines, NEW s \in Places, NEW e \in Places, NEW n \in Nat,
         InText(lines, s), s.column > 0 => s.column < Len(LineAt(lines, s)),
         CopyFirst(s) <= CopyEnd(e)
  PROVE  /\ CopyTop(s, e, n) \o CopyBody(s, e) \in Lines
         /\ Flat(Left(lines, CopyEnd(e))) =
              (Flat(Left(lines, s.line)) \o LinePart(s))
              \o Flat(CopyTop(s, e, n) \o CopyBody(s, e))
<1> DEFINE k == s.line
           j == CopyEnd(e)
           a == Left(lines, k)
           line == LineAt(lines, s)
           top == CopyTop(s, e, n)
           body == CopyBody(s, e)
           f == CopyFirst(s)
<1>1. /\ k \in Nat /\ s.column \in Nat /\ Len(lines) \in Nat /\ f \in Nat /\ j \in Nat
      /\ j <= Len(lines) /\ f <= j /\ k < Len(lines) /\ k <= f
      /\ lines \in Seq(Seq(Letters))
  BY CopyPlaces DEF InText, CopyFirst, Lines
<1>2. a \in Lines /\ line \in Seq(Letters) /\ Len(line) \in Nat
  BY <1>1, LineFacts DEF LineAt
<1>3. LinePart(s) = Left(line, s.column)
  <2>1. InLine(s).column = s.column
    BY <1>1, InLineFacts DEF InText, LineAt
  <2> QED
    BY <2>1 DEF LinePart
<1>4. Left(lines, f) \o body = Left(lines, j) /\ Left(lines, f) \in Lines /\ body \in Lines
  <2>1. f + 1 \in Nat /\ f + 1 >= 1 /\ f <= Len(lines) /\ 1 <= f + 1 /\ 1 \in Nat /\ 1 >= 1
    BY <1>1
  <2>2. SubSeq(lines, 1, f) \o SubSeq(lines, f + 1, j) = SubSeq(lines, 1, j)
    BY <1>1, <2>1, PiecesJoin, ZenonT(60)
  <2>3. SubSeq(lines, f + 1, j) \in Seq(Seq(Letters))
    BY <1>1, <2>1, PieceFacts
  <2>4. Left(lines, f) \in Seq(Seq(Letters))
    BY <1>1, <2>1, Halves
  <2> QED
    BY <2>2, <2>3, <2>4 DEF Left, CopyBody, Lines
<1>5. Flat(Left(lines, j)) = Flat(Left(lines, f)) \o Flat(body)
  <2>1. PICK x : x = Left(lines, f)
    OBVIOUS
  <2>2. x \in Lines /\ body \in Lines
    BY <1>4, <2>1
  <2>3. Flat(x \o body) = Flat(x) \o Flat(body)
    BY <2>2, FlatJoin
  <2> QED
    BY <1>4, <2>1, <2>3
<1>6. Flat(a) \in Seq(Chars) /\ Flat(body) \in Seq(Chars)
  BY <1>2, <1>4, FlatType
<1>7. CASE s.column = 0
  <2>1. LinePart(s) = <<>>
    BY <1>2, <1>3, <1>7, WholeHalves
  <2>2. top = <<>> /\ f = k
    BY <1>7 DEF CopyTop, CopyFirst
  <2>3. <<>> \o body = body
    <3>1. body \in Seq(Seq(Letters))
      BY <1>4 DEF Lines
    <3> HIDE DEF body
    <3> QED
      BY <3>1, ConcatEmptySeq
  <2>4. Flat(a) \o <<>> = Flat(a)
    BY <1>6, ConcatEmptySeq
  <2> HIDE DEF body, top, f, j
  <2> QED
    BY <1>4, <1>5, <2>1, <2>2, <2>3, <2>4 DEF body, top, f, j
<1>8. CASE s.column > 0
  <2> DEFINE l == Left(line, s.column)
             r == Right(line, s.column)
  <2>1. f = k + 1
    BY <1>8 DEF CopyFirst
  <2>2. top = <<r>>
    <3>1. ~ (s.column = 0 \/ s.column >= Len(line))
      BY <1>1, <1>2, <1>8
    <3>2. s.line # CopyEnd(e)
      BY <1>1, <2>1
    <3> QED
      BY <3>1, <3>2 DEF CopyTop
  <2>3. l \in Seq(Letters) /\ r \in Seq(Letters) /\ l \o r = line
    <3>1. s.column <= Len(line)
      BY <1>1, <1>2, <1>8
    <3> HIDE DEF line
    <3> QED
      BY <1>1, <1>2, <3>1, Halves, HalvesJoin
  <2>4. Left(lines, f) = a \o <<line>>
    <3>1. lines = a \o (<<line>> \o Right(lines, f)) /\ Right(lines, f) \in Lines /\ Len(a) = k
      BY <1>1, <2>1, LineFacts, ZenonT(60) DEF LineAt
    <3>2. PICK o, b : o = <<line>> /\ b = Right(lines, f)
      OBVIOUS
    <3>3. o \in Lines /\ Len(o) = 1
      BY <1>2, <3>2, FlatOne
    <3> HIDE DEF a, f, line
    <3>4. a \in Seq(Seq(Letters)) /\ o \in Seq(Seq(Letters)) /\ b \in Seq(Seq(Letters))
      BY <1>2, <3>1, <3>2, <3>3 DEF Lines
    <3>5. (a \o o) \o b = a \o (o \o b)
      BY <3>4, ConcatAssociative, SMTT(60)
    <3>6. a \o o \in Seq(Seq(Letters)) /\ Len(a \o o) = Len(a) + Len(o)
      BY <3>4, ConcatProperties
    <3>7. PICK c : c = a \o o
      OBVIOUS
    <3>8. Left(c \o b, Len(c)) = c
      BY <3>4, <3>6, <3>7, JoinIsHalves
    <3>9. lines = c \o b /\ Len(c) = f
      BY <1>1, <2>1, <3>1, <3>2, <3>3, <3>5, <3>6, <3>7
    <3> QED
      BY <3>2, <3>7, <3>8, <3>9
  <2> HIDE DEF l, r, a, line, body, top, f, j
  <2>5. <<line>> \in Lines /\ Flat(<<line>>) = line \o <<NL>>
    BY <1>2, FlatOne, EndedType
  <2>6. Flat(a \o <<line>>) = Flat(a) \o (line \o <<NL>>)
    BY <1>2, <2>5, FlatJoin
  <2>7. <<r>> \in Lines /\ Flat(<<r>>) = r \o <<NL>>
    BY <2>3, FlatOne, EndedType
  <2>8. <<r>> \o body \in Lines /\ Flat(<<r>> \o body) = (r \o <<NL>>) \o Flat(body)
    BY <1>4, <2>7, FlatJoin
  <2>9. l \in Seq(Chars) /\ r \in Seq(Chars) /\ <<NL>> \in Seq(Chars)
    BY <2>3, EndedType
  <2>10. (Flat(a) \o ((l \o r) \o <<NL>>)) \o Flat(body) =
           (Flat(a) \o l) \o ((r \o <<NL>>) \o Flat(body))
    <3>1. PICK fa, n1, fb : fa = Flat(a) /\ n1 = <<NL>> /\ fb = Flat(body)
      OBVIOUS
    <3>2. AreTexts(fa, l, r, n1, fb)
      BY <1>6, <2>9, <3>1 DEF AreTexts
    <3>3. (fa \o ((l \o r) \o n1)) \o fb = (fa \o l) \o ((r \o n1) \o fb)
      BY <3>2, RegroupTail, SMTT(60)
    <3> QED
      BY <3>1, <3>3
  <2>11. Flat(Left(lines, j)) = (Flat(a) \o l) \o Flat(top \o body)
    BY <1>5, <2>2, <2>3, <2>4, <2>6, <2>8, <2>10
  <2> QED
    BY <1>3, <2>2, <2>8, <2>11 DEF l, a, body, top, j, k
<1> QED
  BY <1>1, <1>7, <1>8


\* A piece is what two starts of a text differ in.
LEMMA PieceBetween ==
  ASSUME NEW S, NEW s \in Seq(S), NEW i \in Nat, i <= Len(s), NEW j \in Nat, j <= Len(s),
         NEW x \in Seq(S), NEW y \in Seq(S), Left(s, i) = x, Left(s, j) = x \o y
  PROVE  Piece(s, i, j) = y
<1> DEFINE z == SubSeq(s, i + 1, j)
<1>1. Len(x) = i /\ Len(x \o y) = j
  BY Halves
<1>2. Len(x \o y) = Len(x) + Len(y) /\ Len(y) \in Nat
  BY ConcatProperties
<1>3. i <= j /\ i + 1 \in Nat /\ i + 1 >= 1 /\ 1 \in Nat /\ 1 >= 1 /\ 1 <= i + 1
  BY <1>1, <1>2
<1>4. SubSeq(s, 1, i) \o SubSeq(s, i + 1, j) = SubSeq(s, 1, j)
  BY <1>3, PiecesJoin
<1>5. x \o z = x \o y
  BY <1>4 DEF Left
<1>6. z \in Seq(S)
  BY <1>3, PieceFacts
<1> HIDE DEF z
<1>7. Right(x \o z, Len(x)) = z /\ Right(x \o y, Len(x)) = y
  BY <1>6, JoinIsHalves
<1> QED
  BY <1>5, <1>7 DEF Piece, z

\* Where the copied characters end.
CopyTo(e, n) == IF e.column # 0 THEN Place(e.line, n) ELSE e

LEMMA CopyRangeTakes ==
  ASSUME lines \in Lines, NEW s \in Places, NEW e \in Places, NEW including,
         InText(lines, s), s.column > 0 => s.column < Len(LineAt(lines, s)), ~ Before(e, s),
         e.line < Len(lines) \/ e.column = 0,
         NEW n, n = CopyBehind(e, including)
  PROVE  /\ CopyRange(s, e, including).outcome = "ok"
         /\ Flat(CopyRange(s, e, including).lines) =
              Piece(Text, Offset(lines, s), Offset(lines, CopyTo(e, n)))
              \o (IF e.column # 0 THEN <<NL>> ELSE <<>>)
<1> DEFINE k == s.line
           j == CopyEnd(e)
           line == LineAt(lines, s)
           a == Left(lines, k)
           top == CopyTop(s, e, n)
           body == CopyBody(s, e)
           last == CopyLast(s, e, n)
           to == CopyTo(e, n)
           P == Flat(a) \o LinePart(s)
           i == Offset(lines, s)
           o == Offset(lines, to)
           d == CopyRange(s, e, including)
<1>1. /\ k \in Nat /\ s.column \in Nat /\ e.line \in Nat /\ e.column \in Nat
      /\ Len(lines) \in Nat /\ CopyFirst(s) \in Nat /\ j \in Nat /\ j <= Len(lines)
      /\ k < Len(lines) /\ lines \in Seq(Seq(Letters))
  BY CopyPlaces DEF InText, Lines
<1>2. n \in Nat /\ n >= e.column
  BY <1>1 DEF CopyBehind
<1>3. /\ e.line >= k /\ (e.line = k => e.column >= s.column)
      /\ e.line < Len(lines) => j = e.line
      /\ e.line >= Len(lines) => j = Len(lines)
  BY <1>1 DEF Before, CopyEnd, Min2
<1>4. k <= j /\ ~ CopyFails(s, e)
  BY <1>1, <1>3 DEF CopyFails
<1>5. d = [lines |-> (top \o body) \o last, outcome |-> "ok"]
  <2>1. ~ (s.line > CopyEnd(e) + 1)
    BY <1>1, <1>4
  <2> QED
    BY <1>4, <2>1, CopyIs
<1>6. to \in Places
  BY <1>1, <1>2 DEF CopyTo, Place, Places
<1>7. Left(Text, i) = P /\ i \in Nat /\ i <= Len(Text)
  BY <1>1, PlaceInLine DEF Text, LinePart, LineAt
<1>8. line \in Seq(Letters) /\ Len(line) \in Nat /\ a \in Lines
  BY <1>1, LineFacts DEF LineAt
<1>9. Flat(a) \in Seq(Chars) /\ Text \in Seq(Chars)
  BY <1>8, FlatType DEF Text
<1>10. LinePart(s) \in Seq(Letters) /\ LinePart(s) \in Seq(Chars)
  <2>1. LinePart(s) \in Seq(Letters)
    BY <1>1, InsertParts
  <2> QED
    BY <2>1, EndedType
<1>11. P \in Seq(Chars)
  BY <1>9, <1>10, ConcatProperties
<1>12. s.column <= Len(line) /\ LinePart(s) = Left(line, s.column)
  <2>1. InLine(s).column = s.column
    BY <1>1, InLineFacts DEF InText, LineAt
  <2> QED
    BY <2>1 DEF LinePart, InText
<1>13. <<NL>> \in Seq(Chars)
  BY DEF Chars
<1> HIDE DEF k, j, line, a, top, body, last, to, P, i, o, d
<1>14. CASE CopyFirst(s) <= j /\ e.column # 0
  <2>1. e.line = j /\ j < Len(lines) /\ to.line = j
    BY <1>1, <1>3, <1>14 DEF to, CopyTo, Place
  <2>2. to = Place(j, n)
    BY <1>14, <2>1 DEF to, CopyTo
  <2> DEFINE E == Left(lines[j + 1], Min2(Len(lines[j + 1]), n))
             M == top \o body
             x == Flat(M)
  <2>3. M \in Lines /\ Flat(Left(lines, j)) = P \o x
    BY <1>2, <1>14, CopyWhole DEF top, body, j, P, a, k
  <2>4. lines[j + 1] \in Seq(Letters) /\ Len(lines[j + 1]) \in Nat
    BY <1>1, <2>1, LineFacts
  <2>5. E \in Seq(Letters) /\ E \in Seq(Chars)
    <3>1. E \in Seq(Letters)
      BY <1>2, <2>4, LineOfPart
    <3> HIDE DEF E
    <3> QED
      BY <3>1, EndedType
  <2>6. LinePart(to) = E
    <3>1. to.column = n /\ LineAt(lines, to) = lines[j + 1]
      BY <2>1, <2>2 DEF Place, LineAt
    <3>2. InLine(to).column = Min2(n, Len(lines[j + 1]))
      BY <2>1, <3>1 DEF InLine, Place
    <3>3. Min2(n, Len(lines[j + 1])) = Min2(Len(lines[j + 1]), n)
      BY <1>2, <2>4 DEF Min2
    <3> QED
      BY <3>1, <3>2, <3>3 DEF LinePart
  <2>7. Left(Text, o) = Flat(Left(lines, j)) \o E /\ o \in Nat /\ o <= Len(Text)
    BY <1>6, <2>1, <2>6, PlaceInLine DEF Text, LinePart, LineAt, o
  <2>8. last = <<E>>
    BY <1>14 DEF last, CopyLast, j
  <2> HIDE DEF E, M
  <2>9. x \in Seq(Chars)
    BY <2>3, FlatType
  <2> HIDE DEF x
  <2>10. (P \o x) \o E = P \o (x \o E)
    <3>1. P \in Seq(Chars) /\ x \in Seq(Chars) /\ E \in Seq(Chars)
      BY <1>11, <2>5, <2>9
    <3> QED
      BY <3>1, ConcatAssociative
  <2>11. x \o E \in Seq(Chars)
    BY <2>5, <2>9, ConcatProperties
  <2>12. Piece(Text, i, o) = x \o E
    <3>1. PICK y : y = x \o E
      OBVIOUS
    <3>2. y \in Seq(Chars) /\ Left(Text, o) = P \o y
      BY <2>3, <2>7, <2>10, <2>11, <3>1
    <3>3. Piece(Text, i, o) = y
      BY <1>7, <1>9, <1>11, <2>7, <3>2, PieceBetween
    <3> QED
      BY <3>1, <3>3
  <2>13. Flat(M \o <<E>>) = x \o (E \o <<NL>>)
    <3>1. <<E>> \in Lines /\ Flat(<<E>>) = E \o <<NL>>
      BY <2>5, FlatOne, EndedType
    <3> QED
      BY <2>3, <3>1, FlatJoin DEF x
  <2>14. (x \o E) \o <<NL>> = x \o (E \o <<NL>>)
    <3>1. x \in Seq(Chars) /\ E \in Seq(Chars) /\ <<NL>> \in Seq(Chars)
      BY <1>13, <2>5, <2>9
    <3> QED
      BY <3>1, ConcatAssociative
  <2>15. d.outcome = "ok" /\ d.lines = M \o <<E>>
    BY <1>5, <2>8 DEF M
  <2> QED
    BY <1>14, <2>12, <2>13, <2>14, <2>15 DEF d, i, o, to
<1>15. CASE CopyFirst(s) <= j /\ e.column = 0
  <2> DEFINE M == top \o body
             x == Flat(M)
  <2>1. to = e
    BY <1>15 DEF to, CopyTo
  <2>2. M \in Lines /\ Flat(Left(lines, j)) = P \o x
    BY <1>2, <1>15, CopyWhole DEF top, body, j, P, a, k
  <2>3. last = <<>>
    BY <1>15 DEF last, CopyLast
  <2>4. Left(Text, o) = Flat(Left(lines, j)) /\ o \in Nat /\ o <= Len(Text)
    <3>1. CASE e.line < Len(lines)
      <4>1. j = e.line
        BY <1>3, <3>1
      <4>2. Len(LineAt(lines, e)) \in Nat /\ LineAt(lines, e) \in Seq(Letters)
        BY <1>1, <3>1, LineFacts DEF LineAt
      <4>3. InLine(e).column = 0
        BY <1>15, <3>1, <4>2 DEF InLine, Place, Min2
      <4>4. LinePart(e) = <<>>
        BY <4>2, <4>3, WholeHalves DEF LinePart
      <4>5. Left(Text, o) = Flat(Left(lines, e.line)) \o LinePart(e)
            /\ o \in Nat /\ o <= Len(Text)
        BY <2>1, <3>1, PlaceInLine DEF Text, LinePart, LineAt, o
      <4>6. Flat(Left(lines, e.line)) \in Seq(Chars)
        BY <1>1, <3>1, LineFacts, FlatType
      <4>7. Flat(Left(lines, e.line)) \o <<>> = Flat(Left(lines, e.line))
        BY <4>6, ConcatEmptySeq
      <4> QED
        BY <4>1, <4>4, <4>5, <4>7
    <3>2. CASE e.line >= Len(lines)
      <4>1. j = Len(lines) /\ ~ (e.line < Len(lines))
        BY <1>1, <1>3, <3>2
      <4>2. Left(lines, j) = lines
        BY <1>1, <4>1, WholeHalves
      <4>3. o = Len(Text) /\ Left(Text, o) = Text
        BY <2>1, <4>1, PlaceAtEnd DEF Text, o
      <4>4. o \in Nat
        BY <1>9, <4>3
      <4> QED
        BY <1>9, <4>2, <4>3, <4>4 DEF Text
    <3> QED
      BY <1>1, <3>1, <3>2
  <2> HIDE DEF M
  <2>5. x \in Seq(Chars)
    BY <2>2, FlatType
  <2> HIDE DEF x
  <2>6. Piece(Text, i, o) = x
    <3>1. Left(Text, o) = P \o x
      BY <2>2, <2>4
    <3> QED
      BY <1>7, <1>9, <1>11, <2>4, <2>5, <3>1, PieceBetween
  <2>7. M \o <<>> = M /\ x \o <<>> = x
    <3>1. M \in Seq(Seq(Letters))
      BY <2>2 DEF Lines
    <3> QED
      BY <2>5, <3>1, ConcatEmptySeq
  <2>8. d.outcome = "ok" /\ d.lines = M
    BY <1>5, <2>3, <2>7 DEF M
  <2> QED
    BY <1>15, <2>6, <2>7, <2>8 DEF d, i, o, to, x
<1>16. CASE ~ (CopyFirst(s) <= j)
  <2>1. s.column > 0 /\ k = j /\ e.line = k /\ e.column >= s.column /\ e.column # 0
        /\ s.column < Len(line)
    BY <1>1, <1>3, <1>4, <1>16 DEF CopyFirst, k, line
  <2>2. PICK c : c = Min2(Len(line), n)
    OBVIOUS
  <2>3. c \in Nat /\ c <= Len(line) /\ s.column <= c
    BY <1>1, <1>2, <1>8, <2>1, <2>2 DEF Min2
  <2> DEFINE E == SubSeq(line, s.column + 1, c)
  <2>4. top = <<E>>
    <3>1. PartOfLine(line, s.column, c) = E
      <4>1. ~ (c < s.column)
        BY <1>1, <2>3
      <4> QED
        BY <4>1 DEF PartOfLine, Piece
    <3>2. top = <<PartOfLine(line, s.column, c)>>
      BY <1>1, <1>8, <2>1, <2>2 DEF top, CopyTop, line, k, j
    <3> QED
      BY <3>1, <3>2
  <2>5. body = <<>>
    <3>1. CopyFirst(s) + 1 \in Nat /\ CopyFirst(s) + 1 >= 1 /\ j < CopyFirst(s) + 1
      BY <1>1, <1>16
    <3>2. SubSeq(lines, CopyFirst(s) + 1, j) = <<>>
      BY <1>1, <3>1, PieceEmpty
    <3> QED
      BY <3>2 DEF body, CopyBody, j
  <2>6. last = <<>>
    BY <1>16 DEF last, CopyLast, j
  <2>7. E \in Seq(Letters) /\ Left(line, s.column) \o E = Left(line, c)
    <3>1. s.column + 1 \in Nat /\ s.column + 1 >= 1 /\ 1 \in Nat /\ 1 >= 1 /\ 1 <= s.column + 1
      BY <1>1
    <3>2. SubSeq(line, 1, s.column) \o SubSeq(line, s.column + 1, c) = SubSeq(line, 1, c)
      <4>1. PICK q : q = s.column
        OBVIOUS
      <4>2. /\ line \in Seq(Letters) /\ q \in Nat /\ c \in Nat /\ 1 <= q + 1 /\ q <= c
            /\ c <= Len(line)
        BY <1>1, <1>8, <2>3, <4>1
      <4>3. SubSeq(line, 1, q) \o SubSeq(line, q + 1, c) = SubSeq(line, 1, c)
        BY <4>2, PiecesJoin
      <4> QED
        BY <4>1, <4>3
    <3>3. E \in Seq(Letters)
      BY <1>8, <2>3, <3>1, PieceFacts
    <3> QED
      BY <3>2, <3>3 DEF Left
  <2>8. to.line = k /\ to.column = n /\ LineAt(lines, to) = line
    BY <2>1 DEF to, CopyTo, Place, LineAt, line, k
  <2>9. LinePart(to) = Left(line, c)
    <3>1. InLine(to).column = Min2(n, Len(line))
      BY <1>1, <2>8 DEF InLine, Place, k
    <3>2. Min2(n, Len(line)) = c
      BY <1>2, <1>8, <2>2 DEF Min2
    <3> QED
      BY <2>8, <3>1, <3>2 DEF LinePart
  <2>10. Left(Text, o) = Flat(a) \o Left(line, c) /\ o \in Nat /\ o <= Len(Text)
    <3>1. to.line < Len(lines)
      BY <1>1, <2>8
    <3>2. Left(Text, o) = Flat(Left(lines, to.line)) \o LinePart(to)
          /\ o \in Nat /\ o <= Len(Text)
      BY <1>6, <3>1, PlaceInLine DEF Text, LinePart, LineAt, o
    <3> QED
      BY <2>8, <2>9, <3>2 DEF a
  <2> HIDE DEF E
  <2>11. E \in Seq(Chars)
    BY <2>7, EndedType
  <2>12. (Flat(a) \o LinePart(s)) \o E = Flat(a) \o (LinePart(s) \o E)
    <3>1. Flat(a) \in Seq(Chars) /\ LinePart(s) \in Seq(Chars) /\ E \in Seq(Chars)
      BY <1>9, <1>10, <2>11
    <3> QED
      BY <3>1, ConcatAssociative
  <2>13. Left(Text, o) = P \o E
    BY <1>12, <2>7, <2>10, <2>12 DEF P
  <2>14. Piece(Text, i, o) = E
    <3>1. o \in Nat /\ o <= Len(Text)
      BY <2>10
    <3> QED
      BY <1>7, <1>9, <1>11, <2>11, <2>13, <3>1, PieceBetween
  <2>15. <<E>> \in Lines /\ Flat(<<E>>) = E \o <<NL>>
    BY <2>7, FlatOne, EndedType
  <2>16. (<<E>> \o <<>>) \o <<>> = <<E>>
    <3>1. <<E>> \in Seq(Seq(Letters))
      BY <2>15 DEF Lines
    <3>2. PICK x : x = <<E>>
      OBVIOUS
    <3>3. x \in Seq(Seq(Letters))
      BY <3>1, <3>2
    <3>4. x \o <<>> = x
      BY <3>3, ConcatEmptySeq
    <3> QED
      BY <3>2, <3>4
  <2>17. d.outcome = "ok" /\ d.lines = <<E>>
    BY <1>5, <2>4, <2>5, <2>6, <2>16
  <2> QED
    BY <2>1, <2>14, <2>15, <2>17 DEF d, i, o, to
<1> QED
  BY <1>14, <1>15, <1>16


------------------------------------------------------------------------------
(* Replacing. *)

\* What ReplaceFirst makes of the text behind offset k, from what f says of later offsets.
Replaced(text, word, new, n, f, k) ==
  [m \in 0 .. n |->
     IF m = 0 \/ k = Len(text) THEN Right(text, k)
     ELSE IF k \in Hits(word, text) THEN new \o f[k + Len(word)][m - 1]
     ELSE <<text[k + 1]>> \o f[k + 1][m]]

IsReplacing(text, word, new, n, f, low) ==
  f = [k \in low .. Len(text) |-> Replaced(text, word, new, n, f, k)]

LEMMA ReplacedAgrees ==
  ASSUME NEW S, NEW text \in Seq(S), NEW word \in Seq(S), word # <<>>, NEW new, NEW n,
         NEW k \in 0 .. Len(text), NEW f, NEW g,
         \A i \in k + 1 .. Len(text) : f[i] = g[i]
  PROVE  Replaced(text, word, new, n, f, k) = Replaced(text, word, new, n, g, k)
<1>1. Len(word) \in Nat /\ Len(word) >= 1 /\ Len(text) \in Nat
  BY EmptySeq
<1>2. k \in Hits(word, text) => k + Len(word) \in k + 1 .. Len(text)
  BY <1>1 DEF Hits
<1>3. k # Len(text) => k + 1 \in k + 1 .. Len(text)
  BY <1>1
<1>4. k \in Hits(word, text) => f[k + Len(word)] = g[k + Len(word)]
  BY <1>2
<1>5. k # Len(text) => f[k + 1] = g[k + 1]
  BY <1>3
<1> QED
  BY <1>4, <1>5 DEF Replaced

LEMMA ReplacingExists ==
  ASSUME NEW S, NEW text \in Seq(S), NEW word \in Seq(S), word # <<>>, NEW new, NEW n
  PROVE  \E f : IsReplacing(text, word, new, n, f, 0)
<1> DEFINE L == Len(text)
           R(f, k) == Replaced(text, word, new, n, f, k)
           Is(f, low) == IsReplacing(text, word, new, n, f, low)
           Bad == {d \in 0 .. L : ~ \E f : Is(f, L - d)}
<1>1. L \in Nat
  OBVIOUS
<1>2. ASSUME Bad # {} PROVE FALSE
  <2>1. PICK d \in Bad : \A e \in Bad : d <= e
    <3>1. Bad \subseteq Nat
      OBVIOUS
    <3> HIDE DEF Bad
    <3> QED
      BY <1>2, <3>1, HasLeast
  <2>2. d \in 0 .. L /\ ~ \E f : Is(f, L - d)
    BY <2>1
  <2>3. PICK low : low = L - d
    OBVIOUS
  <2>4. low \in 0 .. L
    BY <1>1, <2>2, <2>3
  <2>5. \E f : \A k \in low + 1 .. L : f[k] = R(f, k)
    <3>1. CASE d = 0
      BY <1>1, <2>3, <3>1
    <3>2. CASE d # 0
      <4>1. d - 1 \in 0 .. L /\ L - (d - 1) = low + 1 /\ ~ (d <= d - 1)
        BY <1>1, <2>2, <2>3, <3>2
      <4>2. d - 1 \notin Bad
        <5> HIDE DEF Bad
        <5> QED
          BY <2>1, <4>1
      <4>3. PICK f : Is(f, low + 1)
        BY <4>1, <4>2
      <4>4. f = [k \in low + 1 .. L |-> R(f, k)]
        BY <4>3 DEF IsReplacing
      <4> HIDE DEF R
      <4>5. \A k \in low + 1 .. L : f[k] = R(f, k)
        BY <4>4
      <4> QED
        BY <4>5
    <3> QED
      BY <3>1, <3>2
  <2>6. PICK f : \A k \in low + 1 .. L : f[k] = R(f, k)
    BY <2>5
  <2> DEFINE g == [k \in low .. L |-> IF k = low THEN R(f, k) ELSE f[k]]
  <2>7. \A k \in low + 1 .. L : g[k] = f[k]
    <3> HIDE DEF R
    <3> QED
      BY <1>1, <2>4
  <2>8. ASSUME NEW k \in low .. L PROVE R(g, k) = R(f, k) /\ g[k] = R(f, k)
    <3>1. k \in 0 .. L
      BY <1>1, <2>4
    <3>2. \A i \in k + 1 .. L : g[i] = f[i]
      BY <1>1, <2>4, <2>7
    <3>3. R(g, k) = R(f, k)
      <4> HIDE DEF g
      <4> QED
        BY <3>1, <3>2, ReplacedAgrees
    <3>4. g[k] = R(f, k)
      <4> HIDE DEF R
      <4> QED
        BY <1>1, <2>4, <2>6
    <3> QED
      BY <3>3, <3>4
  <2>9. g = [k \in low .. L |-> R(g, k)]
    <3>1. \A k \in low .. L : g[k] = R(g, k)
      <4> HIDE DEF g, R
      <4> QED
        BY <2>8
    <3>2. g = [k \in low .. L |-> g[k]]
      <4> HIDE DEF R
      <4> QED
        OBVIOUS
    <3> HIDE DEF g, R
    <3> QED
      BY <3>1, <3>2
  <2>10. Is(g, low)
    <3> HIDE DEF g
    <3> QED
      BY <2>9 DEF IsReplacing
  <2> HIDE DEF g, Is
  <2> QED
    BY <2>2, <2>3, <2>10
<1>3. L \in 0 .. L /\ L - L = 0
  BY <1>1
<1>4. \E f : Is(f, L - L)
  BY <1>2, <1>3
<1> QED
  BY <1>3, <1>4

LEMMA ReplaceFirstType ==
  ASSUME NEW S, NEW text \in Seq(S), NEW word \in Seq(S), word # <<>>,
         NEW new \in Seq(S), NEW n \in Nat
  PROVE  ReplaceFirst(text, word, new, n) \in Seq(S)
<1> DEFINE L == Len(text)
           f == CHOOSE h : IsReplacing(text, word, new, n, h, 0)
           R(k) == Replaced(text, word, new, n, f, k)
           Bad == {d \in 0 .. L : \E m \in 0 .. n : f[L - d][m] \notin Seq(S)}
<1>1. ReplaceFirst(text, word, new, n) = f[0][n]
  BY DEF ReplaceFirst, IsReplacing, Replaced
<1>2. IsReplacing(text, word, new, n, f, 0)
  BY ReplacingExists
<1> HIDE DEF f
<1>3. L \in Nat /\ Len(word) \in Nat /\ Len(word) >= 1
  BY EmptySeq
<1>4. \A k \in 0 .. L : f[k] = R(k)
  <2>1. f = [k \in 0 .. L |-> R(k)]
    BY <1>2 DEF IsReplacing
  <2> HIDE DEF R
  <2> QED
    BY <2>1
<1>5. ASSUME Bad # {} PROVE FALSE
  <2>1. PICK d \in Bad : \A e \in Bad : d <= e
    <3>1. Bad \subseteq Nat
      OBVIOUS
    <3> HIDE DEF Bad
    <3> QED
      BY <1>5, <3>1, HasLeast
  <2>2. PICK k, m : k = L - d /\ m \in 0 .. n /\ f[k][m] \notin Seq(S)
    BY <2>1
  <2>3. d \in 0 .. L /\ k \in 0 .. L /\ k \in Nat
    BY <1>3, <2>1, <2>2
  <2>4. ASSUME NEW i \in k + 1 .. L, NEW o \in 0 .. n PROVE f[i][o] \in Seq(S)
    <3>1. L - i \in 0 .. L /\ L - (L - i) = i /\ ~ (d <= L - i)
      BY <1>3, <2>2, <2>3
    <3>2. L - i \notin Bad
      <4> HIDE DEF Bad
      <4> QED
        BY <2>1, <3>1
    <3> QED
      BY <3>1, <3>2
  <2>5. f[k][m] = IF m = 0 \/ k = L THEN Right(text, k)
                  ELSE IF k \in Hits(word, text) THEN new \o f[k + Len(word)][m - 1]
                  ELSE <<text[k + 1]>> \o f[k + 1][m]
    BY <1>4, <2>2, <2>3, ZenonT(60) DEF Replaced
  <2>6. Right(text, k) \in Seq(S)
    BY <1>3, <2>3, Halves
  <2>7. ASSUME k \in Hits(word, text), m # 0 PROVE new \o f[k + Len(word)][m - 1] \in Seq(S)
    <3>1. k + Len(word) \in k + 1 .. L /\ m - 1 \in 0 .. n
      BY <1>3, <2>2, <2>7 DEF Hits
    <3>2. PICK x : x = f[k + Len(word)][m - 1]
      OBVIOUS
    <3>3. x \in Seq(S)
      BY <2>4, <3>1, <3>2
    <3> QED
      BY <3>2, <3>3, ConcatProperties
  <2>8. ASSUME k # L PROVE <<text[k + 1]>> \o f[k + 1][m] \in Seq(S)
    <3>1. k + 1 \in k + 1 .. L /\ k + 1 \in 1 .. L
      BY <1>3, <2>3, <2>8
    <3>2. PICK x, y : x = f[k + 1][m] /\ y = <<text[k + 1]>>
      OBVIOUS
    <3>3. x \in Seq(S)
      BY <2>2, <2>4, <3>1, <3>2
    <3>4. text[k + 1] \in S
      BY <3>1
    <3>5. y \in Seq(S)
      BY <3>2, <3>4
    <3> QED
      BY <3>2, <3>3, <3>5, ConcatProperties
  <2> QED
    BY <2>2, <2>5, <2>6, <2>7, <2>8
<1>6. f[0][n] \in Seq(S)
  <2>1. L \in 0 .. L /\ L - L = 0 /\ n \in 0 .. n
    BY <1>3
  <2> QED
    BY <1>5, <2>1
<1> QED
  BY <1>1, <1>6


LEMMA ReplacementFacts ==
  ASSUME position \in Places, mark \in Places, NEW r \in Replacements
  PROVE  /\ r.word \in Seq(Letters) /\ r.word # <<>> /\ r.new \in Seq(Letters)
         /\ r.count \in Nat /\ r.start \in Places /\ r.end \in Places
<1>1. /\ r.word \in Words /\ r.new \in NewWords /\ r.count \in Counts
      /\ r.start \in {position, mark} /\ r.end \in {position, mark}
  BY DEF Replacements
<1>2. r.word \in Seq(Letters) /\ r.word # <<>> /\ r.new \in Seq(Letters) /\ r.count \in Nat
  BY <1>1, LineBufferAssumption
<1> QED
  BY <1>1, <1>2

LEMMA ReplaceEndType ==
  ASSUME lines \in Lines, position \in Places, mark \in Places, NEW r \in Replacements
  PROVE  ReplaceEnd(r) \in Places
<1>1. r.end \in Places /\ r.end.line + 1 \in Nat /\ position.line + 1 \in Nat
  BY ReplacementFacts DEF Places
<1>2. Place(r.end.line + 1, 0) \in Places /\ Place(position.line + 1, 0) \in Places
  BY <1>1, PlaceType
<1> QED
  BY <1>1, <1>2 DEF ReplaceEnd

LEMMA ReplaceInType ==
  ASSUME lines \in Lines, position \in Places, mark \in Places, NEW r \in Replacements,
         NEW k \in Nat, k < Len(lines),
         Hits(r.filter, lines[k + 1]) # {} /\ k = r.start.line
           => r.start.column <= Len(lines[k + 1])
  PROVE  ReplaceIn(r, k) \in Seq(Letters)
<1> DEFINE line == lines[k + 1]
           e == ReplaceEnd(r)
           i == r.start.column
           New(part) == ReplaceFirst(part, r.word, r.new, Min2(Max2(r.count, 1), Len(part)))
           end == IF e.line = k /\ e.column < Len(line) THEN e.column ELSE Len(line)
           x == PartOfLine(line, i, end)
           first == Left(line, i) \o New(x) \o Right(line, end)
           last == New(Left(line, e.column)) \o Right(line, e.column)
<1>1. line \in Seq(Letters) /\ Len(line) \in Nat
  BY LineFacts
<1>2. e.line \in Nat /\ e.column \in Nat /\ i \in Nat /\ r.start.line \in Nat
  <2>1. e \in Places /\ r.start \in Places
    BY ReplaceEndType, ReplacementFacts
  <2> HIDE DEF e
  <2> QED
    BY <2>1 DEF Places
<1>3. ASSUME NEW part \in Seq(Letters) PROVE New(part) \in Seq(Letters)
  <2>1. r.word \in Seq(Letters) /\ r.word # <<>> /\ r.new \in Seq(Letters) /\ r.count \in Nat
    BY ReplacementFacts
  <2>2. PICK n : n = Min2(Max2(r.count, 1), Len(part))
    OBVIOUS
  <2>3. n \in Nat
    BY <2>1, <2>2 DEF Min2, Max2
  <2>4. ReplaceFirst(part, r.word, r.new, n) \in Seq(Letters)
    BY <2>1, <2>3, ReplaceFirstType
  <2> QED
    BY <2>2, <2>4
<1>4. ReplaceIn(r, k) = IF Hits(r.filter, line) = {} \/ k < r.start.line THEN line
                        ELSE IF k = r.start.line /\ i > 0
                        THEN IF Hits(r.word, x) = {} THEN line ELSE first
                        ELSE IF k < e.line THEN New(line)
                        ELSE IF k = e.line /\ e.column > 0 THEN last ELSE line
  BY DEF ReplaceIn
<1> HIDE DEF line, e, i, New
<1>5. end \in Nat /\ end <= Len(line)
  BY <1>1, <1>2
<1> HIDE DEF end
<1>6. ASSUME i <= Len(line) PROVE first \in Seq(Letters)
  <2>1. Left(line, i) \in Seq(Letters) /\ Right(line, end) \in Seq(Letters)
    BY <1>1, <1>2, <1>5, <1>6, Halves
  <2>2. x \in Seq(Letters)
    <3>1. Min2(Len(line), end) = end
      BY <1>1, <1>5 DEF Min2
    <3> QED
      BY <1>1, <1>2, <1>5, <1>6, <3>1, LineOfPart
  <2> HIDE DEF x
  <2>3. PICK p1, p2, p3 : p1 = Left(line, i) /\ p2 = New(x) /\ p3 = Right(line, end)
    OBVIOUS
  <2>4. p1 \in Seq(Letters) /\ p2 \in Seq(Letters) /\ p3 \in Seq(Letters)
    BY <1>3, <2>1, <2>2, <2>3
  <2>5. p1 \o p2 \in Seq(Letters)
    BY <2>4, ConcatProperties
  <2>6. (p1 \o p2) \o p3 \in Seq(Letters)
    BY <2>4, <2>5, ConcatProperties
  <2> QED
    BY <2>3, <2>6
<1>7. ASSUME k = e.line PROVE last \in Seq(Letters)
  <2>1. e.column <= Len(line)
    <3>1. r.end \in Places
      BY ReplacementFacts
    <3>2. r.end.line \in Nat /\ r.end.column \in Nat
      BY <3>1 DEF Places
    <3>3. CASE r.inline
      BY <1>1, <3>3 DEF e, ReplaceEnd, Place
    <3>4. CASE ~ r.inline /\ r.end.line < Len(lines) /\ Len(LineAt(lines, r.end)) <= r.end.column
      BY <1>1, <3>4 DEF e, ReplaceEnd, Place
    <3>5. CASE ~ r.inline /\ ~ (r.end.line < Len(lines) /\ Len(LineAt(lines, r.end)) <= r.end.column)
      <4>1. e = r.end
        BY <3>5 DEF e, ReplaceEnd
      <4>2. r.end.line < Len(lines) /\ LineAt(lines, r.end) = line
        BY <1>7, <4>1 DEF LineAt, line
      <4> QED
        BY <1>1, <3>2, <3>5, <4>1, <4>2
    <3> QED
      BY <3>3, <3>4, <3>5
  <2>2. Left(line, e.column) \in Seq(Letters) /\ Right(line, e.column) \in Seq(Letters)
    BY <1>1, <1>2, <2>1, Halves
  <2>3. PICK p1, p2 : p1 = New(Left(line, e.column)) /\ p2 = Right(line, e.column)
    OBVIOUS
  <2>4. p1 \in Seq(Letters) /\ p2 \in Seq(Letters)
    BY <1>3, <2>2, <2>3
  <2> QED
    BY <2>3, <2>4, ConcatProperties
<1> HIDE DEF first, last, x
<1>8. ASSUME ~ (Hits(r.filter, line) = {} \/ k < r.start.line), k = r.start.line /\ i > 0
      PROVE  first \in Seq(Letters)
  <2>1. i <= Len(line)
    BY <1>8 DEF line, i
  <2> QED
    BY <1>6, <2>1
<1>9. New(line) \in Seq(Letters)
  BY <1>1, <1>3
<1> QED
  BY <1>1, <1>4, <1>7, <1>8, <1>9

------------------------------------------------------------------------------
(* The types. *)

LEMMA FarType == Far \in Nat
BY SMT DEF Far

LEMMA ReplaceEdit ==
  ASSUME TypeOK, NEW r \in Replacements, Replace(r)
  PROVE  lines' \in Lines /\ outcome' \in Outcomes
<1> DEFINE ls == [k \in DOMAIN lines |-> ReplaceIn(r, k - 1)]
           fails == InText(lines, Place(r.start.line, 0))
                    /\ Hits(r.filter, LineAt(lines, r.start)) # {}
                    /\ r.start.column > Len(LineAt(lines, r.start))
<1>1. lines \in Lines /\ position \in Places /\ mark \in Places
  BY DEF TypeOK
<1>2. DOMAIN lines = 1 .. Len(lines) /\ Len(lines) \in Nat
  BY <1>1 DEF Lines
<1>3. CASE fails
  BY <1>1, <1>3 DEF Replace, Edit, Fails, Outcomes
<1>4. CASE ~ fails
  <2>1. lines' = ls /\ outcome' = "ok"
    BY <1>4 DEF Replace, Edit, Done
  <2>2. ASSUME NEW n \in 1 .. Len(lines) PROVE ReplaceIn(r, n - 1) \in Seq(Letters)
    <3>1. PICK k \in Nat : k = n - 1 /\ k < Len(lines) /\ n = k + 1
      BY <1>2
    <3>2. ASSUME Hits(r.filter, lines[k + 1]) # {}, k = r.start.line
          PROVE  r.start.column <= Len(lines[k + 1])
      <4>1. LineAt(lines, r.start) = lines[k + 1] /\ Len(lines[k + 1]) \in Nat
        BY <1>1, <3>1, <3>2, LineFacts DEF LineAt
      <4>2. InText(lines, Place(r.start.line, 0))
        BY <3>1, <3>2, <4>1 DEF InText, Place, LineAt
      <4>3. r.start.column \in Nat
        <5>1. r.start \in Places
          BY <1>1, ReplacementFacts
        <5> QED
          BY <5>1 DEF Places
      <4> QED
        BY <1>4, <3>2, <4>1, <4>2, <4>3
    <3>3. ReplaceIn(r, k) \in Seq(Letters)
      BY <1>1, <3>1, <3>2, ReplaceInType
    <3> QED
      BY <3>1, <3>3
  <2>3. ls \in Seq(Seq(Letters))
    <3>1. ls = [n \in 1 .. Len(lines) |-> ReplaceIn(r, n - 1)]
      BY <1>2
    <3> QED
      BY <1>2, <2>2, <3>1, IsASeq
  <2> QED
    BY <2>1, <2>3 DEF Lines, Outcomes
<1> QED
  BY <1>3, <1>4

\* The ends of a copy.
LEMMA CopyFacts ==
  ASSUME position \in Places, mark \in Places, NEW c \in Copies
  PROVE  /\ c.start \in Places /\ c.end \in Places /\ c.append \in BOOLEAN
         /\ c.mode \in {"including", "excluding", "none"}
         /\ c.mode = "none" => c.end = Place(Far, 0)
<1>1. Place(0, 1) \in Places /\ Place(Far, 0) \in Places
  BY PlaceType, FarType
<1> QED
  BY <1>1 DEF Copies

LEMMA CopyEdit ==
  ASSUME TypeOK, NEW c \in Copies, Copy(c)
  PROVE  lines' \in Lines /\ outcome' \in Outcomes
<1> DEFINE copied == CopyRange(c.start, c.end, c.mode # "excluding")
<1>1. lines \in Lines /\ position \in Places /\ mark \in Places
  BY DEF TypeOK
<1>2. c.start \in Places /\ c.end \in Places
  BY <1>1, CopyFacts
<1>3. copied.outcome \in Outcomes /\ copied.lines \in Lines
  BY <1>1, <1>2, CopyRangeType
<1>4. lines \o copied.lines \in Lines
  BY <1>1, <1>3, FlatJoin
<1>5. \/ lines' = lines /\ outcome' = copied.outcome
      \/ lines' \in {copied.lines, lines \o copied.lines} /\ outcome' = "ok"
  <2> HIDE DEF copied
  <2>1. Copy(c) <=> Edit([name |-> "copy", range |-> c],
                         IF copied.outcome # "ok" THEN Fails(copied.outcome)
                         ELSE Done(IF c.append THEN lines \o copied.lines ELSE copied.lines))
    BY DEF Copy, copied
  <2> QED
    BY <2>1 DEF Edit, Done, Fails
<1> QED
  BY <1>1, <1>3, <1>4, <1>5 DEF Outcomes

LEMMA EditType ==
  ASSUME TypeOK, NEW what, NEW result, Edit(what, result),
         lines' \in Lines, outcome' \in Outcomes
  PROVE  TypeOK'
<1>1. Fits(lines)' /\ UNCHANGED <<position, mark, startLastHit, lastHit>>
  BY DEF Edit, Fits
<1> QED
  BY <1>1 DEF TypeOK, Outcomes

LEMMA DeleteEdit ==
  ASSUME TypeOK, NEW d \in Deletions, Delete(d)
  PROVE  lines' \in Lines /\ outcome' \in Outcomes
<1>1. lines \in Lines /\ position \in Places /\ mark \in Places
  BY DEF TypeOK
<1>2. IsEdit(DeleteRange(DeleteStart(d), DeleteEnd(d)))
  BY <1>1, DeletionEnds, DeleteRangeCuts
<1> QED
  BY <1>2 DEF Delete, Edit, IsEdit

LEMMA InsertEdit ==
  ASSUME TypeOK, NEW p \in {position, mark}, NEW text \in Inserted, Insert(p, text)
  PROVE  lines' \in Lines /\ outcome' \in Outcomes
<1>1. lines \in Lines /\ p \in Places /\ text \in Lines
  BY LineBufferAssumption DEF TypeOK
<1>2. IsEdit(InsertText(p, text))
  BY <1>1, InsertTextPuts
<1> QED
  BY <1>2 DEF Insert, Edit, IsEdit

LEMMA InitType == Init => TypeOK
<1> SUFFICES ASSUME Init PROVE TypeOK
  OBVIOUS
<1>1. lines \in Lines /\ Fits(lines)
  BY LineBufferAssumption DEF Init
<1>2. Len(lines) \in Nat /\ MaxText \in Nat
  BY <1>1, FarType, LineBufferAssumption DEF Lines
<1>3. PlacesOf(lines) \subseteq Places
  BY <1>2 DEF PlacesOf, Places, Place
<1>4. Place(0, 0) \in Places
  BY PlaceType
<1>5. <<>> \in Seq(Letters) /\ Len(<<>>) <= Len(<<>>) /\ <<>> \in Words \cup {<<>>}
  OBVIOUS
<1> QED
  BY <1>1, <1>3, <1>4, <1>5 DEF Init, TypeOK

LEMMA MoveType ==
  ASSUME TypeOK, NEW m \in Moves, MoveTo(m)
  PROVE  TypeOK'
<1> DEFINE l == IF m.lineIsRelative \/ m.line <= 0 THEN position.line + m.line
                ELSE Max2(0, m.column - 1)
           c == IF ~m.hasColumn THEN position.column
                ELSE IF m.columnIsRelative \/ m.column <= 0 THEN position.column + m.column
                ELSE Max2(0, m.column - 1)
<1>1. m.line \in Int /\ m.column \in Int
  BY LineBufferAssumption
<1>2. lines \in Lines /\ position \in Places /\ position.line \in Nat /\ position.column \in Nat
  BY DEF TypeOK, Places
<1>3. l \in Int /\ c \in Int
  BY <1>1, <1>2 DEF Max2
<1>4. position' = SetPosition(l, c) /\ UNCHANGED <<lines, mark, startLastHit, lastHit, outcome>>
  BY DEF MoveTo
<1> HIDE DEF l, c
<1>5. position' \in Places
  BY <1>2, <1>3, <1>4, SetPositionType
<1> QED
  BY <1>4, <1>5 DEF TypeOK, Fits

LEMMA MarksType ==
  ASSUME TypeOK, MarkExchange \/ \E p \in Named : MarkSet(p)
  PROVE  TypeOK'
<1>1. lines \in Lines /\ position \in Places /\ mark \in Places
  BY DEF TypeOK
<1>2. CASE MarkExchange
  <2>1. mark.line \in Int /\ mark.column \in Int
    BY <1>1 DEF Places
  <2>2. SetPosition(mark.line, mark.column) \in Places /\ SetMark(position) \in Places
    BY <1>1, <2>1, SetPositionType, SetMarkType
  <2> QED
    BY <1>2, <2>2 DEF MarkExchange, TypeOK, Fits
<1>3. CASE \E p \in Named : MarkSet(p)
  <2>1. PICK p \in Named : MarkSet(p)
    BY <1>3
  <2>2. p \in Places
    BY <2>1, NamedType DEF TypeOK
  <2>3. SetMark(p) \in Places
    BY <1>1, <2>2, SetMarkType
  <2> QED
    BY <2>1, <2>3 DEF MarkSet, TypeOK, Fits
<1> QED
  BY <1>2, <1>3

LEMMA LoadType ==
  ASSUME TypeOK, NEW file \in Files, Load(file)
  PROVE  TypeOK'
<1>1. file \in Lines /\ Fits(file)
  BY LineBufferAssumption
<1>2. Place(0, 0) \in Places
  BY PlaceType
<1> QED
  BY <1>1, <1>2 DEF Load, TypeOK, Fits

LEMMA StepType == TypeOK /\ [Next]_vars => TypeOK'
<1> SUFFICES ASSUME TypeOK, [Next]_vars PROVE TypeOK'
  OBVIOUS
<1>0. lines \in Lines /\ position \in Places
  BY DEF TypeOK
<1>1. ASSUME NEW file \in Files, Load(file) PROVE TypeOK'
  BY <1>1, LoadType
<1>2. ASSUME NEW m \in Moves, MoveTo(m) PROVE TypeOK'
  BY <1>2, MoveType
<1>3. CASE MarkExchange \/ \E p \in Named : MarkSet(p)
  BY <1>3, MarksType
<1>4. ASSUME NEW q \in Queries, SearchForward(q) PROVE TypeOK'
  <2>1. IsHit(Forward(q))
    BY <1>0, ForwardHit
  <2>2. ForwardPosition(q, Forward(q)) \in Places
    BY <1>0, <2>1, ForwardPositionType
  <2>3. Search(q, Forward(q), ForwardPosition(q, Forward(q)))
    BY <1>4 DEF SearchForward
  <2> QED
    BY <2>1, <2>2, <2>3, SearchType
<1>5. ASSUME NEW q \in Queries, SearchBackward(q) PROVE TypeOK'
  <2>1. IsHit(Backward(q))
    BY <1>0, BackwardHit
  <2>2. BackwardPosition(q, Backward(q)) \in Places
    BY <1>0, <2>1, BackwardPositionType
  <2>3. Search(q, Backward(q), BackwardPosition(q, Backward(q)))
    BY <1>5 DEF SearchBackward
  <2> QED
    BY <2>1, <2>2, <2>3, SearchType
<1>6. ASSUME NEW d \in Deletions, Delete(d) PROVE TypeOK'
  BY <1>6, DeleteEdit, EditType DEF Delete
<1>7. ASSUME NEW p \in {position, mark}, NEW text \in Inserted, Insert(p, text) PROVE TypeOK'
  BY <1>7, InsertEdit, EditType DEF Insert
<1>8. ASSUME NEW c \in Copies, Copy(c) PROVE TypeOK'
  BY <1>8, CopyEdit, EditType DEF Copy
<1>9. ASSUME NEW r \in Replacements, Replace(r) PROVE TypeOK'
  BY <1>9, ReplaceEdit, EditType DEF Replace
<1>10. CASE UNCHANGED vars
  BY <1>10 DEF vars, TypeOK, Fits
<1> QED
  BY <1>1, <1>2, <1>3, <1>4, <1>5, <1>6, <1>7, <1>8, <1>9, <1>10 DEF Next

\* The buffer always holds lines of letters, and no statement, whatever the numbers of a
\* move or the flags of a search, brings a place below 0 (LineList::setPosition).
THEOREM TypesHold == Spec => []TypeOK
BY InitType, StepType, PTL DEF Spec

------------------------------------------------------------------------------
(* The edits. *)

\* A statement with a promise about ranges is the one that carries its name.
LEMMA StepNames ==
  ASSUME Next
  PROVE  /\ statement'.name = "delete" => \E d \in Deletions : Delete(d)
         /\ statement'.name = "insert" =>
              \E p \in {position, mark}, text \in Inserted : Insert(p, text)
         /\ statement'.name = "copy" => \E c \in Copies : Copy(c)
         /\ statement'.name = "replace" => \E r \in Replacements : Replace(r)
         /\ statement'.name = "search forward" => \E q \in Queries : SearchForward(q)
         /\ statement'.name = "search backward" => \E q \in Queries : SearchBackward(q)
<1>1. ASSUME NEW file \in Files, Load(file) PROVE statement'.name = "load"
  BY <1>1 DEF Load
<1>2. ASSUME NEW m \in Moves, MoveTo(m) PROVE statement'.name = "move"
  BY <1>2 DEF MoveTo
<1>3. ASSUME NEW p, MarkSet(p) PROVE statement'.name = "mark set"
  BY <1>3 DEF MarkSet
<1>4. ASSUME MarkExchange PROVE statement'.name = "mark exchange"
  BY <1>4 DEF MarkExchange
<1>5. ASSUME NEW q, SearchForward(q) PROVE statement'.name = "search forward"
  BY <1>5 DEF SearchForward
<1>6. ASSUME NEW q, SearchBackward(q) PROVE statement'.name = "search backward"
  BY <1>6 DEF SearchBackward
<1>7. ASSUME NEW d, Delete(d) PROVE statement'.name = "delete"
  BY <1>7 DEF Delete, Edit
<1>8. ASSUME NEW p, NEW text, Insert(p, text) PROVE statement'.name = "insert"
  BY <1>8 DEF Insert, Edit
<1>9. ASSUME NEW c, Copy(c) PROVE statement'.name = "copy"
  BY <1>9 DEF Copy, Edit
<1>10. ASSUME NEW r, Replace(r) PROVE statement'.name = "replace"
  BY <1>10 DEF Replace, Edit
<1> QED
  BY <1>1, <1>2, <1>3, <1>4, <1>5, <1>6, <1>7, <1>8, <1>9, <1>10 DEF Next

LEMMA DeleteStep ==
  ASSUME TypeOK, [Next]_vars
  PROVE  [CutsRange]_vars
<1> SUFFICES ASSUME Next, statement'.name = "delete" PROVE CutsRange
  BY DEF CutsRange
<1>1. PICK d \in Deletions : Delete(d)
  BY StepNames
<1> DEFINE p == DeleteStart(d)
           q == DeleteEnd(d)
<1>2. lines \in Lines /\ p \in Places /\ q \in Places
  BY DeletionEnds DEF TypeOK
<1>3. statement'.range = d
  BY <1>1 DEF Delete, Edit
<1>4. lines' = DeleteRange(p, q).lines /\ outcome' = DeleteRange(p, q).outcome
  BY <1>1 DEF Delete, Edit
<1>5. CutsRange <=>
        (IsRange(RangeStart(p, q), RangeEnd(p, q))
         /\ ~ (/\ RangeStart(p, q).line = RangeEnd(p, q).line
               /\ RangeStart(p, q).column >= Len(lines)) =>
           /\ outcome' = "ok"
           /\ Flat(lines') =
                Cut(Text, Offset(lines, RangeStart(p, q)), Offset(lines, RangeEnd(p, q))))
  BY <1>3 DEF CutsRange, RangeStart, RangeEnd
<1> HIDE DEF p, q
<1>6. \/ ~ IsRange(RangeStart(p, q), RangeEnd(p, q))
      \/ RangeStart(p, q).line = RangeEnd(p, q).line /\ RangeStart(p, q).column >= Len(lines)
      \/ /\ DeleteRange(p, q).outcome = "ok"
         /\ Flat(DeleteRange(p, q).lines) =
              Cut(Text, Offset(lines, RangeStart(p, q)), Offset(lines, RangeEnd(p, q)))
  BY <1>2, DeleteRangeCuts
<1> QED
  BY <1>4, <1>5, <1>6

LEMMA InsertStep ==
  ASSUME TypeOK, [Next]_vars
  PROVE  [PutsText]_vars
<1> SUFFICES ASSUME Next, statement'.name = "insert" PROVE PutsText
  BY DEF PutsText
<1>1. PICK p \in {position, mark}, text \in Inserted : Insert(p, text)
  BY StepNames
<1>2. lines \in Lines /\ p \in Places /\ text \in Lines
  BY LineBufferAssumption DEF TypeOK
<1>3. statement'.place = p /\ statement'.text = text
  BY <1>1 DEF Insert, Edit
<1>4. lines' = InsertText(p, text).lines /\ outcome' = InsertText(p, text).outcome
  BY <1>1 DEF Insert, Edit
<1>5. ASSUME text # <<>>,
             p.line < Len(lines) /\ Len(text) = 1 /\ p.column = 0 => LineAt(lines, p) = <<>>
      PROVE  /\ outcome' = "ok"
             /\ Flat(lines') = Put(Text, Offset(lines, p),
                                   IF KeepsLineEnd(p, text) THEN Front(Flat(text))
                                   ELSE Flat(text))
  BY <1>2, <1>4, <1>5, InsertTextPuts
<1>6. KeepsLineEnd(p, text) <=>
        /\ p.line < Len(lines)
        /\ Len(text) = 1
           \/ (p.line < Len(lines) /\ p.column > 0 /\ p.column >= Len(LineAt(lines, p)))
  BY DEF KeepsLineEnd
<1> QED
  BY <1>3, <1>5, <1>6 DEF PutsText

\* Each line has at least its end.
LEMMA FlatLonger ==
  ASSUME NEW ls \in Lines
  PROVE  Len(ls) \in Nat /\ Len(ls) <= Len(Flat(ls))
<1> DEFINE Bad == {n \in Nat : \E s \in Lines : Len(s) = n /\ ~ (n <= Len(Flat(s)))}
<1>1. ASSUME Bad # {} PROVE FALSE
  <2>1. PICK n \in Bad : \A k \in Bad : n <= k
    <3>1. Bad \subseteq Nat
      OBVIOUS
    <3> HIDE DEF Bad
    <3> QED
      BY <1>1, <3>1, HasLeast
  <2>2. PICK s \in Lines : Len(s) = n /\ ~ (n <= Len(Flat(s)))
    BY <2>1
  <2>3. n \in Nat
    BY <2>1
  <2>4. n # 0
    <3>1. Len(Flat(s)) \in Nat
      BY FlatType
    <3>2. Len(Flat(s)) >= 0
      BY <3>1
    <3> QED
      BY <2>2, <3>1, <3>2
  <2>5. n - 1 \in Nat /\ n = (n - 1) + 1
    BY <2>3, <2>4
  <2>6. PICK t \in Lines, l \in Seq(Letters) : s = Append(t, l) /\ Len(t) = n - 1
    BY <2>2, <2>5, LinesFront
  <2>7. n - 1 <= Len(Flat(t))
    <3>1. n - 1 \notin Bad
      <4> HIDE DEF Bad
      <4> QED
        BY <2>1, <2>5
    <3> QED
      BY <2>5, <2>6, <3>1
  <2>8. /\ Flat(t) \in Seq(Chars) /\ Ended(l) \in Seq(Chars) /\ Len(Ended(l)) = Len(l) + 1
        /\ Len(l) \in Nat /\ Flat(s) = Flat(t) \o Ended(l)
    <3>1. Flat(t) \in Seq(Chars) /\ l \in Seq(Letters)
      BY <2>6, FlatType
    <3>2. Ended(l) \in Seq(Chars) /\ Len(Ended(l)) = Len(l) + 1 /\ Len(l) \in Nat
      BY <3>1, EndedType
    <3>3. Flat(s) = Flat(t) \o Ended(l)
      BY <2>6, FlatAppend
    <3> QED
      BY <3>1, <3>2, <3>3
  <2>9. Len(Flat(s)) = Len(Flat(t)) + (Len(l) + 1) /\ Len(Flat(t)) \in Nat
    <3>1. PICK x, y : x = Flat(t) /\ y = Ended(l)
      OBVIOUS
    <3>2. x \in Seq(Chars) /\ y \in Seq(Chars) /\ Len(x) \in Nat
      BY <2>8, <3>1
    <3>3. Len(x \o y) = Len(x) + Len(y)
      BY <3>2, ConcatProperties
    <3> QED
      BY <2>8, <3>1, <3>2, <3>3
  <2> QED
    BY <2>2, <2>3, <2>7, <2>8, <2>9
<1> QED
  <2>1. Len(ls) \in Nat
    BY DEF Lines
  <2> QED
    BY <1>1, <2>1

LEMMA CopyStep ==
  ASSUME TypeOK, [Next]_vars
  PROVE  [TakesRange]_vars
<1> SUFFICES ASSUME Next, statement'.name = "copy" PROVE TakesRange
  BY DEF TakesRange
<1>1. PICK c \in Copies : Copy(c)
  BY StepNames
<1> DEFINE s == c.start
           e == IF c.mode = "none" THEN Place(Len(lines), 0) ELSE c.end
           to == IF c.mode = "including" /\ e.column # 0 THEN Place(e.line, e.column + 1) ELSE e
           copied == CopyRange(c.start, c.end, c.mode # "excluding")
           n == CopyBehind(c.end, c.mode # "excluding")
           taken == Piece(Text, Offset(lines, s), Offset(lines, to))
                    \o (IF e.column # 0 THEN <<NL>> ELSE <<>>)
<1>2. /\ lines \in Lines /\ s \in Places /\ c.end \in Places /\ c.append \in BOOLEAN
      /\ c.mode \in {"including", "excluding", "none"}
      /\ c.mode = "none" => c.end = Place(Far, 0)
  BY CopyFacts DEF TypeOK
<1>3. Len(lines) \in Nat /\ Len(lines) <= Far
  <2>1. Len(lines) \in Nat /\ Len(lines) <= Len(Flat(lines)) /\ Len(Flat(lines)) \in Nat
    BY <1>2, FlatLonger, FlatType
  <2>2. Len(Flat(lines)) <= MaxText /\ MaxText \in 0 .. Far
    BY LineBufferAssumption DEF TypeOK, Fits
  <2> QED
    BY <2>1, <2>2, FarType
<1>4. statement'.range = c
  BY <1>1 DEF Copy, Edit
<1>5. \/ copied.outcome # "ok"
      \/ /\ outcome' = "ok"
         /\ lines' = IF c.append THEN lines \o copied.lines ELSE copied.lines
  <2> HIDE DEF copied
  <2>1. Copy(c) <=> Edit([name |-> "copy", range |-> c],
                         IF copied.outcome # "ok" THEN Fails(copied.outcome)
                         ELSE Done(IF c.append THEN lines \o copied.lines ELSE copied.lines))
    BY DEF Copy, copied
  <2> QED
    BY <1>1, <2>1 DEF Edit, Done, Fails
<1>6. SUFFICES ASSUME InText(lines, s), s.column > 0 => s.column < Len(LineAt(lines, s)),
                      ~ Before(e, s), e.line < Len(lines) \/ e = Place(Len(lines), 0)
               PROVE  /\ outcome' = "ok"
                      /\ Flat(lines') = ((IF c.append THEN Text ELSE <<>>)
                                         \o Piece(Text, Offset(lines, s), Offset(lines, to)))
                                        \o (IF e.column # 0 THEN <<NL>> ELSE <<>>)
  BY <1>4 DEF TakesRange
<1>7. /\ ~ Before(c.end, s) /\ (c.end.line < Len(lines) \/ c.end.column = 0)
      /\ e.column = c.end.column
      /\ Offset(lines, to) = Offset(lines, CopyTo(c.end, n))
  <2>1. /\ s.line \in Nat /\ s.column \in Nat /\ s.line < Len(lines)
        /\ c.end.line \in Nat /\ c.end.column \in Nat
        /\ c.end = Place(c.end.line, c.end.column)
    BY <1>2, <1>6 DEF Places, InText, Place
  <2>2. CASE c.mode = "none"
    <3>1. c.end = Place(Far, 0) /\ e = Place(Len(lines), 0) /\ to = e
          /\ CopyTo(c.end, n) = Place(Far, 0)
      BY <1>2, <2>2 DEF CopyTo, Place
    <3>2. Offset(lines, Place(Len(lines), 0)) = Len(Flat(lines))
      BY <1>3 DEF Offset, Place
    <3>3. Offset(lines, Place(Far, 0)) = Len(Flat(lines))
      BY <1>3, FarType DEF Offset, Place
    <3>4. ~ Before(Place(Far, 0), s)
      BY <1>3, <2>1, FarType DEF Before, Place
    <3> QED
      BY <3>1, <3>2, <3>3, <3>4 DEF Place
  <2>3. CASE c.mode # "none"
    <3>1. e = c.end
      BY <2>3
    <3>2. CopyTo(c.end, n) = to
      <4>1. CASE c.mode = "including"
        BY <2>1, <3>1, <4>1 DEF CopyTo, CopyBehind
      <4>2. CASE c.mode = "excluding"
        <5>1. n = c.end.column
          BY <2>1, <4>2 DEF CopyBehind
        <5>2. to = c.end
          BY <3>1, <4>2
        <5> QED
          BY <2>1, <5>1, <5>2 DEF CopyTo
      <4> QED
        BY <1>2, <2>3, <4>1, <4>2
    <3>3. c.end.line < Len(lines) \/ c.end.column = 0
      BY <1>6, <3>1 DEF Place
    <3> QED
      BY <1>6, <3>1, <3>2, <3>3
  <2> QED
    BY <2>2, <2>3
<1> HIDE DEF e, to, n
<1>8. copied.outcome = "ok" /\ Flat(copied.lines) = taken
  <2>1. /\ copied.outcome = "ok"
        /\ Flat(copied.lines) = Piece(Text, Offset(lines, s), Offset(lines, CopyTo(c.end, n)))
                                \o (IF c.end.column # 0 THEN <<NL>> ELSE <<>>)
    BY <1>2, <1>6, <1>7, CopyRangeTakes DEF n
  <2> QED
    BY <1>7, <2>1
<1>9. copied.lines \in Lines
  BY <1>2, CopyRangeType
<1> HIDE DEF copied, s
<1>10. Flat(lines') = (IF c.append THEN Text ELSE <<>>) \o taken
  <2>1. Flat(copied.lines) \in Seq(Chars)
    BY <1>9, FlatType
  <2>2. CASE c.append
    BY <1>2, <1>5, <1>8, <1>9, <2>2, FlatJoin DEF Text
  <2>3. CASE ~ c.append
    <3>1. <<>> \o Flat(copied.lines) = Flat(copied.lines)
      BY <2>1, ConcatEmptySeq
    <3> QED
      BY <1>5, <1>8, <2>3, <3>1
  <2> QED
    BY <2>2, <2>3
<1>11. ((IF c.append THEN Text ELSE <<>>) \o Piece(Text, Offset(lines, s), Offset(lines, to)))
       \o (IF e.column # 0 THEN <<NL>> ELSE <<>>) = (IF c.append THEN Text ELSE <<>>) \o taken
  <2>1. Text \in Seq(Chars)
    BY <1>2, FlatType DEF Text
  <2>2. Piece(Text, Offset(lines, s), Offset(lines, to)) \in Seq(Chars)
    <3>1. Offset(lines, s) \in Nat
      BY <1>2, <1>6, PlaceInLine DEF InText
    <3>2. Offset(lines, to) \in Nat /\ Offset(lines, to) <= Len(Text)
      <4>1. to \in Places
        <5>1. e \in Places
          BY <1>2, <1>3, PlaceType DEF e
        <5>2. e.line \in Nat /\ e.column + 1 \in Nat
          BY <5>1 DEF Places
        <5>3. Place(e.line, e.column + 1) \in Places
          BY <5>2, PlaceType
        <5> QED
          BY <5>1, <5>3 DEF to
      <4> QED
        BY <1>2, <4>1, PlaceInLine, PlaceAtEnd, FlatType DEF Text
    <3>3. Offset(lines, s) + 1 \in Nat /\ Offset(lines, s) + 1 >= 1
      BY <3>1
    <3> QED
      BY <2>1, <3>2, <3>3, PieceFacts DEF Piece
  <2>3. PICK x, y, z : /\ x = (IF c.append THEN Text ELSE <<>>)
                       /\ y = Piece(Text, Offset(lines, s), Offset(lines, to))
                       /\ z = (IF e.column # 0 THEN <<NL>> ELSE <<>>)
    OBVIOUS
  <2>4. NL \in Chars
    BY DEF Chars
  <2>5. x \in Seq(Chars) /\ y \in Seq(Chars) /\ z \in Seq(Chars)
    BY <2>1, <2>2, <2>3, <2>4
  <2>6. (x \o y) \o z = x \o (y \o z)
    BY <2>5, ConcatAssociative
  <2> QED
    BY <2>3, <2>6
<1> QED
  BY <1>5, <1>8, <1>10, <1>11

------------------------------------------------------------------------------
(* Searches.  A word has no line end in it, so an occurrence of it in the  *)
(* text stands in one line, and the lines a search goes through are those  *)
(* behind (or before) its start.                                           *)

\* The number of characters above a line.
Start(ls, k) == Len(Flat(Left(ls, k)))

\* A line is followed by its end and by the next line.
LEMMA StartNext ==
  ASSUME NEW ls \in Lines, NEW k \in Nat, k < Len(ls)
  PROVE  /\ Start(ls, k) \in Nat /\ Start(ls, k + 1) \in Nat
         /\ Start(ls, k + 1) = Start(ls, k) + Len(ls[k + 1]) + 1
<1>1. /\ Left(ls, k) \in Lines /\ Len(Left(ls, k)) = k /\ ls[k + 1] \in Seq(Letters)
      /\ Len(ls[k + 1]) \in Nat
  BY LineFacts
<1>2. Left(ls, k + 1) = Append(Left(ls, k), ls[k + 1])
  <2>1. ls \in Seq(Seq(Letters)) /\ Len(ls) \in Nat /\ k + 1 \in Nat /\ k + 1 <= Len(ls)
        /\ k <= Len(ls)
    BY DEF Lines
  <2>2. /\ Left(ls, k) \in Seq(Seq(Letters)) /\ Left(ls, k + 1) \in Seq(Seq(Letters))
        /\ Len(Left(ls, k + 1)) = k + 1 /\ \A i \in 1 .. k : Left(ls, k)[i] = ls[i]
        /\ \A i \in 1 .. k + 1 : Left(ls, k + 1)[i] = ls[i]
    BY <2>1, Halves
  <2>3. PICK x, y, l : x = Left(ls, k) /\ y = Left(ls, k + 1) /\ l = ls[k + 1]
    OBVIOUS
  <2>4. /\ x \in Seq(Seq(Letters)) /\ y \in Seq(Seq(Letters)) /\ l \in Seq(Letters)
        /\ Len(x) = k /\ Len(y) = k + 1
    BY <1>1, <2>2, <2>3
  <2>5. y = Append(x, l)
    <3>1. y[k + 1] = l /\ \A i \in 1 .. k : y[i] = x[i]
      <4>1. k + 1 \in 1 .. k + 1 /\ \A i \in 1 .. k : i \in 1 .. k + 1
        OBVIOUS
      <4>2. \A i \in 1 .. k + 1 : y[i] = ls[i]
        BY <2>2, <2>3
      <4>3. \A i \in 1 .. k : x[i] = ls[i]
        BY <2>2, <2>3
      <4> QED
        BY <2>3, <4>1, <4>2, <4>3
    <3>2. Append(x, l) \in Seq(Seq(Letters)) /\ Len(Append(x, l)) = k + 1
      BY <2>4
    <3>3. ASSUME NEW i \in 1 .. k + 1 PROVE y[i] = Append(x, l)[i]
      <4>1. CASE i = k + 1
        BY <2>4, <3>1, <4>1
      <4>2. CASE i # k + 1
        <5>1. i \in 1 .. k
          BY <4>2
        <5> QED
          BY <2>4, <3>1, <5>1
      <4> QED
        BY <4>1, <4>2
    <3> QED
      BY <2>4, <3>2, <3>3
  <2> QED
    BY <2>3, <2>5
<1>3. Flat(Left(ls, k + 1)) = Flat(Left(ls, k)) \o Ended(ls[k + 1])
  BY <1>1, <1>2, FlatAppend
<1>4. /\ Flat(Left(ls, k)) \in Seq(Chars) /\ Ended(ls[k + 1]) \in Seq(Chars)
      /\ Len(Ended(ls[k + 1])) = Len(ls[k + 1]) + 1
  BY <1>1, FlatType, EndedType
<1>5. PICK x, y : x = Flat(Left(ls, k)) /\ y = Ended(ls[k + 1])
  OBVIOUS
<1>6. Len(x \o y) = Len(x) + Len(y) /\ Len(x) \in Nat
  BY <1>4, <1>5, ConcatProperties
<1> QED
  BY <1>1, <1>3, <1>4, <1>5, <1>6 DEF Start

\* The text ends with its last line.
LEMMA StartEnds ==
  ASSUME NEW ls \in Lines
  PROVE  Start(ls, 0) = 0 /\ Start(ls, Len(ls)) = Len(Flat(ls))
<1>1. ls \in Seq(Seq(Letters)) /\ Len(<<>>) = 0
  BY DEF Lines
<1>2. Left(ls, Len(ls)) = ls /\ Left(ls, 0) = <<>>
  BY <1>1, WholeHalves
<1> QED
  BY <1>1, <1>2, FlatEmpty DEF Start

\* A line ends before a later one begins.
LEMMA StartGrows ==
  ASSUME NEW ls \in Lines, NEW j \in Nat, NEW k \in Nat, j < k, k <= Len(ls)
  PROVE  /\ Start(ls, j) \in Nat /\ Start(ls, k) \in Nat /\ Len(ls[j + 1]) \in Nat
         /\ Start(ls, j) + Len(ls[j + 1]) + 1 <= Start(ls, k)
<1> DEFINE Ok(n) == Start(ls, j) + Len(ls[j + 1]) + 1 <= Start(ls, n)
           Bad == {n \in Nat : j < n /\ n <= Len(ls) /\ ~ Ok(n)}
<1>1. Len(ls) \in Nat /\ j < Len(ls)
  BY DEF Lines
<1>2. Start(ls, j) \in Nat /\ Len(ls[j + 1]) \in Nat /\ Ok(j + 1)
  BY <1>1, StartNext, LineFacts
<1> HIDE DEF Ok
<1>3. ASSUME Bad # {} PROVE FALSE
  <2>1. PICK n \in Bad : \A i \in Bad : n <= i
    <3>1. Bad \subseteq Nat
      OBVIOUS
    <3> HIDE DEF Bad
    <3> QED
      BY <1>3, <3>1, HasLeast
  <2>2. n \in Nat /\ j < n /\ n <= Len(ls) /\ ~ Ok(n)
    BY <2>1
  <2>3. n # j + 1
    BY <1>2, <2>2
  <2>4. PICK m \in Nat : n = m + 1 /\ j < m /\ m < Len(ls)
    <3>1. n - 1 \in Nat /\ n = (n - 1) + 1 /\ j < n - 1 /\ n - 1 < Len(ls)
      BY <1>1, <2>2, <2>3
    <3> QED
      BY <3>1
  <2>5. Ok(m)
    <3>1. m \notin Bad
      <4> HIDE DEF Bad
      <4> QED
        BY <2>1, <2>4
    <3> QED
      BY <2>4, <3>1
  <2>6. Start(ls, m) \in Nat /\ Start(ls, n) = Start(ls, m) + Len(ls[m + 1]) + 1
        /\ Len(ls[m + 1]) \in Nat
    BY <2>4, StartNext, LineFacts
  <2>7. PICK a, b : a = Start(ls, j) + Len(ls[j + 1]) + 1 /\ b = Start(ls, m)
    OBVIOUS
  <2>8. a \in Nat /\ b \in Nat /\ a <= b
    BY <1>2, <2>5, <2>6, <2>7, SMTT(60) DEF Ok
  <2>9. a <= b + Len(ls[m + 1]) + 1
    BY <2>6, <2>8
  <2> QED
    BY <2>2, <2>6, <2>7, <2>9 DEF Ok
<1>4. Ok(k)
  BY <1>3
<1>5. Start(ls, k) \in Nat
  <2>1. PICK m \in Nat : k = m + 1 /\ m < Len(ls)
    <3>1. k - 1 \in Nat /\ k = (k - 1) + 1 /\ k - 1 < Len(ls)
      BY <1>1
    <3> QED
      BY <3>1
  <2> QED
    BY <2>1, StartNext
<1> QED
  BY <1>2, <1>4, <1>5 DEF Ok

\* Every character of the text belongs to a line or is the end of it.
LEMMA HasLine ==
  ASSUME NEW ls \in Lines, NEW h \in Nat, h < Len(Flat(ls))
  PROVE  \E k \in Nat : /\ k < Len(ls) /\ Start(ls, k) <= h
                        /\ h <= Start(ls, k) + Len(ls[k + 1])
<1> DEFINE Above == {n \in Nat : n <= Len(ls) /\ h < Start(ls, n)}
<1>1. Len(ls) \in Nat
  BY DEF Lines
<1>2. Above \subseteq Nat /\ Above # {}
  <2>1. Len(ls) \in Above
    BY <1>1, StartEnds
  <2> QED
    BY <2>1
<1>3. PICK n \in Above : \A i \in Above : n <= i
  <2> HIDE DEF Above
  <2> QED
    BY <1>2, HasLeast
<1>4. n \in Nat /\ n <= Len(ls) /\ h < Start(ls, n)
  BY <1>3
<1>5. n # 0
  BY <1>4, StartEnds
<1>6. PICK k \in Nat : n = k + 1 /\ k < Len(ls) /\ k < n
  <2>1. n - 1 \in Nat /\ n = (n - 1) + 1 /\ n - 1 < Len(ls) /\ n - 1 < n
    BY <1>1, <1>4, <1>5
  <2> QED
    BY <2>1
<1>7. ~ (h < Start(ls, k))
  <2>1. k \notin Above
    <3> HIDE DEF Above
    <3> QED
      BY <1>3, <1>6
  <2> QED
    BY <1>1, <1>6, <2>1
<1>8. /\ Start(ls, k) \in Nat /\ Len(ls[k + 1]) \in Nat
      /\ Start(ls, n) = Start(ls, k) + Len(ls[k + 1]) + 1
  BY <1>6, StartNext, LineFacts
<1>9. Start(ls, k) <= h /\ h <= Start(ls, k) + Len(ls[k + 1])
  BY <1>4, <1>7, <1>8
<1> QED
  BY <1>6, <1>9

\* The characters of a line and its end, in the text.
LEMMA CharsOfLine ==
  ASSUME NEW ls \in Lines, NEW k \in Nat, k < Len(ls)
  PROVE  /\ Start(ls, k) \in Nat /\ Len(ls[k + 1]) \in Nat /\ Len(Flat(ls)) \in Nat
         /\ Start(ls, k) + Len(ls[k + 1]) + 1 <= Len(Flat(ls))
         /\ \A i \in 1 .. Len(ls[k + 1]) : Flat(ls)[Start(ls, k) + i] = ls[k + 1][i]
         /\ Flat(ls)[Start(ls, k) + Len(ls[k + 1]) + 1] = NL
<1>1. PICK x, l, b, t : /\ x = Flat(Left(ls, k)) /\ l = ls[k + 1]
                        /\ b = Flat(Right(ls, k + 1)) /\ t = Flat(ls)
  OBVIOUS
<1>2. x \in Seq(Chars) /\ b \in Seq(Chars) /\ t = x \o (l \o (<<NL>> \o b))
  BY <1>1, TextAround
<1>3. l \in Seq(Chars)
  BY <1>1, LineFacts
<1>4. <<NL>> \in Seq(Chars) /\ Len(<<NL>>) = 1 /\ <<NL>>[1] = NL
  BY DEF Chars
<1>5. PICK c : c = <<NL>>
  OBVIOUS
<1>6. c \in Seq(Chars) /\ Len(c) = 1 /\ c[1] = NL
  BY <1>4, <1>5
<1>7. PICK d : d = c \o b
  OBVIOUS
<1>8. d \in Seq(Chars) /\ Len(d) = 1 + Len(b) /\ d[1] = NL /\ Len(b) \in Nat
  <2>1. /\ c \o b \in Seq(Chars) /\ Len(c \o b) = Len(c) + Len(b)
        /\ \A i \in 1 .. Len(c) + Len(b) : (c \o b)[i] = IF i <= Len(c) THEN c[i] ELSE b[i - Len(c)]
    BY <1>2, <1>6, ConcatProperties
  <2>2. Len(b) \in Nat
    BY <1>2
  <2>3. 1 \in 1 .. Len(c) + Len(b) /\ 1 <= Len(c)
    BY <1>6, <2>2
  <2> QED
    BY <1>6, <1>7, <2>1, <2>2, <2>3
<1>9. PICK y : y = l \o d
  OBVIOUS
<1>10. /\ y \in Seq(Chars) /\ Len(y) = Len(l) + Len(d) /\ Len(l) \in Nat
       /\ \A i \in 1 .. Len(l) : y[i] = l[i]
       /\ y[Len(l) + 1] = NL
  <2>1. /\ y \in Seq(Chars) /\ Len(y) = Len(l) + Len(d)
        /\ \A i \in 1 .. Len(l) + Len(d) : y[i] = IF i <= Len(l) THEN l[i] ELSE d[i - Len(l)]
    <3>1. d \in Seq(Chars)
      BY <1>8
    <3> QED
      BY <1>3, <1>9, <3>1, ConcatProperties, ZenonT(60)
  <2>2. Len(l) \in Nat
    BY <1>3
  <2>3. Len(l) + 1 \in 1 .. Len(l) + Len(d) /\ (Len(l) + 1) - Len(l) = 1
        /\ ~ (Len(l) + 1 <= Len(l))
    BY <1>8, <2>2
  <2>4. \A i \in 1 .. Len(l) : i \in 1 .. Len(l) + Len(d) /\ i <= Len(l)
    BY <1>8, <2>2
  <2> QED
    BY <1>8, <2>1, <2>2, <2>3, <2>4
<1>11. /\ Len(t) = Len(x) + Len(y) /\ Len(x) \in Nat
       /\ \A i \in 1 .. Len(y) : t[Len(x) + i] = y[i]
  <2>1. t = x \o y
    BY <1>2, <1>5, <1>7, <1>9
  <2>2. /\ Len(t) = Len(x) + Len(y)
        /\ \A i \in 1 .. Len(x) + Len(y) : t[i] = IF i <= Len(x) THEN x[i] ELSE y[i - Len(x)]
    <3>1. y \in Seq(Chars) /\ x \in Seq(Chars)
      BY <1>2, <1>10
    <3> QED
      BY <2>1, <3>1, ConcatProperties, ZenonT(60)
  <2>3. Len(x) \in Nat /\ Len(y) \in Nat
    BY <1>2, <1>10
  <2>4. \A i \in 1 .. Len(y) : /\ Len(x) + i \in 1 .. Len(x) + Len(y) /\ ~ (Len(x) + i <= Len(x))
                               /\ (Len(x) + i) - Len(x) = i
    BY <2>3
  <2> QED
    BY <2>2, <2>3, <2>4
<1>12. Start(ls, k) = Len(x)
  BY <1>1 DEF Start
<1>13. \A i \in 1 .. Len(l) : i \in 1 .. Len(y)
  BY <1>8, <1>10
<1>14. Len(l) + 1 \in 1 .. Len(y)
  BY <1>8, <1>10
<1>15. /\ Len(x) \in Nat /\ Len(l) \in Nat /\ Len(t) \in Nat /\ Len(x) + Len(l) + 1 <= Len(t)
       /\ \A i \in 1 .. Len(l) : t[Len(x) + i] = l[i]
       /\ t[Len(x) + (Len(l) + 1)] = NL
  BY <1>8, <1>10, <1>11, <1>13, <1>14
<1>16. Len(x) + (Len(l) + 1) = Len(x) + Len(l) + 1
  BY <1>15
<1> QED
  BY <1>1, <1>12, <1>15, <1>16

\* A word stands where its characters are.
LEMMA HitIs ==
  ASSUME NEW S, NEW w \in Seq(S), NEW t \in Seq(S), NEW h
  PROVE  h \in Hits(w, t) <=> /\ h \in Nat /\ h + Len(w) <= Len(t)
                              /\ \A i \in 1 .. Len(w) : t[h + i] = w[i]
<1>1. Len(w) \in Nat /\ Len(t) \in Nat
  OBVIOUS
<1>2. h \in 0 .. Len(t) - Len(w) <=> h \in Nat /\ h + Len(w) <= Len(t)
  BY <1>1
<1>3. ASSUME h \in Nat, h + Len(w) <= Len(t)
      PROVE  Piece(t, h, h + Len(w)) = w <=> \A i \in 1 .. Len(w) : t[h + i] = w[i]
  <2>1. PICK p : p = SubSeq(t, h + 1, h + Len(w))
    OBVIOUS
  <2>2. /\ p \in Seq(S)
        /\ Len(p) = IF h + 1 <= h + Len(w) THEN h + Len(w) - (h + 1) + 1 ELSE 0
        /\ \A i \in 1 .. Len(p) : p[i] = t[(h + 1) + i - 1]
    <3>1. h + 1 \in Nat /\ h + 1 >= 1 /\ h + Len(w) \in Nat
      BY <1>1, <1>3
    <3> QED
      BY <1>3, <2>1, <3>1, PieceFacts
  <2>3. Len(p) = Len(w)
    BY <1>1, <1>3, <2>2
  <2>4. \A i \in 1 .. Len(w) : p[i] = t[h + i]
    <3>1. \A i \in 1 .. Len(w) : (h + 1) + i - 1 = h + i
      BY <1>1, <1>3
    <3> QED
      BY <2>2, <2>3, <3>1
  <2>5. p = w <=> \A i \in 1 .. Len(w) : p[i] = w[i]
    BY <2>2, <2>3, SMTT(60)
  <2> QED
    BY <2>1, <2>4, <2>5 DEF Piece
<1> QED
  BY <1>2, <1>3 DEF Hits

\* A word of a line stands in the text.
LEMMA HitOfLine ==
  ASSUME NEW ls \in Lines, NEW w \in Seq(Letters), NEW k \in Nat, k < Len(ls),
         NEW c, c \in Hits(w, ls[k + 1])
  PROVE  c \in Nat /\ c + Len(w) <= Len(ls[k + 1]) /\ Start(ls, k) + c \in Hits(w, Flat(ls))
<1>1. PICK l, t, a : l = ls[k + 1] /\ t = Flat(ls) /\ a = Start(ls, k)
  OBVIOUS
<1>2. /\ a \in Nat /\ Len(l) \in Nat /\ Len(t) \in Nat /\ a + Len(l) + 1 <= Len(t)
      /\ \A i \in 1 .. Len(l) : t[a + i] = l[i]
  BY <1>1, CharsOfLine
<1>3. l \in Seq(Letters) /\ t \in Seq(Chars) /\ w \in Seq(Chars) /\ Len(w) \in Nat
  <2>1. l \in Seq(Letters) /\ t \in Seq(Chars)
    BY <1>1, LineFacts, FlatType
  <2>2. w \in Seq(Chars)
    BY EndedType
  <2> QED
    BY <2>1, <2>2
<1>4. c \in Nat /\ c + Len(w) <= Len(l) /\ \A i \in 1 .. Len(w) : l[c + i] = w[i]
  BY <1>1, <1>3, HitIs
<1>5. a + c \in Nat /\ (a + c) + Len(w) <= Len(t)
  BY <1>2, <1>3, <1>4
<1>6. ASSUME NEW i \in 1 .. Len(w) PROVE t[(a + c) + i] = w[i]
  <2>1. c + i \in 1 .. Len(l) /\ a + (c + i) = (a + c) + i
    BY <1>2, <1>3, <1>4
  <2> QED
    BY <1>2, <1>4, <2>1
<1>7. a + c \in Hits(w, t)
  BY <1>3, <1>5, <1>6, HitIs
<1> QED
  BY <1>1, <1>4, <1>7

\* A word of the text stands in one of its lines, as it has no line end in it.
LEMMA LineOfHit ==
  ASSUME NEW ls \in Lines, NEW w \in Seq(Letters), w # <<>>, NEW h \in Hits(w, Flat(ls))
  PROVE  \E k \in Nat, c \in Nat : /\ k < Len(ls) /\ h = Start(ls, k) + c
                                   /\ c \in Hits(w, ls[k + 1])
<1>1. /\ Flat(ls) \in Seq(Chars) /\ w \in Seq(Chars) /\ Len(w) \in Nat /\ Len(w) >= 1
      /\ Len(Flat(ls)) \in Nat
  BY FlatType, EndedType
<1>2. h \in Nat /\ h + Len(w) <= Len(Flat(ls)) /\ \A i \in 1 .. Len(w) : Flat(ls)[h + i] = w[i]
  BY <1>1, HitIs
<1>3. PICK k \in Nat : k < Len(ls) /\ Start(ls, k) <= h /\ h <= Start(ls, k) + Len(ls[k + 1])
  <2>1. h < Len(Flat(ls))
    BY <1>1, <1>2
  <2> QED
    BY <1>2, <2>1, HasLine
<1>4. PICK l, t, a : l = ls[k + 1] /\ t = Flat(ls) /\ a = Start(ls, k)
  OBVIOUS
<1>5. /\ a \in Nat /\ Len(l) \in Nat /\ Len(t) \in Nat
      /\ \A i \in 1 .. Len(l) : t[a + i] = l[i]
      /\ t[a + Len(l) + 1] = NL
  BY <1>3, <1>4, CharsOfLine
<1>6. l \in Seq(Letters)
  BY <1>3, <1>4, LineFacts
<1>7. PICK c \in Nat : h = a + c /\ c <= Len(l)
  <2>1. h - a \in Nat /\ h = a + (h - a) /\ h - a <= Len(l)
    BY <1>2, <1>3, <1>4, <1>5
  <2> QED
    BY <2>1
<1>8. c + Len(w) <= Len(l)
  <2> SUFFICES ASSUME ~ (c + Len(w) <= Len(l)) PROVE FALSE
    OBVIOUS
  <2>1. PICK i \in 1 .. Len(w) : h + i = a + Len(l) + 1
    <3>1. Len(l) + 1 - c \in 1 .. Len(w) /\ h + (Len(l) + 1 - c) = a + Len(l) + 1
      BY <1>1, <1>5, <1>7
    <3> QED
      BY <3>1
  <2>2. w[i] = NL
    BY <1>2, <1>4, <1>5, <2>1
  <2>3. w[i] \in Letters
    OBVIOUS
  <2> QED
    BY <2>2, <2>3, LineBufferAssumption
<1>9. ASSUME NEW i \in 1 .. Len(w) PROVE l[c + i] = w[i]
  <2>1. c + i \in 1 .. Len(l) /\ a + (c + i) = h + i
    BY <1>1, <1>5, <1>7, <1>8
  <2> QED
    BY <1>2, <1>4, <1>5, <2>1
<1>10. c \in Hits(w, l)
  BY <1>6, <1>7, <1>8, <1>9, HitIs
<1> QED
  BY <1>3, <1>4, <1>7, <1>10

\* The least element of a set, by what it is.
LEMMA LeastIs ==
  ASSUME NEW S, S \subseteq Nat, NEW m \in S, \A x \in S : m <= x
  PROVE  Min(S) = m
<1>1. S # {} /\ m \in Nat
  OBVIOUS
<1>2. Min(S) \in S /\ Min(S) <= m
  BY <1>1, LeastHit
<1>3. m <= Min(S) /\ Min(S) \in Nat
  BY <1>2
<1> QED
  BY <1>1, <1>2, <1>3

\* The greatest element of a set, by what it is.
LEMMA LastIs ==
  ASSUME NEW S, S \subseteq Nat, NEW m \in S, \A x \in S : x <= m
  PROVE  Max(S) = m
<1>1. S # {} /\ m \in Nat
  OBVIOUS
<1>2. Max(S) \in S /\ Max(S) >= m
  BY <1>1, LastHit
<1>3. Max(S) <= m /\ Max(S) \in Nat
  BY <1>2
<1> QED
  BY <1>1, <1>2, <1>3

\* A place in the lines stands in its line, or at the end of it.
LEMMA OffsetInLine ==
  ASSUME lines \in Lines, NEW p \in Places, p.line < Len(lines)
  PROVE  /\ p.line \in Nat /\ p.column \in Nat /\ Start(lines, p.line) \in Nat
         /\ Len(lines[p.line + 1]) \in Nat
         /\ Offset(lines, p) = Start(lines, p.line) +
              (IF p.column <= Len(lines[p.line + 1]) THEN p.column ELSE Len(lines[p.line + 1]))
<1>1. p.line \in Nat /\ p.column \in Nat /\ Len(lines) \in Nat
  BY DEF Places, Lines
<1>2. Start(lines, p.line) \in Nat /\ Len(lines[p.line + 1]) \in Nat
  BY <1>1, StartNext, LineFacts
<1> QED
  BY <1>1, <1>2 DEF Offset, LineAt, Min2, Start

\* The code reaches the column of a character in its line.
LEMMA ColumnReached ==
  ASSUME lines \in Lines, position \in Places, NEW k \in Nat, k < Len(lines),
         NEW c \in Nat, c <= Len(lines[k + 1])
  PROVE  /\ SetPosition(k, c) = Place(k, c)
         /\ Offset(lines, Place(k, c)) = Start(lines, k) + c
<1>1. Place(k, c) \in Places /\ Place(k, c).line = k /\ Place(k, c).column = c
  BY PlaceType DEF Place
<1>2. Len(lines[k + 1]) \in Nat /\ Len(lines) \in Nat
  BY LineFacts DEF Lines
<1>3. Offset(lines, Place(k, c)) = Start(lines, k) + c
  BY <1>1, <1>2, OffsetInLine
<1>4. Min2(Len(lines), k) = k /\ Min2(Len(lines[k + 1]), c) = c
  BY <1>2 DEF Min2
<1>5. SetPosition(k, c) = Place(k, c)
  BY <1>2, <1>4 DEF SetPosition
<1> QED
  BY <1>3, <1>5

\* A hit stands in a line: this is what a search reports of it.
IsHitAt(q, hit, k, c) ==
  /\ k \in Nat /\ c \in Nat /\ k < Len(lines)
  /\ c \in Hits(q.word, lines[k + 1])
  /\ hit = Found(k, c)

\* A hit is read from the text, and the code reaches every character of it.
LEMMA HitReported ==
  ASSUME TypeOK, NEW q \in Queries, NEW hit, NEW p, Search(q, hit, p), NEW k, NEW c,
         IsHitAt(q, hit, k, c)
  PROVE  /\ outcome' = "ok" /\ lastHit' = q.word /\ position' = p
         /\ Offset(lines, startLastHit') = Start(lines, k) + c
         /\ \A n \in 0 .. Len(q.word) :
              Offset(lines, SetPosition(k, c + n)) = Start(lines, k) + (c + n)
<1>1. lines \in Lines /\ position \in Places
  BY DEF TypeOK
<1>2. k \in Nat /\ c \in Nat /\ k < Len(lines) /\ c \in Hits(q.word, lines[k + 1])
  BY DEF IsHitAt
<1>3. hit.found /\ hit.defined /\ hit.place = Place(k, c)
  BY DEF IsHitAt, Found
<1>4. hit.place.line = k /\ hit.place.column = c /\ LineAt(lines, hit.place) = lines[k + 1]
  BY <1>3 DEF Place, LineAt
<1>5. q.word \in Seq(Letters) /\ Len(q.word) \in Nat /\ q.isCondition \in BOOLEAN
  BY QueryFacts
<1>6. lines[k + 1] \in Seq(Letters) /\ Len(lines[k + 1]) \in Nat
  BY <1>1, <1>2, LineFacts
<1>7. c + Len(q.word) <= Len(lines[k + 1])
  BY <1>2, <1>5, <1>6, HitIs
<1>8. c <= Len(lines[k + 1]) /\ ~ (c + Len(q.word) > Len(lines[k + 1]) + 1)
  BY <1>2, <1>5, <1>6, <1>7
<1>9. HitOutcome(q, hit) = "ok"
  BY <1>2, <1>3, <1>4, <1>6, <1>8 DEF HitOutcome
<1>10. Min2(Len(lines[k + 1]), c + Len(q.word)) = c + Len(q.word)
  BY <1>2, <1>5, <1>6, <1>7 DEF Min2
<1>11. Piece(lines[k + 1], c, c + Len(q.word)) = q.word
  BY <1>2 DEF Hits
<1>12. outcome' = "ok" /\ position' = p /\ startLastHit' = Place(k, c) /\ lastHit' = q.word
  BY <1>3, <1>4, <1>9, <1>10, <1>11 DEF Search
<1>13. Offset(lines, Place(k, c)) = Start(lines, k) + c
  BY <1>1, <1>2, <1>8, ColumnReached
<1>14. ASSUME NEW n \in 0 .. Len(q.word)
       PROVE  Offset(lines, SetPosition(k, c + n)) = Start(lines, k) + (c + n)
  <2>1. c + n \in Nat /\ c + n <= Len(lines[k + 1])
    BY <1>2, <1>5, <1>6, <1>7
  <2> QED
    BY <1>1, <1>2, <2>1, ColumnReached
<1> QED
  BY <1>12, <1>13, <1>14

\* The word of a search is not empty.
LEMMA WordFacts ==
  ASSUME NEW q \in Queries
  PROVE  q.word \in Seq(Letters) /\ q.word # <<>> /\ Len(q.word) \in Nat /\ Len(q.word) >= 1
<1>1. q.word \in Seq(Letters) /\ Len(q.word) \in Nat /\ q.word # <<>>
  BY QueryFacts, LineBufferAssumption
<1> QED
  BY <1>1

\* What a search forward goes through is what is behind its start.
LEMMA ForwardReaches ==
  ASSUME lines \in Lines, position \in Places, NEW q \in Queries, HitsInRest(q) = {},
         NEW s, s = ForwardStart(q), NEW first, first = (IF s.column > 0 THEN s.line + 1 ELSE s.line),
         NEW k \in Nat, k < Len(lines), NEW c, c \in Hits(q.word, lines[k + 1])
  PROVE  Start(lines, k) + c >= Offset(lines, s) <=> k >= first
<1>1. s \in Places /\ s.line \in Nat /\ s.column \in Nat /\ Len(lines) \in Nat
  BY ForwardStartType DEF Places, Lines
<1>2. q.word \in Seq(Letters) /\ Len(q.word) \in Nat /\ Len(q.word) >= 1
  BY WordFacts
<1>3. /\ Start(lines, k) \in Nat /\ Len(lines[k + 1]) \in Nat /\ Len(Flat(lines)) \in Nat
      /\ Start(lines, k) + Len(lines[k + 1]) + 1 <= Len(Flat(lines))
  BY CharsOfLine
<1>4. c \in Nat /\ c + Len(q.word) <= Len(lines[k + 1])
  BY <1>2, HitOfLine
<1>5. CASE ~ (s.line < Len(lines))
  <2>1. Offset(lines, s) = Len(Flat(lines))
    BY <1>1, <1>5, PlaceAtEnd
  <2>2. ~ (k >= first)
    BY <1>1, <1>5
  <2> QED
    BY <1>2, <1>3, <1>4, <2>1, <2>2, SMTT(60)
<1>6. CASE s.line < Len(lines)
  <2>1. PICK a, n : a = Start(lines, s.line) /\ n = Len(lines[s.line + 1])
    OBVIOUS
  <2>2. a \in Nat /\ n \in Nat
        /\ Offset(lines, s) = a + (IF s.column <= n THEN s.column ELSE n)
    BY <1>1, <1>6, <2>1, OffsetInLine
  <2>3. CASE k < s.line
    <3>1. Start(lines, k) + Len(lines[k + 1]) + 1 <= a
      BY <1>1, <1>6, <2>1, <2>3, StartGrows
    <3>2. ~ (k >= first)
      BY <1>1, <2>3
    <3>3. Offset(lines, s) >= a /\ Offset(lines, s) \in Nat
      BY <1>1, <2>2
    <3>4. Start(lines, k) + c < a
      BY <1>2, <1>3, <1>4, <2>2, <3>1, SMTT(60)
    <3> QED
      BY <1>3, <1>4, <2>2, <3>2, <3>3, <3>4, SMTT(60)
  <2>4. CASE s.line < k
    <3>1. a + n + 1 <= Start(lines, k)
      BY <1>1, <2>1, <2>4, StartGrows
    <3>2. k >= first
      BY <1>1, <2>4
    <3> QED
      BY <1>1, <1>3, <1>4, <2>2, <3>1, <3>2, SMTT(60)
  <2>5. CASE k = s.line
    <3>1. CASE s.column = 0
      <4>1. k >= first /\ Offset(lines, s) = a /\ a = Start(lines, k)
        BY <1>1, <2>1, <2>2, <2>5, <3>1
      <4> QED
        BY <1>3, <1>4, <4>1
    <3>2. CASE s.column > 0
      <4>1. ~ (k >= first)
        BY <1>1, <2>5, <3>2
      <4>2. ASSUME Start(lines, k) + c >= Offset(lines, s) PROVE FALSE
        <5>0. n = Len(lines[k + 1]) /\ a = Start(lines, k)
          BY <2>1, <2>5
        <5>1. c >= (IF s.column <= n THEN s.column ELSE n) /\ n = Len(lines[k + 1])
          <6>1. PICK d : d = IF s.column <= n THEN s.column ELSE n
            OBVIOUS
          <6>2. d \in Nat /\ a + c >= a + d
            BY <1>1, <2>2, <4>2, <5>0, <6>1
          <6>3. c >= d
            BY <1>4, <2>2, <6>2
          <6> QED
            BY <5>0, <6>1, <6>3
        <5>2. s.column < n /\ c >= s.column
          BY <1>1, <1>2, <1>4, <2>2, <5>1
        <5>3. IsPartial(s) /\ LineAt(lines, s) = lines[k + 1]
          BY <1>6, <2>5, <3>2, <5>1, <5>2 DEF IsPartial, LineAt
        <5>4. Hits(q.word, Right(lines[k + 1], s.column)) = {}
          BY <5>3 DEF HitsInRest
        <5>5. lines[k + 1] \in Seq(Letters)
          BY LineFacts
        <5>6. PICK l, r : l = lines[k + 1] /\ r = Right(l, s.column)
          OBVIOUS
        <5>7. /\ r \in Seq(Letters) /\ Len(r) = n - s.column
              /\ \A i \in 1 .. n - s.column : r[i] = l[s.column + i]
          <6>1. s.column \in Nat /\ s.column <= Len(l) /\ l \in Seq(Letters) /\ Len(l) = n
            BY <1>1, <2>2, <5>1, <5>2, <5>5, <5>6
          <6>2. /\ r \in Seq(Letters) /\ Len(r) = Len(l) - s.column
                /\ \A i \in 1 .. Len(l) - s.column : r[i] = l[s.column + i]
            <7>1. /\ Right(l, s.column) \in Seq(Letters)
                  /\ Len(Right(l, s.column)) = Len(l) - s.column
                  /\ \A i \in 1 .. Len(l) - s.column : Right(l, s.column)[i] = l[s.column + i]
              BY <6>1, Halves, ZenonT(60)
            <7> QED
              BY <5>6, <7>1
          <6> QED
            BY <6>1, <6>2
        <5>8. \A i \in 1 .. Len(q.word) : l[c + i] = q.word[i]
          BY <1>2, <5>5, <5>6, HitIs
        <5>9. PICK d \in Nat : c = s.column + d
          <6>1. c - s.column \in Nat /\ c = s.column + (c - s.column)
            BY <1>1, <1>4, <5>2
          <6> QED
            BY <6>1
        <5>10. d + Len(q.word) <= Len(r)
          BY <1>1, <1>2, <1>4, <2>2, <5>1, <5>7, <5>9, SMTT(60)
        <5>11. ASSUME NEW i \in 1 .. Len(q.word) PROVE r[d + i] = q.word[i]
          <6>1. d + i \in 1 .. n - s.column /\ s.column + (d + i) = c + i
            <7>1. i \in Nat /\ i >= 1 /\ d + i <= n - s.column
              <8>1. d + Len(q.word) <= n - s.column /\ n - s.column \in Int
                BY <1>1, <2>2, <5>7, <5>10
              <8> QED
                BY <1>2, <5>9, <8>1
            <7> QED
              BY <1>1, <2>2, <5>9, <7>1
          <6> QED
            BY <5>7, <5>8, <6>1
        <5>12. d \in Hits(q.word, r)
          BY <1>2, <5>7, <5>10, <5>11, HitIs
        <5> QED
          BY <5>4, <5>6, <5>12
      <4> QED
        BY <4>1, <4>2
    <3> QED
      BY <1>1, <3>1, <3>2
  <2> QED
    BY <1>1, <2>3, <2>4, <2>5
<1> QED
  BY <1>5, <1>6

\* A search forward without a hit in the rest of its line finds the first hit of the text.
LEMMA ForwardFinds ==
  ASSUME lines \in Lines, position \in Places, NEW q \in Queries, ~ q.inline, HitsInRest(q) = {},
         NEW hits, hits = {h \in Hits(q.word, Text) : h >= Offset(lines, ForwardStart(q))}
  PROVE  \/ hits = {} /\ Forward(q) = NotFound
         \/ \E k, c : /\ IsHitAt(q, Forward(q), k, c)
                      /\ hits # {} /\ Min(hits) = Start(lines, k) + c
<1> DEFINE s == ForwardStart(q)
           first == IF s.column > 0 THEN s.line + 1 ELSE s.line
           last == Len(lines) - 1
           hitLines == {k \in first .. last : Hits(q.word, lines[k + 1]) # {}}
           m == Min(hitLines)
           o == Min(Hits(q.word, lines[m + 1]))
<1>1. Forward(q) = IF hitLines # {} THEN Found(m, o) ELSE NotFound
  BY DEF Forward
<1>2. s \in Places /\ s.line \in Nat /\ s.column \in Nat /\ Len(lines) \in Nat
  BY ForwardStartType DEF Places, Lines
<1>3. first \in Nat
  BY <1>2
<1>4. ASSUME NEW k \in Nat, k < Len(lines), NEW c, c \in Hits(q.word, lines[k + 1])
      PROVE  Start(lines, k) + c >= Offset(lines, s) <=> k >= first
  BY <1>4, ForwardReaches
<1> HIDE DEF s, first
<1>5. q.word \in Seq(Letters) /\ q.word # <<>> /\ Len(q.word) \in Nat /\ Len(q.word) >= 1
  BY WordFacts
<1>6. ASSUME NEW h \in hits
      PROVE  \E k \in hitLines, c \in Nat : h = Start(lines, k) + c /\ c \in Hits(q.word, lines[k + 1])
  <2>1. h \in Hits(q.word, Flat(lines)) /\ h >= Offset(lines, s)
    BY DEF Text, s
  <2>2. PICK k \in Nat, c \in Nat : /\ k < Len(lines) /\ h = Start(lines, k) + c
                                    /\ c \in Hits(q.word, lines[k + 1])
    BY <1>5, <2>1, LineOfHit
  <2>3. k >= first
    BY <1>4, <2>1, <2>2
  <2>4. k \in first .. last
    BY <1>2, <1>3, <2>2, <2>3
  <2> QED
    BY <2>2, <2>4
<1>7. ASSUME NEW k \in hitLines
      PROVE  /\ k \in Nat /\ k < Len(lines) /\ Hits(q.word, lines[k + 1]) \subseteq Nat
             /\ Hits(q.word, lines[k + 1]) # {}
             /\ \A c \in Hits(q.word, lines[k + 1]) :
                  c + Len(q.word) <= Len(lines[k + 1]) /\ Start(lines, k) + c \in hits
  <2>1. k \in Nat /\ k < Len(lines) /\ k >= first /\ Hits(q.word, lines[k + 1]) # {}
    BY <1>2, <1>3
  <2>2. \A c \in Hits(q.word, lines[k + 1]) :
          /\ c \in Nat /\ c + Len(q.word) <= Len(lines[k + 1])
          /\ Start(lines, k) + c \in Hits(q.word, Flat(lines))
    BY <1>5, <2>1, HitOfLine
  <2>3. \A c \in Hits(q.word, lines[k + 1]) : Start(lines, k) + c >= Offset(lines, s)
    BY <1>4, <2>1
  <2> QED
    BY <2>1, <2>2, <2>3 DEF Text, s
<1>8. CASE hitLines = {}
  <2>1. hits = {}
    BY <1>6, <1>8
  <2> QED
    BY <1>1, <1>8, <2>1
<1>9. CASE hitLines # {}
  <2>1. hitLines \subseteq Nat
    BY <1>7
  <2> HIDE DEF hitLines
  <2>2. m \in hitLines /\ \A k \in hitLines : m <= k
    BY <1>9, <2>1, LeastHit
  <2> HIDE DEF m
  <2>3. /\ m \in Nat /\ m < Len(lines) /\ Hits(q.word, lines[m + 1]) \subseteq Nat
        /\ Hits(q.word, lines[m + 1]) # {}
    BY <1>7, <2>2
  <2>4. o \in Hits(q.word, lines[m + 1]) /\ \A c \in Hits(q.word, lines[m + 1]) : o <= c
    BY <2>3, LeastHit
  <2> HIDE DEF o
  <2>5. o \in Nat /\ o + Len(q.word) <= Len(lines[m + 1]) /\ Start(lines, m) + o \in hits
    BY <1>7, <2>2, <2>3, <2>4
  <2>6. ASSUME NEW h \in hits PROVE h \in Nat /\ Start(lines, m) + o <= h
    <3>1. PICK k \in hitLines, c \in Nat :
            h = Start(lines, k) + c /\ c \in Hits(q.word, lines[k + 1])
      BY <1>6
    <3>2. k \in Nat /\ k < Len(lines) /\ m <= k
      BY <1>7, <2>2, <3>1
    <3>3. Start(lines, k) \in Nat /\ Start(lines, m) \in Nat /\ Len(lines[m + 1]) \in Nat
      BY <2>3, <3>2, StartNext, LineFacts
    <3>4. CASE k = m
      BY <2>4, <2>5, <3>1, <3>3, <3>4
    <3>5. CASE m < k
      <4>1. Start(lines, m) + Len(lines[m + 1]) + 1 <= Start(lines, k)
        BY <1>2, <2>3, <3>2, <3>5, StartGrows
      <4> QED
        BY <1>5, <2>5, <3>1, <3>3, <4>1, SMTT(60)
    <3> QED
      BY <2>3, <3>2, <3>4, <3>5
  <2>7. Min(hits) = Start(lines, m) + o
    <3>1. hits \subseteq Nat
      BY <2>6
    <3> QED
      BY <2>5, <2>6, <3>1, LeastIs
  <2>8. IsHitAt(q, Forward(q), m, o)
    BY <1>1, <1>9, <2>3, <2>4, <2>5 DEF IsHitAt
  <2> QED
    BY <2>5, <2>7, <2>8
<1> QED
  BY <1>8, <1>9

\* What a search backward goes through is what ends before its start.
LEMMA BackwardReaches ==
  ASSUME lines \in Lines, NEW w \in Seq(Letters), w # <<>>, NEW s \in Places,
         s.line < Len(lines),
         NEW k \in Nat, k < Len(lines), NEW c, c \in Hits(w, lines[k + 1])
  PROVE  /\ Start(lines, k) + c + Len(w) <= Offset(lines, s) <=>
              k < s.line \/ (k = s.line /\ c + Len(w) <= s.column)
         /\ Start(lines, k) + c >= Offset(lines, Place(s.line, 0)) <=> k >= s.line
<1>1. s.line \in Nat /\ s.column \in Nat /\ Len(lines) \in Nat
  BY DEF Places, Lines
<1>2. Len(w) \in Nat /\ Len(w) >= 1
  OBVIOUS
<1>3. Start(lines, k) \in Nat /\ Len(lines[k + 1]) \in Nat
  BY StartNext, LineFacts
<1>4. c \in Nat /\ c + Len(w) <= Len(lines[k + 1])
  BY HitOfLine
<1>5. PICK a, n, b, m, z : /\ a = Start(lines, s.line) /\ n = Len(lines[s.line + 1])
                           /\ b = Start(lines, k) /\ m = Len(lines[k + 1]) /\ z = Len(w)
  OBVIOUS
<1>6. a \in Nat /\ n \in Nat
      /\ Offset(lines, s) = a + (IF s.column <= n THEN s.column ELSE n)
  BY <1>1, <1>5, OffsetInLine
<1>7. Offset(lines, Place(s.line, 0)) = a
  <2>1. 0 <= n
    BY <1>6
  <2>2. Place(s.line, 0) \in Places /\ Place(s.line, 0).line = s.line
        /\ Place(s.line, 0).column = 0
    BY <1>1, PlaceType DEF Place
  <2>3. Offset(lines, Place(s.line, 0)) = a + 0
    BY <1>5, <2>1, <2>2, OffsetInLine
  <2> QED
    BY <1>6, <2>3
<1>8. PICK d \in Nat : d = (IF s.column <= n THEN s.column ELSE n)
  BY <1>1, <1>6
<1>9. /\ d <= n /\ d <= s.column /\ b \in Nat /\ m \in Nat /\ z \in Nat /\ z >= 1 /\ c + z <= m
      /\ Offset(lines, s) = a + d
  BY <1>1, <1>2, <1>3, <1>4, <1>5, <1>6, <1>8, SMTT(60)
<1>10. CASE k < s.line
  <2>1. b + m + 1 <= a
    BY <1>1, <1>5, <1>10, StartGrows
  <2>2. b + c + z <= a + d /\ ~ (b + c >= a)
    BY <1>4, <1>6, <1>9, <2>1
  <2>3. ~ (k >= s.line)
    BY <1>1, <1>10
  <2> QED
    BY <1>5, <1>7, <1>9, <1>10, <2>2, <2>3
<1>11. CASE s.line < k
  <2>1. a + n + 1 <= b
    BY <1>1, <1>5, <1>11, StartGrows
  <2>2. ~ (b + c + z <= a + d) /\ b + c >= a
    BY <1>4, <1>6, <1>9, <2>1
  <2>3. k >= s.line /\ k # s.line /\ ~ (k < s.line)
    BY <1>1, <1>11
  <2> QED
    BY <1>5, <1>7, <1>9, <2>2, <2>3
<1>12. CASE k = s.line
  <2>1. a = b /\ n = m
    BY <1>5, <1>12
  <2>2. b + c + z <= a + d <=> c + z <= s.column
    <3>1. c + z <= d <=> c + z <= s.column
      BY <1>1, <1>4, <1>8, <1>9, <2>1, SMTT(60)
    <3> QED
      BY <1>4, <1>6, <1>9, <2>1, <3>1
  <2>3. b + c >= a
    BY <1>4, <1>6, <2>1
  <2>4. k >= s.line /\ ~ (k < s.line)
    BY <1>1, <1>12
  <2> QED
    BY <1>5, <1>7, <1>9, <1>12, <2>2, <2>3, <2>4
<1> QED
  BY <1>1, <1>10, <1>11, <1>12

\* A search backward finds the last hit of what it reaches.
\* An occurrence a search backward reaches: it ends before the start, and an inline search
\* stays in the line of the start.
IsReached(q, s, h) ==
  /\ h \in Hits(q.word, Text) /\ h + Len(q.word) <= Offset(lines, s)
  /\ q.inline => h >= Offset(lines, Place(s.line, 0))

\* A search backward with an occurrence to reach finds the last of them.
LEMMA BackwardFinds ==
  ASSUME lines \in Lines, position \in Places, position.line < Len(lines), NEW q \in Queries,
         NEW s, s = BackwardStart(q),
         NEW reached, \A h : h \in reached <=> IsReached(q, s, h),
         reached # {}
  PROVE  \E k, c : /\ IsHitAt(q, Backward(q), k, c)
                   /\ Max(reached) = Start(lines, k) + c
<1> DEFINE here == {h \in Hits(q.word, LineAt(lines, s)) : h + Len(q.word) <= s.column}
           above == {k \in 0 .. s.line - 1 : Hits(q.word, lines[k + 1]) # {}}
           m == Max(here)
           n == Max(above)
           o == Max(Hits(q.word, lines[n + 1]))
<1>1. Backward(q) = IF lines = <<>> \/ s = Place(0, 0) THEN NotFound
                    ELSE IF here # {} THEN Found(s.line, m)
                    ELSE IF q.inline \/ s.line = 0 THEN NotFound
                    ELSE IF above = {} THEN Lost ELSE Found(n, o)
  BY DEF Backward
<1>2. /\ s \in Places /\ s.line \in Nat /\ s.column \in Nat /\ s.line < Len(lines)
      /\ Len(lines) \in Nat
  <2>1. position.line \in Nat /\ position.column \in Nat /\ Len(lines) \in Nat /\ Len(lines) > 0
    BY DEF Places, Lines
  <2>2. Len(lines) - 1 \in Nat /\ Min2(position.line, Len(lines) - 1) = position.line
    BY <2>1 DEF Min2
  <2>3. /\ Place(0, 0) \in Places /\ Place(position.line, 0) \in Places
        /\ Place(position.line, Far) \in Places /\ Place(position.line, position.column) \in Places
        /\ Place(Len(lines) - 1, Far) \in Places
    BY <2>1, <2>2, FarType, PlaceType
  <2>4. s \in Places
    BY <2>2, <2>3 DEF BackwardStart
  <2>5. s.line < Len(lines)
    BY <2>1, <2>2 DEF BackwardStart, Place
  <2> QED
    BY <2>1, <2>4, <2>5 DEF Places
<1>3. q.word \in Seq(Letters) /\ q.word # <<>> /\ Len(q.word) \in Nat /\ Len(q.word) >= 1
      /\ q.inline \in BOOLEAN
  BY WordFacts, QueryFacts
<1>4. lines # <<>>
  BY <1>2, EmptySeq
<1>5. ASSUME NEW k \in Nat, k < Len(lines), NEW c, c \in Hits(q.word, lines[k + 1])
      PROVE  /\ c \in Nat /\ c + Len(q.word) <= Len(lines[k + 1])
             /\ Start(lines, k) \in Nat /\ Len(lines[k + 1]) \in Nat
             /\ Start(lines, k) + c \in reached <=>
                  /\ k < s.line \/ (k = s.line /\ c + Len(q.word) <= s.column)
                  /\ q.inline => k >= s.line
  <2>1. /\ Start(lines, k) + c + Len(q.word) <= Offset(lines, s) <=>
             k < s.line \/ (k = s.line /\ c + Len(q.word) <= s.column)
        /\ Start(lines, k) + c >= Offset(lines, Place(s.line, 0)) <=> k >= s.line
    BY <1>2, <1>3, <1>5, BackwardReaches
  <2>2. /\ c \in Nat /\ c + Len(q.word) <= Len(lines[k + 1])
        /\ Start(lines, k) + c \in Hits(q.word, Flat(lines))
    BY <1>3, <1>5, HitOfLine
  <2>3. Start(lines, k) \in Nat /\ Len(lines[k + 1]) \in Nat
    BY <1>5, StartNext, LineFacts
  <2> QED
    BY <1>3, <2>1, <2>2, <2>3 DEF Text, IsReached
<1>6. ASSUME NEW h \in reached
      PROVE  \E k \in Nat, c \in Nat : /\ k < Len(lines) /\ c \in Hits(q.word, lines[k + 1])
                                       /\ h = Start(lines, k) + c
  <2>1. h \in Hits(q.word, Flat(lines))
    BY <1>3 DEF Text, IsReached
  <2> QED
    BY <1>3, <2>1, LineOfHit
<1>7. reached \subseteq Nat
  <2>1. ASSUME NEW h \in reached PROVE h \in Nat
    <3>1. PICK k \in Nat, c \in Nat : k < Len(lines) /\ h = Start(lines, k) + c
      BY <1>6
    <3> QED
      BY <3>1, StartNext
  <2> QED
    BY <2>1
<1>8. here = {h \in Hits(q.word, lines[s.line + 1]) : h + Len(q.word) <= s.column}
  BY DEF LineAt
<1>9. s # Place(0, 0)
  <2>1. SUFFICES ASSUME s.line = 0, s.column = 0 PROVE FALSE
    BY DEF Place
  <2>2. PICK h \in reached : TRUE
    OBVIOUS
  <2>3. PICK k \in Nat, c \in Nat : /\ k < Len(lines) /\ c \in Hits(q.word, lines[k + 1])
                                    /\ h = Start(lines, k) + c
    BY <1>6
  <2>4. k < 0 \/ c + Len(q.word) <= 0
    BY <1>5, <2>1, <2>3
  <2> QED
    BY <1>3, <2>4
<1>10. CASE here # {}
  <2>1. here \subseteq Nat /\ \A h \in here : h <= Len(lines[s.line + 1])
        /\ Len(lines[s.line + 1]) \in Nat
    <3>1. ASSUME NEW h \in here PROVE h \in Nat /\ h <= Len(lines[s.line + 1])
      <4>1. h \in Hits(q.word, lines[s.line + 1])
        BY <1>8
      <4>2. h \in Nat /\ h + Len(q.word) <= Len(lines[s.line + 1])
            /\ Len(lines[s.line + 1]) \in Nat
        BY <1>2, <1>5, <4>1
      <4> QED
        BY <1>3, <4>2
    <3>2. Len(lines[s.line + 1]) \in Nat
      BY <1>2, LineFacts
    <3> QED
      BY <3>1, <3>2
  <2>2. m \in here /\ \A h \in here : m >= h
    <3> HIDE DEF here
    <3>1. Len(lines[s.line + 1]) \in Nat
      BY <1>2, LineFacts
    <3> QED
      BY <1>10, <2>1, <3>1, LastHit
  <2> HIDE DEF m
  <2>3. m \in Hits(q.word, lines[s.line + 1]) /\ m + Len(q.word) <= s.column
    BY <1>8, <2>2
  <2>4. m \in Nat /\ Start(lines, s.line) \in Nat /\ Start(lines, s.line) + m \in reached
    <3>1. PICK k \in Nat : k = s.line
      BY <1>2
    <3>2. k < Len(lines) /\ m \in Hits(q.word, lines[k + 1]) /\ m + Len(q.word) <= s.column
          /\ k >= s.line
      BY <1>2, <2>3, <3>1
    <3>3. m \in Nat /\ Start(lines, k) \in Nat /\ Start(lines, k) + m \in reached
      BY <1>5, <3>1, <3>2
    <3> QED
      BY <3>1, <3>3
  <2>5. ASSUME NEW h \in reached PROVE h <= Start(lines, s.line) + m
    <3>1. PICK k \in Nat, c \in Nat : /\ k < Len(lines) /\ c \in Hits(q.word, lines[k + 1])
                                      /\ h = Start(lines, k) + c
      BY <1>6
    <3>2. /\ Start(lines, k) \in Nat /\ Len(lines[k + 1]) \in Nat
          /\ c + Len(q.word) <= Len(lines[k + 1])
          /\ k < s.line \/ (k = s.line /\ c + Len(q.word) <= s.column)
      BY <1>5, <3>1
    <3>3. CASE k = s.line
      <4>1. c \in here
        <5>1. c \in Hits(q.word, lines[s.line + 1])
          BY <3>1, <3>3
        <5>2. c + Len(q.word) <= s.column
          BY <1>2, <3>2, <3>3
        <5> QED
          BY <1>8, <5>1, <5>2
      <4>2. m >= c
        BY <2>2, <4>1
      <4> QED
        BY <2>4, <3>1, <3>3, <4>2
    <3>4. CASE k < s.line
      <4>1. Start(lines, k) + Len(lines[k + 1]) + 1 <= Start(lines, s.line)
        BY <1>2, <3>4, StartGrows
      <4> QED
        BY <1>3, <2>4, <3>1, <3>2, <4>1, SMTT(60)
    <3> QED
      BY <3>2, <3>3, <3>4
  <2>6. Max(reached) = Start(lines, s.line) + m
    BY <1>7, <2>4, <2>5, LastIs
  <2>7. IsHitAt(q, Backward(q), s.line, m)
    <3> HIDE DEF here
    <3> QED
      BY <1>1, <1>2, <1>4, <1>9, <1>10, <2>3, <2>4 DEF IsHitAt
  <2> QED
    BY <2>6, <2>7
<1>11. CASE here = {}
  <2>1. ASSUME NEW h \in reached, NEW k \in Nat, NEW c \in Nat, k < Len(lines),
               c \in Hits(q.word, lines[k + 1]), h = Start(lines, k) + c
        PROVE  ~ q.inline /\ k \in above
    <3>1. /\ k < s.line \/ (k = s.line /\ c + Len(q.word) <= s.column)
          /\ q.inline => k >= s.line
      BY <1>5, <2>1
    <3>2. ~ (k = s.line /\ c + Len(q.word) <= s.column)
      BY <1>8, <1>11, <2>1
    <3>3. k < s.line
      BY <3>1, <3>2
    <3> QED
      BY <1>2, <1>3, <2>1, <3>1, <3>3
  <2>2. PICK h \in reached : TRUE
    OBVIOUS
  <2>3. ~ q.inline /\ above # {}
    <3>1. PICK k \in Nat, c \in Nat : /\ k < Len(lines) /\ c \in Hits(q.word, lines[k + 1])
                                      /\ h = Start(lines, k) + c
      BY <1>6
    <3> HIDE DEF above
    <3> QED
      BY <2>1, <3>1
  <2>4. \A k \in above : k \in Nat /\ k < s.line /\ k < Len(lines) /\ Hits(q.word, lines[k + 1]) # {}
    BY <1>2
  <2>5. n \in above /\ \A k \in above : n >= k
    <3>1. above \subseteq Nat /\ \A k \in above : k <= s.line
      BY <1>2, <2>4
    <3> HIDE DEF above
    <3> QED
      BY <1>2, <2>3, <3>1, LastHit
  <2> HIDE DEF n, above
  <2>6. n \in Nat /\ n < s.line /\ n < Len(lines) /\ Hits(q.word, lines[n + 1]) # {}
    BY <2>4, <2>5
  <2>7. o \in Hits(q.word, lines[n + 1]) /\ \A c \in Hits(q.word, lines[n + 1]) : o >= c
    <3>1. Len(lines[n + 1]) \in Nat
      BY <2>6, LineFacts
    <3>2. ASSUME NEW c \in Hits(q.word, lines[n + 1]) PROVE c \in Nat /\ c <= Len(lines[n + 1])
      <4>1. c \in Nat /\ c + Len(q.word) <= Len(lines[n + 1])
        BY <1>5, <2>6
      <4> QED
        BY <1>3, <3>1, <4>1
    <3>3. Hits(q.word, lines[n + 1]) \subseteq Nat
      BY <3>2
    <3> QED
      BY <2>6, <3>1, <3>2, <3>3, LastHit
  <2> HIDE DEF o
  <2>8. o \in Nat /\ Start(lines, n) \in Nat /\ Start(lines, n) + o \in reached
    BY <1>5, <2>3, <2>6, <2>7
  <2>9. ASSUME NEW g \in reached PROVE g <= Start(lines, n) + o
    <3>1. PICK k \in Nat, c \in Nat : /\ k < Len(lines) /\ c \in Hits(q.word, lines[k + 1])
                                      /\ g = Start(lines, k) + c
      BY <1>6
    <3>2. k \in above
      BY <2>1, <3>1
    <3>3. n >= k
      BY <2>5, <3>2
    <3>4. /\ Start(lines, k) \in Nat /\ Len(lines[k + 1]) \in Nat
          /\ c + Len(q.word) <= Len(lines[k + 1])
      BY <1>5, <3>1
    <3>5. CASE k = n
      BY <2>7, <2>8, <3>1, <3>5
    <3>6. CASE k < n
      <4>1. Start(lines, k) + Len(lines[k + 1]) + 1 <= Start(lines, n)
        BY <1>2, <2>6, <3>6, StartGrows
      <4> QED
        BY <1>3, <2>8, <3>1, <3>4, <4>1, SMTT(60)
    <3> QED
      BY <2>6, <3>1, <3>3, <3>5, <3>6
  <2>10. Max(reached) = Start(lines, n) + o
    BY <1>7, <2>8, <2>9, LastIs
  <2>11. IsHitAt(q, Backward(q), n, o)
    <3>1. s.line # 0
      BY <2>6
    <3> HIDE DEF here
    <3> QED
      BY <1>1, <1>4, <1>9, <1>11, <2>3, <2>6, <2>7, <2>8, <3>1 DEF IsHitAt
  <2> QED
    BY <2>10, <2>11
<1> QED
  BY <1>10, <1>11

\* A search forward reports the first occurrence behind its start.
LEMMA NextReported ==
  ASSUME TypeOK, NEW q \in Queries, ~ q.inline, HitsInRest(q) = {},
         NEW hits, hits = {h \in Hits(q.word, Text) : h >= Offset(lines, ForwardStart(q))},
         NEW hit, hit = Forward(q), NEW p, p = ForwardPosition(q, hit), Search(q, hit, p)
  PROVE  /\ outcome' = "ok"
         /\ IF hits = {} THEN position' = position
            ELSE /\ Offset(lines, startLastHit') = Min(hits) /\ lastHit' = q.word
                 /\ IF q.keep THEN position' = position
                    ELSE Offset(lines, position') = Min(hits) + Len(q.word)
<1>1. lines \in Lines /\ position \in Places
  BY DEF TypeOK
<1>2. \/ hits = {} /\ hit = NotFound
      \/ \E k, c : /\ IsHitAt(q, hit, k, c)
                   /\ hits # {} /\ Min(hits) = Start(lines, k) + c
  BY <1>1, ForwardFinds
<1>3. CASE hits = {} /\ hit = NotFound
  <2>1. ~ hit.found /\ hit.defined
    BY <1>3 DEF NotFound
  <2>2. p = position
    BY <2>1 DEF ForwardPosition
  <2>3. HitOutcome(q, hit) = "ok"
    BY <2>1 DEF HitOutcome
  <2> QED
    BY <1>3, <2>2, <2>3 DEF Search
<1>4. CASE \E k, c : /\ IsHitAt(q, hit, k, c)
                     /\ hits # {} /\ Min(hits) = Start(lines, k) + c
  <2>1. PICK k, c : IsHitAt(q, hit, k, c) /\ hits # {} /\ Min(hits) = Start(lines, k) + c
    BY <1>4
  <2>2. Len(q.word) \in Nat /\ q.keep \in BOOLEAN
    BY QueryFacts
  <2>3. /\ outcome' = "ok" /\ lastHit' = q.word /\ position' = p
        /\ Offset(lines, startLastHit') = Start(lines, k) + c
        /\ \A n \in 0 .. Len(q.word) :
             Offset(lines, SetPosition(k, c + n)) = Start(lines, k) + (c + n)
    BY <2>1, HitReported
  <2>4. hit.found /\ hit.place = Place(k, c)
    BY <2>1 DEF IsHitAt, Found
  <2>5. q.keep => p = position
    BY DEF ForwardPosition
  <2>6. ~ q.keep => p = SetPosition(k, c + Len(q.word))
    BY <2>4 DEF ForwardPosition, Place
  <2>7. k \in Nat /\ c \in Nat /\ k < Len(lines)
    BY <2>1 DEF IsHitAt
  <2>8. Start(lines, k) \in Nat
    BY <1>1, <2>7, StartNext
  <2>9. ~ q.keep => Offset(lines, p) = Min(hits) + Len(q.word)
    <3>1. Offset(lines, SetPosition(k, c + Len(q.word))) = Start(lines, k) + (c + Len(q.word))
      BY <2>2, <2>3
    <3>2. Start(lines, k) + (c + Len(q.word)) = Min(hits) + Len(q.word)
      BY <2>1, <2>2, <2>7, <2>8
    <3> QED
      BY <2>6, <3>1, <3>2
  <2> QED
    BY <2>1, <2>3, <2>5, <2>9
<1> QED
  BY <1>2, <1>3, <1>4

\* A search backward reports the last occurrence it reaches.
LEMMA LastReported ==
  ASSUME TypeOK, NEW q \in Queries, position.line < Len(lines),
         NEW s, s = BackwardStart(q),
         NEW reached, \A h : h \in reached <=> IsReached(q, s, h),
         reached # {},
         NEW hit, hit = Backward(q), NEW p, p = BackwardPosition(q, hit), Search(q, hit, p)
  PROVE  /\ outcome' = "ok"
         /\ Offset(lines, startLastHit') = Max(reached) /\ lastHit' = q.word
         /\ Offset(lines, position') = Max(reached) + Len(q.word) - 1
<1>1. lines \in Lines /\ position \in Places
  BY DEF TypeOK
<1>2. \E k, c : IsHitAt(q, hit, k, c) /\ Max(reached) = Start(lines, k) + c
  BY <1>1, BackwardFinds
<1>3. PICK k, c : IsHitAt(q, hit, k, c) /\ Max(reached) = Start(lines, k) + c
  BY <1>2
<1>4. Len(q.word) \in Nat /\ Len(q.word) >= 1
  BY WordFacts
<1>5. /\ outcome' = "ok" /\ lastHit' = q.word /\ position' = p
      /\ Offset(lines, startLastHit') = Start(lines, k) + c
      /\ \A n \in 0 .. Len(q.word) :
           Offset(lines, SetPosition(k, c + n)) = Start(lines, k) + (c + n)
  BY <1>3, HitReported
<1>6. hit.found /\ hit.place = Place(k, c)
  BY <1>3 DEF IsHitAt, Found
<1>7. k \in Nat /\ c \in Nat /\ k < Len(lines)
  BY <1>3 DEF IsHitAt
<1>8. Start(lines, k) \in Nat
  BY <1>1, <1>7, StartNext
<1>9. p = SetPosition(k, c + (Len(q.word) - 1))
  <2>1. p = SetPosition(k, c + Len(q.word) - 1)
    BY <1>6 DEF BackwardPosition, Place
  <2>2. c + Len(q.word) - 1 = c + (Len(q.word) - 1)
    BY <1>4, <1>7
  <2> QED
    BY <2>1, <2>2
<1>10. Offset(lines, p) = Start(lines, k) + (c + (Len(q.word) - 1))
  <2>1. Len(q.word) - 1 \in 0 .. Len(q.word)
    BY <1>4
  <2> QED
    BY <1>5, <1>9, <2>1
<1>11. Start(lines, k) + (c + (Len(q.word) - 1)) = Max(reached) + Len(q.word) - 1
  BY <1>3, <1>4, <1>7, <1>8
<1> QED
  BY <1>3, <1>5, <1>10, <1>11

LEMMA SearchNextStep ==
  ASSUME TypeOK, [Next]_vars
  PROVE  [FindsNext]_vars
<1> SUFFICES ASSUME Next, statement'.name = "search forward" PROVE FindsNext
  BY DEF FindsNext
<1>1. PICK q \in Queries : SearchForward(q)
  BY StepNames
<1>2. statement'.query = q
  BY <1>1 DEF SearchForward
<1>3. Search(q, Forward(q), ForwardPosition(q, Forward(q)))
  BY <1>1 DEF SearchForward
<1>4. PICK hit : hit = Forward(q)
  OBVIOUS
<1>5. PICK hits : hits = {h \in Hits(q.word, Text) : h >= Offset(lines, ForwardStart(q))}
  OBVIOUS
<1>6. ~ q.inline /\ HitsInRest(q) = {} =>
        /\ outcome' = "ok"
        /\ IF hits = {} THEN position' = position
           ELSE /\ Offset(lines, startLastHit') = Min(hits) /\ lastHit' = q.word
                /\ IF q.keep THEN position' = position
                   ELSE Offset(lines, position') = Min(hits) + Len(q.word)
  BY <1>3, <1>4, <1>5, NextReported
<1> QED
  BY <1>2, <1>5, <1>6 DEF FindsNext

LEMMA SearchLastStep ==
  ASSUME TypeOK, [Next]_vars
  PROVE  [FindsLast]_vars
<1> SUFFICES ASSUME Next, statement'.name = "search backward" PROVE FindsLast
  BY DEF FindsLast
<1>1. PICK q \in Queries : SearchBackward(q)
  BY StepNames
<1>2. statement'.query = q
  BY <1>1 DEF SearchBackward
<1>3. Search(q, Backward(q), BackwardPosition(q, Backward(q)))
  BY <1>1 DEF SearchBackward
<1>4. PICK hit : hit = Backward(q)
  OBVIOUS
<1>5. PICK s : s = BackwardStart(q)
  OBVIOUS
<1>6. PICK hits : hits = {h \in Hits(q.word, Text) : h + Len(q.word) <= Offset(lines, s)}
  OBVIOUS
<1>7. PICK reached : reached = (IF q.inline THEN {h \in hits : h >= Offset(lines, Place(s.line, 0))}
                                ELSE hits)
  OBVIOUS
<1>8. \A h : h \in reached <=> IsReached(q, s, h)
  BY <1>6, <1>7 DEF IsReached
<1>9. position.line < Len(lines) /\ reached # {} =>
        /\ outcome' = "ok"
        /\ Offset(lines, startLastHit') = Max(reached) /\ lastHit' = q.word
        /\ Offset(lines, position') = Max(reached) + Len(q.word) - 1
  BY <1>3, <1>4, <1>5, <1>8, LastReported
<1> QED
  BY <1>2, <1>5, <1>6, <1>7, <1>9 DEF FindsLast

------------------------------------------------------------------------------
(* What replacing does to the text. *)

\* That three sequences can be joined in either order.
Associates(a, b, c) == (a \o b) \o c = a \o (b \o c)

LEMMA SequencesAssociate ==
  ASSUME NEW S, NEW a \in Seq(S), NEW b \in Seq(S), NEW c \in Seq(S)
  PROVE  Associates(a, b, c)
BY ConcatAssociative DEF Associates

LEMMA TextsAssociate ==
  ASSUME NEW a \in Seq(Chars), NEW b \in Seq(Chars), NEW c \in Seq(Chars)
  PROVE  Associates(a, b, c)
BY SequencesAssociate

\* What is behind a place behind another.
LEMMA RightOfRight ==
  ASSUME NEW S, NEW t \in Seq(S), NEW k \in Nat, NEW i \in Nat, k + i <= Len(t)
  PROVE  Right(Right(t, k), i) = Right(t, k + i)
<1>1. Len(t) \in Nat /\ k <= Len(t)
  BY LenProperties
<1>2. PICK r : r = Right(t, k)
  OBVIOUS
<1>3. /\ r \in Seq(S) /\ Len(r) = Len(t) - k
      /\ \A j \in 1 .. Len(t) - k : r[j] = t[k + j]
  BY <1>1, <1>2, Halves
<1>4. PICK x : x = Right(r, i)
  OBVIOUS
<1>5. i <= Len(r)
  BY <1>1, <1>3
<1>6. /\ x \in Seq(S) /\ Len(x) = Len(r) - i
      /\ \A j \in 1 .. Len(r) - i : x[j] = r[i + j]
  BY <1>3, <1>4, <1>5, Halves
<1>7. PICK y : y = Right(t, k + i)
  OBVIOUS
<1>8. /\ y \in Seq(S) /\ Len(y) = Len(t) - (k + i)
      /\ \A j \in 1 .. Len(t) - (k + i) : y[j] = t[(k + i) + j]
  <2>1. k + i \in Nat
    OBVIOUS
  <2> QED
    BY <1>1, <1>7, <2>1, Halves
<1>9. Len(x) = Len(y)
  BY <1>1, <1>3, <1>6, <1>8
<1>10. ASSUME NEW j \in 1 .. Len(x) PROVE x[j] = y[j]
  <2>1. j \in 1 .. Len(r) - i /\ i + j \in 1 .. Len(t) - k /\ k + (i + j) = (k + i) + j
    BY <1>1, <1>3, <1>6
  <2>2. x[j] = t[k + (i + j)]
    BY <1>3, <1>6, <2>1
  <2> QED
    BY <1>8, <1>9, <1>6, <2>1, <2>2
<1> QED
  BY <1>2, <1>4, <1>6, <1>7, <1>8, <1>9, <1>10, SeqEqual

\* A word stands behind a place as it stands in the text.
LEMMA HitBehindPlace ==
  ASSUME NEW S, NEW w \in Seq(S), NEW t \in Seq(S), NEW k \in Nat, k <= Len(t), NEW i \in Nat
  PROVE  i \in Hits(w, Right(t, k)) <=> k + i \in Hits(w, t)
<1>1. Len(t) \in Nat /\ Len(w) \in Nat
  BY LenProperties
<1>2. PICK r : r = Right(t, k)
  OBVIOUS
<1>3. /\ r \in Seq(S) /\ Len(r) = Len(t) - k
      /\ \A j \in 1 .. Len(t) - k : r[j] = t[k + j]
  BY <1>1, <1>2, Halves
<1>4. i \in Hits(w, r) <=> i + Len(w) <= Len(r) /\ \A j \in 1 .. Len(w) : r[i + j] = w[j]
  <2>1. r \in Seq(S)
    BY <1>3
  <2>2. \A h : h \in Hits(w, r) <=> /\ h \in Nat /\ h + Len(w) <= Len(r)
                                    /\ \A j \in 1 .. Len(w) : r[h + j] = w[j]
    BY <2>1, HitIs
  <2> QED
    BY <2>2
<1>5. k + i \in Hits(w, t) <=>
        (k + i) + Len(w) <= Len(t) /\ \A j \in 1 .. Len(w) : t[(k + i) + j] = w[j]
  <2>1. k + i \in Nat
    OBVIOUS
  <2> QED
    BY <2>1, HitIs
<1>6. i + Len(w) <= Len(r) <=> (k + i) + Len(w) <= Len(t)
  BY <1>1, <1>3
<1>7. ASSUME i + Len(w) <= Len(r), NEW j \in 1 .. Len(w) PROVE r[i + j] = t[(k + i) + j]
  <2>1. i + j \in 1 .. Len(t) - k /\ k + (i + j) = (k + i) + j
    BY <1>1, <1>3, <1>7
  <2> QED
    BY <1>3, <2>1
<1> QED
  BY <1>2, <1>4, <1>5, <1>6, <1>7

\* What the function of ReplaceFirst says of a place and a number.
ReplacedFrom(text, word, new, f, j, o) ==
  IF o = 0 \/ j = Len(text) THEN Right(text, j)
  ELSE IF j \in Hits(word, text) THEN new \o f[j + Len(word)][o - 1]
  ELSE <<text[j + 1]>> \o f[j + 1][o]

LEMMA ReplacingIs ==
  ASSUME NEW S, NEW text \in Seq(S), NEW word, NEW new, NEW n, NEW f,
         IsReplacing(text, word, new, n, f, 0), NEW j \in 0 .. Len(text), NEW o \in 0 .. n
  PROVE  f[j][o] = ReplacedFrom(text, word, new, f, j, o)
<1> DEFINE R(i) == Replaced(text, word, new, n, f, i)
<1>1. f = [i \in 0 .. Len(text) |-> R(i)]
  BY DEF IsReplacing
<1>2. f[j] = R(j)
  <2> HIDE DEF R
  <2> QED
    BY <1>1
<1> QED
  BY <1>2 DEF Replaced, ReplacedFrom

\* It replaces the first occurrences behind the place.
ReplacesBehind(text, word, new, n, f) ==
  \A k \in 0 .. Len(text), m \in 0 .. n :
    ReplaceFirst(Right(text, k), word, new, m) = f[k][m]

LEMMA ReplaceBehind ==
  ASSUME NEW S, NEW text \in Seq(S), NEW word \in Seq(S), word # <<>>, NEW new, NEW n \in Nat,
         NEW f, IsReplacing(text, word, new, n, f, 0)
  PROVE  ReplacesBehind(text, word, new, n, f)
<1> SUFFICES ASSUME NEW k \in 0 .. Len(text), NEW m \in 0 .. n
             PROVE  ReplaceFirst(Right(text, k), word, new, m) = f[k][m]
  BY DEF ReplacesBehind
<1>1. PICK L : L = Len(text)
  OBVIOUS
<1>2. PICK rest : rest = Right(text, k)
  OBVIOUS
<1>3. PICK M : M = L - k
  OBVIOUS
<1>4. L \in Nat /\ k \in Nat /\ M \in Nat /\ k + M = L /\ Len(word) \in Nat /\ Len(word) >= 1
  BY <1>1, <1>3, EmptySeq
<1>5. /\ rest \in Seq(S) /\ Len(rest) = M
      /\ \A i \in 1 .. M : rest[i] = text[k + i]
  <2>1. k \in Nat /\ k <= Len(text)
    BY <1>1, <1>4
  <2>2. /\ rest \in Seq(S) /\ Len(rest) = Len(text) - k
        /\ \A i \in 1 .. Len(text) - k : rest[i] = text[k + i]
    BY <1>2, <2>1, Halves
  <2> QED
    BY <1>1, <1>3, <2>2
<1> DEFINE g == CHOOSE h : IsReplacing(rest, word, new, m, h, 0)
<1>6. ReplaceFirst(rest, word, new, m) = g[0][m]
  BY DEF ReplaceFirst, IsReplacing, Replaced
<1>7. IsReplacing(rest, word, new, m, g, 0)
  BY <1>5, ReplacingExists
<1> HIDE DEF g
<1> DEFINE Bad == {d \in 0 .. M : \E o \in 0 .. m : g[M - d][o] # f[k + (M - d)][o]}
<1>8. ASSUME Bad # {} PROVE FALSE
  <2>1. PICK d \in Bad : \A e \in Bad : d <= e
    <3>1. Bad \subseteq Nat
      OBVIOUS
    <3> HIDE DEF Bad
    <3> QED
      BY <1>8, <3>1, HasLeast
  <2>2. PICK i, o : i = M - d /\ o \in 0 .. m /\ g[i][o] # f[k + i][o]
    BY <2>1
  <2>3. d \in 0 .. M /\ i \in 0 .. M /\ i \in Nat /\ k + i \in 0 .. L /\ o \in 0 .. n
        /\ i \in 0 .. Len(rest) /\ k + i \in 0 .. Len(text)
    BY <1>1, <1>4, <1>5, <2>1, <2>2
  <2>4. ASSUME NEW j \in i + 1 .. M, NEW p \in 0 .. m PROVE g[j][p] = f[k + j][p]
    <3>1. M - j \in 0 .. M /\ M - (M - j) = j /\ ~ (d <= M - j)
      <4> HIDE DEF Bad
      <4>1. M \in Nat /\ d \in 0 .. M /\ i = M - d /\ j \in i + 1 .. M
        BY <1>4, <2>2, <2>3
      <4> QED
        BY <4>1, SMTT(60)
    <3>2. M - j \notin Bad
      <4> HIDE DEF Bad
      <4> QED
        BY <2>1, <3>1
    <3> QED
      BY <3>1, <3>2
  <2> HIDE DEF Bad
  <2>5. g[i][o] = ReplacedFrom(rest, word, new, g, i, o)
    <3>1. rest \in Seq(S) /\ i \in 0 .. Len(rest) /\ o \in 0 .. m
      BY <1>5, <2>2, <2>3
    <3> QED
      BY <1>7, <3>1, ReplacingIs
  <2>6. f[k + i][o] = ReplacedFrom(text, word, new, f, k + i, o)
    <3>1. k + i \in 0 .. Len(text) /\ o \in 0 .. n
      BY <2>3
    <3> QED
      BY <3>1, ReplacingIs
  <2>7. (i = Len(rest) <=> k + i = Len(text)) /\ (i = M <=> i = Len(rest))
    BY <1>1, <1>4, <1>5, <2>3
  <2>8. Right(rest, i) = Right(text, k + i)
    BY <1>1, <1>2, <1>4, <2>3, RightOfRight
  <2>9. i \in Hits(word, rest) <=> k + i \in Hits(word, text)
    <3>1. k <= Len(text)
      BY <1>1, <1>4
    <3> QED
      BY <1>2, <1>4, <2>3, <3>1, HitBehindPlace, ZenonT(60)
  <2>10. ASSUME i \in Hits(word, rest), o # 0
         PROVE  g[i + Len(word)][o - 1] = f[(k + i) + Len(word)][o - 1]
    <3>1. i + Len(word) <= M
      BY <1>5, <2>3, <2>10, HitIs
    <3>2. i + Len(word) \in i + 1 .. M /\ o - 1 \in 0 .. m /\ k + (i + Len(word)) = (k + i) + Len(word)
      BY <1>4, <2>2, <2>3, <2>10, <3>1
    <3> QED
      BY <2>4, <3>2
  <2>11. ASSUME i # M
         PROVE  g[i + 1][o] = f[(k + i) + 1][o] /\ rest[i + 1] = text[(k + i) + 1]
    <3>1. i + 1 \in i + 1 .. M /\ i + 1 \in 1 .. M /\ k + (i + 1) = (k + i) + 1
      BY <1>4, <2>3, <2>11
    <3>2. g[i + 1][o] = f[k + (i + 1)][o]
      BY <2>2, <2>4, <3>1
    <3>3. rest[i + 1] = text[k + (i + 1)]
      BY <1>5, <3>1
    <3> QED
      BY <3>1, <3>2, <3>3
  <2>12. g[i][o] = f[k + i][o]
    BY <2>5, <2>6, <2>7, <2>8, <2>9, <2>10, <2>11 DEF ReplacedFrom
  <2> QED
    BY <2>2, <2>12
<1>9. g[0][m] = f[k][m]
  <2>1. M \in 0 .. M /\ M - M = 0 /\ k + 0 = k /\ m \in 0 .. m
    BY <1>4
  <2>2. M \notin Bad
    <3> HIDE DEF Bad
    <3> QED
      BY <1>8
  <2> QED
    BY <2>1, <2>2
<1> QED
  BY <1>2, <1>6, <1>9

\* ReplaceFirst, by what stands at the start of the text.
LEMMA ReplaceUnfolds ==
  ASSUME NEW S, NEW text \in Seq(S), NEW word \in Seq(S), word # <<>>, NEW new, NEW n \in Nat
  PROVE  ReplaceFirst(text, word, new, n) =
           IF n = 0 \/ text = <<>> THEN text
           ELSE IF 0 \in Hits(word, text)
           THEN new \o ReplaceFirst(Right(text, Len(word)), word, new, n - 1)
           ELSE <<text[1]>> \o ReplaceFirst(Right(text, 1), word, new, n)
<1>1. \E f : ReplaceFirst(text, word, new, n) = f[0][n] /\ IsReplacing(text, word, new, n, f, 0)
  <2> DEFINE f == CHOOSE h : IsReplacing(text, word, new, n, h, 0)
  <2>1. ReplaceFirst(text, word, new, n) = f[0][n]
    BY DEF ReplaceFirst, IsReplacing, Replaced
  <2>2. IsReplacing(text, word, new, n, f, 0)
    BY ReplacingExists
  <2> HIDE DEF f
  <2> QED
    BY <2>1, <2>2
<1>2. PICK f : ReplaceFirst(text, word, new, n) = f[0][n] /\ IsReplacing(text, word, new, n, f, 0)
  BY <1>1
<1>3. Len(text) \in Nat /\ Len(word) \in Nat /\ Len(word) >= 1 /\ (text = <<>> <=> Len(text) = 0)
  BY EmptySeq
<1>4. 0 \in 0 .. Len(text) /\ n \in 0 .. n
  BY <1>3
<1>5. f[0][n] = ReplacedFrom(text, word, new, f, 0, n)
  BY <1>2, <1>4, ReplacingIs
<1>6. Right(text, 0) = text
  BY WholeHalves
<1>7. \A k \in 0 .. Len(text), m \in 0 .. n :
        ReplaceFirst(Right(text, k), word, new, m) = f[k][m]
  <2>1. ReplacesBehind(text, word, new, n, f)
    BY <1>2, ReplaceBehind
  <2> QED
    BY <2>1 DEF ReplacesBehind
<1>8. ASSUME 0 \in Hits(word, text), n # 0
      PROVE  f[0 + Len(word)][n - 1] = ReplaceFirst(Right(text, Len(word)), word, new, n - 1)
  <2>1. 0 + Len(word) <= Len(text)
    BY <1>8, HitIs
  <2>2. Len(word) \in 0 .. Len(text) /\ 0 + Len(word) = Len(word) /\ n - 1 \in 0 .. n
    BY <1>3, <1>8, <2>1
  <2> QED
    BY <1>7, <2>2
<1>9. ASSUME Len(text) # 0 PROVE f[0 + 1][n] = ReplaceFirst(Right(text, 1), word, new, n)
  <2>1. 1 \in 0 .. Len(text)
    BY <1>3, <1>9
  <2>2. ReplaceFirst(Right(text, 1), word, new, n) = f[1][n]
    BY <1>4, <1>7, <2>1
  <2> QED
    BY <2>2
<1> QED
  BY <1>2, <1>3, <1>5, <1>6, <1>8, <1>9 DEF ReplacedFrom

\* The text with every occurrence replaced.
ReplaceEvery(text, word, new) == ReplaceFirst(text, word, new, Len(text))

\* What is left of a text is shorter than it.
LEMMA ReplaceRests ==
  ASSUME NEW S, NEW text \in Seq(S), text # <<>>, NEW word \in Seq(S), word # <<>>
  PROVE  /\ Len(text) \in Nat /\ Len(text) >= 1
         /\ Right(text, 1) \in Seq(S) /\ Len(Right(text, 1)) = Len(text) - 1
         /\ 0 \in Hits(word, text) =>
              /\ Right(text, Len(word)) \in Seq(S)
              /\ Len(Right(text, Len(word))) \in Nat
              /\ Len(Right(text, Len(word))) <= Len(text) - 1
<1>1. Len(text) \in Nat /\ Len(text) >= 1 /\ Len(word) \in Nat /\ Len(word) >= 1
  BY EmptySeq
<1>2. Right(text, 1) \in Seq(S) /\ Len(Right(text, 1)) = Len(text) - 1
  <2>1. 1 \in Nat /\ 1 <= Len(text)
    BY <1>1
  <2> QED
    BY <2>1, Halves
<1>3. ASSUME 0 \in Hits(word, text)
      PROVE  /\ Right(text, Len(word)) \in Seq(S)
             /\ Len(Right(text, Len(word))) \in Nat
             /\ Len(Right(text, Len(word))) <= Len(text) - 1
  <2>1. 0 + Len(word) <= Len(text)
    BY <1>3, HitIs
  <2>2. Len(word) \in Nat /\ Len(word) <= Len(text)
    BY <1>1, <2>1
  <2>3. Right(text, Len(word)) \in Seq(S) /\ Len(Right(text, Len(word))) = Len(text) - Len(word)
    BY <2>2, Halves
  <2> QED
    BY <1>1, <2>2, <2>3
<1> QED
  BY <1>1, <1>2, <1>3

\* A text has not more occurrences than characters.
LEMMA ReplaceEnough ==
  ASSUME NEW S, NEW word \in Seq(S), word # <<>>, NEW new,
         NEW text \in Seq(S), NEW n \in Nat, n >= Len(text)
  PROVE  ReplaceFirst(text, word, new, n) = ReplaceEvery(text, word, new)
<1> DEFINE Differs(t, i, j) == ReplaceFirst(t, word, new, i) # ReplaceFirst(t, word, new, j)
           Bad == {l \in Nat : \E t \in Seq(S), i \in Nat, j \in Nat :
                                 Len(t) = l /\ i >= l /\ j >= l /\ Differs(t, i, j)}
<1>1. ASSUME Bad # {} PROVE FALSE
  <2>1. PICK l \in Bad : \A e \in Bad : l <= e
    <3>1. Bad \subseteq Nat
      OBVIOUS
    <3> HIDE DEF Bad
    <3> QED
      BY <1>1, <3>1, HasLeast
  <2>2. PICK t \in Seq(S), i \in Nat, j \in Nat :
          Len(t) = l /\ i >= l /\ j >= l /\ Differs(t, i, j)
    BY <2>1
  <2>3. ASSUME NEW u \in Seq(S), Len(u) \in Nat, Len(u) < l, NEW p \in Nat, NEW q \in Nat,
               p >= Len(u), q >= Len(u)
        PROVE  ReplaceFirst(u, word, new, p) = ReplaceFirst(u, word, new, q)
    <3>1. Len(u) \notin Bad
      <4>1. ~ (l <= Len(u))
        BY <2>1, <2>3
      <4> HIDE DEF Bad
      <4> QED
        BY <2>1, <4>1
    <3> QED
      BY <2>3, <3>1
  <2>4. Differs(t, i, j) /\ l \in Nat
    BY <2>1, <2>2
  <2> HIDE DEF Bad
  <2>5. ReplaceFirst(t, word, new, i) =
          IF i = 0 \/ t = <<>> THEN t
          ELSE IF 0 \in Hits(word, t)
          THEN new \o ReplaceFirst(Right(t, Len(word)), word, new, i - 1)
          ELSE <<t[1]>> \o ReplaceFirst(Right(t, 1), word, new, i)
    BY ReplaceUnfolds, SMTT(60)
  <2>6. ReplaceFirst(t, word, new, j) =
          IF j = 0 \/ t = <<>> THEN t
          ELSE IF 0 \in Hits(word, t)
          THEN new \o ReplaceFirst(Right(t, Len(word)), word, new, j - 1)
          ELSE <<t[1]>> \o ReplaceFirst(Right(t, 1), word, new, j)
    BY ReplaceUnfolds, SMTT(60)
  <2>7. CASE t = <<>>
    BY <2>4, <2>5, <2>6, <2>7
  <2>8. CASE t # <<>>
    <3>1. /\ Len(t) \in Nat /\ Len(t) >= 1
          /\ Right(t, 1) \in Seq(S) /\ Len(Right(t, 1)) = Len(t) - 1
          /\ 0 \in Hits(word, t) =>
               /\ Right(t, Len(word)) \in Seq(S)
               /\ Len(Right(t, Len(word))) \in Nat
               /\ Len(Right(t, Len(word))) <= Len(t) - 1
      BY <2>8, ReplaceRests
    <3>2. i # 0 /\ j # 0 /\ i - 1 \in Nat /\ j - 1 \in Nat
      BY <2>2, <3>1
    <3>3. CASE 0 \in Hits(word, t)
      <4>1. PICK u : u = Right(t, Len(word))
        OBVIOUS
      <4>2. u \in Seq(S) /\ Len(u) \in Nat /\ Len(u) < l /\ i - 1 >= Len(u) /\ j - 1 >= Len(u)
        BY <2>2, <3>1, <3>3, <4>1
      <4>3. ReplaceFirst(u, word, new, i - 1) = ReplaceFirst(u, word, new, j - 1)
        BY <2>3, <3>2, <4>2
      <4> QED
        BY <2>4, <2>5, <2>6, <2>8, <3>2, <3>3, <4>1, <4>3
    <3>4. CASE 0 \notin Hits(word, t)
      <4>1. PICK u : u = Right(t, 1)
        OBVIOUS
      <4>2. u \in Seq(S) /\ Len(u) \in Nat /\ Len(u) < l /\ i >= Len(u) /\ j >= Len(u)
        BY <2>2, <3>1, <4>1
      <4>3. ReplaceFirst(u, word, new, i) = ReplaceFirst(u, word, new, j)
        BY <2>3, <4>2
      <4> QED
        BY <2>4, <2>5, <2>6, <2>8, <3>2, <3>4, <4>1, <4>3
    <3> QED
      BY <3>3, <3>4
  <2> QED
    BY <2>7, <2>8
<1>2. Len(text) \in Nat /\ Len(text) \notin Bad
  <2>1. Len(text) \in Nat
    BY LenProperties
  <2> HIDE DEF Bad
  <2> QED
    BY <1>1, <2>1
<1>3. ~ Differs(text, n, Len(text))
  BY <1>2
<1> QED
  BY <1>3 DEF ReplaceEvery

\* ReplaceEvery, by what stands at the start of the text.
LEMMA AllUnfolds ==
  ASSUME NEW S, NEW text \in Seq(S), NEW word \in Seq(S), word # <<>>, NEW new
  PROVE  ReplaceEvery(text, word, new) =
           IF text = <<>> THEN <<>>
           ELSE IF 0 \in Hits(word, text)
           THEN new \o ReplaceEvery(Right(text, Len(word)), word, new)
           ELSE <<text[1]>> \o ReplaceEvery(Right(text, 1), word, new)
<1>1. PICK n : n = Len(text)
  OBVIOUS
<1>2. n \in Nat
  BY <1>1
<1>3. ReplaceFirst(text, word, new, n) =
        IF n = 0 \/ text = <<>> THEN text
        ELSE IF 0 \in Hits(word, text)
        THEN new \o ReplaceFirst(Right(text, Len(word)), word, new, n - 1)
        ELSE <<text[1]>> \o ReplaceFirst(Right(text, 1), word, new, n)
  BY <1>2, ReplaceUnfolds
<1>4. CASE text = <<>>
  BY <1>1, <1>3, <1>4 DEF ReplaceEvery
<1>5. CASE text # <<>>
  <2>1. /\ n >= 1
        /\ Right(text, 1) \in Seq(S) /\ Len(Right(text, 1)) = n - 1
        /\ 0 \in Hits(word, text) =>
             /\ Right(text, Len(word)) \in Seq(S)
             /\ Len(Right(text, Len(word))) \in Nat
             /\ Len(Right(text, Len(word))) <= n - 1
    BY <1>1, <1>5, ReplaceRests
  <2>2. n # 0 /\ n - 1 \in Nat
    BY <1>2, <2>1
  <2>3. ASSUME 0 \in Hits(word, text)
        PROVE  ReplaceFirst(Right(text, Len(word)), word, new, n - 1) =
                 ReplaceEvery(Right(text, Len(word)), word, new)
    <3>1. PICK u : u = Right(text, Len(word))
      OBVIOUS
    <3>2. u \in Seq(S) /\ n - 1 >= Len(u)
      BY <1>2, <2>1, <2>3, <3>1
    <3> QED
      BY <2>2, <3>1, <3>2, ReplaceEnough
  <2>4. ReplaceFirst(Right(text, 1), word, new, n) = ReplaceEvery(Right(text, 1), word, new)
    <3>1. PICK u : u = Right(text, 1)
      OBVIOUS
    <3>2. u \in Seq(S) /\ n >= Len(u)
      BY <1>2, <2>1, <3>1
    <3> QED
      BY <1>2, <3>1, <3>2, ReplaceEnough
  <2> QED
    BY <1>1, <1>3, <1>5, <2>2, <2>3, <2>4 DEF ReplaceEvery
<1> QED
  BY <1>4, <1>5

LEMMA AllType ==
  ASSUME NEW S, NEW text \in Seq(S), NEW word \in Seq(S), word # <<>>, NEW new \in Seq(S)
  PROVE  ReplaceEvery(text, word, new) \in Seq(S)
<1>1. Len(text) \in Nat
  BY LenProperties
<1> QED
  BY <1>1, ReplaceFirstType DEF ReplaceEvery

\* Without an occurrence the text stays.
LEMMA AllOfNone ==
  ASSUME NEW S, NEW word \in Seq(S), word # <<>>, NEW new,
         NEW text \in Seq(S), Hits(word, text) = {}
  PROVE  ReplaceEvery(text, word, new) = text
<1> DEFINE Bad == {l \in Nat : \E t \in Seq(S) : /\ Len(t) = l /\ Hits(word, t) = {}
                                                 /\ ReplaceEvery(t, word, new) # t}
<1>1. ASSUME Bad # {} PROVE FALSE
  <2>1. PICK l \in Bad : \A e \in Bad : l <= e
    <3>1. Bad \subseteq Nat
      OBVIOUS
    <3> HIDE DEF Bad
    <3> QED
      BY <1>1, <3>1, HasLeast
  <2>2. PICK t \in Seq(S) : Len(t) = l /\ Hits(word, t) = {} /\ ReplaceEvery(t, word, new) # t
    BY <2>1
  <2>3. ReplaceEvery(t, word, new) =
          IF t = <<>> THEN <<>>
          ELSE IF 0 \in Hits(word, t)
          THEN new \o ReplaceEvery(Right(t, Len(word)), word, new)
          ELSE <<t[1]>> \o ReplaceEvery(Right(t, 1), word, new)
    BY AllUnfolds
  <2>4. CASE t = <<>>
    BY <2>2, <2>3, <2>4
  <2>5. CASE t # <<>>
    <3>1. PICK u : u = Right(t, 1)
      OBVIOUS
    <3>2. Len(t) \in Nat /\ Len(t) >= 1 /\ u \in Seq(S) /\ Len(u) = Len(t) - 1
      BY <2>5, <3>1, ReplaceRests
    <3>3. Hits(word, u) = {}
      <4>1. SUFFICES ASSUME NEW h \in Hits(word, u) PROVE FALSE
        OBVIOUS
      <4>2. h \in Nat
        BY <3>2, HitIs
      <4>3. 1 \in Nat /\ 1 <= Len(t)
        BY <3>2
      <4>4. 1 + h \in Hits(word, t)
        BY <3>1, <4>1, <4>2, <4>3, HitBehindPlace
      <4> QED
        BY <2>2, <4>4
    <3>4. ReplaceEvery(u, word, new) = u
      <4>1. Len(u) \in Nat /\ ~ (l <= Len(u))
        BY <2>2, <3>2
      <4>2. Len(u) \notin Bad
        <5> HIDE DEF Bad
        <5> QED
          BY <2>1, <4>1
      <4> QED
        BY <3>2, <3>3, <4>1, <4>2
    <3>5. t = <<t[1]>> \o u
      <4>1. 1 \in 1 .. Len(t) /\ Len(t) \in 1 .. Len(t)
        BY <3>2
      <4>2. SubSeq(t, 1, Len(t)) = <<t[1]>> \o SubSeq(t, 1 + 1, Len(t))
        BY <4>1, SubSeqRecursiveFirst
      <4>3. SubSeq(t, 1, Len(t)) = t
        BY SubSeqFull
      <4> QED
        BY <3>1, <4>2, <4>3 DEF Right
    <3> QED
      BY <2>2, <2>3, <2>5, <3>1, <3>4, <3>5
  <2> QED
    BY <2>4, <2>5
<1>2. Len(text) \in Nat /\ Len(text) \notin Bad
  <2>1. Len(text) \in Nat
    BY LenProperties
  <2> HIDE DEF Bad
  <2> QED
    BY <1>1, <2>1
<1> QED
  BY <1>2

LEMMA RightInJoin ==
  ASSUME NEW S, NEW x \in Seq(S), NEW y \in Seq(S), NEW n \in Nat, n <= Len(x)
  PROVE  Right(x \o y, n) = Right(x, n) \o y
<1>1. PICK p, q : p = Left(x, n) /\ q = Right(x, n)
  OBVIOUS
<1>2. p \in Seq(S) /\ q \in Seq(S) /\ Len(p) = n
  BY <1>1, Halves
<1>3. x = p \o q
  BY <1>1, HalvesJoin
<1>4. x \o y = p \o (q \o y) /\ q \o y \in Seq(S)
  BY <1>2, <1>3, ConcatAssociative, ConcatProperties
<1>5. Right(p \o (q \o y), Len(p)) = q \o y
  BY <1>2, <1>4, JoinIsHalves
<1> QED
  BY <1>1, <1>2, <1>4, <1>5

\* A word without z stands at the start of a text with z behind a part if it does in the part.
LEMMA HitBeforeEnd ==
  ASSUME NEW S, NEW word \in Seq(S), word # <<>>, NEW z \in S,
         \A i \in 1 .. Len(word) : word[i] # z, NEW a \in Seq(S), NEW b \in Seq(S)
  PROVE  0 \in Hits(word, a \o (<<z>> \o b)) <=> 0 \in Hits(word, a)
<1>1. PICK rest : rest = <<z>> \o b
  OBVIOUS
<1>2. rest \in Seq(S) /\ Len(rest) >= 1 /\ rest[1] = z /\ Len(rest) \in Nat
  BY <1>1
<1>3. PICK t : t = a \o rest
  OBVIOUS
<1>4. /\ t \in Seq(S) /\ Len(t) = Len(a) + Len(rest)
      /\ \A i \in 1 .. Len(a) : t[i] = a[i]
      /\ t[Len(a) + 1] = z
  BY <1>2, <1>3
<1>5. Len(a) \in Nat /\ Len(word) \in Nat
  BY LenProperties
<1>6. 0 \in Hits(word, t) <=> 0 + Len(word) <= Len(t) /\ \A i \in 1 .. Len(word) : t[0 + i] = word[i]
  <2>1. t \in Seq(S)
    BY <1>4
  <2>2. \A h : h \in Hits(word, t) <=> /\ h \in Nat /\ h + Len(word) <= Len(t)
                                       /\ \A i \in 1 .. Len(word) : t[h + i] = word[i]
    BY <2>1, HitIs
  <2> QED
    BY <2>2
<1>7. 0 \in Hits(word, a) <=> 0 + Len(word) <= Len(a) /\ \A i \in 1 .. Len(word) : a[0 + i] = word[i]
  <2>1. 0 \in Nat
    OBVIOUS
  <2> QED
    BY <2>1, HitIs
<1>8. \A i \in 1 .. Len(word) : 0 + i = i
  OBVIOUS
<1>9. ASSUME 0 \in Hits(word, t) PROVE Len(word) <= Len(a)
  <2>1. SUFFICES ASSUME Len(word) > Len(a) PROVE FALSE
    BY <1>5
  <2>2. Len(a) + 1 \in 1 .. Len(word)
    BY <1>5, <2>1
  <2>3. word[Len(a) + 1] = z
    BY <1>4, <1>6, <1>8, <1>9, <2>2
  <2> QED
    BY <2>2, <2>3
<1>10. ASSUME Len(word) <= Len(a)
       PROVE  0 \in Hits(word, t) <=> 0 \in Hits(word, a)
  <2>1. \A i \in 1 .. Len(word) : t[0 + i] = a[0 + i]
    BY <1>4, <1>5, <1>10
  <2>2. 0 + Len(word) <= Len(t) /\ 0 + Len(word) <= Len(a)
    BY <1>2, <1>4, <1>5, <1>10
  <2> QED
    BY <1>6, <1>7, <2>1, <2>2
<1>11. 0 \in Hits(word, a) => Len(word) <= Len(a)
  BY <1>5, <1>7
<1> QED
  BY <1>1, <1>3, <1>9, <1>10, <1>11

\* Replacing goes on apart on both sides of z.
ReplacedApart(a, z, b, word, new) ==
  ReplaceEvery(a \o (<<z>> \o b), word, new) =
    ReplaceEvery(a, word, new) \o (<<z>> \o ReplaceEvery(b, word, new))

\* So it does if z is not in the word.
LEMMA AllApart ==
  ASSUME NEW S, NEW word \in Seq(S), word # <<>>, NEW new \in Seq(S), NEW z \in S,
         \A i \in 1 .. Len(word) : word[i] # z, NEW a \in Seq(S), NEW b \in Seq(S)
  PROVE  ReplacedApart(a, z, b, word, new)
<1>1. PICK rest : rest = <<z>> \o b
  OBVIOUS
<1>2. rest \in Seq(S) /\ rest # <<>> /\ rest[1] = z
  BY <1>1
<1>3. PICK done : done = <<z>> \o ReplaceEvery(b, word, new)
  OBVIOUS
<1>4. done \in Seq(S)
  <2>1. PICK y : y = ReplaceEvery(b, word, new)
    OBVIOUS
  <2>2. y \in Seq(S)
    BY <2>1, AllType
  <2> QED
    BY <1>3, <2>1, <2>2
<1> DEFINE All(t) == ReplaceEvery(t, word, new)
           Bad == {l \in Nat : \E s \in Seq(S) : Len(s) = l /\ All(s \o rest) # All(s) \o done}
<1>5. ASSUME Bad # {} PROVE FALSE
  <2>1. PICK l \in Bad : \A e \in Bad : l <= e
    <3>1. Bad \subseteq Nat
      OBVIOUS
    <3> HIDE DEF Bad
    <3> QED
      BY <1>5, <3>1, HasLeast
  <2>2. PICK s \in Seq(S) : Len(s) = l /\ All(s \o rest) # All(s) \o done
    BY <2>1
  <2>3. ASSUME NEW u \in Seq(S), Len(u) \in Nat, Len(u) < l
        PROVE  All(u \o rest) = All(u) \o done
    <3>1. Len(u) \notin Bad
      <4>1. ~ (l <= Len(u))
        BY <2>1, <2>3
      <4> HIDE DEF Bad
      <4> QED
        BY <2>1, <4>1
    <3> QED
      BY <2>3, <3>1
  <2> HIDE DEF Bad, All
  <2>4. All(s) = IF s = <<>> THEN <<>>
                 ELSE IF 0 \in Hits(word, s) THEN new \o All(Right(s, Len(word)))
                 ELSE <<s[1]>> \o All(Right(s, 1))
    BY AllUnfolds DEF All
  <2>5. PICK t : t = s \o rest
    OBVIOUS
  <2>6. t \in Seq(S)
    BY <1>2, <2>5, ConcatProperties
  <2>7. All(t) = IF t = <<>> THEN <<>>
                 ELSE IF 0 \in Hits(word, t) THEN new \o All(Right(t, Len(word)))
                 ELSE <<t[1]>> \o All(Right(t, 1))
    BY <2>6, AllUnfolds DEF All
  <2>8. 0 \in Hits(word, t) <=> 0 \in Hits(word, s)
    BY <1>1, <2>5, HitBeforeEnd
  <2>9. CASE s = <<>>
    <3>1. t = rest
      BY <1>2, <2>5, <2>9, ConcatEmptySeq
    <3>2. 0 \notin Hits(word, s)
      <4>1. Len(word) \in Nat /\ Len(word) >= 1 /\ Len(s) = 0
        BY <2>9, EmptySeq
      <4>2. ~ (0 + Len(word) <= Len(s))
        BY <4>1
      <4> QED
        BY <4>2, HitIs
    <3>3. Right(rest, 1) = b
      <4>1. <<z>> \in Seq(S) /\ Len(<<z>>) = 1
        OBVIOUS
      <4> QED
        BY <1>1, <4>1, JoinIsHalves
    <3>4. All(rest) = <<z>> \o All(b)
      BY <1>2, <2>7, <2>8, <3>1, <3>2, <3>3
    <3>5. All(s) \o done = done
      BY <1>4, <2>4, <2>9, ConcatEmptySeq
    <3> QED
      BY <1>3, <2>2, <2>5, <3>1, <3>4, <3>5 DEF All
  <2>10. CASE s # <<>>
    <3>1. /\ Len(s) \in Nat /\ Len(s) >= 1
          /\ Right(s, 1) \in Seq(S) /\ Len(Right(s, 1)) = Len(s) - 1
          /\ 0 \in Hits(word, s) =>
               /\ Right(s, Len(word)) \in Seq(S)
               /\ Len(Right(s, Len(word))) \in Nat
               /\ Len(Right(s, Len(word))) <= Len(s) - 1
      BY <2>10, ReplaceRests
    <3>2. t # <<>> /\ t[1] = s[1]
      BY <1>2, <2>5, <3>1
    <3>3. CASE 0 \in Hits(word, s)
      <4>1. PICK u : u = Right(s, Len(word))
        OBVIOUS
      <4>2. u \in Seq(S) /\ Len(u) \in Nat /\ Len(u) < l
        BY <2>2, <3>1, <3>3, <4>1
      <4>3. Right(t, Len(word)) = u \o rest
        <5>1. 0 + Len(word) <= Len(s) /\ Len(word) \in Nat
          BY <3>3, HitIs, LenProperties
        <5>2. Len(word) <= Len(s)
          BY <5>1
        <5> QED
          BY <1>2, <2>5, <4>1, <5>1, <5>2, RightInJoin
      <4>4. All(t) = new \o (All(u) \o done)
        BY <2>3, <2>7, <2>8, <3>2, <3>3, <4>2, <4>3
      <4>5. All(s) = new \o All(u)
        BY <2>4, <2>10, <3>3, <4>1
      <4>6. PICK y : y = All(u)
        OBVIOUS
      <4>7. y \in Seq(S)
        BY <4>2, <4>6, AllType DEF All
      <4>8. new \o (y \o done) = (new \o y) \o done
        <5>1. Associates(new, y, done)
          BY <1>4, <4>7, SequencesAssociate
        <5> QED
          BY <5>1 DEF Associates
      <4> QED
        BY <2>2, <2>5, <4>4, <4>5, <4>6, <4>8
    <3>4. CASE 0 \notin Hits(word, s)
      <4>1. PICK u : u = Right(s, 1)
        OBVIOUS
      <4>2. u \in Seq(S) /\ Len(u) \in Nat /\ Len(u) < l
        BY <2>2, <3>1, <4>1
      <4>3. Right(t, 1) = u \o rest
        <5>1. 1 \in Nat /\ 1 <= Len(s)
          BY <3>1
        <5> QED
          BY <1>2, <2>5, <4>1, <5>1, RightInJoin
      <4>4. All(t) = <<s[1]>> \o (All(u) \o done)
        BY <2>3, <2>7, <2>8, <3>2, <3>4, <4>2, <4>3
      <4>5. All(s) = <<s[1]>> \o All(u)
        BY <2>4, <2>10, <3>4, <4>1
      <4>6. PICK x, y : x = <<s[1]>> /\ y = All(u)
        OBVIOUS
      <4>7. x \in Seq(S) /\ y \in Seq(S)
        <5>1. s[1] \in S
          BY <3>1
        <5> QED
          BY <4>2, <4>6, <5>1, AllType DEF All
      <4>8. x \o (y \o done) = (x \o y) \o done
        <5>1. Associates(x, y, done)
          BY <1>4, <4>7, SequencesAssociate
        <5> QED
          BY <5>1 DEF Associates
      <4> QED
        BY <2>2, <2>5, <4>4, <4>5, <4>6, <4>8
    <3> QED
      BY <3>3, <3>4
  <2> QED
    BY <2>9, <2>10
<1>6. Len(a) \in Nat /\ Len(a) \notin Bad
  <2>1. Len(a) \in Nat
    BY LenProperties
  <2> HIDE DEF Bad
  <2> QED
    BY <1>5, <2>1
<1>7. All(a \o rest) = All(a) \o done
  <2> HIDE DEF All
  <2> QED
    BY <1>6
<1> QED
  BY <1>1, <1>3, <1>7 DEF ReplacedApart

\* Replacing in each line.
ReplacedLines(ls, word, new) == [k \in 1 .. Len(ls) |-> ReplaceEvery(ls[k], word, new)]

LEMMA ReplacedLinesType ==
  ASSUME NEW ls \in Lines, NEW word \in Seq(Letters), word # <<>>, NEW new \in Seq(Letters)
  PROVE  /\ ReplacedLines(ls, word, new) \in Lines
         /\ Len(ReplacedLines(ls, word, new)) = Len(ls)
<1>1. Len(ls) \in Nat
  BY DEF Lines
<1>2. ASSUME NEW k \in 1 .. Len(ls) PROVE ReplaceEvery(ls[k], word, new) \in Seq(Letters)
  <2>1. ls[k] \in Seq(Letters)
    BY DEF Lines
  <2> QED
    BY <2>1, AllType
<1>3. [k \in 1 .. Len(ls) |-> ReplaceEvery(ls[k], word, new)] \in Seq(Seq(Letters))
  BY <1>1, <1>2, IsASeq
<1> QED
  BY <1>1, <1>3 DEF ReplacedLines, Lines

LEMMA ReplacedLinesAppend ==
  ASSUME NEW ls \in Lines, NEW l \in Seq(Letters),
         NEW word \in Seq(Letters), word # <<>>, NEW new \in Seq(Letters)
  PROVE  ReplacedLines(Append(ls, l), word, new) =
           Append(ReplacedLines(ls, word, new), ReplaceEvery(l, word, new))
<1>1. PICK s : s = Append(ls, l)
  OBVIOUS
<1>2. PICK n : n = Len(ls)
  OBVIOUS
<1>3. n \in Nat /\ ls \in Seq(Seq(Letters))
  BY <1>2 DEF Lines
<1>4. /\ s \in Seq(Seq(Letters)) /\ Len(s) = n + 1 /\ s[n + 1] = l
      /\ \A k \in 1 .. n : s[k] = ls[k]
  BY <1>1, <1>2, <1>3, AppendProperties
<1>5. s \in Lines
  BY <1>4 DEF Lines
<1>6. PICK x : x = ReplacedLines(ls, word, new)
  OBVIOUS
<1>7. x \in Seq(Seq(Letters)) /\ Len(x) = n
  BY <1>2, <1>6, ReplacedLinesType DEF Lines
<1>8. PICK e : e = ReplaceEvery(l, word, new)
  OBVIOUS
<1>9. e \in Seq(Letters)
  BY <1>8, AllType
<1>10. PICK y : y = Append(x, e)
  OBVIOUS
<1>11. /\ y \in Seq(Seq(Letters)) /\ Len(y) = n + 1 /\ y[n + 1] = e
       /\ \A k \in 1 .. n : y[k] = x[k]
  BY <1>7, <1>9, <1>10, AppendProperties
<1>12. PICK z : z = ReplacedLines(s, word, new)
  OBVIOUS
<1>13. z \in Seq(Seq(Letters)) /\ Len(z) = n + 1
  BY <1>4, <1>5, <1>12, ReplacedLinesType DEF Lines
<1>14. ASSUME NEW k \in 1 .. n + 1 PROVE z[k] = y[k]
  <2>1. z[k] = ReplaceEvery(s[k], word, new)
    BY <1>4, <1>12 DEF ReplacedLines
  <2>2. CASE k = n + 1
    BY <1>4, <1>8, <1>11, <2>1, <2>2
  <2>3. CASE k # n + 1
    <3>1. k \in 1 .. n
      BY <1>3, <2>3
    <3>2. x[k] = ReplaceEvery(ls[k], word, new)
      BY <1>2, <1>6, <3>1 DEF ReplacedLines
    <3> QED
      BY <1>4, <1>11, <2>1, <3>1, <3>2
  <2> QED
    BY <2>2, <2>3
<1>15. z = y
  BY <1>11, <1>13, <1>14, SeqEqual
<1> QED
  BY <1>1, <1>6, <1>8, <1>10, <1>12, <1>15

\* Replacing in the text of lines is replacing in each of them.
LEMMA AllOfLines ==
  ASSUME NEW word \in Seq(Letters), word # <<>>, NEW new \in Seq(Letters),
         NEW ls \in Lines, NEW x \in Seq(Chars)
  PROVE  ReplaceEvery(Flat(ls) \o x, word, new) =
           Flat(ReplacedLines(ls, word, new)) \o ReplaceEvery(x, word, new)
<1>1. /\ word \in Seq(Chars) /\ new \in Seq(Chars) /\ NL \in Chars
      /\ \A i \in 1 .. Len(word) : word[i] # NL
  <2>1. word \in Seq(Chars) /\ new \in Seq(Chars) /\ NL \in Chars
    BY SeqMonotonic DEF Chars
  <2>2. \A i \in 1 .. Len(word) : word[i] \in Letters
    BY ElementOfSeq
  <2>3. NL \notin Letters
    BY LineBufferAssumption
  <2> QED
    BY <2>1, <2>2, <2>3
<1> DEFINE All(t) == ReplaceEvery(t, word, new)
           Each(s) == Flat(ReplacedLines(s, word, new))
           Bad == {n \in Nat : \E s \in Lines, y \in Seq(Chars) :
                                 Len(s) = n /\ All(Flat(s) \o y) # Each(s) \o All(y)}
<1>2. ASSUME Bad # {} PROVE FALSE
  <2>1. PICK n \in Bad : \A e \in Bad : n <= e
    <3>1. Bad \subseteq Nat
      OBVIOUS
    <3> HIDE DEF Bad
    <3> QED
      BY <1>2, <3>1, HasLeast
  <2>2. PICK s \in Lines, y \in Seq(Chars) :
          Len(s) = n /\ All(Flat(s) \o y) # Each(s) \o All(y)
    BY <2>1
  <2>3. ASSUME NEW u \in Lines, Len(u) \in Nat, Len(u) < n, NEW z \in Seq(Chars)
        PROVE  All(Flat(u) \o z) = Each(u) \o All(z)
    <3>1. Len(u) \notin Bad
      <4>1. ~ (n <= Len(u))
        BY <2>1, <2>3
      <4> HIDE DEF Bad
      <4> QED
        BY <2>1, <4>1
    <3> QED
      BY <2>3, <3>1
  <2>4. n \in Nat
    BY <2>1
  <2> HIDE DEF Bad, All, Each
  <2>5. All(y) \in Seq(Chars)
    BY <1>1, AllType DEF All
  <2>6. CASE n = 0
    <3>1. s = <<>>
      BY <2>2, <2>6, EmptySeq DEF Lines
    <3>2. Flat(s) \o y = y
      BY <3>1, FlatEmpty, ConcatEmptySeq
    <3>3. ReplacedLines(s, word, new) = <<>>
      <4>1. PICK r : r = ReplacedLines(s, word, new)
        OBVIOUS
      <4>2. r \in Seq(Seq(Letters)) /\ Len(r) = 0
        BY <2>2, <2>6, <4>1, ReplacedLinesType DEF Lines
      <4> QED
        BY <4>1, <4>2, EmptySeq
    <3>4. Each(s) \o All(y) = All(y)
      BY <2>5, <3>3, FlatEmpty, ConcatEmptySeq DEF Each
    <3> QED
      BY <2>2, <3>2, <3>4
  <2>7. CASE n # 0
    <3>1. PICK m \in Nat : n = m + 1
      <4>1. n - 1 \in Nat /\ n = (n - 1) + 1
        BY <2>4, <2>7
      <4> QED
        BY <4>1
    <3>2. PICK u \in Lines, l \in Seq(Letters) : s = Append(u, l) /\ Len(u) = m
      BY <2>2, <3>1, LinesFront
    <3>3. PICK e : e = All(l)
      OBVIOUS
    <3>4. e \in Seq(Letters)
      BY <3>3, AllType DEF All
    <3>5. Flat(s) = Flat(u) \o (l \o <<NL>>) /\ l \in Seq(Chars) /\ <<NL>> \in Seq(Chars)
      BY <3>2, FlatAppend, EndedType
    <3>6. PICK f, w : f = Flat(u) /\ w = <<NL>> \o y
      OBVIOUS
    <3>7. f \in Seq(Chars) /\ w \in Seq(Chars) /\ l \o <<NL>> \in Seq(Chars) /\ l \o w \in Seq(Chars)
      BY <3>5, <3>6, FlatType, ConcatProperties
    <3>8. Flat(s) \o y = f \o (l \o w)
      <4>1. (l \o <<NL>>) \o y = l \o w
        BY <3>5, <3>6, ConcatAssociative, SMTT(60)
      <4>2. (f \o (l \o <<NL>>)) \o y = f \o ((l \o <<NL>>) \o y)
        <5>1. PICK p : p = l \o <<NL>>
          OBVIOUS
        <5>2. f \in Seq(Chars) /\ p \in Seq(Chars)
          BY <3>7, <5>1
        <5>3. Associates(f, p, y)
          BY <3>5, <5>2, TextsAssociate
        <5> QED
          BY <5>1, <5>3 DEF Associates
      <4> QED
        BY <3>5, <3>6, <4>1, <4>2
    <3>9. All(f \o (l \o w)) = Each(u) \o All(l \o w)
      <4>1. Len(u) \in Nat /\ Len(u) < n
        BY <3>1, <3>2
      <4> QED
        BY <2>3, <3>6, <3>7, <4>1
    <3>10. All(l \o w) = e \o (<<NL>> \o All(y))
      <4>1. ReplaceEvery(l \o (<<NL>> \o y), word, new) =
              ReplaceEvery(l, word, new) \o (<<NL>> \o ReplaceEvery(y, word, new))
        <5>1. ReplacedApart(l, NL, y, word, new)
          BY <1>1, <3>5, AllApart
        <5> QED
          BY <5>1 DEF ReplacedApart
      <4> QED
        BY <3>3, <3>6, <4>1 DEF All
    <3>11. Each(s) = Each(u) \o (e \o <<NL>>)
      <4>1. PICK r : r = ReplacedLines(u, word, new)
        OBVIOUS
      <4>2. r \in Lines
        BY <4>1, ReplacedLinesType
      <4>3. ReplacedLines(s, word, new) = Append(r, e)
        BY <3>2, <3>3, <4>1, ReplacedLinesAppend DEF All
      <4>4. Flat(Append(r, e)) = Flat(r) \o (e \o <<NL>>)
        BY <3>4, <4>2, FlatAppend, EndedType
      <4> QED
        BY <4>1, <4>3, <4>4 DEF Each
    <3>12. PICK g, h : g = Each(u) /\ h = All(y)
      OBVIOUS
    <3>13. g \in Seq(Chars) /\ h \in Seq(Chars) /\ e \in Seq(Chars)
      <4>1. Each(u) \in Seq(Chars)
        BY ReplacedLinesType, FlatType DEF Each
      <4>2. e \in Seq(Chars)
        BY <3>4, SeqMonotonic DEF Chars
      <4> QED
        BY <2>5, <3>12, <4>1, <4>2
    <3>14. (g \o (e \o <<NL>>)) \o h = g \o (e \o (<<NL>> \o h))
      <4>1. PICK p : p = <<NL>>
        OBVIOUS
      <4>2. p \in Seq(Chars)
        BY <3>5, <4>1
      <4>3. e \o p \in Seq(Chars)
        BY <3>13, <4>2, ConcatProperties
      <4>4. Associates(g, e \o p, h)
        BY <3>13, <4>3, TextsAssociate
      <4>5. Associates(e, p, h)
        BY <3>13, <4>2, TextsAssociate
      <4> QED
        BY <4>1, <4>4, <4>5 DEF Associates
    <3> QED
      BY <2>2, <3>8, <3>9, <3>10, <3>11, <3>12, <3>14
  <2> QED
    BY <2>6, <2>7
<1>3. Len(ls) \in Nat /\ Len(ls) \notin Bad
  <2>1. Len(ls) \in Nat
    BY DEF Lines
  <2> HIDE DEF Bad
  <2> QED
    BY <1>2, <2>1
<1>4. All(Flat(ls) \o x) = Each(ls) \o All(x)
  <2> HIDE DEF All, Each
  <2> QED
    BY <1>3
<1> QED
  BY <1>4

\* A text begins with its first part and ends with its last one.
LEMMA JoinHasEnds ==
  ASSUME NEW S, NEW x \in Seq(S), NEW y \in Seq(S)
  PROVE  IsPrefix(x, x \o y) /\ IsSuffix(y, x \o y)
<1>1. PICK t : t = x \o y
  OBVIOUS
<1>2. /\ t \in Seq(S) /\ Len(t) = Len(x) + Len(y) /\ Len(x) \in Nat /\ Len(y) \in Nat
      /\ \A i \in 1 .. Len(y) : t[Len(x) + i] = y[i]
  BY <1>1
<1>3. IsPrefix(x, t)
  <2>1. Left(t, Len(x)) = x
    BY <1>1, JoinIsHalves
  <2>2. SubSeq(x, 1, Len(x)) = x
    BY SubSeqFull
  <2> QED
    BY <1>2, <2>1, <2>2 DEF IsPrefix, Left
<1>4. ASSUME NEW s \in Seq(S)
      PROVE  /\ Reverse(s) \in Seq(S) /\ Len(Reverse(s)) = Len(s)
             /\ \A i \in 1 .. Len(s) : Reverse(s)[i] = s[(Len(s) - i) + 1]
  <2>1. \A i \in 1 .. Len(s) : s[(Len(s) - i) + 1] \in S
    BY ElementOfSeq
  <2> QED
    BY <2>1 DEF Reverse
<1>5. PICK p, q : p = Reverse(y) /\ q = Reverse(t)
  OBVIOUS
<1>6. /\ p \in Seq(S) /\ Len(p) = Len(y)
      /\ \A i \in 1 .. Len(y) : p[i] = y[(Len(y) - i) + 1]
  BY <1>4, <1>5
<1>7. /\ q \in Seq(S) /\ Len(q) = Len(t)
      /\ \A i \in 1 .. Len(t) : q[i] = t[(Len(t) - i) + 1]
  BY <1>2, <1>4, <1>5
<1>8. ASSUME NEW i \in 1 .. Len(p) PROVE p[i] = q[i]
  <2>1. (Len(y) - i) + 1 \in 1 .. Len(y) /\ i \in 1 .. Len(t) /\ i \in 1 .. Len(y)
        /\ (Len(t) - i) + 1 = Len(x) + ((Len(y) - i) + 1)
    BY <1>2, <1>6, <1>8
  <2> QED
    BY <1>2, <1>6, <1>7, <2>1
<1>9. Left(q, Len(p)) = p /\ Len(p) <= Len(q)
  <2>1. Len(p) \in Nat /\ Len(p) <= Len(q)
    BY <1>2, <1>6, <1>7
  <2>2. PICK u : u = Left(q, Len(p))
    OBVIOUS
  <2>3. u \in Seq(S) /\ Len(u) = Len(p) /\ \A i \in 1 .. Len(p) : u[i] = q[i]
    BY <1>7, <2>1, <2>2, Halves
  <2>4. u = p
    BY <1>6, <1>8, <2>3, SeqEqual
  <2> QED
    BY <2>1, <2>2, <2>4
<1>10. IsSuffix(y, t)
  <2>1. SubSeq(p, 1, Len(p)) = p
    BY <1>6, SubSeqFull
  <2> QED
    BY <1>5, <1>9, <2>1 DEF IsSuffix, IsPrefix, Left
<1> QED
  BY <1>1, <1>3, <1>10

\* A text in three parts.
InThreeParts(S, s, a, b) ==
  /\ Left(s, a) \in Seq(S) /\ Piece(s, a, b) \in Seq(S) /\ Right(s, b) \in Seq(S)
  /\ Len(Piece(s, a, b)) <= Len(s)
  /\ s = (Left(s, a) \o Piece(s, a, b)) \o Right(s, b)

LEMMA ThreeParts ==
  ASSUME NEW S, NEW s \in Seq(S), NEW a \in Nat, NEW b \in Nat, a <= b, b <= Len(s)
  PROVE  InThreeParts(S, s, a, b)
<1>1. Len(s) \in Nat /\ a <= Len(s)
  BY LenProperties
<1>2. Left(s, a) \in Seq(S) /\ Right(s, b) \in Seq(S)
  BY <1>1, Halves
<1>3. a + 1 \in Nat /\ a + 1 >= 1
  OBVIOUS
<1>4. /\ SubSeq(s, a + 1, b) \in Seq(S)
      /\ Len(SubSeq(s, a + 1, b)) = IF a + 1 <= b THEN b - (a + 1) + 1 ELSE 0
  BY <1>3, PieceFacts
<1>5. Len(SubSeq(s, a + 1, b)) <= Len(s)
  BY <1>1, <1>4
<1>6. SubSeq(s, 1, a) \o SubSeq(s, a + 1, b) = SubSeq(s, 1, b)
  <2>1. 1 \in Nat /\ 1 <= a + 1
    OBVIOUS
  <2> QED
    BY <1>1, <2>1, PiecesJoin
<1>7. Left(s, b) \o Right(s, b) = s
  BY HalvesJoin
<1> QED
  BY <1>2, <1>4, <1>5, <1>6, <1>7 DEF Left, Piece, InThreeParts

\* The end of a replacement is no end of a line.
LEMMA ReplaceEndFacts ==
  ASSUME lines \in Lines, position \in Places, mark \in Places, NEW r \in Replacements,
         NEW e, e = ReplaceEnd(r)
  PROVE  /\ e \in Places
         /\ e.line < Len(lines) => e.column = 0 \/ e.column < Len(lines[e.line + 1])
<1>1. e \in Places
  BY ReplaceEndType
<1>2. r.end \in Places /\ r.end.line \in Nat /\ r.end.column \in Nat
  BY ReplacementFacts DEF Places
<1>3. CASE r.inline
  BY <1>1, <1>3 DEF ReplaceEnd, Place
<1>4. CASE ~ r.inline /\ r.end.line < Len(lines) /\ Len(LineAt(lines, r.end)) <= r.end.column
  BY <1>1, <1>4 DEF ReplaceEnd, Place
<1>5. CASE ~ r.inline /\ ~ (r.end.line < Len(lines) /\ Len(LineAt(lines, r.end)) <= r.end.column)
  <2>1. e = r.end
    BY <1>5 DEF ReplaceEnd
  <2>2. ASSUME e.line < Len(lines) PROVE e.column < Len(lines[e.line + 1])
    <3>1. Len(lines[e.line + 1]) \in Nat
      BY <1>2, <2>1, <2>2, LineFacts
    <3> QED
      BY <1>2, <1>5, <2>1, <2>2, <3>1 DEF LineAt
  <2> QED
    BY <1>1, <2>2
<1> QED
  BY <1>3, <1>4, <1>5

LEMMA NoFilter ==
  ASSUME NEW S, NEW t \in Seq(S)
  PROVE  Hits(<<>>, t) # {}
<1>1. <<>> \in Seq(S) /\ Len(<<>>) = 0 /\ Len(t) \in Nat
  OBVIOUS
<1>2. 0 \in Hits(<<>>, t)
  <2>1. \A h : h \in Hits(<<>>, t) <=> /\ h \in Nat /\ h + Len(<<>>) <= Len(t)
                                      /\ \A i \in 1 .. Len(<<>>) : t[h + i] = <<>>[i]
    BY <1>1, HitIs, ZenonT(60)
  <2> QED
    BY <1>1, <2>1
<1> QED
  BY <1>2

\* A line is not longer than the text.
LEMMA LineInText ==
  ASSUME NEW ls \in Lines, NEW k \in Nat, k < Len(ls)
  PROVE  Len(ls[k + 1]) \in Nat /\ Len(ls[k + 1]) <= Len(Flat(ls))
<1>1. ls[k + 1] \in Seq(Chars) /\ Len(ls[k + 1]) \in Nat
  BY LineFacts
<1>2. PICK a, l, b : a = Flat(Left(ls, k)) /\ l = ls[k + 1] /\ b = <<NL>> \o Flat(Right(ls, k + 1))
  OBVIOUS
<1>3. a \in Seq(Chars) /\ l \in Seq(Chars) /\ b \in Seq(Chars) /\ Flat(ls) = a \o (l \o b)
  BY <1>1, <1>2, TextAround
<1>4. l \o b \in Seq(Chars) /\ Len(l \o b) = Len(l) + Len(b)
  BY <1>3, ConcatProperties
<1>5. Len(a \o (l \o b)) = Len(a) + (Len(l) + Len(b))
  BY <1>3, <1>4, ConcatProperties
<1>6. Len(a) \in Nat /\ Len(l) \in Nat /\ Len(b) \in Nat
  BY <1>3, LenProperties
<1>7. PICK n, m : n = Len(l) /\ m = Len(Flat(ls))
  OBVIOUS
<1>8. n \in Nat /\ m = Len(a) + (n + Len(b))
  BY <1>3, <1>5, <1>6, <1>7
<1>9. n <= m
  BY <1>6, <1>8
<1> QED
  BY <1>2, <1>7, <1>8, <1>9

\* The text u is the text t with something else between i and j: if all, with every
\* occurrence replaced.
IsPart(t, u, i, j, word, new, all, p, m, q, x) ==
  /\ {p, m, q, x} \subseteq Seq(Chars)
  /\ t = (p \o m) \o q /\ u = (p \o x) \o q
  /\ Len(p) = i /\ Len(p) + Len(m) = j
  /\ all => x = ReplaceEvery(m, word, new)
ReplacesPart(t, u, i, j, word, new, all) ==
  \E p, m, q, x : IsPart(t, u, i, j, word, new, all, p, m, q, x)

\* What stands before a place.
LEMMA PieceFromStart ==
  ASSUME NEW t, NEW j
  PROVE  Piece(t, 0, j) = Left(t, j)
BY DEF Piece, Left

LEMMA LeftInJoin ==
  ASSUME NEW S, NEW x \in Seq(S), NEW y \in Seq(S), NEW n \in Nat, n <= Len(x)
  PROVE  Left(x \o y, n) = Left(x, n)
<1>1. PICK p, q : p = Left(x, n) /\ q = Right(x, n)
  OBVIOUS
<1>2. p \in Seq(S) /\ q \in Seq(S) /\ Len(p) = n
  BY <1>1, Halves
<1>3. x = p \o q
  BY <1>1, HalvesJoin
<1>4. x \o y = p \o (q \o y) /\ q \o y \in Seq(S)
  BY <1>2, <1>3, ConcatAssociative, ConcatProperties
<1>5. Left(p \o (q \o y), Len(p)) = p
  BY <1>2, <1>4, JoinIsHalves
<1> QED
  BY <1>1, <1>2, <1>4, <1>5

\* A part of a line is a part of the text around it.
LEMMA PartInText ==
  ASSUME NEW f, NEW l, NEW z, f \in Seq(Chars) /\ z \in Seq(Chars), NEW a, NEW b, a \in Nat /\ b \in Nat,
         NEW v, NEW word, NEW new, NEW all, ReplacesPart(l, v, a, b, word, new, all)
  PROVE  ReplacesPart(f \o (l \o z), f \o (v \o z), Len(f) + a, Len(f) + b, word, new, all)
<1>1. PICK p, m, q, x : IsPart(l, v, a, b, word, new, all, p, m, q, x)
  BY DEF ReplacesPart
<1>2. p \in Seq(Chars) /\ m \in Seq(Chars) /\ q \in Seq(Chars) /\ x \in Seq(Chars)
  BY <1>1 DEF IsPart
<1>3. PICK w, h : w = q \o z /\ h = f \o p
  OBVIOUS
<1>4. w \in Seq(Chars) /\ h \in Seq(Chars) /\ Len(h) = Len(f) + Len(p)
      /\ Len(f) \in Nat /\ Len(p) \in Nat /\ Len(m) \in Nat
  BY <1>2, <1>3, ConcatProperties
<1>5. ASSUME NEW y, y \in Seq(Chars)
      PROVE  f \o (((p \o y) \o q) \o z) = (h \o y) \o w
  <2>1. PICK k : k = p \o y
    OBVIOUS
  <2>2. k \in Seq(Chars)
    BY <1>2, <1>5, <2>1, ConcatProperties
  <2>3. Associates(k, q, z) /\ Associates(f, k, w) /\ Associates(f, p, y)
    BY <1>2, <1>4, <1>5, <2>2, TextsAssociate
  <2> QED
    BY <1>3, <2>1, <2>3 DEF Associates
<1>6. f \o (l \o z) = (h \o m) \o w
  BY <1>1, <1>2, <1>5 DEF IsPart
<1>7. f \o (v \o z) = (h \o x) \o w
  BY <1>1, <1>2, <1>5 DEF IsPart
<1>8. Len(h) = Len(f) + a /\ Len(h) + Len(m) = Len(f) + b
  <2>1. Len(p) = a /\ Len(p) + Len(m) = b
    BY <1>1 DEF IsPart
  <2>2. PICK n, k, d : n = Len(f) /\ k = Len(p) /\ d = Len(m)
    OBVIOUS
  <2>3. n \in Nat /\ k \in Nat /\ d \in Nat /\ Len(h) = n + k
    BY <1>4, <2>2
  <2>4. a = k /\ b = k + d /\ (n + k) + d = n + (k + d)
    BY <2>1, <2>2, <2>3
  <2> QED
    BY <2>2, <2>3, <2>4
<1>9. all => x = ReplaceEvery(m, word, new)
  BY <1>1 DEF IsPart
<1>10. IsPart(f \o (l \o z), f \o (v \o z), Len(f) + a, Len(f) + b, word, new, all, h, m, w, x)
  BY <1>2, <1>4, <1>6, <1>7, <1>8, <1>9 DEF IsPart
<1> QED
  BY <1>10 DEF ReplacesPart

\* A part at the start.
IsStart(t, u, c, word, new, all, m, q, x) ==
  /\ m \in Seq(Chars) /\ q \in Seq(Chars) /\ x \in Seq(Chars)
  /\ t = m \o q /\ u = x \o q /\ Len(m) = c
  /\ all => x = ReplaceEvery(m, word, new)

LEMMA PartAtStart ==
  ASSUME NEW t, NEW u, NEW c, NEW word, NEW new, NEW all,
         ReplacesPart(t, u, 0, c, word, new, all)
  PROVE  \E m, q, x : IsStart(t, u, c, word, new, all, m, q, x)
<1>1. PICK p, m, q, x : IsPart(t, u, 0, c, word, new, all, p, m, q, x)
  BY DEF ReplacesPart
<1>2. p \in Seq(Chars) /\ m \in Seq(Chars) /\ q \in Seq(Chars) /\ x \in Seq(Chars)
  BY <1>1 DEF IsPart
<1>3. Len(p) = 0 /\ Len(p) + Len(m) = c /\ Len(m) \in Nat
  BY <1>1, <1>2, LenProperties DEF IsPart
<1>4. p = <<>> /\ Len(m) = c
  BY <1>2, <1>3, EmptySeq
<1>5. p \o m = m /\ p \o x = x
  BY <1>2, <1>4, ConcatEmptySeq
<1>6. t = m \o q /\ u = x \o q /\ (all => x = ReplaceEvery(m, word, new))
  BY <1>1, <1>5 DEF IsPart
<1> QED
  BY <1>2, <1>4, <1>6 DEF IsStart

LEMMA StartIsPart ==
  ASSUME NEW t, NEW u, NEW c, NEW word, NEW new, NEW all, NEW m, NEW q, NEW x,
         IsStart(t, u, c, word, new, all, m, q, x)
  PROVE  ReplacesPart(t, u, 0, c, word, new, all)
<1>1. m \in Seq(Chars) /\ q \in Seq(Chars) /\ x \in Seq(Chars)
  BY DEF IsStart
<1>2. PICK p : p = <<>>
  OBVIOUS
<1>3. p \in Seq(Chars) /\ Len(p) = 0 /\ Len(m) \in Nat /\ p \o m = m /\ p \o x = x
  BY <1>1, <1>2, LenProperties, ConcatEmptySeq
<1>4. Len(p) + Len(m) = c
  BY <1>3 DEF IsStart
<1>5. IsPart(t, u, 0, c, word, new, all, p, m, q, x)
  BY <1>1, <1>3, <1>4 DEF IsPart, IsStart
<1> QED
  BY <1>5 DEF ReplacesPart

\* The text f is above a line and becomes g.
BecomesAbove(f, g, word, new, all) ==
  /\ f \in Seq(Chars) /\ g \in Seq(Chars)
  /\ all => \A x \in Seq(Chars) :
              ReplaceEvery(f \o x, word, new) = g \o ReplaceEvery(x, word, new)

\* A part at the start of a line and the text above it.
LEMMA PartWithAbove ==
  ASSUME NEW f, NEW g, NEW l, NEW z, z \in Seq(Chars), NEW c, NEW v, NEW word, NEW new, NEW all,
         BecomesAbove(f, g, word, new, all), ReplacesPart(l, v, 0, c, word, new, all)
  PROVE  ReplacesPart(f \o (l \o z), g \o (v \o z), 0, Len(f) + c, word, new, all)
<1>1. /\ \E m, q, x : IsStart(l, v, c, word, new, all, m, q, x)
  BY PartAtStart
<1>2. PICK m, q, x : IsStart(l, v, c, word, new, all, m, q, x)
  BY <1>1
<1>3. /\ f \in Seq(Chars) /\ g \in Seq(Chars)
      /\ m \in Seq(Chars) /\ q \in Seq(Chars) /\ x \in Seq(Chars)
      /\ l = m \o q /\ v = x \o q /\ Len(m) = c
  BY <1>2 DEF BecomesAbove, IsStart
<1>4. PICK w, n, y : w = q \o z /\ n = f \o m /\ y = g \o x
  OBVIOUS
<1>5. w \in Seq(Chars) /\ n \in Seq(Chars) /\ y \in Seq(Chars) /\ Len(n) = Len(f) + c
  BY <1>3, <1>4, ConcatProperties
<1>6. /\ Associates(m, q, z) /\ Associates(f, m, w)
      /\ Associates(x, q, z) /\ Associates(g, x, w)
  BY <1>3, <1>5, TextsAssociate
<1>7. f \o (l \o z) = n \o w
  BY <1>3, <1>4, <1>6 DEF Associates
<1>8. g \o (v \o z) = y \o w
  BY <1>3, <1>4, <1>6 DEF Associates
<1>9. all => y = ReplaceEvery(n, word, new)
  <2>1. SUFFICES ASSUME all PROVE y = ReplaceEvery(n, word, new)
    OBVIOUS
  <2>2. x = ReplaceEvery(m, word, new)
    BY <1>2, <2>1 DEF IsStart
  <2>3. ReplaceEvery(f \o m, word, new) = g \o ReplaceEvery(m, word, new)
    BY <1>3, <2>1 DEF BecomesAbove
  <2> QED
    BY <1>4, <2>2, <2>3
<1>10. IsStart(f \o (l \o z), g \o (v \o z), Len(f) + c, word, new, all, n, w, y)
  BY <1>5, <1>7, <1>8, <1>9 DEF IsStart
<1> QED
  BY <1>10, StartIsPart

\* A part from a place in a line to its end, and one at the start of the text below it.
LEMMA PartWithBelow ==
  ASSUME NEW word, NEW new,
         word \in Seq(Letters) /\ word # <<>> /\ new \in Seq(Letters),
         NEW f, NEW l, NEW v, NEW t, NEW u, f \in Seq(Chars), NEW a, NEW o, NEW all,
         ReplacesPart(l, v, a, Len(l), word, new, all), ReplacesPart(t, u, 0, o, word, new, all)
  PROVE  ReplacesPart(f \o (l \o (<<NL>> \o t)), f \o (v \o (<<NL>> \o u)),
                      Len(f) + a, ((Len(f) + Len(l)) + 1) + o, word, new, all)
<1>1. PICK p, m, e, x : IsPart(l, v, a, Len(l), word, new, all, p, m, e, x)
  BY DEF ReplacesPart
<1>2. p \in Seq(Chars) /\ m \in Seq(Chars) /\ e \in Seq(Chars) /\ x \in Seq(Chars)
  BY <1>1 DEF IsPart
<1>3. PICK n, q, y : /\ n \in Seq(Chars) /\ q \in Seq(Chars) /\ y \in Seq(Chars)
                     /\ t = n \o q /\ u = y \o q /\ Len(n) = o
                     /\ all => y = ReplaceEvery(n, word, new)
  <2>1. \E n, q, y : IsStart(t, u, o, word, new, all, n, q, y)
    BY PartAtStart
  <2> QED
    BY <2>1 DEF IsStart
<1>4. PICK k : k = <<NL>>
  OBVIOUS
<1>5. k \in Seq(Chars) /\ Len(k) = 1
  BY <1>4 DEF Chars
<1>6. p \o m \in Seq(Chars) /\ p \o x \in Seq(Chars) /\ Len(p \o m) = Len(p) + Len(m)
  BY <1>2, ConcatProperties
<1>7. l = (p \o m) \o e /\ v = (p \o x) \o e /\ Len(p) = a /\ Len(p) + Len(m) = Len(l)
  BY <1>1 DEF IsPart
<1>8. e = <<>>
  <2>1. Len((p \o m) \o e) = Len(p \o m) + Len(e)
    BY <1>2, <1>6, ConcatProperties
  <2>2. Len(p) \in Nat /\ Len(m) \in Nat /\ Len(e) \in Nat
    BY <1>2, LenProperties
  <2>3. Len(e) = 0
    BY <1>6, <1>7, <2>1, <2>2
  <2> QED
    BY <1>2, <2>3, EmptySeq
<1>9. l = p \o m /\ v = p \o x
  BY <1>6, <1>7, <1>8, ConcatEmptySeq
<1>10. PICK h : h = f \o p
  OBVIOUS
<1>11. h \in Seq(Chars) /\ Len(h) = Len(f) + a /\ Len(f) \in Nat /\ Len(p) \in Nat
  <2>1. h \in Seq(Chars) /\ Len(h) = Len(f) + Len(p)
    BY <1>2, <1>10, ConcatProperties
  <2>2. Len(f) \in Nat /\ Len(p) \in Nat
    BY <1>2, LenProperties
  <2>3. Len(p) = a
    BY <1>7
  <2> QED
    BY <2>1, <2>2, <2>3
<1>12. ASSUME NEW i, NEW j, i \in Seq(Chars), j \in Seq(Chars)
       PROVE  /\ f \o ((p \o i) \o (k \o (j \o q))) = (h \o (i \o (k \o j))) \o q
              /\ i \o (k \o j) \in Seq(Chars)
              /\ Len(i \o (k \o j)) = Len(i) + (1 + Len(j))
  <2>1. PICK r, s, d, w : r = j \o q /\ s = k \o r /\ d = k \o j /\ w = i \o d
    OBVIOUS
  <2>2. q \in Seq(Chars)
    BY <1>3
  <2>3. r \in Seq(Chars) /\ d \in Seq(Chars) /\ Len(d) = 1 + Len(j)
    BY <1>5, <1>12, <2>1, <2>2, ConcatProperties, ZenonT(60)
  <2>4. s \in Seq(Chars) /\ w \in Seq(Chars) /\ Len(w) = Len(i) + Len(d)
    BY <1>5, <1>12, <2>1, <2>3, ConcatProperties
  <2>5. i \o s \in Seq(Chars)
    BY <1>12, <2>4, ConcatProperties
  <2>6. /\ Associates(k, j, q) /\ Associates(i, d, q) /\ Associates(p, i, s)
        /\ Associates(f, p, i \o s) /\ Associates(h, w, q)
    BY <1>2, <1>5, <1>11, <1>12, <2>2, <2>3, <2>4, <2>5, TextsAssociate
  <2>7. i \o s = w \o q
    BY <2>1, <2>6 DEF Associates
  <2>8. f \o ((p \o i) \o s) = (h \o w) \o q
    BY <1>10, <2>6, <2>7 DEF Associates
  <2> QED
    BY <2>1, <2>3, <2>4, <2>8
<1>13. PICK b, c : b = m \o (k \o n) /\ c = x \o (k \o y)
  OBVIOUS
<1>14. f \o (l \o (k \o t)) = (h \o b) \o q /\ b \in Seq(Chars)
       /\ Len(b) = Len(m) + (1 + Len(n))
  BY <1>2, <1>3, <1>9, <1>12, <1>13
<1>15. f \o (v \o (k \o u)) = (h \o c) \o q /\ c \in Seq(Chars)
  BY <1>2, <1>3, <1>9, <1>12, <1>13
<1>16. ASSUME all PROVE c = ReplaceEvery(b, word, new)
  <2>1. /\ word \in Seq(Chars) /\ new \in Seq(Chars) /\ NL \in Chars
        /\ \A i \in 1 .. Len(word) : word[i] # NL
    <3>1. word \in Seq(Chars) /\ new \in Seq(Chars) /\ NL \in Chars
      BY SeqMonotonic DEF Chars
    <3>2. \A i \in 1 .. Len(word) : word[i] \in Letters
      BY ElementOfSeq
    <3>3. NL \notin Letters
      BY LineBufferAssumption
    <3> QED
      BY <3>1, <3>2, <3>3
  <2>2. n \in Seq(Chars)
    BY <1>3
  <2>3. ReplacedApart(m, NL, n, word, new)
    BY <1>2, <2>1, <2>2, AllApart
  <2>4. x = ReplaceEvery(m, word, new) /\ y = ReplaceEvery(n, word, new)
    BY <1>1, <1>3, <1>16 DEF IsPart
  <2> QED
    BY <1>4, <1>13, <2>3, <2>4 DEF ReplacedApart
<1>17. Len(h) + Len(b) = ((Len(f) + Len(l)) + 1) + o
  <2>1. Len(m) \in Nat /\ Len(n) \in Nat /\ Len(n) = o
    BY <1>2, <1>3, LenProperties
  <2>2. PICK lf, lp, lm, ll : lf = Len(f) /\ lp = Len(p) /\ lm = Len(m) /\ ll = Len(l)
    OBVIOUS
  <2>3. /\ lf \in Nat /\ lp \in Nat /\ lm \in Nat /\ o \in Nat
        /\ ll = lp + lm /\ Len(h) = lf + lp /\ Len(b) = lm + (1 + o)
    BY <1>7, <1>11, <1>14, <2>1, <2>2
  <2>4. (lf + lp) + (lm + (1 + o)) = ((lf + (lp + lm)) + 1) + o
    BY <2>3
  <2> QED
    BY <2>2, <2>3, <2>4
<1>18. IsPart(f \o (l \o (k \o t)), f \o (v \o (k \o u)), Len(f) + a, ((Len(f) + Len(l)) + 1) + o,
              word, new, all, h, b, q, c)
  <2>1. q \in Seq(Chars)
    BY <1>3
  <2> QED
    BY <1>11, <1>14, <1>15, <1>16, <1>17, <2>1 DEF IsPart
<1> QED
  BY <1>4, <1>18 DEF ReplacesPart

LEMMA PieceInMiddle ==
  ASSUME NEW p \in Seq(Chars), NEW m \in Seq(Chars), NEW q \in Seq(Chars)
  PROVE  Piece((p \o m) \o q, Len(p), Len(p) + Len(m)) = m
<1>1. PICK g, t, i, j : g = p \o m /\ t = g \o q /\ i = Len(p) /\ j = Len(p) + Len(m)
  OBVIOUS
<1>2. g \in Seq(Chars) /\ Len(g) = j /\ t \in Seq(Chars) /\ Len(t) = j + Len(q)
  BY <1>1, ConcatProperties
<1>3. i \in Nat /\ j \in Nat /\ i <= j /\ Len(q) \in Nat /\ j <= Len(t)
  BY <1>1, <1>2, LenProperties
<1>4. Left(t, j) = g
  BY <1>1, <1>2, JoinIsHalves
<1>5. Left(t, i) = p
  <2>1. Left(g, i) = p
    BY <1>1, JoinIsHalves
  <2>2. Left(t, i) = Left(g, i)
    BY <1>1, <1>2, <1>3, LeftInJoin
  <2> QED
    BY <2>1, <2>2
<1>6. i <= Len(t)
  BY <1>2, <1>3
<1>7. Piece(t, i, j) = m
  <2>1. Left(t, j) = p \o m
    BY <1>1, <1>4
  <2>2. t \in Seq(Chars) /\ i \in Nat /\ i <= Len(t) /\ j \in Nat /\ j <= Len(t)
    BY <1>2, <1>3, <1>6
  <2> QED
    BY <1>5, <2>1, <2>2, PieceBetween, ZenonT(60)
<1> QED
  BY <1>1, <1>7

\* What a part says of the halves of the texts.
LEMMA PartIs ==
  ASSUME NEW t, NEW u, NEW i, NEW j, NEW word, NEW new, NEW all,
         ReplacesPart(t, u, i, j, word, new, all)
  PROVE  /\ IsPrefix(Left(t, i), u) /\ IsSuffix(Right(t, j), u)
         /\ Piece(t, i, j) \in Seq(Chars) /\ Len(Piece(t, i, j)) <= Len(t)
         /\ all => u = (Left(t, i) \o ReplaceEvery(Piece(t, i, j), word, new)) \o Right(t, j)
<1>1. PICK p, m, q, x : IsPart(t, u, i, j, word, new, all, p, m, q, x)
  BY DEF ReplacesPart
<1>2. /\ p \in Seq(Chars) /\ m \in Seq(Chars) /\ q \in Seq(Chars) /\ x \in Seq(Chars)
      /\ t = (p \o m) \o q /\ u = (p \o x) \o q /\ Len(p) = i /\ Len(p) + Len(m) = j
  BY <1>1 DEF IsPart
<1>3. PICK g, w, s : g = p \o m /\ w = m \o q /\ s = x \o q
  OBVIOUS
<1>4. g \in Seq(Chars) /\ w \in Seq(Chars) /\ s \in Seq(Chars) /\ p \o x \in Seq(Chars)
      /\ Len(g) = j
  BY <1>2, <1>3, ConcatProperties
<1>5. Associates(p, m, q) /\ Associates(p, x, q)
  BY <1>2, TextsAssociate
<1>6. t = p \o w /\ u = p \o s /\ t = g \o q
  BY <1>2, <1>3, <1>5 DEF Associates
<1>7. Left(t, i) = p
  BY <1>2, <1>4, <1>6, JoinIsHalves
<1>8. Left(t, j) = g /\ Right(t, j) = q
  BY <1>2, <1>4, <1>6, JoinIsHalves
<1>9. IsPrefix(p, u)
  BY <1>2, <1>4, <1>6, JoinHasEnds
<1>10. IsSuffix(q, u)
  BY <1>2, <1>4, JoinHasEnds
<1>11. Piece(t, i, j) = m
  <2>1. p \in Seq(Chars) /\ m \in Seq(Chars) /\ q \in Seq(Chars)
    BY <1>2
  <2>2. Piece((p \o m) \o q, Len(p), Len(p) + Len(m)) = m
    BY <2>1, PieceInMiddle
  <2>3. t = (p \o m) \o q /\ i = Len(p) /\ j = Len(p) + Len(m)
    BY <1>2
  <2> QED
    BY <2>2, <2>3
<1>12. Len(m) <= Len(t)
  <2>1. Len(t) = Len(g) + Len(q) /\ Len(g) = Len(p) + Len(m)
    BY <1>2, <1>3, <1>4, <1>6, ConcatProperties
  <2>2. Len(p) \in Nat /\ Len(m) \in Nat /\ Len(q) \in Nat
    BY <1>2, LenProperties
  <2> QED
    BY <2>1, <2>2
<1>13. ASSUME all PROVE u = (p \o ReplaceEvery(m, word, new)) \o q
  BY <1>1, <1>13 DEF IsPart
<1> QED
  BY <1>2, <1>7, <1>8, <1>9, <1>10, <1>11, <1>12, <1>13

\* A part of one line is a part of the text.
LEMMA PartOfOneLine ==
  ASSUME NEW ls \in Lines, NEW us \in Lines, NEW k \in Nat, k < Len(ls), k < Len(us),
         Left(us, k) = Left(ls, k), Right(us, k + 1) = Right(ls, k + 1),
         NEW a \in Nat, NEW b \in Nat, NEW word, NEW new, NEW all,
         ReplacesPart(ls[k + 1], us[k + 1], a, b, word, new, all)
  PROVE  ReplacesPart(Flat(ls), Flat(us), Start(ls, k) + a, Start(ls, k) + b, word, new, all)
<1>1. PICK f, z : f = Flat(Left(ls, k)) /\ z = <<NL>> \o Flat(Right(ls, k + 1))
  OBVIOUS
<1>2. f \in Seq(Chars) /\ z \in Seq(Chars) /\ Flat(ls) = f \o (ls[k + 1] \o z)
  BY <1>1, TextAround
<1>3. Flat(us) = f \o (us[k + 1] \o z)
  BY <1>1, TextAround
<1>4. ReplacesPart(f \o (ls[k + 1] \o z), f \o (us[k + 1] \o z), Len(f) + a, Len(f) + b,
                   word, new, all)
  BY <1>2, PartInText
<1> QED
  BY <1>1, <1>2, <1>3, <1>4 DEF Start

\* Whole lines and the part of a line below them are a part of the text.
LEMMA PartFromStart ==
  ASSUME NEW ls \in Lines, NEW us \in Lines, NEW m \in Nat, m < Len(ls), m < Len(us),
         NEW word \in Seq(Letters), word # <<>>, NEW new \in Seq(Letters), NEW all,
         all => Left(us, m) = ReplacedLines(Left(ls, m), word, new),
         Right(us, m + 1) = Right(ls, m + 1), NEW c \in Nat,
         ReplacesPart(ls[m + 1], us[m + 1], 0, c, word, new, all)
  PROVE  ReplacesPart(Flat(ls), Flat(us), 0, Start(ls, m) + c, word, new, all)
<1>1. PICK f, g, z : f = Flat(Left(ls, m)) /\ g = Flat(Left(us, m))
                     /\ z = <<NL>> \o Flat(Right(ls, m + 1))
  OBVIOUS
<1>2. f \in Seq(Chars) /\ z \in Seq(Chars) /\ Flat(ls) = f \o (ls[m + 1] \o z)
  BY <1>1, TextAround
<1>3. g \in Seq(Chars) /\ Flat(us) = g \o (us[m + 1] \o z)
  BY <1>1, TextAround
<1>4. Left(ls, m) \in Lines
  BY LineFacts
<1>5. BecomesAbove(f, g, word, new, all)
  <2>1. ASSUME all, NEW x \in Seq(Chars)
        PROVE  ReplaceEvery(f \o x, word, new) = g \o ReplaceEvery(x, word, new)
    <3>1. ReplaceEvery(Flat(Left(ls, m)) \o x, word, new) =
            Flat(ReplacedLines(Left(ls, m), word, new)) \o ReplaceEvery(x, word, new)
      BY <1>4, AllOfLines
    <3> QED
      BY <1>1, <2>1, <3>1
  <2> QED
    BY <1>2, <1>3, <2>1 DEF BecomesAbove
<1>6. ReplacesPart(f \o (ls[m + 1] \o z), g \o (us[m + 1] \o z), 0, Len(f) + c, word, new, all)
  BY <1>2, <1>5, PartWithAbove
<1> QED
  BY <1>1, <1>2, <1>3, <1>6 DEF Start

\* All the lines are a part of the text.
LEMMA PartOfWholeLines ==
  ASSUME NEW ls \in Lines, NEW us \in Lines,
         NEW word \in Seq(Letters), word # <<>>, NEW new \in Seq(Letters), NEW all,
         all => us = ReplacedLines(ls, word, new)
  PROVE  ReplacesPart(Flat(ls), Flat(us), 0, Len(Flat(ls)), word, new, all)
<1>1. PICK t, u, n : t = Flat(ls) /\ u = Flat(us) /\ n = <<>>
  OBVIOUS
<1>2. t \in Seq(Chars) /\ u \in Seq(Chars) /\ n \in Seq(Chars)
  BY <1>1, FlatType
<1>3. t = t \o n /\ u = u \o n
  BY <1>1, <1>2, ConcatEmptySeq
<1>4. all => u = ReplaceEvery(t, word, new)
  <2>1. SUFFICES ASSUME all PROVE u = ReplaceEvery(t, word, new)
    OBVIOUS
  <2>2. ReplaceEvery(Flat(ls) \o n, word, new) =
          Flat(ReplacedLines(ls, word, new)) \o ReplaceEvery(n, word, new)
    BY <1>2, AllOfLines
  <2>3. ReplaceEvery(n, word, new) = n
    <3>1. word \in Seq(Chars)
      BY SeqMonotonic DEF Chars
    <3>2. ReplaceEvery(n, word, new) =
            IF n = <<>> THEN <<>>
            ELSE IF 0 \in Hits(word, n)
            THEN new \o ReplaceEvery(Right(n, Len(word)), word, new)
            ELSE <<n[1]>> \o ReplaceEvery(Right(n, 1), word, new)
      BY <1>2, <3>1, AllUnfolds
    <3> QED
      BY <1>1, <3>2
  <2> QED
    BY <1>1, <1>3, <2>1, <2>2, <2>3
<1>5. IsStart(t, u, Len(t), word, new, all, t, n, u)
  BY <1>2, <1>3, <1>4 DEF IsStart
<1> QED
  BY <1>1, <1>5, StartIsPart

\* A part from a place in a line to one in the lines below it is a part of the text.
LEMMA PartOfSeveralLines ==
  ASSUME NEW ls \in Lines, NEW us \in Lines, NEW k \in Nat, k < Len(ls), k < Len(us),
         Left(us, k) = Left(ls, k),
         NEW word \in Seq(Letters), word # <<>>, NEW new \in Seq(Letters), NEW all,
         NEW a \in Nat, ReplacesPart(ls[k + 1], us[k + 1], a, Len(ls[k + 1]), word, new, all),
         NEW o \in Nat,
         ReplacesPart(Flat(Right(ls, k + 1)), Flat(Right(us, k + 1)), 0, o, word, new, all)
  PROVE  ReplacesPart(Flat(ls), Flat(us), Start(ls, k) + a, Start(ls, k + 1) + o, word, new, all)
<1>1. PICK f, t, u : f = Flat(Left(ls, k)) /\ t = Flat(Right(ls, k + 1))
                     /\ u = Flat(Right(us, k + 1))
  OBVIOUS
<1>2. f \in Seq(Chars) /\ Flat(ls) = f \o (ls[k + 1] \o (<<NL>> \o t))
  BY <1>1, TextAround
<1>3. Flat(us) = f \o (us[k + 1] \o (<<NL>> \o u))
  BY <1>1, TextAround
<1>4. ReplacesPart(f \o (ls[k + 1] \o (<<NL>> \o t)), f \o (us[k + 1] \o (<<NL>> \o u)),
                   Len(f) + a, ((Len(f) + Len(ls[k + 1])) + 1) + o, word, new, all)
  <2>1. word \in Seq(Letters) /\ word # <<>> /\ new \in Seq(Letters)
    OBVIOUS
  <2>2. ReplacesPart(t, u, 0, o, word, new, all)
    BY <1>1
  <2> QED
    BY <1>2, <2>1, <2>2, PartWithBelow
<1>5. Start(ls, k + 1) = Start(ls, k) + Len(ls[k + 1]) + 1
  BY StartNext
<1> QED
  BY <1>1, <1>2, <1>3, <1>4, <1>5 DEF Start

LEMMA PartOfALine ==
  ASSUME NEW l \in Seq(Letters), NEW a \in Nat, NEW b \in Nat, a <= b, b <= Len(l),
         NEW x \in Seq(Letters), NEW v, v = (Left(l, a) \o x) \o Right(l, b),
         NEW word, NEW new, NEW all, all => x = ReplaceEvery(Piece(l, a, b), word, new)
  PROVE  ReplacesPart(l, v, a, b, word, new, all)
<1>1. PICK p, m, q : p = Left(l, a) /\ m = Piece(l, a, b) /\ q = Right(l, b)
  OBVIOUS
<1>2. /\ p \in Seq(Letters) /\ m \in Seq(Letters) /\ q \in Seq(Letters)
      /\ l = (p \o m) \o q
  <2>1. InThreeParts(Letters, l, a, b)
    BY ThreeParts
  <2> QED
    BY <1>1, <2>1 DEF InThreeParts
<1>3. Seq(Letters) \subseteq Seq(Chars)
  BY SeqMonotonic DEF Chars
<1>4. Len(p) = a /\ Len(m) = b - a
  <2>1. a <= Len(l)
    BY LenProperties
  <2>2. Len(p) = a
    BY <1>1, <2>1, Halves
  <2>3. Len(m) = b - a
    BY <1>1, PieceFacts DEF Piece
  <2> QED
    BY <2>2, <2>3
<1>5. IsPart(l, v, a, b, word, new, all, p, m, q, x)
  <2>1. Len(p) = a /\ Len(p) + Len(m) = b
    BY <1>4
  <2>2. p \in Seq(Chars) /\ m \in Seq(Chars) /\ q \in Seq(Chars) /\ x \in Seq(Chars)
    BY <1>2, <1>3
  <2>3. l = (p \o m) \o q /\ v = (p \o x) \o q
    BY <1>1, <1>2
  <2>4. all => x = ReplaceEvery(m, word, new)
    BY <1>1
  <2> QED
    BY <2>1, <2>2, <2>3, <2>4 DEF IsPart
<1> QED
  BY <1>5 DEF ReplacesPart

LEMMA PartThatStays ==
  ASSUME NEW l \in Seq(Letters), NEW a \in Nat, NEW b \in Nat, a <= b, b <= Len(l),
         NEW word \in Seq(Letters), word # <<>>, NEW new, NEW all,
         all => Hits(word, Piece(l, a, b)) = {}
  PROVE  ReplacesPart(l, l, a, b, word, new, all)
<1>1. PICK m : m = Piece(l, a, b)
  OBVIOUS
<1>2. m \in Seq(Letters) /\ l = (Left(l, a) \o m) \o Right(l, b)
  <2>1. InThreeParts(Letters, l, a, b)
    BY ThreeParts
  <2> QED
    BY <1>1, <2>1 DEF InThreeParts
<1>3. all => m = ReplaceEvery(Piece(l, a, b), word, new)
  <2>1. SUFFICES ASSUME all PROVE m = ReplaceEvery(m, word, new)
    BY <1>1
  <2>2. Hits(word, m) = {}
    BY <1>1, <2>1
  <2> QED
    BY <1>2, <2>2, AllOfNone
<1> QED
  BY <1>2, <1>3, PartOfALine

LEMMA NoHitInEmpty ==
  ASSUME NEW S, NEW w \in Seq(S), w # <<>>
  PROVE  Hits(w, <<>>) = {}
<1>1. <<>> \in Seq(S) /\ Len(<<>>) = 0 /\ Len(w) \in Nat /\ Len(w) >= 1
  BY EmptySeq
<1>2. ASSUME NEW h \in Hits(w, <<>>) PROVE FALSE
  <2>1. h \in Nat /\ h + Len(w) <= Len(<<>>)
    BY <1>1, <1>2, HitIs
  <2> QED
    BY <1>1, <2>1
<1> QED
  BY <1>2

\* What replacing makes of a part of a line; the count is one for each part.
NewPart(r, part) ==
  ReplaceFirst(part, r.word, r.new, Min2(Max2(r.count, 1), Len(part)))

LEMMA NewPartIs ==
  ASSUME position \in Places, mark \in Places, NEW r \in Replacements,
         NEW part \in Seq(Letters), Len(part) <= MaxText
  PROVE  /\ NewPart(r, part) \in Seq(Letters)
         /\ r.count >= MaxText => NewPart(r, part) = ReplaceEvery(part, r.word, r.new)
<1>1. r.word \in Seq(Letters) /\ r.word # <<>> /\ r.new \in Seq(Letters) /\ r.count \in Nat
  BY ReplacementFacts
<1>2. PICK n : n = Min2(Max2(r.count, 1), Len(part))
  OBVIOUS
<1>3. MaxText \in Nat /\ Len(part) \in Nat
  BY LineBufferAssumption, FarType, LenProperties
<1>4. n \in Nat
  BY <1>1, <1>2, <1>3 DEF Min2, Max2
<1>5. ReplaceFirst(part, r.word, r.new, n) \in Seq(Letters)
  BY <1>1, <1>4, ReplaceFirstType
<1>6. r.count >= MaxText => n = Len(part)
  BY <1>1, <1>2, <1>3 DEF Min2, Max2
<1> QED
  BY <1>2, <1>5, <1>6 DEF NewPart, ReplaceEvery

\* What it makes of a line: something else in the part of the range.
ReplacesInLine(r, k, a, b, all) ==
  /\ a \in Nat /\ b \in Nat
  /\ ReplacesPart(lines[k + 1], ReplaceIn(r, k), a, b, r.word, r.new, all)

LEMMA ReplaceInPart ==
  ASSUME TypeOK, NEW r \in Replacements, NEW s, s = r.start, NEW e, e = ReplaceEnd(r),
         InText(lines, s), ~ Before(e, s),
         NEW k \in Nat, k < Len(lines), s.line <= k, k <= e.line,
         NEW a, a = (IF k = s.line THEN s.column ELSE 0),
         NEW b, b = (IF k = e.line THEN e.column ELSE Len(lines[k + 1])),
         NEW all, all => r.filter = <<>> /\ r.count >= MaxText
  PROVE  ReplacesInLine(r, k, a, b, all)
<1>1. lines \in Lines /\ position \in Places /\ mark \in Places /\ Fits(lines)
  BY DEF TypeOK
<1>2. PICK l : l = lines[k + 1]
  OBVIOUS
<1>3. l \in Seq(Letters) /\ Len(l) \in Nat /\ Len(l) <= MaxText
  <2>1. l \in Seq(Letters)
    BY <1>1, <1>2, LineFacts
  <2>2. Len(l) \in Nat /\ Len(l) <= Len(Flat(lines))
    BY <1>1, <1>2, LineInText
  <2>3. Len(Flat(lines)) \in Nat /\ Len(Flat(lines)) <= MaxText /\ MaxText \in Nat
    BY <1>1, FlatType, LineBufferAssumption, FarType DEF Fits
  <2> QED
    BY <2>1, <2>2, <2>3
<1>4. r.word \in Seq(Letters) /\ r.word # <<>> /\ r.new \in Seq(Letters)
  BY <1>1, ReplacementFacts
<1>5. s \in Places /\ e \in Places
  BY <1>1, ReplacementFacts, ReplaceEndType
<1>6. s.line \in Nat /\ s.column \in Nat /\ e.line \in Nat /\ e.column \in Nat
  BY <1>5 DEF Places
<1>7. k = s.line => s.column <= Len(l)
  BY <1>2 DEF InText, LineAt
<1>8. k = e.line => e.column = 0 \/ e.column < Len(l)
  BY <1>1, <1>2, ReplaceEndFacts
<1>9. k = s.line /\ k = e.line => s.column <= e.column
  BY <1>6 DEF Before
<1>10. a \in Nat /\ b \in Nat /\ a <= b /\ b <= Len(l)
  BY <1>2, <1>3, <1>6, <1>7, <1>8, <1>9
<1>11. SUFFICES ReplacesPart(lines[k + 1], ReplaceIn(r, k), a, b, r.word, r.new, all)
  BY <1>10 DEF ReplacesInLine
<1> DEFINE end == IF e.line = k /\ e.column < Len(l) THEN e.column ELSE Len(l)
           x == PartOfLine(l, s.column, end)
<1>12. ReplaceIn(r, k) =
         IF Hits(r.filter, l) = {} \/ k < s.line THEN l
         ELSE IF k = s.line /\ s.column > 0
         THEN IF Hits(r.word, x) = {} THEN l
              ELSE (Left(l, s.column) \o NewPart(r, x)) \o Right(l, end)
         ELSE IF k < e.line THEN NewPart(r, l)
         ELSE IF k = e.line /\ e.column > 0
         THEN NewPart(r, Left(l, e.column)) \o Right(l, e.column)
         ELSE l
  BY <1>2 DEF ReplaceIn, NewPart
<1> HIDE DEF end, x
<1>13. PICK m, v : m = Piece(l, a, b) /\ v = NewPart(r, m)
  OBVIOUS
<1>14. m \in Seq(Letters) /\ Len(m) <= MaxText
  <2>1. m \in Seq(Letters) /\ Len(m) <= Len(l)
    <3>1. InThreeParts(Letters, l, a, b)
      BY <1>3, <1>10, ThreeParts
    <3> QED
      BY <1>13, <3>1 DEF InThreeParts
  <2>2. MaxText \in Nat /\ Len(m) \in Nat
    BY <2>1, LenProperties, LineBufferAssumption, FarType
  <2> QED
    BY <1>3, <2>1, <2>2
<1>15. v \in Seq(Letters) /\ (all => v = ReplaceEvery(m, r.word, r.new))
  BY <1>1, <1>13, <1>14, NewPartIs
<1>16. CASE ReplaceIn(r, k) = (Left(l, a) \o v) \o Right(l, b)
  BY <1>2, <1>3, <1>10, <1>13, <1>15, <1>16, PartOfALine
<1>17. CASE Hits(r.filter, l) = {}
  <2>1. ReplaceIn(r, k) = l
    BY <1>12, <1>17
  <2>2. ~ all
    <3>1. Hits(<<>>, l) # {}
      BY <1>3, NoFilter
    <3> QED
      BY <1>17, <3>1
  <2> QED
    BY <1>2, <1>3, <1>4, <1>10, <2>1, <2>2, PartThatStays
<1>18. CASE Hits(r.filter, l) # {} /\ k = s.line /\ s.column > 0
  <2>1. a = s.column /\ end = b
    <3>1. k = e.line => e.column < Len(l)
      BY <1>6, <1>8, <1>9, <1>18
    <3> QED
      BY <1>2, <1>18, <3>1 DEF end
  <2>2. x = m
    <3>1. ~ (b < a)
      BY <1>10
    <3> QED
      BY <1>13, <2>1, <3>1 DEF x, PartOfLine
  <2>3. CASE Hits(r.word, m) = {}
    <3>1. ReplaceIn(r, k) = l
      BY <1>6, <1>12, <1>18, <2>2, <2>3
    <3> QED
      BY <1>2, <1>3, <1>4, <1>10, <1>13, <2>3, <3>1, PartThatStays
  <2>4. CASE Hits(r.word, m) # {}
    <3>1. ReplaceIn(r, k) = (Left(l, a) \o v) \o Right(l, b)
      <4>1. ReplaceIn(r, k) = (Left(l, s.column) \o NewPart(r, x)) \o Right(l, end)
        <5>1. ~ (k < s.line)
          BY <1>6, <1>18
        <5> QED
          BY <1>12, <1>18, <2>2, <2>4, <5>1
      <4> QED
        BY <1>13, <2>1, <2>2, <4>1, ZenonT(60)
    <3> QED
      BY <1>16, <3>1, SMTT(60)
  <2> QED
    BY <2>3, <2>4
<1>19. CASE Hits(r.filter, l) # {} /\ ~ (k = s.line /\ s.column > 0)
  <2>1. a = 0 /\ ~ (k < s.line)
    BY <1>6, <1>19
  <2>2. m = Left(l, b)
    BY <1>13, <2>1, PieceFromStart
  <2>3. (Left(l, a) \o v) \o Right(l, b) = v \o Right(l, b)
    <3>1. Left(l, 0) = <<>>
      BY <1>3, WholeHalves
    <3>2. <<>> \o v = v
      BY <1>15, ConcatEmptySeq
    <3> QED
      BY <2>1, <3>1, <3>2
  <2>4. CASE k < e.line
    <3>1. b = Len(l) /\ m = l
      <4>1. b = Len(l)
        BY <1>2, <1>6, <2>4
      <4>2. Left(l, Len(l)) = l
        BY <1>3, WholeHalves
      <4> QED
        BY <2>2, <4>1, <4>2
    <3>2. ReplaceIn(r, k) = v
      BY <1>12, <1>13, <1>19, <2>1, <2>4, <3>1
    <3>3. v \o Right(l, b) = v
      <4>1. Right(l, Len(l)) = <<>>
        BY <1>3, WholeHalves
      <4>2. v \o <<>> = v
        BY <1>15, ConcatEmptySeq
      <4> QED
        BY <3>1, <4>1, <4>2
    <3> QED
      BY <1>16, <2>3, <3>2, <3>3
  <2>5. CASE k = e.line /\ e.column > 0
    <3>1. b = e.column /\ ~ (k < e.line)
      BY <1>6, <2>5
    <3>2. ReplaceIn(r, k) = v \o Right(l, b)
      BY <1>12, <1>13, <1>19, <2>1, <2>2, <2>5, <3>1
    <3> QED
      BY <1>16, <2>3, <3>2
  <2>6. CASE k = e.line /\ ~ (e.column > 0)
    <3>1. b = 0 /\ ~ (k < e.line)
      BY <1>6, <2>6
    <3>2. ReplaceIn(r, k) = l
      BY <1>12, <1>19, <2>1, <2>6, <3>1
    <3>3. m = <<>>
      <4>1. Left(l, 0) = <<>>
        BY <1>3, WholeHalves
      <4> QED
        BY <2>2, <3>1, <4>1
    <3>4. Hits(r.word, m) = {}
      BY <1>4, <3>3, NoHitInEmpty
    <3> QED
      BY <1>2, <1>3, <1>4, <1>10, <1>13, <3>2, <3>4, PartThatStays
  <2> QED
    BY <1>6, <2>4, <2>5, <2>6
<1> QED
  BY <1>17, <1>18, <1>19

LEMMA WholePart ==
  ASSUME NEW l \in Seq(Letters), NEW v, NEW word, NEW new, NEW all,
         ReplacesPart(l, v, 0, Len(l), word, new, all), all
  PROVE  v = ReplaceEvery(l, word, new)
<1>1. \E m, q, x : IsStart(l, v, Len(l), word, new, all, m, q, x)
  BY PartAtStart
<1>2. PICK m, q, x : IsStart(l, v, Len(l), word, new, all, m, q, x)
  BY <1>1
<1>3. /\ m \in Seq(Chars) /\ q \in Seq(Chars) /\ x \in Seq(Chars)
      /\ l = m \o q /\ v = x \o q /\ Len(m) = Len(l) /\ x = ReplaceEvery(m, word, new)
  BY <1>2 DEF IsStart
<1>4. q = <<>>
  <2>1. Len(m \o q) = Len(m) + Len(q)
    BY <1>3, ConcatProperties
  <2>2. Len(m) \in Nat /\ Len(q) \in Nat
    BY <1>3, LenProperties
  <2>3. Len(q) = 0
    BY <1>3, <2>1, <2>2
  <2> QED
    BY <1>3, <2>3, EmptySeq
<1>5. l = m /\ v = x
  BY <1>3, <1>4, ConcatEmptySeq
<1> QED
  BY <1>3, <1>5

\* Lines that stay.
LEMMA SameLeft ==
  ASSUME NEW S, NEW s \in Seq(S), NEW t \in Seq(S), NEW n \in Nat, n <= Len(s), n <= Len(t),
         \A i \in 1 .. n : s[i] = t[i]
  PROVE  Left(s, n) = Left(t, n)
<1>1. PICK x, y : x = Left(s, n) /\ y = Left(t, n)
  OBVIOUS
<1>2. x \in Seq(S) /\ Len(x) = n /\ \A i \in 1 .. n : x[i] = s[i]
  BY <1>1, Halves
<1>3. y \in Seq(S) /\ Len(y) = n /\ \A i \in 1 .. n : y[i] = t[i]
  BY <1>1, Halves
<1>4. x = y
  BY <1>2, <1>3, SeqEqual
<1> QED
  BY <1>1, <1>4

LEMMA SameRight ==
  ASSUME NEW s \in Lines, NEW t \in Lines, Len(s) = Len(t), NEW n \in Nat, n <= Len(s),
         \A i \in n + 1 .. Len(s) : s[i] = t[i]
  PROVE  Right(s, n) = Right(t, n)
<1> DEFINE S == Seq(Letters)
<1>0. s \in Seq(S) /\ t \in Seq(S)
  BY DEF Lines
<1> HIDE DEF S
<1>1. PICK x, y : x = Right(s, n) /\ y = Right(t, n)
  OBVIOUS
<1>2. PICK m : m = Len(s) - n
  OBVIOUS
<1>3. Len(s) \in Nat /\ m \in Nat /\ n + m = Len(s)
  BY <1>0, <1>2, LenProperties
<1>4. x \in Seq(S) /\ Len(x) = m /\ \A i \in 1 .. m : x[i] = s[n + i]
  BY <1>0, <1>1, <1>2, Halves, ZenonT(60)
<1>5. y \in Seq(S) /\ Len(y) = m /\ \A i \in 1 .. m : y[i] = t[n + i]
  <2>1. n <= Len(t) /\ m = Len(t) - n
    BY <1>2
  <2>2. /\ y \in Seq(S) /\ Len(y) = Len(t) - n
        /\ \A i \in 1 .. Len(t) - n : y[i] = t[n + i]
    BY <1>0, <1>1, <2>1, Halves
  <2> QED
    BY <2>1, <2>2
<1>6. ASSUME NEW i \in 1 .. m PROVE x[i] = y[i]
  <2>1. n + i \in n + 1 .. Len(s)
    BY <1>3
  <2> QED
    BY <1>4, <1>5, <2>1
<1>7. x = y
  BY <1>4, <1>5, <1>6, SeqEqual
<1> QED
  BY <1>1, <1>7

\* Where a line starts in the lines below another.
LEMMA StartBelow ==
  ASSUME NEW ls \in Lines, NEW d \in Nat, NEW i \in Nat, d + i <= Len(ls)
  PROVE  Start(ls, d + i) = Start(ls, d) + Start(Right(ls, d), i)
<1>1. PICK x, y : x = Left(ls, d) /\ y = Right(ls, d)
  OBVIOUS
<1>2. Len(ls) \in Nat /\ d <= Len(ls) /\ ls \in Seq(Seq(Letters))
  BY DEF Lines
<1>3. x \in Lines /\ y \in Lines /\ Len(x) = d /\ Len(y) = Len(ls) - d /\ ls = x \o y
  BY <1>1, <1>2, Halves, HalvesJoin, ZenonT(60) DEF Lines
<1>4. i <= Len(y) /\ x \in Seq(Seq(Letters)) /\ y \in Seq(Seq(Letters))
  BY <1>2, <1>3 DEF Lines
<1>5. Left(x \o y, Len(x) + i) = x \o Left(y, i)
  BY <1>4, OffsetInJoin
<1>6. PICK z : z = Left(y, i)
  OBVIOUS
<1>7. z \in Lines
  BY <1>4, <1>6, Halves DEF Lines
<1>8. Flat(x \o z) = Flat(x) \o Flat(z)
  BY <1>3, <1>7, FlatJoin
<1>9. Flat(x) \in Seq(Chars) /\ Flat(z) \in Seq(Chars)
  BY <1>3, <1>7, FlatType
<1>10. Len(Flat(x) \o Flat(z)) = Len(Flat(x)) + Len(Flat(z))
  BY <1>9, ConcatProperties
<1>11. Left(ls, d + i) = x \o z
  BY <1>3, <1>5, <1>6
<1> QED
  BY <1>1, <1>6, <1>8, <1>10, <1>11 DEF Start

\* Above and below its range replace leaves the lines as they are.
LEMMA ReplaceOutside ==
  ASSUME lines \in Lines, position \in Places, mark \in Places, NEW r \in Replacements,
         NEW s, s = r.start, NEW e, e = ReplaceEnd(r), ~ Before(e, s),
         NEW k \in Nat, k < s.line \/ e.line < k
  PROVE  ReplaceIn(r, k) = lines[k + 1]
<1>1. s \in Places /\ e \in Places
  BY ReplacementFacts, ReplaceEndType
<1>2. s.line \in Nat /\ s.column \in Nat /\ e.line \in Nat /\ e.column \in Nat
  BY <1>1 DEF Places
<1>3. CASE k < s.line
  BY <1>3 DEF ReplaceIn
<1>4. CASE ~ (k < s.line) /\ e.line < k
  <2>1. s.line <= e.line
    BY <1>2 DEF Before
  <2>2. k # s.line /\ ~ (k < e.line) /\ k # e.line
    BY <1>2, <1>4, <2>1
  <2> QED
    BY <1>4, <2>2 DEF ReplaceIn
<1> QED
  BY <1>3, <1>4

\* The lines are what replace makes of them.
AreReplaced(us, r) ==
  /\ us \in Lines /\ Len(us) = Len(lines)
  /\ \A k \in Nat : k < Len(lines) => us[k + 1] = ReplaceIn(r, k)

LEMMA ReplacedOutside ==
  ASSUME TypeOK, NEW r \in Replacements, NEW s, s = r.start, NEW e, e = ReplaceEnd(r),
         ~ Before(e, s), s.line < Len(lines), NEW us, AreReplaced(us, r)
  PROVE  /\ Left(us, s.line) = Left(lines, s.line)
         /\ e.line < Len(lines) => Right(us, e.line + 1) = Right(lines, e.line + 1)
<1>1. lines \in Lines /\ position \in Places /\ mark \in Places
  BY DEF TypeOK
<1>2. s \in Places /\ e \in Places
  BY <1>1, ReplacementFacts, ReplaceEndType
<1>3. s.line \in Nat /\ e.line \in Nat
  BY <1>2 DEF Places
<1>4. PICK n : n = Len(lines)
  OBVIOUS
<1>5. /\ n \in Nat /\ lines \in Seq(Seq(Letters)) /\ us \in Seq(Seq(Letters)) /\ Len(us) = n
      /\ Len(lines) = n
  BY <1>1, <1>4 DEF Lines, AreReplaced
<1>6. ASSUME NEW i \in 1 .. n, i - 1 < s.line \/ e.line < i - 1
      PROVE  us[i] = lines[i]
  <2>1. PICK k : k = i - 1
    OBVIOUS
  <2>2. k \in Nat /\ k < n /\ k + 1 = i
    BY <1>5, <2>1
  <2>3. us[k + 1] = ReplaceIn(r, k)
    BY <1>4, <2>2 DEF AreReplaced
  <2>4. ReplaceIn(r, k) = lines[k + 1]
    BY <1>1, <1>6, <2>1, <2>2, ReplaceOutside
  <2> QED
    BY <2>2, <2>3, <2>4
<1>7. Left(us, s.line) = Left(lines, s.line)
  <2>1. s.line <= n
    BY <1>3, <1>4, <1>5
  <2>2. \A i \in 1 .. s.line : us[i] = lines[i]
    BY <1>3, <1>5, <1>6, <2>1
  <2> QED
    BY <1>3, <1>5, <2>1, <2>2, SameLeft
<1>8. ASSUME e.line < Len(lines) PROVE Right(us, e.line + 1) = Right(lines, e.line + 1)
  <2>1. PICK d : d = e.line + 1
    OBVIOUS
  <2>2. d \in Nat /\ d <= n
    BY <1>3, <1>4, <1>5, <1>8, <2>1
  <2>3. \A i \in d + 1 .. n : us[i] = lines[i]
    BY <1>3, <1>5, <1>6, <2>1, <2>2
  <2>4. Right(us, d) = Right(lines, d)
    <3>1. Len(us) = n /\ Len(lines) = n /\ us \in Lines /\ lines \in Lines
      BY <1>1, <1>5 DEF AreReplaced
    <3>2. d <= Len(us) /\ \A i \in d + 1 .. Len(us) : us[i] = lines[i]
      BY <2>2, <2>3, <3>1
    <3> QED
      BY <2>2, <3>1, <3>2, SameRight
  <2> QED
    BY <2>1, <2>4
<1> QED
  BY <1>7, <1>8

\* Between the first and the last line of its range replace replaces in whole lines.
LEMMA ReplacedInside ==
  ASSUME TypeOK, NEW r \in Replacements, NEW s, s = r.start, NEW e, e = ReplaceEnd(r),
         InText(lines, s), ~ Before(e, s), NEW us, AreReplaced(us, r),
         NEW d \in Nat, s.line < d, NEW m \in Nat, d + m <= Len(lines), d + m <= e.line,
         NEW all, all, r.filter = <<>> /\ r.count >= MaxText
  PROVE  Left(Right(us, d), m) = ReplacedLines(Left(Right(lines, d), m), r.word, r.new)
<1>1. lines \in Lines /\ position \in Places /\ mark \in Places /\ us \in Lines
      /\ Len(us) = Len(lines) /\ Len(lines) \in Nat
  BY DEF TypeOK, AreReplaced, Lines
<1>2. r.word \in Seq(Letters) /\ r.word # <<>> /\ r.new \in Seq(Letters)
  BY <1>1, ReplacementFacts
<1>3. s \in Places /\ e \in Places
  BY <1>1, ReplacementFacts, ReplaceEndType
<1>4. s.line \in Nat /\ e.line \in Nat
  BY <1>3 DEF Places
<1>5. ASSUME NEW ls \in Lines, Len(ls) = Len(lines)
      PROVE  /\ Left(Right(ls, d), m) \in Lines /\ Len(Left(Right(ls, d), m)) = m
             /\ \A i \in 1 .. m : Left(Right(ls, d), m)[i] = ls[d + i]
  <2>1. PICK x : x = Right(ls, d)
    OBVIOUS
  <2>2. d <= Len(ls) /\ ls \in Seq(Seq(Letters))
    BY <1>1, <1>5 DEF Lines
  <2>3. /\ x \in Seq(Seq(Letters)) /\ Len(x) = Len(ls) - d
        /\ \A i \in 1 .. Len(ls) - d : x[i] = ls[d + i]
    BY <2>1, <2>2, Halves
  <2>4. m <= Len(x) /\ m <= Len(ls) - d
    BY <1>1, <1>5, <2>3
  <2>5. PICK y : y = Left(x, m)
    OBVIOUS
  <2>6. y \in Seq(Seq(Letters)) /\ Len(y) = m /\ \A i \in 1 .. m : y[i] = x[i]
    BY <2>3, <2>4, <2>5, Halves, ZenonT(60)
  <2>7. ASSUME NEW i \in 1 .. m PROVE y[i] = ls[d + i]
    <3>1. i \in 1 .. Len(ls) - d
      BY <1>1, <1>5, <2>4
    <3> QED
      BY <2>3, <2>6, <3>1
  <2> QED
    BY <2>1, <2>5, <2>6, <2>7 DEF Lines
<1>6. PICK x, y : x = Left(Right(lines, d), m) /\ y = Left(Right(us, d), m)
  OBVIOUS
<1>7. x \in Lines /\ Len(x) = m /\ \A i \in 1 .. m : x[i] = lines[d + i]
  BY <1>1, <1>5, <1>6
<1>8. y \in Seq(Seq(Letters)) /\ Len(y) = m /\ \A i \in 1 .. m : y[i] = us[d + i]
  <2>1. y \in Lines /\ Len(y) = m /\ \A i \in 1 .. m : y[i] = us[d + i]
    BY <1>1, <1>5, <1>6
  <2> QED
    BY <2>1 DEF Lines
<1>9. PICK z : z = ReplacedLines(x, r.word, r.new)
  OBVIOUS
<1>10. z \in Seq(Seq(Letters)) /\ Len(z) = m
  BY <1>2, <1>7, <1>9, ReplacedLinesType DEF Lines
<1>11. ASSUME NEW i \in 1 .. m PROVE y[i] = z[i]
  <2>1. PICK k : k = (d + i) - 1
    OBVIOUS
  <2>2. k \in Nat /\ k + 1 = d + i /\ k < Len(lines) /\ s.line < k /\ k < e.line
    BY <1>1, <1>4, <2>1
  <2>3. us[k + 1] = ReplaceIn(r, k)
    BY <2>2 DEF AreReplaced
  <2>4. PICK l : l = lines[k + 1]
    OBVIOUS
  <2>5. l \in Seq(Letters)
    BY <1>1, <2>2, <2>4, LineFacts
  <2>6. ReplacesPart(l, ReplaceIn(r, k), 0, Len(l), r.word, r.new, TRUE)
    <3>1. s.line <= k /\ k <= e.line /\ k # s.line /\ k # e.line
      BY <1>4, <2>2
    <3>2. PICK a, b : a = (IF k = s.line THEN s.column ELSE 0)
                      /\ b = (IF k = e.line THEN e.column ELSE Len(lines[k + 1]))
      OBVIOUS
    <3>3. ReplacesInLine(r, k, a, b, TRUE)
      BY <2>2, <3>1, <3>2, ReplaceInPart
    <3> QED
      BY <2>4, <3>1, <3>2, <3>3 DEF ReplacesInLine
  <2>7. ReplaceIn(r, k) = ReplaceEvery(l, r.word, r.new)
    BY <2>5, <2>6, WholePart
  <2>8. z[i] = ReplaceEvery(x[i], r.word, r.new)
    BY <1>7, <1>9 DEF ReplacedLines
  <2> QED
    BY <1>7, <1>8, <2>2, <2>3, <2>4, <2>7, <2>8
<1>12. y = z
  BY <1>8, <1>10, <1>11, SeqEqual
<1> QED
  BY <1>6, <1>9, <1>12

LEMMA LinesBelow ==
  ASSUME NEW ls \in Lines, NEW d \in Nat, d <= Len(ls)
  PROVE  /\ Right(ls, d) \in Lines /\ Len(Right(ls, d)) = Len(ls) - d
         /\ \A i \in 1 .. Len(ls) - d : Right(ls, d)[i] = ls[d + i]
<1>1. ls \in Seq(Seq(Letters))
  BY DEF Lines
<1> QED
  BY <1>1, Halves DEF Lines

\* What replace makes of the lines below the first one of its range.
LEMMA ReplacedBelow ==
  ASSUME TypeOK, NEW r \in Replacements, NEW s, s = r.start, NEW e, e = ReplaceEnd(r),
         InText(lines, s), s.line < e.line, NEW us, AreReplaced(us, r),
         NEW d, d = s.line + 1,
         NEW all, all => r.filter = <<>> /\ r.count >= MaxText
  PROVE  \E o \in Nat : /\ Offset(lines, e) = Start(lines, d) + o
                        /\ ReplacesPart(Flat(Right(lines, d)), Flat(Right(us, d)), 0, o,
                                        r.word, r.new, all)
<1>1. lines \in Lines /\ position \in Places /\ mark \in Places /\ us \in Lines
      /\ Len(us) = Len(lines) /\ Len(lines) \in Nat
  BY DEF TypeOK, AreReplaced, Lines
<1>2. r.word \in Seq(Letters) /\ r.word # <<>> /\ r.new \in Seq(Letters)
  BY <1>1, ReplacementFacts
<1>3. s \in Places /\ e \in Places
  BY <1>1, ReplacementFacts, ReplaceEndType
<1>4. s.line \in Nat /\ e.line \in Nat /\ e.column \in Nat /\ s.line < Len(lines)
  BY <1>3 DEF Places, InText
<1>5. d \in Nat /\ d <= Len(lines) /\ s.line < d /\ d <= e.line
  BY <1>1, <1>4
<1>6. ~ Before(e, s)
  BY <1>4 DEF Before
<1>7. PICK ls, vs : ls = Right(lines, d) /\ vs = Right(us, d)
  OBVIOUS
<1>8. /\ ls \in Lines /\ Len(ls) = Len(lines) - d
      /\ \A i \in 1 .. Len(lines) - d : ls[i] = lines[d + i]
      /\ vs \in Lines /\ Len(vs) = Len(lines) - d
      /\ \A i \in 1 .. Len(lines) - d : vs[i] = us[d + i]
  <2>1. d <= Len(us)
    BY <1>1, <1>5
  <2>2. /\ ls \in Lines /\ Len(ls) = Len(lines) - d
        /\ \A i \in 1 .. Len(lines) - d : ls[i] = lines[d + i]
    BY <1>1, <1>5, <1>7, LinesBelow
  <2>3. /\ vs \in Lines /\ Len(vs) = Len(us) - d
        /\ \A i \in 1 .. Len(us) - d : vs[i] = us[d + i]
    BY <1>1, <1>5, <1>7, <2>1, LinesBelow
  <2> QED
    BY <1>1, <2>2, <2>3
<1>9. CASE e.line < Len(lines)
  <2>1. PICK m : m = e.line - d
    OBVIOUS
  <2>2. m \in Nat /\ d + m = e.line /\ d + m <= Len(lines) /\ m < Len(ls) /\ m < Len(vs)
        /\ d + (m + 1) = e.line + 1 /\ d + (m + 1) <= Len(lines)
    <3>1. PICK n, l : n = Len(lines) /\ l = e.line
      OBVIOUS
    <3>2. n \in Nat /\ l \in Nat /\ d \in Nat /\ d <= l /\ l < n /\ m = l - d
          /\ Len(ls) = n - d /\ Len(vs) = n - d
      BY <1>1, <1>4, <1>5, <1>8, <1>9, <2>1, <3>1
    <3>3. n \in Nat /\ l \in Nat /\ d \in Nat /\ d <= l /\ l < n /\ m = l - d
      BY <3>2
    <3>4. m \in Nat /\ d + m = l /\ d + m <= n /\ m < n - d
      BY <3>3
    <3>5. d + (m + 1) = l + 1 /\ l + 1 <= n
      BY <3>3
    <3> QED
      BY <3>1, <3>2, <3>4, <3>5
  <2>3. all => Left(vs, m) = ReplacedLines(Left(ls, m), r.word, r.new)
    <3>1. SUFFICES ASSUME all PROVE Left(vs, m) = ReplacedLines(Left(ls, m), r.word, r.new)
      OBVIOUS
    <3>2. d + m <= e.line
      BY <1>4, <2>2
    <3>3. Left(Right(us, d), m) = ReplacedLines(Left(Right(lines, d), m), r.word, r.new)
      BY <1>5, <1>6, <2>2, <3>1, <3>2, ReplacedInside
    <3> QED
      BY <1>7, <3>3
  <2>4. Right(vs, m + 1) = Right(ls, m + 1)
    <3>1. Right(us, e.line + 1) = Right(lines, e.line + 1)
      BY <1>4, <1>6, <1>9, ReplacedOutside
    <3>2. lines \in Seq(Seq(Letters)) /\ us \in Seq(Seq(Letters)) /\ m + 1 \in Nat
      BY <1>1, <2>2 DEF Lines
    <3>3. Right(Right(lines, d), m + 1) = Right(lines, d + (m + 1))
      BY <1>5, <2>2, <3>2, RightOfRight
    <3>4. Right(Right(us, d), m + 1) = Right(us, d + (m + 1))
      BY <1>1, <1>5, <2>2, <3>2, RightOfRight
    <3> QED
      BY <1>7, <2>2, <3>1, <3>3, <3>4
  <2>5. ls[m + 1] = lines[e.line + 1] /\ vs[m + 1] = us[e.line + 1]
    <3>1. m + 1 \in 1 .. Len(lines) - d
      BY <1>1, <1>5, <2>2
    <3>2. ls[m + 1] = lines[d + (m + 1)] /\ vs[m + 1] = us[d + (m + 1)]
      BY <1>8, <3>1
    <3> QED
      BY <2>2, <3>2
  <2>6. ReplacesPart(ls[m + 1], vs[m + 1], 0, e.column, r.word, r.new, all)
    <3>1. us[e.line + 1] = ReplaceIn(r, e.line)
      BY <1>4, <1>9 DEF AreReplaced
    <3>2. e.line # s.line /\ s.line <= e.line /\ e.line <= e.line
      BY <1>4
    <3>3. PICK a, b : a = (IF e.line = s.line THEN s.column ELSE 0)
                      /\ b = (IF e.line = e.line THEN e.column ELSE Len(lines[e.line + 1]))
      OBVIOUS
    <3>4. ReplacesInLine(r, e.line, a, b, all)
      BY <1>4, <1>6, <1>9, <3>2, <3>3, ReplaceInPart
    <3> QED
      BY <2>5, <3>1, <3>2, <3>3, <3>4 DEF ReplacesInLine
  <2>7. ReplacesPart(Flat(ls), Flat(vs), 0, Start(ls, m) + e.column, r.word, r.new, all)
    BY <1>2, <1>4, <1>8, <2>2, <2>3, <2>4, <2>6, PartFromStart
  <2>8. Start(lines, e.line) = Start(lines, d) + Start(ls, m)
    BY <1>1, <1>5, <1>7, <2>2, StartBelow
  <2>9. Offset(lines, e) = Start(lines, e.line) + e.column
    <3>1. Len(lines[e.line + 1]) \in Nat
      BY <1>1, <1>4, <1>9, LineFacts
    <3>2. e.column <= Len(lines[e.line + 1])
      <4>1. e.column = 0 \/ e.column < Len(lines[e.line + 1])
        BY <1>1, <1>9, ReplaceEndFacts
      <4> QED
        BY <1>4, <3>1, <4>1
    <3> QED
      BY <1>1, <1>3, <1>9, <3>2, OffsetInLine
  <2>10. Start(ls, m) \in Nat /\ Start(lines, d) \in Nat
    <3>1. Left(ls, m) \in Lines
      BY <1>8, <2>2, LineFacts
    <3>2. Left(lines, d) \in Lines
      <4>1. lines \in Seq(Seq(Letters))
        BY <1>1 DEF Lines
      <4>2. Left(lines, d) \in Seq(Seq(Letters))
        BY <1>5, <4>1, Halves
      <4> QED
        BY <4>2 DEF Lines
    <3> QED
      BY <3>1, <3>2, FlatType DEF Start
  <2>11. PICK o : o = Start(ls, m) + e.column
    OBVIOUS
  <2>12. o \in Nat /\ Offset(lines, e) = Start(lines, d) + o
    BY <1>4, <2>8, <2>9, <2>10, <2>11
  <2> QED
    BY <1>7, <2>7, <2>11, <2>12
<1>10. CASE ~ (e.line < Len(lines))
  <2>1. PICK m : m = Len(lines) - d
    OBVIOUS
  <2>2. m \in Nat /\ d + m = Len(lines) /\ d + m <= Len(lines) /\ d + m <= e.line
        /\ m = Len(ls) /\ m = Len(vs)
    <3>1. PICK n, l : n = Len(lines) /\ l = e.line
      OBVIOUS
    <3>2. n \in Nat /\ l \in Nat /\ d \in Nat /\ d <= n /\ ~ (l < n) /\ m = n - d
          /\ Len(ls) = n - d /\ Len(vs) = n - d
      BY <1>1, <1>4, <1>5, <1>8, <1>10, <2>1, <3>1
    <3>3. m \in Nat /\ d + m = n /\ d + m <= n /\ d + m <= l
      BY <3>2
    <3> QED
      BY <3>1, <3>2, <3>3
  <2>3. Left(ls, m) = ls /\ Left(vs, m) = vs
    BY <1>8, <2>2, WholeHalves DEF Lines
  <2>4. all => vs = ReplacedLines(ls, r.word, r.new)
    <3>1. SUFFICES ASSUME all PROVE vs = ReplacedLines(ls, r.word, r.new)
      OBVIOUS
    <3>2. Left(Right(us, d), m) = ReplacedLines(Left(Right(lines, d), m), r.word, r.new)
      BY <1>5, <1>6, <2>2, <3>1, ReplacedInside
    <3> QED
      BY <1>7, <2>3, <3>2
  <2>5. ReplacesPart(Flat(ls), Flat(vs), 0, Len(Flat(ls)), r.word, r.new, all)
    BY <1>2, <1>8, <2>4, PartOfWholeLines
  <2>6. Len(Flat(ls)) \in Nat
    BY <1>8, FlatType
  <2>7. Offset(lines, e) = Len(Flat(lines))
    BY <1>1, <1>3, <1>10, PlaceAtEnd
  <2>8. Len(Flat(lines)) = Start(lines, d) + Len(Flat(ls))
    <3>1. Start(lines, d + m) = Start(lines, d) + Start(Right(lines, d), m)
      BY <1>1, <1>5, <2>2, StartBelow
    <3>2. Start(lines, Len(lines)) = Len(Flat(lines)) /\ Start(ls, Len(ls)) = Len(Flat(ls))
      BY <1>1, <1>8, StartEnds
    <3> QED
      BY <1>7, <2>2, <3>1, <3>2
  <2> QED
    BY <1>7, <2>5, <2>6, <2>7, <2>8
<1> QED
  BY <1>9, <1>10

\* What replace makes of the text.
LEMMA ReplacedText ==
  ASSUME TypeOK, NEW r \in Replacements, NEW s, s = r.start, NEW e, e = ReplaceEnd(r),
         InText(lines, s), ~ Before(e, s), NEW us, AreReplaced(us, r),
         NEW all, all => r.filter = <<>> /\ r.count >= MaxText
  PROVE  ReplacesPart(Text, Flat(us), Offset(lines, s), Offset(lines, e), r.word, r.new, all)
<1>1. lines \in Lines /\ position \in Places /\ mark \in Places /\ us \in Lines
      /\ Len(us) = Len(lines) /\ Len(lines) \in Nat
  BY DEF TypeOK, AreReplaced, Lines
<1>2. r.word \in Seq(Letters) /\ r.word # <<>> /\ r.new \in Seq(Letters)
  BY <1>1, ReplacementFacts
<1>3. s \in Places /\ e \in Places
  BY <1>1, ReplacementFacts, ReplaceEndType
<1>4. s.line \in Nat /\ s.column \in Nat /\ e.line \in Nat /\ e.column \in Nat
      /\ s.line < Len(lines) /\ s.column <= Len(lines[s.line + 1])
  BY <1>3 DEF Places, InText, LineAt
<1>5. s.line <= e.line
  BY <1>4 DEF Before
<1>6. PICK k : k = s.line
  OBVIOUS
<1>7. k \in Nat /\ k < Len(lines) /\ k < Len(us) /\ s.line <= k /\ k <= e.line
  BY <1>1, <1>4, <1>5, <1>6
<1>8. Left(us, k) = Left(lines, k)
  BY <1>4, <1>6, ReplacedOutside
<1>9. PICK b : b = (IF k = e.line THEN e.column ELSE Len(lines[k + 1]))
  OBVIOUS
<1>10. b \in Nat /\ ReplacesPart(lines[k + 1], us[k + 1], s.column, b, r.word, r.new, all)
  <2>1. PICK a : a = (IF k = s.line THEN s.column ELSE 0)
    OBVIOUS
  <2>2. ReplacesInLine(r, k, a, b, all)
    <3>1. k \in Nat /\ k < Len(lines) /\ s.line <= k /\ k <= e.line
      BY <1>7
    <3> QED
      BY <1>9, <2>1, <3>1, ReplaceInPart
  <2>3. us[k + 1] = ReplaceIn(r, k)
    BY <1>7 DEF AreReplaced
  <2> QED
    BY <1>6, <2>1, <2>2, <2>3 DEF ReplacesInLine
<1>11. Offset(lines, s) = Start(lines, k) + s.column
  BY <1>1, <1>3, <1>4, <1>6, OffsetInLine
<1>12. CASE e.line = k
  <2>1. Right(us, k + 1) = Right(lines, k + 1)
    BY <1>4, <1>7, <1>12, ReplacedOutside
  <2>2. b = e.column
    BY <1>9, <1>12
  <2>3. ReplacesPart(Flat(lines), Flat(us), Start(lines, k) + s.column, Start(lines, k) + b,
                     r.word, r.new, all)
    BY <1>1, <1>4, <1>7, <1>8, <1>10, <2>1, PartOfOneLine
  <2>4. Offset(lines, e) = Start(lines, k) + e.column
    <3>1. Len(lines[e.line + 1]) \in Nat /\ e.line < Len(lines)
      BY <1>1, <1>7, <1>12, LineFacts
    <3>2. e.column <= Len(lines[e.line + 1])
      <4>1. e.column = 0 \/ e.column < Len(lines[e.line + 1])
        BY <1>1, <3>1, ReplaceEndFacts
      <4> QED
        BY <1>4, <3>1, <4>1
    <3> QED
      BY <1>1, <1>3, <1>12, <3>1, <3>2, OffsetInLine
  <2> QED
    BY <1>11, <2>2, <2>3, <2>4 DEF Text
<1>13. CASE e.line # k
  <2>1. s.line < e.line /\ b = Len(lines[k + 1])
    BY <1>4, <1>5, <1>6, <1>9, <1>13
  <2>2. \E o \in Nat : /\ Offset(lines, e) = Start(lines, k + 1) + o
                       /\ ReplacesPart(Flat(Right(lines, k + 1)), Flat(Right(us, k + 1)), 0, o,
                                       r.word, r.new, all)
    <3>1. PICK d : d = s.line + 1
      OBVIOUS
    <3>2. \E o \in Nat : /\ Offset(lines, e) = Start(lines, d) + o
                         /\ ReplacesPart(Flat(Right(lines, d)), Flat(Right(us, d)), 0, o,
                                         r.word, r.new, all)
      BY <2>1, <3>1, ReplacedBelow
    <3> QED
      BY <1>6, <3>1, <3>2
  <2>3. PICK o \in Nat : /\ Offset(lines, e) = Start(lines, k + 1) + o
                         /\ ReplacesPart(Flat(Right(lines, k + 1)), Flat(Right(us, k + 1)), 0, o,
                                         r.word, r.new, all)
    BY <2>2
  <2>4. ReplacesPart(Flat(lines), Flat(us), Start(lines, k) + s.column, Start(lines, k + 1) + o,
                     r.word, r.new, all)
    BY <1>1, <1>2, <1>4, <1>7, <1>8, <1>10, <2>1, <2>3, PartOfSeveralLines
  <2> QED
    BY <1>11, <2>3, <2>4 DEF Text
<1> QED
  BY <1>12, <1>13

\* A replacement that starts in the text does what it says of each line.
LEMMA ReplaceIsDone ==
  ASSUME TypeOK, NEW r \in Replacements, Replace(r), InText(lines, r.start)
  PROVE  statement'.query = r /\ outcome' = "ok" /\ AreReplaced(lines', r)
<1> DEFINE ls == [k \in DOMAIN lines |-> ReplaceIn(r, k - 1)]
<1>1. lines \in Lines /\ position \in Places /\ mark \in Places /\ lines' \in Lines
  BY ReplaceEdit DEF TypeOK
<1>2. DOMAIN lines = 1 .. Len(lines) /\ Len(lines) \in Nat
  BY <1>1 DEF Lines
<1>3. ~ (r.start.column > Len(LineAt(lines, r.start)))
  <2>1. r.start \in Places
    BY <1>1, ReplacementFacts
  <2>2. r.start.line \in Nat /\ r.start.column \in Nat
    BY <2>1 DEF Places
  <2>3. Len(LineAt(lines, r.start)) \in Nat /\ r.start.column <= Len(LineAt(lines, r.start))
    BY <1>1, <2>2, LineFacts DEF InText, LineAt
  <2> QED
    BY <2>2, <2>3
<1>4. lines' = ls /\ outcome' = "ok" /\ statement'.query = r
  BY <1>3 DEF Replace, Edit, Done
<1>5. AreReplaced(lines', r)
  <2>1. Len(lines') = Len(lines)
    BY <1>2, <1>4
  <2>2. ASSUME NEW k \in Nat, k < Len(lines) PROVE lines'[k + 1] = ReplaceIn(r, k)
    <3>1. k + 1 \in DOMAIN lines /\ (k + 1) - 1 = k
      BY <1>2, <2>2
    <3> QED
      BY <1>4, <3>1
  <2> QED
    BY <1>1, <2>1, <2>2 DEF AreReplaced
<1> QED
  BY <1>4, <1>5

LEMMA ReplaceStep ==
  ASSUME TypeOK, [Next]_vars
  PROVE  [KeepsToRange]_vars
<1> SUFFICES ASSUME Next, statement'.name = "replace" PROVE KeepsToRange
  BY DEF KeepsToRange
<1>1. PICK r \in Replacements : Replace(r)
  BY StepNames
<1>2. PICK s, e, us, t, i, j : /\ s = r.start /\ e = ReplaceEnd(r) /\ us = lines' /\ t = Text
                               /\ i = Offset(lines, s) /\ j = Offset(lines, e)
  OBVIOUS
<1> DEFINE all == r.filter = <<>> /\ r.count >= MaxText
<1>3. statement'.query = r
  BY <1>1 DEF Replace, Edit
<1>4. KeepsToRange <=>
        (InText(lines, s) /\ ~ Before(e, s) =>
           /\ outcome' = "ok" /\ Len(us) = Len(lines)
           /\ IsPrefix(Left(t, i), Flat(us)) /\ IsSuffix(Right(t, j), Flat(us))
           /\ all => Flat(us) = (Left(t, i) \o ReplaceFirst(Piece(t, i, j), r.word, r.new, MaxText))
                                \o Right(t, j))
  BY <1>2, <1>3 DEF KeepsToRange
<1> HIDE DEF all
<1>5. ASSUME InText(lines, s), ~ Before(e, s)
      PROVE  /\ outcome' = "ok" /\ Len(us) = Len(lines)
             /\ IsPrefix(Left(t, i), Flat(us)) /\ IsSuffix(Right(t, j), Flat(us))
             /\ all => Flat(us) =
                         (Left(t, i) \o ReplaceFirst(Piece(t, i, j), r.word, r.new, MaxText))
                         \o Right(t, j)
  <2>1. outcome' = "ok" /\ AreReplaced(us, r)
    BY <1>1, <1>2, <1>5, ReplaceIsDone
  <2>2. Len(us) = Len(lines)
    BY <2>1 DEF AreReplaced
  <2>3. ReplacesPart(t, Flat(us), i, j, r.word, r.new, all)
    <3>1. all => r.filter = <<>> /\ r.count >= MaxText
      BY DEF all
    <3> QED
      BY <1>2, <1>5, <2>1, <3>1, ReplacedText
  <2>4. /\ IsPrefix(Left(t, i), Flat(us)) /\ IsSuffix(Right(t, j), Flat(us))
        /\ Piece(t, i, j) \in Seq(Chars) /\ Len(Piece(t, i, j)) <= Len(t)
        /\ all => Flat(us) = (Left(t, i) \o ReplaceEvery(Piece(t, i, j), r.word, r.new))
                             \o Right(t, j)
    BY <2>3, PartIs
  <2>5. ReplaceFirst(Piece(t, i, j), r.word, r.new, MaxText) = ReplaceEvery(Piece(t, i, j), r.word, r.new)
    <3>1. PICK m : m = Piece(t, i, j)
      OBVIOUS
    <3>2. lines \in Lines /\ Len(t) <= MaxText /\ MaxText \in Nat
      BY <1>2, LineBufferAssumption, FarType DEF TypeOK, Fits, Text
    <3>3. Len(t) \in Nat
      BY <1>2, <3>2, FlatType DEF Text
    <3>4. m \in Seq(Chars) /\ MaxText >= Len(m)
      <4>1. Len(m) \in Nat
        BY <2>4, <3>1, LenProperties
      <4> QED
        BY <2>4, <3>1, <3>2, <3>3, <4>1
    <3>5. r.word \in Seq(Chars) /\ r.word # <<>>
      <4>1. r.word \in Seq(Letters) /\ r.word # <<>>
        BY ReplacementFacts DEF TypeOK
      <4> QED
        BY <4>1, SeqMonotonic DEF Chars
    <3>6. ReplaceFirst(m, r.word, r.new, MaxText) = ReplaceEvery(m, r.word, r.new)
      <4>1. PICK w : w = r.word
        OBVIOUS
      <4> QED
        BY <3>2, <3>4, <3>5, <4>1, ReplaceEnough
    <3> QED
      BY <3>1, <3>6
  <2> QED
    BY <2>1, <2>2, <2>4, <2>5
<1> QED
  BY <1>4, <1>5

------------------------------------------------------------------------------
(* What the statements do to the text. *)

\* delete removes exactly the characters of its range, in every state a script reaches
\* (LineList::deleteRange).
THEOREM DeletesRange == Spec => DeleteCuts
BY TypesHold, DeleteStep, PTL DEF Spec, DeleteCuts

\* insert puts the text at its place and loses nothing, in every state a script reaches
\* (LineList::insert).
THEOREM InsertsText == Spec => InsertPuts
BY TypesHold, InsertStep, PTL DEF Spec, InsertPuts

\* copy takes exactly the characters of its range, in every state a script reaches
\* (LineList::copyRange).
THEOREM CopiesRange == Spec => CopyTakes
BY TypesHold, CopyStep, PTL DEF Spec, CopyTakes

\* A search forward finds the next occurrence in the text and stops behind it, in every
\* state a script reaches (LineList::searchRegExpr).
THEOREM FindsNextHit == Spec => SearchFindsNext
BY TypesHold, SearchNextStep, PTL DEF Spec, SearchFindsNext

\* A search backward finds the last occurrence before its start and stops on its last
\* character, in every state a script reaches (LineList::searchBackwardsRegExpr).
THEOREM FindsLastHit == Spec => SearchFindsLast
BY TypesHold, SearchLastStep, PTL DEF Spec, SearchFindsLast

\* replace works line by line, on the first and the last line of its range in part, and
\* moves no place.  Still nothing before or behind the range changes, and without a limit and
\* a filter the range becomes what replacing in the text as a whole makes of it
\* (LineList::replace).
THEOREM ReplacesInRange == Spec => ReplaceKeepsToRange
<1>1. TypeOK /\ [Next]_vars => [KeepsToRange]_vars
  BY ReplaceStep
<1> QED
  BY <1>1, TypesHold, PTL DEF Spec, ReplaceKeepsToRange

==============================================================================
