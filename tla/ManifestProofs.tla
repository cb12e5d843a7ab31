--------------------------- MODULE ManifestProofs ---------------------------
(***************************************************************************)
(* What is proved of Manifest for every set of sessions, every content of  *)
(* the metadata and of the package, and every length of a read.            *)
(***************************************************************************)
EXTENDS Manifest, SequenceTheorems, WellFoundedInduction, TLAPS
-----------------------------------------------------------------------------
(* A set of numbers that is not empty has a least one.                     *)
LEMMA LeastNumber ==
  ASSUME NEW T \in SUBSET Nat, T # {}
  PROVE  \E n \in T : \A m \in T : n <= m
<1>1. PICK n \in T : \A m \in T : ~(<<m, n>> \in OpToRel(<, Nat))
  BY NatLessThanWellFounded, WFMin, Zenon
<1>2. \A m \in T : ~(m < n)
  BY <1>1, Zenon DEF OpToRel
<1>3. QED  BY <1>2

(* A set of numbers that has 0 and with a number the next one has all.     *)
LEMMA SetInduction ==
  ASSUME NEW T \in SUBSET Nat, 0 \in T, \A n \in T : n + 1 \in T
  PROVE  T = Nat
<1>1. SUFFICES ASSUME Nat \ T # {}  PROVE FALSE
  OBVIOUS
<1>2. PICK n \in Nat \ T : \A m \in Nat \ T : n <= m
  BY <1>1, LeastNumber
<1>3. n - 1 \in Nat
  BY <1>2
<1>4. QED  BY <1>2, <1>3

-----------------------------------------------------------------------------
(* Multiples of the block length: one more.                                *)
LEMMA Product ==
  ASSUME NEW q \in Nat, NEW b \in Nat
  PROVE  q * b \in Nat /\ (q + 1) * b = q * b + b
OBVIOUS

(* Their order is that of the factors.                                     *)
LEMMA Multiples ==
  ASSUME NEW p \in Nat, NEW q \in Nat, NEW b \in Nat \ {0}, p * b < (q + 1) * b
  PROVE  p <= q
OBVIOUS

(* A larger factor gives no smaller multiple.                              *)
LEMMA MultiplesGrow ==
  ASSUME NEW p \in Nat, NEW q \in Nat, NEW b \in Nat, p <= q
  PROVE  p * b <= q * b
OBVIOUS

(* A quotient and what is left of the number.                              *)
LEMMA Division ==
  ASSUME NEW n \in Nat, NEW b \in Nat \ {0}
  PROVE  /\ n \div b \in Nat /\ (n \div b) * b <= n /\ n < (n \div b) * b + b
OBVIOUS

(* The quotient is the only number with that.                              *)
LEMMA DivisionOf ==
  ASSUME NEW q \in Nat, NEW n \in Nat, NEW b \in Nat \ {0}, q * b <= n, n < q * b + b
  PROVE  n \div b = q
OBVIOUS

(* A number with nothing left is a multiple.                               *)
LEMMA Remainder ==
  ASSUME NEW n \in Nat, NEW b \in Nat \ {0}
  PROVE  n % b = 0 <=> n = (n \div b) * b
OBVIOUS
-----------------------------------------------------------------------------
(* The context after the bytes of m, whatever the calls that brought them: *)
(* the full blocks of m are compressed, the rest is in the buffer.         *)
Quotient(m) == Len(m) \div BlockLen
BlockOf(m, b) == SubSeq(m, (b - 1) * BlockLen + 1, b * BlockLen)
ContextOf(m) ==
  [blocks |-> [b \in 1..Quotient(m) |-> BlockOf(m, b)],
   data   |-> SubSeq(m, Quotient(m) * BlockLen + 1, Len(m)),
   len    |-> Quotient(m) * BlockLen]

(* A block holds its data and eight bytes more.                            *)
LEMMA BlockLenPositive == DataLen \in Nat \ {0} /\ BlockLen \in Nat \ {0} /\ BlockLen = DataLen + 8
BY Sha256Assumption DEF BlockLen

(* What SubSeq gives inside of a sequence.                                 *)
LEMMA SubSeqInside ==
  ASSUME NEW S, NEW s \in Seq(S), NEW i \in Nat \ {0}, NEW j \in Nat, i <= j + 1, j <= Len(s)
  PROVE  /\ SubSeq(s, i, j) \in Seq(S) /\ Len(SubSeq(s, i, j)) = j + 1 - i
         /\ \A k \in 1..(j + 1 - i) : SubSeq(s, i, j)[k] = s[i + k - 1]
<1>1. \A k \in i..j : s[k] \in S
  BY ElementOfSeq
<1>2. i \in Int /\ j \in Int
  OBVIOUS
<1>3. SubSeq(s, i, j) \in Seq(S)
  BY <1>1, <1>2, SubSeqProperties
<1>4. Len(SubSeq(s, i, j)) = IF i <= j THEN j - i + 1 ELSE 0
  BY <1>1, <1>2, SubSeqProperties
<1>5. \A k \in 1..(j - i + 1) : SubSeq(s, i, j)[k] = s[i + k - 1]
  BY <1>1, <1>2, SubSeqProperties
<1>6. j - i + 1 = j + 1 - i /\ (~(i <= j) => j + 1 - i = 0)
  OBVIOUS
<1>7. QED  BY <1>3, <1>4, <1>5, <1>6

(* The blocks that a message fills, and where each of them lies.           *)
LEMMA QuotientFacts ==
  ASSUME NEW m \in Seq(Nat)
  PROVE  /\ Quotient(m) \in Nat /\ Quotient(m) * BlockLen \in Nat
         /\ Quotient(m) * BlockLen <= Len(m) /\ Len(m) < Quotient(m) * BlockLen + BlockLen
         /\ \A b \in 1..Quotient(m) : /\ b \in Nat /\ b * BlockLen \in Nat /\ b * BlockLen <= Len(m)
                                      /\ (b - 1) * BlockLen \in Nat
                                      /\ (b - 1) * BlockLen + BlockLen = b * BlockLen
<1>1. Len(m) \in Nat
  OBVIOUS
<1>2. /\ Quotient(m) \in Nat /\ Quotient(m) * BlockLen <= Len(m)
      /\ Len(m) < Quotient(m) * BlockLen + BlockLen
  BY <1>1, BlockLenPositive, Division DEF Quotient
<1>3. Quotient(m) * BlockLen \in Nat
  BY <1>2, BlockLenPositive, Product
<1>4. ASSUME NEW b \in 1..Quotient(m)
      PROVE  /\ b \in Nat /\ b * BlockLen \in Nat /\ b * BlockLen <= Len(m)
             /\ (b - 1) * BlockLen \in Nat
             /\ (b - 1) * BlockLen + BlockLen = b * BlockLen
  <2>1. b \in Nat /\ b - 1 \in Nat /\ b <= Quotient(m) /\ (b - 1) + 1 = b
    BY <1>2
  <2>2. b * BlockLen \in Nat /\ (b - 1) * BlockLen \in Nat
        /\ ((b - 1) + 1) * BlockLen = (b - 1) * BlockLen + BlockLen
    BY <2>1, BlockLenPositive, Product
  <2>3. b * BlockLen <= Quotient(m) * BlockLen
    BY <1>2, <2>1, BlockLenPositive, MultiplesGrow
  <2>4. QED  BY <1>1, <1>2, <1>3, <2>1, <2>2, <2>3
<1>5. QED  BY <1>2, <1>3, <1>4

(* A block of a message.                                                   *)
LEMMA BlockFacts ==
  ASSUME NEW m \in Seq(Nat), NEW b \in 1..Quotient(m)
  PROVE  /\ BlockOf(m, b) \in Seq(Nat) /\ Len(BlockOf(m, b)) = BlockLen
         /\ \A i \in 1..BlockLen : BlockOf(m, b)[i] = m[(b - 1) * BlockLen + i]
<1> DEFINE l == (b - 1) * BlockLen
           h == b * BlockLen
<1>1. h \in Nat /\ h <= Len(m) /\ l \in Nat /\ l + BlockLen = h /\ BlockLen \in Nat \ {0}
  BY QuotientFacts, BlockLenPositive
<1>2. BlockOf(m, b) = SubSeq(m, l + 1, h)
  BY DEF BlockOf
<1> HIDE DEF l, h
<1>3. l + 1 \in Nat \ {0} /\ h \in Nat /\ l + 1 <= h + 1 /\ h <= Len(m) /\ h + 1 - (l + 1) = BlockLen
  BY <1>1
<1>4. /\ SubSeq(m, l + 1, h) \in Seq(Nat) /\ Len(SubSeq(m, l + 1, h)) = BlockLen
      /\ \A i \in 1..BlockLen : SubSeq(m, l + 1, h)[i] = m[(l + 1) + i - 1]
  BY <1>3, SubSeqInside
<1>5. \A i \in 1..BlockLen : (l + 1) + i - 1 = l + i
  BY <1>1
<1>6. /\ BlockOf(m, b) \in Seq(Nat) /\ Len(BlockOf(m, b)) = BlockLen
      /\ \A i \in 1..BlockLen : BlockOf(m, b)[i] = m[l + i]
  BY <1>2, <1>4, <1>5
<1>7. QED  BY <1>6 DEF l

(* A full block does not change when the message grows.                    *)
LEMMA BlockStays ==
  ASSUME NEW m \in Seq(Nat), NEW w \in Seq(Nat), NEW b \in 1..Quotient(m)
  PROVE  BlockOf(m \o w, b) = BlockOf(m, b)
<1>1. (b - 1) * BlockLen + 1 \in 1..Len(m) /\ b * BlockLen \in 1..Len(m)
  BY QuotientFacts, BlockLenPositive
<1>2. QED  BY <1>1, SubSeqOfConcat1 DEF BlockOf

(* The buffer of a context.                                                *)
LEMMA DataFacts ==
  ASSUME NEW m \in Seq(Nat)
  PROVE  LET d == ContextOf(m).data
             k == Quotient(m) * BlockLen IN
         /\ d \in Seq(Nat) /\ Len(d) = Len(m) - k
         /\ \A i \in 1..Len(d) : d[i] = m[k + i]
<1> DEFINE d == ContextOf(m).data
           k == Quotient(m) * BlockLen
<1>1. d = SubSeq(m, k + 1, Len(m))
  BY DEF ContextOf
<1>2. k \in Nat /\ k <= Len(m) /\ Len(m) \in Nat
  BY QuotientFacts
<1> HIDE DEF d, k
<1>3. \A i \in (k + 1)..Len(m) : m[i] \in Nat
  BY <1>2
<1>4. /\ d \in Seq(Nat)
      /\ Len(d) = IF k + 1 <= Len(m) THEN Len(m) - (k + 1) + 1 ELSE 0
      /\ \A i \in 1..(Len(m) - (k + 1) + 1) : d[i] = m[(k + 1) + i - 1]
  BY <1>1, <1>2, <1>3, SubSeqProperties
<1>5. Len(d) = Len(m) - k
  BY <1>2, <1>4
<1>6. \A i \in 1..Len(d) : d[i] = m[k + i]
  BY <1>2, <1>4, <1>5
<1>7. QED  BY <1>4, <1>5, <1>6 DEF d, k

(* A sequence with one element more.                                       *)
LEMMA OneMore ==
  ASSUME NEW S, NEW g, NEW n \in Nat, \A b \in 1..(n + 1) : g[b] \in S
  PROVE  Append([b \in 1..n |-> g[b]], g[n + 1]) = [b \in 1..(n + 1) |-> g[b]]
<1> DEFINE bs == [b \in 1..n |-> g[b]]
           cs == [b \in 1..(n + 1) |-> g[b]]
<1>1. bs \in [1..n -> S] /\ cs \in [1..(n + 1) -> S]
  OBVIOUS
<1>2. /\ \A b \in 1..n : bs[b] = g[b]
      /\ \A b \in 1..(n + 1) : cs[b] = g[b]
  OBVIOUS
<1> HIDE DEF bs, cs
<1>3. bs \in Seq(S) /\ cs \in Seq(S)
  BY <1>1, SeqDef
<1>4. Len(bs) = n /\ Len(cs) = n + 1
  BY <1>1, <1>3, LenProperties
<1>5. g[n + 1] \in S
  OBVIOUS
<1>6. /\ Append(bs, g[n + 1]) \in Seq(S) /\ Len(Append(bs, g[n + 1])) = n + 1
      /\ \A b \in 1..n : Append(bs, g[n + 1])[b] = bs[b]
      /\ Append(bs, g[n + 1])[n + 1] = g[n + 1]
  BY <1>3, <1>4, <1>5, AppendProperties
<1>7. \A b \in 1..(n + 1) : Append(bs, g[n + 1])[b] = cs[b]
  BY <1>2, <1>6
<1>8. Append(bs, g[n + 1]) = cs
  BY <1>3, <1>4, <1>6, <1>7, SeqEqual
<1>9. QED  BY <1>8 DEF bs, cs

(* What PutByte makes of the three fields of a context.                    *)
LEMMA PutByteOf ==
  ASSUME NEW bs, NEW d \in Seq(Nat), NEW l \in Nat, NEW x \in Nat
  PROVE  PutByte([blocks |-> bs, data |-> d, len |-> l], x) =
           IF Len(Append(d, x)) < BlockLen
           THEN [blocks |-> bs, data |-> Append(d, x), len |-> l]
           ELSE [blocks |-> Append(bs, Append(d, x)), data |-> <<>>, len |-> l + BlockLen]
<1> DEFINE ctx == [blocks |-> bs, data |-> d, len |-> l]
<1>1. ctx.data = d /\ ctx.blocks = bs /\ ctx.len = l
  OBVIOUS
<1>2. ASSUME NEW e  PROVE [ctx EXCEPT !.data = e] = [blocks |-> bs, data |-> e, len |-> l]
  OBVIOUS
<1> HIDE DEF ctx
<1>3. PutByte(ctx, x) =
        IF Len(Append(d, x)) < BlockLen
        THEN [blocks |-> bs, data |-> Append(d, x), len |-> l]
        ELSE [blocks |-> Append(bs, Append(d, x)), data |-> <<>>, len |-> l + BlockLen]
  BY <1>1, <1>2 DEF PutByte
<1>4. QED  BY <1>3 DEF ctx

(* sha256_update's loop, for one byte.                                     *)
LEMMA PutByteStep ==
  ASSUME NEW m \in Seq(Nat), NEW x \in Nat
  PROVE  PutByte(ContextOf(m), x) = ContextOf(Append(m, x))
<1> DEFINE q == Quotient(m)
           k == q * BlockLen
           d == ContextOf(m).data
           more == Append(m, x)
           data == Append(d, x)
<1>1. /\ q \in Nat /\ k \in Nat /\ k <= Len(m) /\ Len(m) < k + BlockLen /\ Len(m) \in Nat
      /\ BlockLen \in Nat \ {0}
  BY QuotientFacts, BlockLenPositive
<1>2. d \in Seq(Nat) /\ Len(d) = Len(m) - k /\ \A i \in 1..Len(d) : d[i] = m[k + i]
  BY DataFacts
<1>3. /\ more \in Seq(Nat) /\ Len(more) = Len(m) + 1
      /\ \A i \in 1..Len(m) : more[i] = m[i]
      /\ more[Len(m) + 1] = x
  BY AppendProperties
<1>4. more = m \o <<x>>
  BY AppendIsConcat
<1>5. /\ data \in Seq(Nat) /\ Len(data) = Len(d) + 1
      /\ \A i \in 1..Len(d) : data[i] = d[i]
      /\ data[Len(d) + 1] = x
  BY <1>2, AppendProperties
<1>6. /\ ContextOf(m).blocks = [b \in 1..q |-> BlockOf(m, b)] /\ ContextOf(m).len = k
      /\ ContextOf(m).data = d
      /\ ContextOf(m) = [blocks |-> [b \in 1..q |-> BlockOf(m, b)], data |-> d, len |-> k]
  BY DEF ContextOf
<1>7. PutByte(ContextOf(m), x) =
        IF Len(data) < BlockLen
        THEN [blocks |-> [b \in 1..q |-> BlockOf(m, b)], data |-> data, len |-> k]
        ELSE [blocks |-> Append([b \in 1..q |-> BlockOf(m, b)], data), data |-> <<>>, len |-> k + BlockLen]
  <2> DEFINE bs == [b \in 1..q |-> BlockOf(m, b)]
  <2>1. ContextOf(m) = [blocks |-> bs, data |-> d, len |-> k]
    BY <1>6
  <2> HIDE DEF bs, q, k, d
  <2>2. PutByte([blocks |-> bs, data |-> d, len |-> k], x) =
          IF Len(Append(d, x)) < BlockLen
          THEN [blocks |-> bs, data |-> Append(d, x), len |-> k]
          ELSE [blocks |-> Append(bs, Append(d, x)), data |-> <<>>, len |-> k + BlockLen]
    BY <1>1, <1>2, PutByteOf
  <2>3. PutByte(ContextOf(m), x) =
          IF Len(data) < BlockLen
          THEN [blocks |-> bs, data |-> data, len |-> k]
          ELSE [blocks |-> Append(bs, data), data |-> <<>>, len |-> k + BlockLen]
    BY <2>1, <2>2, Zenon
  <2>4. QED  BY <2>3, Zenon DEF bs
<1>8. ASSUME NEW b \in 1..q  PROVE BlockOf(more, b) = BlockOf(m, b)
  <2>1. <<x>> \in Seq(Nat)
    OBVIOUS
  <2>2. QED  BY <1>4, <2>1, BlockStays
<1>9. ASSUME NEW j \in Nat, j = k \/ j = k + BlockLen, j <= Len(m) + 1
      PROVE  /\ SubSeq(more, j + 1, Len(more)) \in Seq(Nat)
             /\ Len(SubSeq(more, j + 1, Len(more))) = Len(m) + 1 - j
             /\ \A i \in 1..(Len(m) + 1 - j) : SubSeq(more, j + 1, Len(more))[i] = more[j + i]
  <2> HIDE DEF q, k, more
  <2>1. \A i \in (j + 1)..Len(more) : more[i] \in Nat
    BY <1>1, <1>3
  <2>2. /\ SubSeq(more, j + 1, Len(more)) \in Seq(Nat)
        /\ Len(SubSeq(more, j + 1, Len(more))) = IF j + 1 <= Len(more) THEN Len(more) - (j + 1) + 1 ELSE 0
        /\ \A i \in 1..(Len(more) - (j + 1) + 1) : SubSeq(more, j + 1, Len(more))[i] = more[(j + 1) + i - 1]
    BY <1>1, <1>3, <2>1, SubSeqProperties
  <2>3. QED  BY <1>1, <1>3, <1>9, <2>2
<1>10. \A i \in 1..(Len(m) + 1 - k) : data[i] = more[k + i]
  <2> SUFFICES ASSUME NEW i \in 1..(Len(m) + 1 - k)  PROVE data[i] = more[k + i]
    OBVIOUS
  <2> HIDE DEF q, k, more, d, data
  <2>1. CASE i <= Len(d)
    <3>1. i \in 1..Len(d) /\ k + i \in 1..Len(m)
      BY <1>1, <1>2, <2>1
    <3>2. QED  BY <1>2, <1>3, <1>5, <3>1
  <2>2. CASE ~(i <= Len(d))
    <3>1. i = Len(d) + 1 /\ k + i = Len(m) + 1
      BY <1>1, <1>2, <2>2
    <3>2. QED  BY <1>3, <1>5, <3>1
  <2>3. QED  BY <2>1, <2>2
<1>11. CASE Len(data) < BlockLen
  <2>1. Len(more) < k + BlockLen /\ k <= Len(more)
    <3> HIDE DEF q, k, more, d, data
    <3>1. QED  BY <1>1, <1>2, <1>3, <1>5, <1>11
  <2>2. Quotient(more) = q
    <3>1. Len(more) \in Nat
      BY <1>3
    <3>2. QED  BY <1>1, <2>1, <3>1, DivisionOf DEF Quotient
  <2>3. SubSeq(more, k + 1, Len(more)) = data
    <3> HIDE DEF q, k, more, d, data
    <3>1. k \in Nat /\ k <= Len(m) + 1
      BY <1>1
    <3>2. QED  BY <1>1, <1>2, <1>5, <1>9, <1>10, <3>1, SeqEqual
  <2>4. ContextOf(more) = [blocks |-> [b \in 1..q |-> BlockOf(m, b)], data |-> data, len |-> k]
    BY <1>8, <2>2, <2>3 DEF ContextOf
  <2>5. QED  BY <1>7, <1>11, <2>4
<1>12. CASE ~(Len(data) < BlockLen)
  <2>1. Len(more) = k + BlockLen /\ Len(data) = BlockLen
    <3> HIDE DEF q, k, more, d, data
    <3>1. QED  BY <1>1, <1>2, <1>3, <1>5, <1>12
  <2>2. (q + 1) * BlockLen = k + BlockLen
    BY <1>1, Product
  <2>3. Quotient(more) = q + 1
    <3>1. Len(more) \in Nat /\ q + 1 \in Nat
      BY <1>1, <1>3
    <3>2. (q + 1) * BlockLen <= Len(more) /\ Len(more) < (q + 1) * BlockLen + BlockLen
      <4> HIDE DEF q, k, more, d, data
      <4>1. QED  BY <1>1, <2>1, <2>2
    <3>3. QED  BY <1>1, <3>1, <3>2, DivisionOf DEF Quotient
  <2>4. BlockOf(more, q + 1) = data
    <3>1. (q + 1) - 1 = q
      BY <1>1
    <3>2. BlockOf(more, q + 1) = SubSeq(more, k + 1, Len(more))
      BY <2>1, <2>2, <3>1 DEF BlockOf
    <3> HIDE DEF q, k, more, d, data
    <3>3. k \in Nat /\ k <= Len(m) + 1
      BY <1>1
    <3>4. Len(m) + 1 - k = BlockLen /\ Len(m) + 1 - k = Len(data)
      BY <1>1, <1>2, <1>3, <1>5, <2>1
    <3>5. /\ SubSeq(more, k + 1, Len(more)) \in Seq(Nat)
          /\ Len(SubSeq(more, k + 1, Len(more))) = Len(data)
          /\ \A i \in 1..Len(data) : SubSeq(more, k + 1, Len(more))[i] = data[i]
      BY <1>9, <1>10, <3>3, <3>4
    <3>6. SubSeq(more, k + 1, Len(more)) = data
      BY <1>5, <3>5, SeqEqual
    <3>7. QED  BY <3>2, <3>6
  <2>5. SubSeq(more, (q + 1) * BlockLen + 1, Len(more)) = <<>>
    <3> HIDE DEF q, k, more, d, data
    <3>1. (q + 1) * BlockLen + 1 \in Int /\ Len(more) \in Int /\ Len(more) < (q + 1) * BlockLen + 1
      BY <1>1, <1>3, <2>1, <2>2
    <3>2. QED  BY <3>1, SubSeqEmpty
  <2>6. Append([b \in 1..q |-> BlockOf(m, b)], data) = [b \in 1..(q + 1) |-> BlockOf(more, b)]
    <3> DEFINE g == [b \in 1..(q + 1) |-> BlockOf(more, b)]
    <3>1. \A b \in 1..(q + 1) : g[b] \in Seq(Nat)
      BY <1>3, <2>3, BlockFacts
    <3>2. [b \in 1..q |-> BlockOf(m, b)] = [b \in 1..q |-> g[b]]
      <4>1. \A b \in 1..q : b \in 1..(q + 1)
        BY <1>1
      <4> HIDE DEF q
      <4>2. QED  BY <1>8, <4>1
    <3>3. g[q + 1] = data
      BY <1>1, <2>4
    <3> HIDE DEF g, q, data
    <3>4. Append([b \in 1..q |-> g[b]], g[q + 1]) = [b \in 1..(q + 1) |-> g[b]]
      BY <1>1, <3>1, OneMore
    <3>5. QED  BY <3>2, <3>3, <3>4 DEF g
  <2>7. ContextOf(more) = [blocks |-> [b \in 1..(q + 1) |-> BlockOf(more, b)], data |-> <<>>,
                           len |-> k + BlockLen]
    BY <2>2, <2>3, <2>5 DEF ContextOf
  <2>8. QED  BY <1>7, <1>12, <2>6, <2>7
<1>13. QED  BY <1>11, <1>12

(* The context of a message and the first n of the bytes to come.          *)
LEMMA NextByte ==
  ASSUME NEW m \in Seq(Nat), NEW w \in Seq(Nat), NEW n \in 1..Len(w)
  PROVE  ContextOf(m \o SubSeq(w, 1, n)) = PutByte(ContextOf(m \o SubSeq(w, 1, n - 1)), w[n])
<1> DEFINE v == SubSeq(w, 1, n - 1)
<1>1. v \in Seq(Nat) /\ w[n] \in Nat
  <2>1. n - 1 \in Nat /\ 1 <= (n - 1) + 1 /\ n - 1 <= Len(w) /\ 1 \in Nat \ {0}
    OBVIOUS
  <2>2. v \in Seq(Nat)
    BY <2>1, SubSeqInside
  <2>3. w[n] \in Nat
    BY ElementOfSeq
  <2>4. QED  BY <2>2, <2>3
<1>2. SubSeq(w, 1, n) = Append(v, w[n])
  <2>1. 1 \in 1..Len(w) /\ n \in 1..Len(w)
    OBVIOUS
  <2>2. SubSeq(w, 1, n) = v \o <<w[n]>>
    BY <2>1, SubSeqRecursiveSecond
  <2>3. QED  BY <1>1, <2>2, AppendIsConcat
<1> HIDE DEF v
<1>3. m \o Append(v, w[n]) = Append(m \o v, w[n])
  <2>1. <<w[n]>> \in Seq(Nat)
    BY <1>1
  <2>2. Append(v, w[n]) = v \o <<w[n]>> /\ Append(m \o v, w[n]) = (m \o v) \o <<w[n]>>
    BY <1>1, AppendIsConcat, ConcatProperties
  <2>3. m \o (v \o <<w[n]>>) = (m \o v) \o <<w[n]>>
    BY <1>1, <2>1, ConcatAssociative
  <2>4. QED  BY <2>2, <2>3
<1>4. m \o v \in Seq(Nat)
  BY <1>1, ConcatProperties
<1>5. ContextOf(Append(m \o v, w[n])) = PutByte(ContextOf(m \o v), w[n])
  BY <1>1, <1>4, PutByteStep
<1>6. QED  BY <1>2, <1>3, <1>5 DEF v

(* sha256_update, whatever it is given: the context is that of all bytes.  *)
THEOREM UpdateInPieces ==
  ASSUME NEW m \in Seq(Nat), NEW w \in Seq(Nat)
  PROVE  sha256_update(ContextOf(m), w) = ContextOf(m \o w)
<1> DEFINE byByte(f) == [n \in 0..Len(w) |-> IF n = 0 THEN ContextOf(m) ELSE PutByte(f[n - 1], w[n])]
           after == CHOOSE f : f = byByte(f)
           g == [n \in 0..Len(w) |-> ContextOf(m \o SubSeq(w, 1, n))]
<1>1. Len(w) \in Nat
  OBVIOUS
<1>2. g[0] = ContextOf(m)
  <2>1. SubSeq(w, 1, 0) = <<>>
    BY SubSeqEmpty
  <2>2. m \o <<>> = m
    BY ConcatEmptySeq
  <2>3. 0 \in 0..Len(w)
    BY <1>1
  <2>4. QED  BY <2>1, <2>2, <2>3
<1>3. ASSUME NEW n \in 1..Len(w)  PROVE g[n] = PutByte(g[n - 1], w[n])
  <2>1. n \in 0..Len(w) /\ n - 1 \in 0..Len(w)
    BY <1>1
  <2>2. QED  BY <2>1, NextByte
<1>4. g = byByte(g)
  <2>1. g = [n \in 0..Len(w) |-> g[n]]
    OBVIOUS
  <2>2. \A n \in 0..Len(w) : n # 0 => n \in 1..Len(w)
    BY <1>1
  <2> HIDE DEF g
  <2>3. QED  BY <1>2, <1>3, <2>1, <2>2
<1>5. after = byByte(after)
  <2> HIDE DEF g, byByte
  <2>1. \E f : f = byByte(f)
    BY <1>4
  <2>2. QED  BY <2>1
<1>6. \A n \in Nat : n \in 0..Len(w) => after[n] = g[n]
  <2> DEFINE T == {n \in Nat : n \in 0..Len(w) => after[n] = g[n]}
  <2> HIDE DEF g, after
  <2>1. 0 \in T
    <3>1. after[0] = ContextOf(m)
      BY <1>1, <1>5
    <3>2. QED  BY <1>2, <3>1
  <2>2. ASSUME NEW n \in T  PROVE n + 1 \in T
    <3>1. SUFFICES ASSUME n + 1 \in 0..Len(w)  PROVE after[n + 1] = g[n + 1]
      OBVIOUS
    <3>2. n \in Nat /\ n \in 0..Len(w) /\ n + 1 \in 1..Len(w) /\ (n + 1) - 1 = n /\ n + 1 # 0
      BY <1>1, <3>1
    <3>3. after[n] = g[n]
      BY <3>2
    <3>4. after[n + 1] = PutByte(after[n], w[n + 1])
      BY <1>5, <3>1, <3>2
    <3>5. g[n + 1] = PutByte(g[n], w[n + 1])
      BY <1>3, <3>2
    <3>6. QED  BY <3>3, <3>4, <3>5
  <2>3. T = Nat
    <3> HIDE DEF T
    <3>1. T \in SUBSET Nat
      BY DEF T
    <3>2. QED  BY <2>1, <2>2, <3>1, SetInduction
  <2>4. QED  BY <2>3
<1>7. sha256_update(ContextOf(m), w) = after[Len(w)]
  BY Zenon DEF sha256_update
<1>8. g[Len(w)] = ContextOf(m \o w)
  <2>1. SubSeq(w, 1, Len(w)) = w
    BY SubSeqFull
  <2>2. Len(w) \in 0..Len(w)
    BY <1>1
  <2>3. QED  BY <2>1, <2>2
<1>9. QED
  <2> HIDE DEF after, g
  <2>1. Len(w) \in 0..Len(w)
    BY <1>1
  <2>2. QED  BY <1>1, <1>6, <1>7, <1>8, <2>1
-----------------------------------------------------------------------------
(* What stands where in a concatenation.                                   *)
LEMMA ConcatFacts ==
  ASSUME NEW s \in Seq(Nat), NEW t \in Seq(Nat)
  PROVE  /\ s \o t \in Seq(Nat) /\ Len(s \o t) = Len(s) + Len(t)
         /\ \A i \in 1..Len(s) : (s \o t)[i] = s[i]
         /\ \A i \in 1..Len(t) : (s \o t)[Len(s) + i] = t[i]
<1>1. /\ s \o t \in Seq(Nat) /\ Len(s \o t) = Len(s) + Len(t)
      /\ \A i \in 1..(Len(s) + Len(t)) : (s \o t)[i] = IF i <= Len(s) THEN s[i] ELSE t[i - Len(s)]
  BY ConcatProperties
<1>2. Len(s) \in Nat /\ Len(t) \in Nat
  OBVIOUS
<1>3. ASSUME NEW i \in 1..Len(s)  PROVE (s \o t)[i] = s[i]
  BY <1>1, <1>2
<1>4. ASSUME NEW i \in 1..Len(t)  PROVE (s \o t)[Len(s) + i] = t[i]
  <2>1. Len(s) + i \in 1..(Len(s) + Len(t)) /\ ~(Len(s) + i <= Len(s)) /\ (Len(s) + i) - Len(s) = i
    BY <1>2
  <2>2. QED  BY <1>1, <2>1
<1>5. QED  BY <1>1, <1>3, <1>4

(* A sequence of zeros.                                                    *)
LEMMA ZerosFacts ==
  ASSUME NEW n \in Nat
  PROVE  Zeros(n) \in Seq(Nat) /\ Len(Zeros(n)) = n /\ \A i \in 1..n : Zeros(n)[i] = 0
<1>1. Zeros(n) \in [1..n -> Nat] /\ \A i \in 1..n : Zeros(n)[i] = 0
  BY DEF Zeros
<1>2. Zeros(n) \in Seq(Nat)
  BY <1>1, SeqDef
<1>3. QED  BY <1>1, <1>2, LenProperties

(* The field of the length takes eight bytes.                              *)
LEMMA LengthFieldFacts ==
  ASSUME NEW l \in Nat
  PROVE  LengthField(l) \in Seq(Nat) /\ Len(LengthField(l)) = 8
<1> DEFINE a == Zeros(7)
           b == <<8 * l>>
<1>1. a \in Seq(Nat) /\ Len(a) = 7
  BY ZerosFacts
<1>2. b \in Seq(Nat) /\ Len(b) = 1
  OBVIOUS
<1>3. LengthField(l) = a \o b
  BY DEF LengthField
<1> HIDE DEF a, b
<1>4. a \o b \in Seq(Nat) /\ Len(a \o b) = Len(a) + Len(b)
  BY <1>1, <1>2, ConcatFacts
<1>5. QED  BY <1>1, <1>2, <1>3, <1>4

(* A sequence of bytes closed by the mark and n zeros.                     *)
Marked(m, n) == m \o <<Mark>> \o Zeros(n)

(* What stands where in it.                                                *)
LEMMA MarkedFacts ==
  ASSUME NEW m \in Seq(Nat), NEW n \in Nat
  PROVE  /\ Marked(m, n) \in Seq(Nat) /\ Len(Marked(m, n)) = Len(m) + 1 + n
         /\ \A i \in 1..Len(m) : Marked(m, n)[i] = m[i]
         /\ Marked(m, n)[Len(m) + 1] = Mark
         /\ \A i \in (Len(m) + 2)..(Len(m) + 1 + n) : Marked(m, n)[i] = 0
<1> DEFINE a == m \o <<Mark>>
           z == Zeros(n)
<1>1. <<Mark>> \in Seq(Nat) /\ Len(<<Mark>>) = 1 /\ <<Mark>>[1] = Mark
  BY DEF Mark
<1>2. /\ a \in Seq(Nat) /\ Len(a) = Len(m) + 1
      /\ \A i \in 1..Len(m) : a[i] = m[i]
      /\ a[Len(m) + 1] = Mark
  BY <1>1, ConcatFacts
<1>3. z \in Seq(Nat) /\ Len(z) = n /\ \A i \in 1..n : z[i] = 0
  BY ZerosFacts
<1> HIDE DEF a, z
<1>4. /\ a \o z \in Seq(Nat) /\ Len(a \o z) = Len(a) + Len(z)
      /\ \A i \in 1..Len(a) : (a \o z)[i] = a[i]
      /\ \A i \in 1..Len(z) : (a \o z)[Len(a) + i] = z[i]
  <2>1. a \in Seq(Nat) /\ z \in Seq(Nat)
    BY <1>2, <1>3
  <2>2. QED  BY <2>1, ConcatFacts
<1>5. \A i \in (Len(m) + 2)..(Len(m) + 1 + n) : i - Len(a) \in 1..n /\ Len(a) + (i - Len(a)) = i
  BY <1>2
<1>6. /\ a \o z \in Seq(Nat) /\ Len(a \o z) = Len(m) + 1 + n
      /\ \A i \in 1..Len(m) : (a \o z)[i] = m[i]
      /\ (a \o z)[Len(m) + 1] = Mark
      /\ \A i \in (Len(m) + 2)..(Len(m) + 1 + n) : (a \o z)[i] = 0
  BY <1>2, <1>3, <1>4, <1>5
<1>7. QED  BY <1>6 DEF Marked, a, z

(* With the length behind it.                                              *)
LEMMA ClosedFacts ==
  ASSUME NEW m \in Seq(Nat), NEW n \in Nat, NEW l \in Nat
  PROVE  LET s == Marked(m, n) \o LengthField(l) IN
         /\ s \in Seq(Nat) /\ Len(s) = Len(m) + 1 + n + 8
         /\ \A i \in 1..Len(m) : s[i] = m[i]
         /\ s[Len(m) + 1] = Mark
         /\ \A i \in (Len(m) + 2)..(Len(m) + 1 + n) : s[i] = 0
         /\ \A i \in 1..8 : s[Len(m) + 1 + n + i] = LengthField(l)[i]
<1> DEFINE a == Marked(m, n)
           f == LengthField(l)
<1>1. /\ a \in Seq(Nat) /\ Len(a) = Len(m) + 1 + n
      /\ \A i \in 1..Len(m) : a[i] = m[i]
      /\ a[Len(m) + 1] = Mark
      /\ \A i \in (Len(m) + 2)..(Len(m) + 1 + n) : a[i] = 0
  BY MarkedFacts
<1>2. f \in Seq(Nat) /\ Len(f) = 8
  BY LengthFieldFacts
<1> HIDE DEF a, f
<1>3. /\ a \o f \in Seq(Nat) /\ Len(a \o f) = Len(a) + Len(f)
      /\ \A i \in 1..Len(a) : (a \o f)[i] = a[i]
      /\ \A i \in 1..Len(f) : (a \o f)[Len(a) + i] = f[i]
  <2>1. a \in Seq(Nat) /\ f \in Seq(Nat)
    BY <1>1, <1>2
  <2>2. QED  BY <2>1, ConcatFacts
<1>4. /\ a \o f \in Seq(Nat) /\ Len(a \o f) = Len(m) + 1 + n + 8
      /\ \A i \in 1..Len(m) : (a \o f)[i] = m[i]
      /\ (a \o f)[Len(m) + 1] = Mark
      /\ \A i \in (Len(m) + 2)..(Len(m) + 1 + n) : (a \o f)[i] = 0
      /\ \A i \in 1..8 : (a \o f)[Len(m) + 1 + n + i] = f[i]
  <2>1. Len(m) \in Nat /\ \A i \in 1..8 : Len(a) + i = Len(m) + 1 + n + i
    BY <1>1
  <2>2. \A i \in 1..8 : (a \o f)[Len(m) + 1 + n + i] = f[i]
    <3>1. \A i \in 1..8 : (a \o f)[Len(a) + i] = f[i]
      BY <1>2, <1>3
    <3>2. QED  BY <1>1, <3>1
  <2>3. /\ \A i \in 1..Len(m) : i \in 1..Len(a)
        /\ Len(m) + 1 \in 1..Len(a)
        /\ \A i \in (Len(m) + 2)..(Len(m) + 1 + n) : i \in 1..Len(a)
    BY <1>1, <2>1
  <2>4. QED  BY <1>1, <1>2, <1>3, <2>2, <2>3
<1>5. QED  BY <1>4 DEF a, f

(* The only multiple of the block length among that many numbers.          *)
LEMMA PaddedLenIs ==
  ASSUME NEW n \in Nat, NEW t \in Nat, t * BlockLen \in (n + 9)..(n + 8 + BlockLen)
  PROVE  PaddedLen(n) = t * BlockLen
<1> DEFINE window == (n + 9)..(n + 8 + BlockLen)
<1>1. BlockLen \in Nat \ {0} /\ t * BlockLen \in Nat /\ window \subseteq Nat
  BY BlockLenPositive
<1>2. (t * BlockLen) % BlockLen = 0
  <2>1. (t * BlockLen) \div BlockLen = t
    BY <1>1, DivisionOf
  <2>2. QED  BY <1>1, <2>1, Remainder
<1>3. ASSUME NEW p \in window, p % BlockLen = 0  PROVE p = t * BlockLen
  <2> DEFINE u == p \div BlockLen
  <2>1. u \in Nat /\ p = u * BlockLen /\ p \in Nat
    BY <1>1, <1>3, Division, Remainder
  <2>2. (u + 1) * BlockLen = u * BlockLen + BlockLen /\ (t + 1) * BlockLen = t * BlockLen + BlockLen
    BY <1>1, <2>1, Product
  <2>3. u * BlockLen < t * BlockLen + BlockLen /\ t * BlockLen < u * BlockLen + BlockLen
    <3> HIDE DEF u
    <3>1. u * BlockLen \in window
      BY <2>1
    <3>2. QED  BY <1>1, <3>1
  <2> HIDE DEF u
  <2>4. u <= t /\ t <= u
    BY <1>1, <2>1, <2>2, <2>3, Multiples
  <2>5. QED  BY <2>1, <2>4
<1>4. QED
  <2> HIDE DEF window
  <2>1. t * BlockLen \in window
    BY DEF window
  <2>2. PaddedLen(n) = CHOOSE m \in window : m % BlockLen = 0
    BY Zenon DEF PaddedLen, window
  <2>3. QED  BY <1>2, <1>3, <2>1, <2>2

(* How many zeros the padding of a message has: they fill the last block,  *)
(* or that one and the next up to the length.                              *)
Fits(m) == Len(ContextOf(m).data) + 1 <= DataLen
Blocks(m) == IF Fits(m) THEN Quotient(m) + 1 ELSE Quotient(m) + 2
Fill(m) == IF Fits(m) THEN DataLen - (Len(ContextOf(m).data) + 1)
                      ELSE BlockLen - (Len(ContextOf(m).data) + 1) + DataLen

(* They make the message a number of whole blocks, the least that fits.    *)
LEMMA PaddingFacts ==
  ASSUME NEW m \in Seq(Nat)
  PROVE  /\ Fill(m) \in Nat /\ Blocks(m) \in Nat
         /\ Len(m) + 1 + Fill(m) + 8 = Blocks(m) * BlockLen
         /\ PaddedLen(Len(m)) = Blocks(m) * BlockLen
<1> DEFINE q == Quotient(m)
           k == q * BlockLen
           r == Len(ContextOf(m).data)
           t == Blocks(m)
           z == Fill(m)
<1>1. /\ DataLen \in Nat \ {0} /\ BlockLen \in Nat \ {0} /\ BlockLen = DataLen + 8
      /\ q \in Nat /\ k \in Nat /\ Len(m) \in Nat /\ k <= Len(m) /\ Len(m) < k + BlockLen
  BY BlockLenPositive, QuotientFacts
<1>2. r = Len(m) - k
  BY DataFacts
<1>3. /\ Fits(m) <=> r + 1 <= DataLen
      /\ t = IF Fits(m) THEN q + 1 ELSE q + 2
      /\ z = IF Fits(m) THEN DataLen - (r + 1) ELSE BlockLen - (r + 1) + DataLen
  BY DEF Fits, Blocks, Fill
<1>4. (q + 1) * BlockLen = k + BlockLen /\ (q + 2) * BlockLen = k + BlockLen + BlockLen
  <2>1. (q + 1) * BlockLen = k + BlockLen /\ ((q + 1) + 1) * BlockLen = (q + 1) * BlockLen + BlockLen
    <3>1. q \in Nat /\ q + 1 \in Nat /\ BlockLen \in Nat
      BY <1>1
    <3> HIDE DEF q
    <3>2. (q + 1) * BlockLen = q * BlockLen + BlockLen
      BY <3>1, Product
    <3>3. ((q + 1) + 1) * BlockLen = (q + 1) * BlockLen + BlockLen
      BY <3>1, Product
    <3>4. QED  BY <3>2, <3>3
  <2>2. (q + 1) + 1 = q + 2
    BY <1>1
  <2>3. QED  BY <2>1, <2>2
<1> HIDE DEF q, k, r, t, z
<1>5. z \in Nat /\ t \in Nat /\ Len(m) + 1 + z + 8 = t * BlockLen
  <2>1. CASE Fits(m)
    BY <1>1, <1>2, <1>3, <1>4, <2>1
  <2>2. CASE ~Fits(m)
    BY <1>1, <1>2, <1>3, <1>4, <2>2
  <2>3. QED  BY <2>1, <2>2
<1>6. t * BlockLen \in (Len(m) + 9)..(Len(m) + 8 + BlockLen)
  <2>1. z < BlockLen
    BY <1>1, <1>2, <1>3
  <2>2. QED  BY <1>1, <1>5, <2>1
<1>7. PaddedLen(Len(m)) = t * BlockLen
  BY <1>1, <1>5, <1>6, PaddedLenIs
<1>8. QED  BY <1>5, <1>7 DEF t, z

(* The reference: the padded message and its blocks.                       *)
LEMMA DigestIs ==
  ASSUME NEW m \in Seq(Nat)
  PROVE  LET s == Marked(m, Fill(m)) \o LengthField(Len(m)) IN
         /\ Quotient(s) = Blocks(m) /\ s \in Seq(Nat) /\ Len(s) = Blocks(m) * BlockLen
         /\ Digest(m) = [b \in 1..Blocks(m) |-> BlockOf(s, b)]
<1> DEFINE t == Blocks(m)
           z == Fill(m)
           s == Marked(m, z) \o LengthField(Len(m))
<1>1. z \in Nat /\ t \in Nat /\ Len(m) + 1 + z + 8 = t * BlockLen /\ PaddedLen(Len(m)) = t * BlockLen
  BY PaddingFacts
<1>2. PaddedLen(Len(m)) - Len(m) - 9 = z
  <2> HIDE DEF t, z
  <2>1. Len(m) \in Nat /\ t * BlockLen \in Int
    BY <1>1, BlockLenPositive
  <2>2. QED  BY <1>1, <2>1
<1>3. Padded(m) = s
  BY <1>2 DEF Padded, Marked
<1>4. s \in Seq(Nat) /\ Len(s) = t * BlockLen
  <2>1. Len(m) \in Nat
    OBVIOUS
  <2>2. s \in Seq(Nat) /\ Len(s) = Len(m) + 1 + z + 8
    BY <1>1, <2>1, ClosedFacts
  <2>3. QED  BY <1>1, <2>2
<1>5. (t * BlockLen) \div BlockLen = t
  <2>1. t * BlockLen \in Nat /\ t * BlockLen <= t * BlockLen /\ t * BlockLen < t * BlockLen + BlockLen
    BY <1>1, BlockLenPositive, Product
  <2>2. QED  BY <1>1, <2>1, BlockLenPositive, DivisionOf
<1>6. Quotient(s) = t
  BY <1>4, <1>5 DEF Quotient
<1>7. Digest(m) = [b \in 1..t |-> BlockOf(s, b)]
  <2>1. PaddedLen(Len(m)) \div BlockLen = t
    BY <1>1, <1>5
  <2> HIDE DEF t, s
  <2>2. QED  BY <1>3, <2>1 DEF Digest, BlockOf
<1>8. QED  BY <1>4, <1>6, <1>7

(* What sha256_final closes a context with.                                *)
LEMMA FinalIs ==
  ASSUME NEW m \in Seq(Nat)
  PROVE  LET d == ContextOf(m).data
             bs == [b \in 1..Quotient(m) |-> BlockOf(m, b)]
             length == LengthField(Len(m)) IN
         sha256_final(ContextOf(m)) =
           IF Fits(m) THEN Append(bs, Marked(d, Fill(m)) \o length)
           ELSE bs \o <<Marked(d, BlockLen - (Len(d) + 1)), Zeros(DataLen) \o length>>
<1> DEFINE d == ContextOf(m).data
           k == Quotient(m) * BlockLen
           bs == [b \in 1..Quotient(m) |-> BlockOf(m, b)]
           length == LengthField(Len(m))
<1>1. /\ DataLen \in Nat \ {0} /\ BlockLen \in Nat \ {0} /\ BlockLen = DataLen + 8
      /\ k \in Nat /\ Len(m) \in Nat /\ k <= Len(m)
  BY BlockLenPositive, QuotientFacts
<1>2. d \in Seq(Nat) /\ Len(d) = Len(m) - k
  BY DataFacts
<1>3. ContextOf(m).blocks = bs /\ ContextOf(m).len = k /\ ContextOf(m).data = d
  BY DEF ContextOf
<1>4. Fits(m) <=> Len(d) + 1 <= DataLen
  BY DEF Fits
<1>5. Fits(m) => Fill(m) = DataLen - (Len(d) + 1)
  BY DEF Fill
<1> HIDE DEF d, k, bs
<1>6. LengthField(k + Len(d)) = length
  <2>1. k + Len(d) = Len(m)
    BY <1>1, <1>2
  <2>2. QED  BY <2>1
<1>7. Append(d, Mark) = d \o <<Mark>> /\ Len(Append(d, Mark)) = Len(d) + 1
  <2>1. Mark \in Nat
    BY DEF Mark
  <2>2. QED  BY <1>2, <2>1, AppendIsConcat, AppendProperties
<1>8. Len(d) + 1 > DataLen <=> ~Fits(m)
  BY <1>1, <1>2, <1>4
<1> HIDE DEF length
<1>9. sha256_final(ContextOf(m)) =
        IF ~Fits(m)
        THEN bs \o <<(d \o <<Mark>>) \o Zeros(BlockLen - (Len(d) + 1)), Zeros(DataLen) \o length>>
        ELSE Append(bs, (d \o <<Mark>>) \o Zeros(DataLen - (Len(d) + 1)) \o length)
  BY <1>3, <1>6, <1>7, <1>8 DEF sha256_final
<1>10. sha256_final(ContextOf(m)) =
         IF Fits(m) THEN Append(bs, Marked(d, Fill(m)) \o length)
         ELSE bs \o <<Marked(d, BlockLen - (Len(d) + 1)), Zeros(DataLen) \o length>>
  BY <1>5, <1>9 DEF Marked
<1>11. QED  BY <1>10 DEF d, bs, length

(* The message fits in front of the length: one block closes it.           *)
LEMMA OneBlock ==
  ASSUME NEW m \in Seq(Nat), Fits(m)
  PROVE  BlockOf(Marked(m, Fill(m)) \o LengthField(Len(m)), Quotient(m) + 1)
           = Marked(ContextOf(m).data, Fill(m)) \o LengthField(Len(m))
<1> DEFINE q == Quotient(m)
           k == q * BlockLen
           d == ContextOf(m).data
           z == Fill(m)
           f == LengthField(Len(m))
           s == Marked(m, z) \o f
           e == Marked(d, z) \o f
           block == BlockOf(s, q + 1)
<1>1. /\ DataLen \in Nat \ {0} /\ BlockLen \in Nat \ {0} /\ BlockLen = DataLen + 8
      /\ q \in Nat /\ k \in Nat /\ Len(m) \in Nat /\ k <= Len(m)
  BY BlockLenPositive, QuotientFacts
<1>2. d \in Seq(Nat) /\ Len(d) = Len(m) - k /\ \A i \in 1..Len(d) : d[i] = m[k + i]
  BY DataFacts
<1>3. z \in Nat /\ z = DataLen - (Len(d) + 1)
  BY PaddingFacts DEF Fill
<1>4. Quotient(s) = q + 1 /\ s \in Seq(Nat)
  <2>1. Quotient(s) = Blocks(m) /\ s \in Seq(Nat)
    BY DigestIs
  <2>2. Blocks(m) = q + 1
    BY DEF Blocks
  <2> HIDE DEF s, q
  <2>3. QED  BY <2>1, <2>2
<1> HIDE DEF q, k, d, z
<1>5. /\ \A i \in 1..Len(m) : s[i] = m[i]
      /\ s[Len(m) + 1] = Mark
      /\ \A i \in (Len(m) + 2)..(Len(m) + 1 + z) : s[i] = 0
      /\ \A i \in 1..8 : s[Len(m) + 1 + z + i] = f[i]
  <2>1. m \in Seq(Nat) /\ z \in Nat /\ Len(m) \in Nat
    BY <1>1, <1>3
  <2>2. QED  BY ONLY <2>1, ClosedFacts
<1>6. /\ e \in Seq(Nat) /\ Len(e) = Len(d) + 1 + z + 8
      /\ \A i \in 1..Len(d) : e[i] = d[i]
      /\ e[Len(d) + 1] = Mark
      /\ \A i \in (Len(d) + 2)..(Len(d) + 1 + z) : e[i] = 0
      /\ \A i \in 1..8 : e[Len(d) + 1 + z + i] = f[i]
  <2>1. d \in Seq(Nat) /\ z \in Nat /\ Len(m) \in Nat
    BY <1>1, <1>2, <1>3
  <2>2. QED  BY ONLY <2>1, ClosedFacts
<1>7. block \in Seq(Nat) /\ Len(block) = BlockLen /\ \A i \in 1..BlockLen : block[i] = s[k + i]
  <2>1. q + 1 \in 1..Quotient(s) /\ (q + 1) - 1 = q
    BY <1>1, <1>4
  <2>2. /\ block \in Seq(Nat) /\ Len(block) = BlockLen
        /\ \A i \in 1..BlockLen : block[i] = s[((q + 1) - 1) * BlockLen + i]
    <3> HIDE DEF s
    <3>1. QED  BY <1>4, <2>1, BlockFacts
  <2>3. ((q + 1) - 1) * BlockLen = k
    BY <2>1 DEF k
  <2> HIDE DEF s, block
  <2>4. QED  BY <2>2, <2>3
<1> HIDE DEF f, s, e, block
<1>8. Len(d) \in Nat /\ Len(d) + k = Len(m) /\ Len(d) + 1 + z = DataLen
  <2>1. Len(d) \in Nat
    BY <1>2
  <2>2. Len(d) = Len(m) - k /\ z = DataLen - (Len(d) + 1)
    BY <1>2, <1>3
  <2>3. QED  BY <1>1, <2>1, <2>2
<1>9. Len(e) = BlockLen
  BY <1>1, <1>3, <1>6, <1>8
<1>10. ASSUME NEW i \in 1..BlockLen  PROVE block[i] = e[i]
  <2>1. block[i] = s[k + i]
    BY <1>7
  <2>2. CASE i <= Len(d)
    <3>1. i \in 1..Len(d) /\ k + i \in 1..Len(m)
      BY <1>1, <1>8, <2>2
    <3>2. s[k + i] = m[k + i]
      BY <1>5, <3>1
    <3>3. e[i] = m[k + i]
      BY <1>2, <1>6, <3>1
    <3>4. QED  BY <2>1, <3>2, <3>3
  <2>3. CASE i = Len(d) + 1
    <3>1. k + (Len(d) + 1) = Len(m) + 1
      BY <1>1, <1>8
    <3>2. k + i = Len(m) + 1
      BY <2>3, <3>1
    <3>3. QED  BY <1>5, <1>6, <2>1, <2>3, <3>2
  <2>4. CASE i \in (Len(d) + 2)..DataLen
    <3>1. i \in (Len(d) + 2)..(Len(d) + 1 + z) /\ k + i \in (Len(m) + 2)..(Len(m) + 1 + z)
      BY <1>1, <1>3, <1>8, <2>4
    <3>2. QED  BY <1>5, <1>6, <2>1, <3>1
  <2>5. CASE i > DataLen
    <3>1. /\ i - DataLen \in 1..8 /\ i = Len(d) + 1 + z + (i - DataLen)
          /\ k + i = Len(m) + 1 + z + (i - DataLen)
      BY <1>1, <1>3, <1>8, <2>5
    <3>2. s[k + i] = f[i - DataLen]
      BY <1>5, <3>1
    <3>3. e[i] = f[i - DataLen]
      BY <1>6, <3>1
    <3>4. QED  BY <2>1, <3>2, <3>3
  <2>6. i <= Len(d) \/ i = Len(d) + 1 \/ i \in (Len(d) + 2)..DataLen \/ i > DataLen
    <3>1. i \in Nat /\ Len(d) \in Nat /\ DataLen \in Nat
      BY <1>1, <1>8
    <3>2. QED  BY ONLY <3>1
  <2>7. QED  BY <2>2, <2>3, <2>4, <2>5, <2>6
<1>11. block = e
  BY <1>6, <1>7, <1>9, <1>10, SeqEqual
<1>12. QED  BY <1>11 DEF block, e, s, f, z, d, q

(* It does not: the block is filled with zeros, the next one holds the     *)
(* length.                                                                 *)
LEMMA TwoBlocks ==
  ASSUME NEW m \in Seq(Nat), ~Fits(m)
  PROVE  LET d == ContextOf(m).data
             s == Marked(m, Fill(m)) \o LengthField(Len(m)) IN
         /\ BlockOf(s, Quotient(m) + 1) = Marked(d, BlockLen - (Len(d) + 1))
         /\ BlockOf(s, Quotient(m) + 2) = Zeros(DataLen) \o LengthField(Len(m))
<1> DEFINE q == Quotient(m)
           k == q * BlockLen
           d == ContextOf(m).data
           z == Fill(m)
           f == LengthField(Len(m))
           s == Marked(m, z) \o f
           y == BlockLen - (Len(d) + 1)
           first == Marked(d, y)
           second == Zeros(DataLen) \o f
           blockOne == BlockOf(s, q + 1)
           blockTwo == BlockOf(s, q + 2)
<1>1. /\ DataLen \in Nat \ {0} /\ BlockLen \in Nat \ {0} /\ BlockLen = DataLen + 8
      /\ q \in Nat /\ k \in Nat /\ Len(m) \in Nat /\ k <= Len(m) /\ Len(m) < k + BlockLen
  BY BlockLenPositive, QuotientFacts
<1>2. d \in Seq(Nat) /\ Len(d) = Len(m) - k /\ \A i \in 1..Len(d) : d[i] = m[k + i]
  BY DataFacts
<1>3. z \in Nat /\ z = y + DataLen
  BY PaddingFacts DEF Fill
<1>4. Quotient(s) = q + 2 /\ s \in Seq(Nat)
  <2>1. Quotient(s) = Blocks(m) /\ s \in Seq(Nat)
    BY DigestIs
  <2>2. Blocks(m) = q + 2
    BY DEF Blocks
  <2> HIDE DEF s, q
  <2>3. QED  BY <2>1, <2>2
<1>5. Len(d) \in Nat /\ Len(d) + k = Len(m) /\ y \in Nat /\ Len(d) + 1 + y = BlockLen
  <2>1. Len(d) \in Nat
    BY <1>2
  <2>2. Len(d) + k = Len(m) /\ Len(d) < BlockLen
    <3> HIDE DEF q, k, d
    <3>1. QED  BY <1>1, <1>2, <2>1
  <2> HIDE DEF d
  <2>3. QED  BY <1>1, <2>1, <2>2
<1>6. f \in Seq(Nat) /\ Len(f) = 8
  BY <1>1, LengthFieldFacts
<1> HIDE DEF q, k, d, z, y
<1>7. /\ \A i \in 1..Len(m) : s[i] = m[i]
      /\ s[Len(m) + 1] = Mark
      /\ \A i \in (Len(m) + 2)..(Len(m) + 1 + z) : s[i] = 0
      /\ \A i \in 1..8 : s[Len(m) + 1 + z + i] = f[i]
  <2>1. m \in Seq(Nat) /\ z \in Nat /\ Len(m) \in Nat
    BY <1>1, <1>3
  <2>2. QED  BY ONLY <2>1, ClosedFacts
<1>8. /\ first \in Seq(Nat) /\ Len(first) = Len(d) + 1 + y
      /\ \A i \in 1..Len(d) : first[i] = d[i]
      /\ first[Len(d) + 1] = Mark
      /\ \A i \in (Len(d) + 2)..(Len(d) + 1 + y) : first[i] = 0
  <2>1. d \in Seq(Nat) /\ y \in Nat
    BY <1>2, <1>5
  <2>2. QED  BY ONLY <2>1, MarkedFacts
<1>9. blockOne \in Seq(Nat) /\ Len(blockOne) = BlockLen /\ \A i \in 1..BlockLen : blockOne[i] = s[k + i]
  <2>1. q + 1 \in 1..Quotient(s) /\ (q + 1) - 1 = q
    BY <1>1, <1>4
  <2>2. /\ blockOne \in Seq(Nat) /\ Len(blockOne) = BlockLen
        /\ \A i \in 1..BlockLen : blockOne[i] = s[((q + 1) - 1) * BlockLen + i]
    <3> HIDE DEF s
    <3>1. QED  BY <1>4, <2>1, BlockFacts
  <2>3. ((q + 1) - 1) * BlockLen = k
    BY <2>1 DEF k
  <2> HIDE DEF s, blockOne
  <2>4. QED  BY <2>2, <2>3
<1>10. /\ blockTwo \in Seq(Nat) /\ Len(blockTwo) = BlockLen
       /\ \A i \in 1..BlockLen : blockTwo[i] = s[k + BlockLen + i]
  <2>1. q + 2 \in 1..Quotient(s) /\ (q + 2) - 1 = q + 1
    BY <1>1, <1>4
  <2>2. /\ blockTwo \in Seq(Nat) /\ Len(blockTwo) = BlockLen
        /\ \A i \in 1..BlockLen : blockTwo[i] = s[((q + 2) - 1) * BlockLen + i]
    <3> HIDE DEF s
    <3>1. QED  BY <1>4, <2>1, BlockFacts
  <2>3. (q + 1) * BlockLen = k + BlockLen
    BY <1>1, Product DEF k
  <2>4. ((q + 2) - 1) * BlockLen = k + BlockLen
    BY <2>1, <2>3
  <2> HIDE DEF s, blockTwo
  <2>5. QED  BY <2>2, <2>4
<1>11. second \in Seq(Nat) /\ Len(second) = BlockLen
       /\ (\A i \in 1..DataLen : second[i] = 0) /\ \A i \in 1..8 : second[DataLen + i] = f[i]
  <2> DEFINE o == Zeros(DataLen)
  <2>1. o \in Seq(Nat) /\ Len(o) = DataLen /\ \A i \in 1..DataLen : o[i] = 0
    BY <1>1, ZerosFacts
  <2> HIDE DEF o, f
  <2>2. /\ o \o f \in Seq(Nat) /\ Len(o \o f) = Len(o) + Len(f)
        /\ \A i \in 1..Len(o) : (o \o f)[i] = o[i]
        /\ \A i \in 1..Len(f) : (o \o f)[Len(o) + i] = f[i]
    <3>1. o \in Seq(Nat) /\ f \in Seq(Nat)
      BY <1>6, <2>1
    <3>2. QED  BY <3>1, ConcatFacts
  <2>3. second = o \o f
    BY DEF o
  <2> HIDE DEF second
  <2>4. QED  BY <1>1, <1>6, <2>1, <2>2, <2>3
<1> HIDE DEF f, s, first, second, blockOne, blockTwo
<1>12. ASSUME NEW i \in 1..BlockLen  PROVE blockOne[i] = first[i]
  <2>1. blockOne[i] = s[k + i] /\ i \in Nat
    BY <1>1, <1>9
  <2>2. CASE i <= Len(d)
    <3>1. i \in 1..Len(d) /\ k + i \in 1..Len(m)
      BY <1>1, <1>5, <2>2
    <3>2. s[k + i] = m[k + i]
      BY <1>7, <3>1
    <3>3. first[i] = m[k + i]
      BY <1>2, <1>8, <3>1
    <3>4. QED  BY <2>1, <3>2, <3>3
  <2>3. CASE i = Len(d) + 1
    <3>1. k + (Len(d) + 1) = Len(m) + 1
      BY <1>1, <1>5
    <3>2. k + i = Len(m) + 1
      BY <2>3, <3>1
    <3>3. QED  BY <1>7, <1>8, <2>1, <2>3, <3>2
  <2>4. CASE i > Len(d) + 1
    <3>1. i \in (Len(d) + 2)..(Len(d) + 1 + y) /\ k + i \in (Len(m) + 2)..(Len(m) + 1 + z)
      BY <1>1, <1>3, <1>5, <2>1, <2>4
    <3>2. QED  BY <1>7, <1>8, <2>1, <3>1
  <2>5. i <= Len(d) \/ i = Len(d) + 1 \/ i > Len(d) + 1
    <3>1. i \in Nat /\ Len(d) \in Nat
      BY <1>5, <2>1
    <3>2. QED  BY ONLY <3>1
  <2>6. QED  BY <2>2, <2>3, <2>4, <2>5
<1>13. ASSUME NEW i \in 1..BlockLen  PROVE blockTwo[i] = second[i]
  <2>1. blockTwo[i] = s[k + BlockLen + i] /\ i \in Nat
    BY <1>1, <1>10
  <2>2. CASE i <= DataLen
    <3>1. i \in 1..DataLen /\ k + BlockLen + i \in (Len(m) + 2)..(Len(m) + 1 + z)
      BY <1>1, <1>3, <1>5, <2>1, <2>2
    <3>2. QED  BY <1>7, <1>11, <2>1, <3>1
  <2>3. CASE i > DataLen
    <3>1. /\ i - DataLen \in 1..8 /\ i = DataLen + (i - DataLen)
          /\ k + BlockLen + i = Len(m) + 1 + z + (i - DataLen)
      BY <1>1, <1>3, <1>5, <2>1, <2>3
    <3>2. s[k + BlockLen + i] = f[i - DataLen]
      BY <1>7, <3>1
    <3>3. second[i] = f[i - DataLen]
      BY <1>11, <3>1
    <3>4. QED  BY <2>1, <3>2, <3>3
  <2>4. i <= DataLen \/ i > DataLen
    BY <1>1, <2>1
  <2>5. QED  BY <2>2, <2>3, <2>4
<1>14. blockOne = first
  BY <1>5, <1>8, <1>9, <1>12, SeqEqual
<1>15. blockTwo = second
  BY <1>10, <1>11, <1>13, SeqEqual
<1>16. QED  BY <1>14, <1>15 DEF blockOne, blockTwo, first, second, s, f, z, y, d, q

(* Three parts put together.                                               *)
LEMMA ThreeParts ==
  ASSUME NEW s \in Seq(Nat), NEW t \in Seq(Nat), NEW u \in Seq(Nat)
  PROVE  (s \o t) \o u = s \o (t \o u)
BY ConcatAssociative

(* The full blocks of a message are those of the padded message.           *)
LEMMA FullBlocksStay ==
  ASSUME NEW m \in Seq(Nat), NEW z \in Nat, NEW f \in Seq(Nat), NEW b \in 1..Quotient(m)
  PROVE  BlockOf(Marked(m, z) \o f, b) = BlockOf(m, b)
<1> DEFINE a == <<Mark>>
           o == Zeros(z)
<1>1. a \in Seq(Nat) /\ o \in Seq(Nat)
  BY ZerosFacts DEF Mark
<1>2. Marked(m, z) \o f = ((m \o a) \o o) \o f
  BY DEF Marked
<1> HIDE DEF a, o
<1>3. a \o o \in Seq(Nat) /\ (a \o o) \o f \in Seq(Nat)
  BY <1>1, ConcatFacts
<1>4. (m \o a) \o o = m \o (a \o o)
  BY <1>1, ThreeParts
<1>5. (m \o (a \o o)) \o f = m \o ((a \o o) \o f)
  BY <1>3, ThreeParts
<1>6. Marked(m, z) \o f = m \o ((a \o o) \o f)
  BY <1>2, <1>4, <1>5
<1>7. QED  BY <1>3, <1>6, BlockStays

(* A sequence with two elements more.                                      *)
LEMMA TwoMore ==
  ASSUME NEW S, NEW s \in Seq(S), NEW x \in S, NEW y \in S
  PROVE  s \o <<x, y>> = Append(Append(s, x), y)
<1> DEFINE t == Append(s, x)
           u == Append(t, y)
           v == <<x, y>>
           n == Len(s)
<1>1. /\ t \in Seq(S) /\ Len(t) = n + 1
      /\ (\A i \in 1..n : t[i] = s[i]) /\ t[n + 1] = x
  BY AppendProperties
<1>2. /\ u \in Seq(S) /\ Len(u) = Len(t) + 1
      /\ (\A i \in 1..Len(t) : u[i] = t[i]) /\ u[Len(t) + 1] = y
  <2> HIDE DEF t
  <2>1. QED  BY <1>1, AppendProperties
<1>3. v \in Seq(S) /\ Len(v) = 2 /\ v[1] = x /\ v[2] = y
  OBVIOUS
<1>4. n \in Nat
  OBVIOUS
<1> HIDE DEF t, u, v
<1>5. /\ s \o v \in Seq(S) /\ Len(s \o v) = n + 2
      /\ \A i \in 1..(n + 2) : (s \o v)[i] = IF i <= n THEN s[i] ELSE v[i - n]
  <2>1. v \in Seq(S)
    BY <1>3
  <2>2. /\ s \o v \in Seq(S) /\ Len(s \o v) = Len(s) + Len(v)
        /\ \A i \in 1..(Len(s) + Len(v)) : (s \o v)[i] = IF i <= Len(s) THEN s[i] ELSE v[i - Len(s)]
    BY <2>1, ConcatProperties
  <2>3. Len(s) + Len(v) = n + 2
    BY <1>3
  <2>4. QED  BY <2>2, <2>3
<1>6. ASSUME NEW i \in 1..(n + 2)  PROVE (s \o v)[i] = u[i]
  <2> HIDE DEF n
  <2>1. CASE i \in 1..n
    BY <1>1, <1>2, <1>4, <1>5, <2>1
  <2>2. CASE i = n + 1
    <3>1. ~(i <= n) /\ i - n = 1 /\ i \in 1..Len(t)
      BY <1>1, <1>4, <2>2
    <3>2. QED  BY <1>1, <1>2, <1>3, <1>5, <2>2, <3>1
  <2>3. CASE i = n + 2
    <3>1. ~(i <= n) /\ i - n = 2 /\ i = Len(t) + 1
      BY <1>1, <1>4, <2>3
    <3>2. QED  BY <1>2, <1>3, <1>5, <3>1
  <2>4. i \in 1..n \/ i = n + 1 \/ i = n + 2
    BY <1>4
  <2>5. QED  BY <2>1, <2>2, <2>3, <2>4
<1>7. Len(u) = n + 2
  BY <1>1, <1>2, <1>4
<1>8. s \o v = u
  BY <1>2, <1>5, <1>6, <1>7, SeqEqual
<1>9. QED  BY <1>8 DEF u, t, v

(* sha256_final closes the context of a message with the padding of FIPS   *)
(* 180-4, for every message and at every turn of the last block.           *)
THEOREM FinalIsDigest ==
  ASSUME NEW m \in Seq(Nat)
  PROVE  sha256_final(ContextOf(m)) = Digest(m)
<1> DEFINE q == Quotient(m)
           d == ContextOf(m).data
           f == LengthField(Len(m))
           s == Marked(m, Fill(m)) \o f
           g == [b \in 1..Blocks(m) |-> BlockOf(s, b)]
           bs == [b \in 1..q |-> g[b]]
           y == BlockLen - (Len(d) + 1)
           first == Marked(d, y)
           second == Zeros(DataLen) \o f
           last == Marked(d, Fill(m)) \o f
<1>1. q \in Nat /\ Blocks(m) \in Nat /\ (Blocks(m) = q + 1 \/ Blocks(m) = q + 2)
  BY QuotientFacts DEF Blocks
<1>2. Quotient(s) = Blocks(m) /\ s \in Seq(Nat) /\ Digest(m) = g
  BY DigestIs
<1>3. \A b \in 1..Blocks(m) : g[b] \in Seq(Nat)
  <2> HIDE DEF s
  <2>1. QED  BY <1>2, BlockFacts
<1>4. \A b \in 1..q : g[b] = BlockOf(m, b)
  <2>1. Len(m) \in Nat /\ Fill(m) \in Nat
    BY PaddingFacts
  <2>2. f \in Seq(Nat)
    BY <2>1, LengthFieldFacts
  <2> HIDE DEF f
  <2>3. \A b \in 1..q : BlockOf(s, b) = BlockOf(m, b)
    BY <2>1, <2>2, FullBlocksStay
  <2>4. \A b \in 1..q : b \in 1..Blocks(m)
    BY <1>1
  <2> HIDE DEF s, q
  <2>5. QED  BY <2>3, <2>4
<1>5. bs = [b \in 1..q |-> BlockOf(m, b)]
  <2> HIDE DEF g, q
  <2>1. QED  BY <1>4
<1>6. sha256_final(ContextOf(m)) = IF Fits(m) THEN Append(bs, last) ELSE bs \o <<first, second>>
  <2> HIDE DEF bs
  <2>1. QED  BY <1>5, FinalIs
<1>7. CASE Fits(m)
  <2>1. Blocks(m) = q + 1
    BY <1>7 DEF Blocks
  <2>2. g[q + 1] = last
    <3>1. BlockOf(s, q + 1) = last
      BY <1>7, OneBlock
    <3>2. q + 1 \in 1..Blocks(m)
      BY <1>1, <2>1
    <3> HIDE DEF s, q, last
    <3>3. QED  BY <3>1, <3>2
  <2>3. g = [b \in 1..(q + 1) |-> g[b]]
    BY <2>1
  <2> HIDE DEF g, q, last
  <2>4. Append([b \in 1..q |-> g[b]], g[q + 1]) = [b \in 1..(q + 1) |-> g[b]]
    BY <1>1, <1>3, <2>1, OneMore
  <2>5. QED  BY <1>2, <1>6, <1>7, <2>2, <2>3, <2>4
<1>8. CASE ~Fits(m)
  <2>1. Blocks(m) = q + 2 /\ (q + 1) + 1 = q + 2
    BY <1>1, <1>8 DEF Blocks
  <2>2. g[q + 1] = first /\ g[q + 2] = second
    <3>1. BlockOf(s, q + 1) = first /\ BlockOf(s, q + 2) = second
      BY <1>8, TwoBlocks
    <3>2. q + 1 \in 1..Blocks(m) /\ q + 2 \in 1..Blocks(m)
      BY <1>1, <2>1
    <3> HIDE DEF s, q, first, second
    <3>3. QED  BY <3>1, <3>2
  <2>3. g = [b \in 1..(q + 2) |-> g[b]]
    BY <2>1
  <2> HIDE DEF g, q, first, second
  <2>4. /\ \A b \in 1..(q + 2) : g[b] \in Seq(Nat)
        /\ \A b \in 1..(q + 1) : g[b] \in Seq(Nat)
        /\ q \in Nat /\ q + 1 \in Nat
    BY <1>1, <1>3, <2>1
  <2>5. Append([b \in 1..q |-> g[b]], g[q + 1]) = [b \in 1..(q + 1) |-> g[b]]
    BY <2>4, OneMore
  <2>6. Append([b \in 1..(q + 1) |-> g[b]], g[(q + 1) + 1]) = [b \in 1..((q + 1) + 1) |-> g[b]]
    <3>1. \A b \in 1..((q + 1) + 1) : g[b] \in Seq(Nat)
      BY <2>1, <2>4
    <3>2. QED  BY <2>4, <3>1, OneMore
  <2>7. bs \in Seq(Seq(Nat)) /\ first \in Seq(Nat) /\ second \in Seq(Nat)
    <3>1. \A b \in 1..q : g[b] \in Seq(Nat)
      BY <2>4
    <3>2. bs \in [1..q -> Seq(Nat)]
      BY <3>1
    <3>3. first = g[q + 1] /\ second = g[q + 2] /\ q + 1 \in 1..(q + 2) /\ q + 2 \in 1..(q + 2)
      BY <2>2, <2>4
    <3> HIDE DEF bs
    <3>4. QED  BY <2>4, <3>2, <3>3, SeqDef
  <2> HIDE DEF bs
  <2>8. bs \o <<first, second>> = Append(Append(bs, first), second)
    BY <2>7, TwoMore
  <2>9. Append(bs, first) = [b \in 1..(q + 1) |-> g[b]]
    BY <2>2, <2>5 DEF bs
  <2>10. Append(Append(bs, first), second) = g
    BY <2>1, <2>2, <2>3, <2>6, <2>9
  <2>11. QED  BY <1>2, <1>6, <1>8, <2>8, <2>10
<1>9. QED  BY <1>7, <1>8

(* sha256_init gives the context of no bytes.                              *)
LEMMA StartsEmpty == sha256_init = ContextOf(<<>>)
<1>1. <<>> \in Seq(Nat) /\ Len(<<>>) = 0
  OBVIOUS
<1>2. Quotient(<<>>) = 0
  BY <1>1, BlockLenPositive, DivisionOf DEF Quotient
<1>3. Quotient(<<>>) * BlockLen = 0
  BY <1>2, BlockLenPositive
<1>4. SubSeq(<<>>, 1, 0) = <<>>
  BY SubSeqEmpty
<1>5. [b \in 1..0 |-> BlockOf(<<>>, b)] = <<>>
  OBVIOUS
<1>6. QED  BY <1>1, <1>2, <1>3, <1>4, <1>5 DEF ContextOf, sha256_init

(* The digest that sha256_file_hex makes of a file in one sha256_update.   *)
THEOREM DigestOfFile ==
  ASSUME NEW m \in Seq(Nat)
  PROVE  sha256_final(sha256_update(sha256_init, m)) = Digest(m)
<1>1. <<>> \in Seq(Nat) /\ <<>> \o m = m
  BY ConcatEmptySeq
<1>2. sha256_update(sha256_init, m) = ContextOf(m)
  BY <1>1, StartsEmpty, UpdateInPieces
<1>3. QED  BY <1>2, FinalIsDigest

(* Two calls of sha256_update are one with the bytes of both.              *)
THEOREM UpdatesCompose ==
  ASSUME NEW m \in Seq(Nat), NEW w \in Seq(Nat)
  PROVE  sha256_update(sha256_update(sha256_init, m), w) = sha256_update(sha256_init, m \o w)
<1>1. m \o w \in Seq(Nat) /\ <<>> \in Seq(Nat)
  BY ConcatFacts
<1>2. <<>> \o m = m /\ <<>> \o (m \o w) = m \o w
  BY <1>1, ConcatEmptySeq
<1>3. sha256_update(sha256_init, m) = ContextOf(m) /\ sha256_update(sha256_init, m \o w) = ContextOf(m \o w)
  BY <1>1, <1>2, StartsEmpty, UpdateInPieces
<1>4. QED  BY <1>3, UpdateInPieces
-----------------------------------------------------------------------------

(* The lock is held for writing while the manifest is assigned, and nobody *)
(* copies it meanwhile.                                                    *)
LockInv ==
  /\ locked <=> reloader \in {"assign version", "assign rest", "unlock"}
  /\ locked => Reading = {}

(* Outside of the assignment the manifest is one that was put in force; in *)
(* the middle of it the version is already that of the new one.            *)
ForceInv ==
  /\ reloader # "assign rest" => manifest \in inForce
  /\ reloader \in {"assign version", "assign rest"} => next \in inForce
  /\ reloader = "assign rest" => manifest.ver = next.ver

(* A session that has copied the version holds the manifest's.             *)
CopyInv == \A r \in Reader : reader[r] = "copy rest" => copy[r].ver = manifest.ver

(* While nobody edits the package file, vm_reload has its size, and what   *)
(* has been read of it is its beginning, in the end the whole.             *)
LoadInv ==
  ~disturbed =>
    /\ reloader \in {"hash", "compare"} => next.size = Len(package)
    /\ reloader = "hash" => Len(got) <= Len(package) /\ got = SubSeq(package, 1, Len(got))
    /\ reloader = "compare" => next.digest = package

ManifestInv == ManifestTypeOK /\ LockInv /\ ForceInv /\ CopyInv /\ SnapshotIsWhole /\ LoadInv

(* What one read takes of a package is a sequence of bytes.                *)
LEMMA ChunkType ==
  ASSUME NEW s \in Seq(Nat), NEW g \in Seq(Nat), NEW b \in Nat, b <= Len(s)
  PROVE  g \o SubSeq(s, Len(g) + 1, b) \in Seq(Nat)
<1>1. Len(g) \in Nat /\ Len(s) \in Nat
  OBVIOUS
<1>2. SubSeq(s, Len(g) + 1, b) \in Seq(Nat)
  BY <1>1, SubSeqProperties
<1>3. QED  BY <1>2, ConcatProperties

(* A copy that has the version so far.                                     *)
LEMMA NothingTyped ==
  ASSUME NEW v \in Nat
  PROVE  [Nothing EXCEPT !.ver = v] \in Description
<1>1. [Nothing EXCEPT !.ver = v] = Described(v, 0, << >>)
  BY DEF Nothing, Described
<1>2. << >> \in Seq(Nat)
  BY EmptySeq
<1>3. Described(v, 0, << >>) \in Description
  BY <1>2 DEF Described, Description
<1>4. QED  BY <1>1, <1>3

(* Every step keeps the types.                                             *)
LEMMA TypeStep ==
  ASSUME ManifestTypeOK, ManifestStep
  PROVE  ManifestTypeOK'
<1> USE ManifestAssumption DEF ManifestTypeOK
<1>1. ASSUME NEW c \in Conf, EditConf(c)  PROVE ManifestTypeOK'
  BY <1>1 DEF EditConf, loadVars, readVars, historyVars
<1>2. ASSUME NEW p \in Content, EditPackage(p)  PROVE ManifestTypeOK'
  BY <1>2 DEF EditPackage, loadVars, readVars
<1>3. CASE SigHup
  BY <1>3 DEF SigHup, fileVars, loadVars, readVars, historyVars
<1>4. CASE SigTerm
  BY <1>4 DEF SigTerm, fileVars, loadVars, readVars, historyVars
<1>5. CASE ReloadTest
  BY <1>5 DEF ReloadTest, ReloaderAt, OthersStill, ReloaderPC, fileVars, readVars, historyVars
<1>6. CASE ReloadClear
  BY <1>6 DEF ReloadClear, ReloaderAt, OthersStill, ReloaderPC, fileVars, readVars, historyVars
<1>7. CASE ReloadConf
  <2>1. CASE Loadable(conf) /\ FieldsValid(conf)
    <3>1. cfg_get(conf, "LATEST_VERSION", 0) \in Nat
      BY <2>1 DEF FieldsValid
    <3>2. next' = [ver |-> cfg_get(conf, "LATEST_VERSION", 0), size |-> 0, digest |-> <<>>]
      BY <1>7, <2>1 DEF ReloadConf, Nothing, Described
    <3>3. next' \in Description
      BY <3>1, <3>2 DEF Description
    <3>4. reloader' \in ReloaderPC
      BY <1>7, <2>1 DEF ReloadConf, ReloaderAt, ReloaderPC
    <3>5. UNCHANGED <<hup, manifest, got, locked, inForce, running, fileVars, readVars, edits, signals>>
      BY <1>7 DEF ReloadConf, OthersStill
    <3>6. seen' = edits /\ disturbed' = FALSE
      BY <1>7 DEF ReloadConf
    <3>7. QED  BY <3>3, <3>4, <3>5, <3>6 DEF fileVars, readVars
  <2>2. CASE ~(Loadable(conf) /\ FieldsValid(conf))
    BY <1>7, <2>2 DEF ReloadConf, ReloaderAt, OthersStill, ReloaderPC, fileVars, readVars
  <2>3. QED  BY <2>1, <2>2
<1>8. CASE ReloadSize
  <2> package \in Seq(Nat) /\ Len(package) \in Nat
    OBVIOUS
  <2>1. next' = next \/ next' = [next EXCEPT !.size = Len(package)]
    BY <1>8 DEF ReloadSize
  <2>2. next' \in Description
    BY <2>1 DEF Description
  <2>3. got' \in Seq(Nat)
    <3>1. got' = <<>> \/ got' = got
      BY <1>8 DEF ReloadSize
    <3>2. QED  BY <3>1, EmptySeq
  <2>4. QED
    BY <1>8, <2>2, <2>3 DEF ReloadSize, ReloaderAt, OthersStill, ReloaderPC, fileVars, readVars, historyVars
<1>9. CASE ReloadRead
  <2> DEFINE until == IF Len(package) < Len(got) + ReadLen THEN Len(package) ELSE Len(got) + ReadLen
  <2>1. package \in Seq(Nat) /\ until \in Nat /\ until <= Len(package)
    OBVIOUS
  <2>2. got' = got \o SubSeq(package, Len(got) + 1, until)
    BY <1>9 DEF ReloadRead
  <2>3. got' \in Seq(Nat)
    BY <2>1, <2>2, ChunkType
  <2>4. next' = next \/ next' = [next EXCEPT !.digest = got']
    BY <1>9 DEF ReloadRead
  <2>5. next' \in Description
    BY <2>3, <2>4 DEF Description
  <2>6. reloader' \in ReloaderPC
    BY <1>9 DEF ReloadRead, ReloaderAt, ReloaderPC
  <2>7. UNCHANGED <<hup, manifest, entries, locked, historyVars, running, fileVars, readVars, edits, signals>>
    BY <1>9 DEF ReloadRead, OthersStill
  <2>8. QED
    BY <2>3, <2>5, <2>6, <2>7 DEF fileVars, readVars, historyVars
<1>10. CASE ReloadCompare
  BY <1>10 DEF ReloadCompare, ReloaderAt, OthersStill, ReloaderPC, fileVars, readVars, historyVars
<1>11. CASE ReloadLock
  BY <1>11 DEF ReloadLock, ReloaderAt, OthersStill, ReloaderPC, fileVars, readVars
<1>12. CASE ReloadAssign
  <2>1. manifest' \in Description
    BY <1>12 DEF ReloadAssign, Description
  <2>2. QED
    BY <1>12, <2>1 DEF ReloadAssign, ReloaderAt, OthersStill, ReloaderPC, fileVars, readVars,
                       historyVars
<1>13. CASE ReloadUnlock
  BY <1>13 DEF ReloadUnlock, ReloaderAt, OthersStill, ReloaderPC, fileVars, readVars, historyVars
<1>14. CASE ReloadLogged
  BY <1>14 DEF ReloadLogged, ReloaderAt, OthersStill, ReloaderPC, fileVars, readVars, historyVars
<1>15. ASSUME NEW r \in Reader, ReadLock(r)  PROVE ManifestTypeOK'
  <2>1. reader' = [reader EXCEPT ![r] = "copy version"]
    BY <1>15 DEF ReadLock, ReaderAt
  <2>2. reader' \in [Reader -> ReaderPC]
    BY <2>1 DEF ReaderPC
  <2>3. copies' \in Nat
    <3>1. copies \in Nat /\ copies > 0 /\ copies' = copies - 1
      BY <1>15 DEF ReadLock
    <3>2. QED  BY ONLY <3>1
  <2>4. QED
    BY <1>15, <2>2, <2>3 DEF ReadLock, OperatorStill, fileVars, loadVars, historyVars
<1>16. ASSUME NEW r \in Reader, ReadCopy(r)  PROVE ManifestTypeOK'
  <2>1. [Nothing EXCEPT !.ver = manifest.ver] \in Description
    <3>1. manifest.ver \in Nat
      BY DEF Description
    <3>2. QED  BY <3>1, NothingTyped
  <2>2. [manifest EXCEPT !.ver = copy[r].ver] \in Description
    BY DEF Description
  <2>3. copy' \in [Reader -> Description]
    BY <1>16, <2>1, <2>2 DEF ReadCopy
  <2>4. QED
    BY <1>16, <2>3 DEF ReadCopy, ReaderAt, ReaderPC, OperatorStill, fileVars, loadVars, historyVars
<1>17. ASSUME NEW r \in Reader, ReadLogged(r)  PROVE ManifestTypeOK'
  <2>1. copy' \in [Reader -> Description]
    BY <1>17 DEF ReadLogged, Description, Nothing, Described
  <2>2. QED
    BY <1>17, <2>1 DEF ReadLogged, ReaderAt, ReaderPC, OperatorStill, fileVars, loadVars, historyVars
<1>18. ASSUME NEW r \in Reader, ReaderLeaves(r)  PROVE ManifestTypeOK'
  BY <1>18 DEF ReaderLeaves, ReaderAt, ReaderPC, OperatorStill, fileVars, loadVars, historyVars
<1>19. CASE ReloadUnread
  BY <1>19 DEF ReloadUnread, ReloaderAt, OthersStill, ReloaderPC, fileVars, readVars, historyVars
<1>20. QED
  BY <1>1, <1>2, <1>3, <1>4, <1>5, <1>6, <1>7, <1>8, <1>9, <1>10, <1>11, <1>12, <1>13, <1>14,
     <1>15, <1>16, <1>17, <1>18, <1>19 DEF ManifestStep, Operator, ReloadWork, ReadWork, ReloadHash

(* A step that leaves the lock, the copying sessions and the assignment    *)
(* where they are keeps the lock's invariant.                              *)
LEMMA LockStill ==
  ASSUME LockInv, UNCHANGED <<locked, reader>>,
         reloader' \in {"assign version", "assign rest", "unlock"}
           <=> reloader \in {"assign version", "assign rest", "unlock"}
  PROVE  LockInv'
BY DEF LockInv, Reading

(* Every step keeps the lock's invariant.                                  *)
LEMMA LockStep ==
  ASSUME ManifestTypeOK, LockInv, ManifestStep
  PROVE  LockInv'
<1>1. ASSUME NEW c \in Conf, EditConf(c)  PROVE LockInv'
  BY <1>1, LockStill DEF EditConf, loadVars, readVars
<1>2. ASSUME NEW p \in Content, EditPackage(p)  PROVE LockInv'
  BY <1>2, LockStill DEF EditPackage, loadVars, readVars
<1>3. CASE SigHup \/ SigTerm
  BY <1>3, LockStill DEF SigHup, SigTerm, loadVars, readVars
<1>4. CASE ReloadTest \/ ReloadClear \/ ReloadConf \/ ReloadSize \/ ReloadHash \/ ReloadCompare
             \/ ReloadAssign \/ ReloadLogged
  <2>1. UNCHANGED <<locked, reader>>
    BY <1>4 DEF ReloadTest, ReloadClear, ReloadConf, ReloadSize, ReloadHash, ReloadRead,
                ReloadUnread, ReloadCompare, ReloadAssign, ReloadLogged, OthersStill, readVars
  <2>2. reloader' \in {"assign version", "assign rest", "unlock"}
          <=> reloader \in {"assign version", "assign rest", "unlock"}
    BY <1>4 DEF ReloadTest, ReloadClear, ReloadConf, ReloadSize, ReloadHash, ReloadRead,
                ReloadUnread, ReloadCompare, ReloadAssign, ReloadLogged, ReloaderAt
  <2>3. QED  BY <2>1, <2>2, LockStill
<1>5. CASE ReloadLock
  <2>1. reloader' = "assign version" /\ locked' = TRUE /\ reader' = reader /\ Reading = {}
    BY <1>5 DEF ReloadLock, NoReaders, ReloaderAt, OthersStill, readVars
  <2>2. QED  BY <2>1 DEF LockInv, Reading
<1>6. CASE ReloadUnlock
  <2>1. reloader' = "log" /\ locked' = FALSE
    BY <1>6 DEF ReloadUnlock, ReloaderAt
  <2>2. QED  BY <2>1 DEF LockInv
<1>7. ASSUME NEW r \in Reader, ReadLock(r)  PROVE LockInv'
  <2>1. ~locked /\ locked' = locked /\ reloader' = reloader
    BY <1>7 DEF ReadLock, OperatorStill, loadVars
  <2>2. QED  BY <2>1 DEF LockInv
<1>8. ASSUME NEW r \in Reader, ReadCopy(r) \/ ReadLogged(r) \/ ReaderLeaves(r)  PROVE LockInv'
  <2>1. locked' = locked /\ reloader' = reloader
    BY <1>8 DEF ReadCopy, ReadLogged, ReaderLeaves, OperatorStill, loadVars
  <2>2. Reading' \subseteq Reading
    BY <1>8 DEF ReadCopy, ReadLogged, ReaderLeaves, ReaderAt, Reading, ManifestTypeOK
  <2>3. QED  BY <2>1, <2>2 DEF LockInv
<1>9. QED
  BY <1>1, <1>2, <1>3, <1>4, <1>5, <1>6, <1>7, <1>8 DEF ManifestStep, Operator, ReloadWork, ReadWork

(* A description with another one's version is that one, when the versions *)
(* agree.                                                                  *)
LEMMA SameVersion ==
  ASSUME NEW d \in Description, NEW v, v = d.ver
  PROVE  [d EXCEPT !.ver = v] = d
BY DEF Description

(* The steps that neither assign the manifest nor copy it.                 *)
Elsewhere ==
  /\ UNCHANGED manifest /\ inForce \subseteq inForce'
  /\ reloader' = "assign rest" <=> reloader = "assign rest"
  /\ reloader = "assign rest" => UNCHANGED next
  /\ reloader' \in {"assign version", "assign rest"} =>
       UNCHANGED <<reloader, next>> \/ next' \in inForce'
  /\ \A r \in Reader : reader'[r] \in {"copy rest", "use"} => reader'[r] = reader[r] /\ copy'[r] = copy[r]

(* They keep what is said of the manifest in force and of the copies.      *)
LEMMA ElsewhereKeeps ==
  ASSUME ManifestInv, Elsewhere
  PROVE  ForceInv' /\ CopyInv' /\ SnapshotIsWhole'
BY DEF ManifestInv, Elsewhere, ForceInv, CopyInv, SnapshotIsWhole

(* Every step keeps what is said of the manifest in force and of the       *)
(* copies.                                                                 *)
LEMMA CopyStep ==
  ASSUME ManifestInv, ManifestStep
  PROVE  ForceInv' /\ CopyInv' /\ SnapshotIsWhole'
<1> USE DEF ManifestInv
<1>1. ASSUME NEW c \in Conf, EditConf(c)  PROVE Elsewhere
  BY <1>1 DEF EditConf, Elsewhere, loadVars, readVars, historyVars
<1>2. ASSUME NEW p \in Content, EditPackage(p)  PROVE Elsewhere
  BY <1>2 DEF EditPackage, Elsewhere, loadVars, readVars
<1>3. CASE SigHup \/ SigTerm
  <2>1. Elsewhere
    BY <1>3 DEF SigHup, SigTerm, Elsewhere, loadVars, readVars, historyVars
  <2>2. QED  BY <2>1, ElsewhereKeeps
<1>4. CASE ReloadTest \/ ReloadClear \/ ReloadConf \/ ReloadSize \/ ReloadHash \/ ReloadCompare
             \/ ReloadUnlock \/ ReloadLogged
  <2>1. UNCHANGED <<manifest, inForce, reader, copy>>
    BY <1>4 DEF ReloadTest, ReloadClear, ReloadConf, ReloadSize, ReloadHash, ReloadRead,
                ReloadUnread, ReloadCompare, ReloadUnlock, ReloadLogged, OthersStill, readVars,
                historyVars
  <2>2. reloader # "assign rest" /\ reloader' \notin {"assign version", "assign rest"}
    BY <1>4 DEF ReloadTest, ReloadClear, ReloadConf, ReloadSize, ReloadHash, ReloadRead,
                ReloadUnread, ReloadCompare, ReloadUnlock, ReloadLogged, ReloaderAt
  <2>3. Elsewhere
    BY <2>1, <2>2 DEF Elsewhere
  <2>4. QED  BY <2>3, ElsewhereKeeps
<1>5. CASE ReloadAssign
  <2>1. Reading = {} /\ UNCHANGED <<reader, copy, next>>
    BY <1>5 DEF ReloadAssign, LockInv, OthersStill, readVars
  <2>2. CopyInv'
    BY <2>1 DEF CopyInv, Reading
  <2>3. CASE reloader = "assign version"
    <3>1. manifest' = [manifest EXCEPT !.ver = next.ver] /\ UNCHANGED inForce
          /\ reloader' = "assign rest"
      BY <1>5, <2>3 DEF ReloadAssign, ReloaderAt, historyVars
    <3>2. manifest'.ver = next.ver
      BY <3>1 DEF ManifestTypeOK, Description
    <3>3. QED  BY <2>1, <2>2, <2>3, <3>1, <3>2 DEF ForceInv, SnapshotIsWhole
  <2>4. CASE reloader = "assign rest"
    <3>1. manifest' = [next EXCEPT !.ver = manifest.ver] /\ UNCHANGED inForce
          /\ reloader' = "unlock"
      BY <1>5, <2>4 DEF ReloadAssign, ReloaderAt, historyVars
    <3>2. manifest' = next
      BY <2>4, <3>1, SameVersion DEF ForceInv, ManifestTypeOK
    <3>3. QED  BY <2>1, <2>2, <2>4, <3>1, <3>2 DEF ForceInv, SnapshotIsWhole
  <2>5. QED  BY <1>5, <2>3, <2>4 DEF ReloadAssign
<1>6. CASE ReloadLock
  <2>1. /\ UNCHANGED <<manifest, reader, copy, next>> /\ inForce' = inForce \cup {next}
        /\ reloader = "lock" /\ reloader' = "assign version"
    BY <1>6 DEF ReloadLock, ReloaderAt, OthersStill, readVars
  <2>2. Elsewhere
    BY <2>1 DEF Elsewhere
  <2>3. QED  BY <2>2, ElsewhereKeeps
<1>7. ASSUME NEW r \in Reader, ReadLock(r) \/ ReadLogged(r) \/ ReaderLeaves(r)  PROVE Elsewhere
  BY <1>7 DEF ReadLock, ReadLogged, ReaderLeaves, ReaderAt, OperatorStill, Elsewhere, loadVars,
              historyVars, ManifestTypeOK
<1>8. ASSUME NEW r \in Reader, ReadCopy(r)  PROVE ForceInv' /\ CopyInv' /\ SnapshotIsWhole'
  <2>1. UNCHANGED <<manifest, inForce, reloader, next>>
    BY <1>8 DEF ReadCopy, OperatorStill, loadVars, historyVars
  <2>2. ForceInv'
    BY <2>1 DEF ForceInv
  <2>3. r \in Reading
    BY <1>8 DEF ReadCopy, Reading
  <2>4. manifest \in inForce
    BY <2>3 DEF LockInv, ForceInv
  <2>5. CASE reader[r] = "copy version"
    <3>1. reader' = [reader EXCEPT ![r] = "copy rest"]
          /\ copy' = [copy EXCEPT ![r] = [Nothing EXCEPT !.ver = manifest.ver]]
      BY <1>8, <2>5 DEF ReadCopy, ReaderAt
    <3>2. [Nothing EXCEPT !.ver = manifest.ver].ver = manifest.ver
      BY DEF Nothing, Described
    <3>3. QED  BY <2>1, <2>2, <3>1, <3>2 DEF CopyInv, SnapshotIsWhole, ManifestTypeOK
  <2>6. CASE reader[r] = "copy rest"
    <3>1. reader' = [reader EXCEPT ![r] = "use"]
          /\ copy' = [copy EXCEPT ![r] = [manifest EXCEPT !.ver = copy[r].ver]]
      BY <1>8, <2>6 DEF ReadCopy, ReaderAt
    <3>2. [manifest EXCEPT !.ver = copy[r].ver] = manifest
      BY <2>6, SameVersion DEF CopyInv, ManifestTypeOK
    <3>3. QED  BY <2>1, <2>2, <2>4, <3>1, <3>2 DEF CopyInv, SnapshotIsWhole, ManifestTypeOK
  <2>7. QED  BY <1>8, <2>5, <2>6 DEF ReadCopy
<1>9. QED
  BY <1>1, <1>2, <1>3, <1>4, <1>5, <1>6, <1>7, <1>8, ElsewhereKeeps
  DEF ManifestStep, Operator, ReloadWork, ReadWork

(* The bytes of p behind the first n, up to the first b.                   *)
LEMMA SubSeqBehind ==
  ASSUME NEW p \in Seq(Nat), NEW n \in Nat, NEW b \in Nat, n <= b, b <= Len(p)
  PROVE  SubSeq(p, n + 1, b) \in Seq(Nat) /\ Len(SubSeq(p, n + 1, b)) = b - n
<1> DEFINE i == n + 1
<1>1. i \in Nat \ {0} /\ i <= b + 1 /\ b + 1 - i = b - n
  OBVIOUS
<1> HIDE DEF i
<1>2. SubSeq(p, i, b) \in Seq(Nat) /\ Len(SubSeq(p, i, b)) = b + 1 - i
  BY <1>1, SubSeqInside
<1>3. QED  BY <1>1, <1>2 DEF i

(* One read more of the package file: the beginning that was read is       *)
(* longer, and it is the whole when the read came short.                   *)
LEMMA ReadMore ==
  ASSUME NEW p \in Seq(Nat), NEW g \in Seq(Nat), Len(g) <= Len(p), g = SubSeq(p, 1, Len(g)),
         NEW b \in Nat, b = IF Len(p) < Len(g) + ReadLen THEN Len(p) ELSE Len(g) + ReadLen
  PROVE  LET chunk == SubSeq(p, Len(g) + 1, b) IN
         /\ Len(g \o chunk) = b /\ b <= Len(p) /\ g \o chunk = SubSeq(p, 1, b)
         /\ LastRead(chunk) => g \o chunk = p
<1> DEFINE n == Len(g)
           chunk == SubSeq(p, n + 1, b)
<1>1. n \in Nat /\ Len(p) \in Nat /\ n <= Len(p) /\ n <= b /\ b <= Len(p)
  BY ManifestAssumption
<1>2. chunk \in Seq(Nat) /\ Len(chunk) = b - n
  <2>1. \A k \in Nat : k <= b => /\ SubSeq(p, k + 1, b) \in Seq(Nat)
                              /\ Len(SubSeq(p, k + 1, b)) = b - k
    BY <1>1, SubSeqBehind
  <2>2. QED  BY <1>1, <2>1
<1>3. SubSeq(p, 1, n) \o SubSeq(p, n + 1, b) = SubSeq(p, 1, b)
  <2>1. 1 \in 1..(Len(p) + 1) /\ n \in (1 - 1)..Len(p) /\ b \in n..Len(p)
    BY <1>1
  <2> HIDE DEF n
  <2>2. QED  BY <2>1, ConcatAdjacentSubSeq
<1>4. g \o chunk = SubSeq(p, 1, b)
  BY <1>3
<1>5. Len(g \o chunk) = b
  <2>1. Len(g \o chunk) = n + Len(chunk)
    BY <1>2, ConcatProperties
  <2> HIDE DEF chunk
  <2>2. QED  BY <1>1, <1>2, <2>1
<1>6. ASSUME LastRead(chunk)  PROVE g \o chunk = p
  <2>1. Len(chunk) < ReadLen
    BY <1>6 DEF LastRead
  <2> HIDE DEF chunk
  <2>2. b = Len(p)
    BY <1>1, <1>2, <2>1, ManifestAssumption
  <2>3. SubSeq(p, 1, Len(p)) = p
    BY SubSeqFull
  <2>4. QED  BY <1>4, <2>2, <2>3
<1>7. QED  BY <1>1, <1>4, <1>5, <1>6

(* Every step keeps what is said of a load.                                *)
LEMMA LoadStep ==
  ASSUME ManifestTypeOK, LoadInv, ManifestStep
  PROVE  LoadInv'
<1>1. ASSUME UNCHANGED <<reloader, next, got, package, disturbed>>  PROVE LoadInv'
  BY <1>1 DEF LoadInv
<1>2. ASSUME reloader' \notin {"hash", "compare"}  PROVE LoadInv'
  BY <1>2 DEF LoadInv
<1>3. ASSUME NEW c \in Conf, EditConf(c)  PROVE LoadInv'
  BY <1>1, <1>3 DEF EditConf, loadVars, historyVars
<1>4. ASSUME NEW p \in Content, EditPackage(p)  PROVE LoadInv'
  <2>1. reloader' = reloader /\ disturbed' = (disturbed \/ reloader \in {"hash", "compare"})
    BY <1>4 DEF EditPackage, loadVars
  <2>2. QED  BY <2>1 DEF LoadInv
<1>5. CASE SigHup \/ SigTerm
  BY <1>1, <1>5 DEF SigHup, SigTerm, fileVars, loadVars, historyVars
<1>6. CASE ReloadTest \/ ReloadClear \/ ReloadConf \/ ReloadUnread \/ ReloadCompare \/ ReloadLock
             \/ ReloadAssign \/ ReloadUnlock \/ ReloadLogged
  <2>1. reloader' \notin {"hash", "compare"}
    BY <1>6 DEF ReloadTest, ReloadClear, ReloadConf, ReloadUnread, ReloadCompare, ReloadLock,
                ReloadAssign, ReloadUnlock, ReloadLogged, ReloaderAt
  <2>2. QED  BY <1>2, <2>1
<1>7. CASE ReloadSize
  <2>1. CASE PackageThere(entries)
    <3>1. /\ reloader' = "hash" /\ next' = [next EXCEPT !.size = Len(package)] /\ got' = <<>>
          /\ package' = package
      BY <1>7, <2>1 DEF ReloadSize, ReloaderAt, OthersStill, fileVars
    <3>2. next'.size = Len(package')
      BY <3>1 DEF ManifestTypeOK, Description
    <3>3. package' \in Seq(Nat) /\ Len(package') \in Nat
      BY <3>1, ManifestAssumption DEF ManifestTypeOK
    <3>4. Len(got') = 0 /\ got' = SubSeq(package', 1, 0)
      BY <3>1, SubSeqEmpty
    <3>5. QED  BY <3>1, <3>2, <3>3, <3>4 DEF LoadInv
  <2>2. CASE ~PackageThere(entries)
    <3>1. reloader' = "log"
      BY <1>7, <2>2 DEF ReloadSize, ReloaderAt
    <3>2. QED  BY <1>2, <3>1
  <2>3. QED  BY <2>1, <2>2
<1>8. CASE ReloadRead
  <2> DEFINE until == IF Len(package) < Len(got) + ReadLen THEN Len(package) ELSE Len(got) + ReadLen
             chunk == SubSeq(package, Len(got) + 1, until)
  <2>1. SUFFICES ASSUME ~disturbed  PROVE LoadInv'
    BY <1>8 DEF ReloadRead, historyVars, LoadInv
  <2>2. /\ reloader = "hash" /\ package' = package /\ disturbed' = disturbed
        /\ got' = got \o chunk
        /\ LastRead(chunk) => reloader' = "compare" /\ next' = [next EXCEPT !.digest = got']
        /\ ~LastRead(chunk) => reloader' = reloader /\ next' = next
    BY <1>8 DEF ReloadRead, ReloaderAt, OthersStill, fileVars, historyVars
  <2>3. /\ next.size = Len(package) /\ Len(got) <= Len(package) /\ got = SubSeq(package, 1, Len(got))
        /\ package \in Seq(Nat) /\ got \in Seq(Nat) /\ next \in Description
    BY <2>1, <2>2, ManifestAssumption DEF LoadInv, ManifestTypeOK
  <2>4. /\ until \in Nat /\ Len(got') = until /\ until <= Len(package) /\ got' = SubSeq(package, 1, until)
        /\ LastRead(chunk) => got' = package
    <3>1. until \in Nat
      BY <2>3, ManifestAssumption
    <3>2. /\ Len(got \o chunk) = until /\ until <= Len(package) /\ got \o chunk = SubSeq(package, 1, until)
          /\ LastRead(chunk) => got \o chunk = package
      BY <2>3, <3>1, ReadMore
    <3> HIDE DEF chunk, until
    <3>3. QED  BY <2>2, <3>1, <3>2
  <2> HIDE DEF chunk, until
  <2>5. next'.size = next.size /\ (LastRead(chunk) => next'.digest = got')
    BY <2>2, <2>3 DEF Description
  <2>6. QED  BY <2>2, <2>3, <2>4, <2>5 DEF LoadInv
<1>9. ASSUME NEW r \in Reader, ReadLock(r) \/ ReadCopy(r) \/ ReadLogged(r) \/ ReaderLeaves(r)
      PROVE  LoadInv'
  BY <1>1, <1>9 DEF ReadLock, ReadCopy, ReadLogged, ReaderLeaves, OperatorStill, fileVars, loadVars,
                    historyVars
<1>10. QED
  BY <1>3, <1>4, <1>5, <1>6, <1>7, <1>8, <1>9
     DEF ManifestStep, Operator, ReloadWork, ReloadHash, ReadWork

(* The server starts with the manifest it has loaded.                      *)
LEMMA InitIsSound == ManifestInit => ManifestInv
<1> SUFFICES ASSUME ManifestInit PROVE ManifestInv
  OBVIOUS
<1> USE ManifestAssumption
<1>1. manifest \in Description
  <2>1. cfg_get(conf, "LATEST_VERSION", 0) \in Nat
    BY DEF ManifestInit, FieldsValid
  <2>2. package \in Seq(Nat) /\ Len(package) \in Nat
    BY DEF ManifestInit
  <2>3. QED  BY <2>1, <2>2 DEF ManifestInit, Described, Description
<1>2. Nothing \in Description
  BY DEF Nothing, Described, Description
<1>3. ManifestTypeOK
  <2>1. reader \in [Reader -> ReaderPC] /\ copy \in [Reader -> Description]
    BY <1>2 DEF ManifestInit, ReaderPC
  <2>2. inForce \subseteq Description /\ got \in Seq(Nat)
    BY <1>1 DEF ManifestInit
  <2>3. QED
    BY <1>1, <1>2, <2>1, <2>2 DEF ManifestInit, ManifestTypeOK, ReloaderPC
<1>4. LockInv /\ ForceInv /\ CopyInv /\ SnapshotIsWhole /\ LoadInv
  BY DEF ManifestInit, LockInv, Reading, ForceInv, CopyInv, SnapshotIsWhole, LoadInv
<1>5. QED  BY <1>3, <1>4 DEF ManifestInv

(* The parts together, for a step and for a stutter.                       *)
LEMMA ManifestInvStep == ManifestInv /\ [ManifestStep]_manifestVars => ManifestInv'
<1>1. ASSUME ManifestInv, ManifestStep  PROVE ManifestInv'
  BY <1>1, TypeStep, LockStep, CopyStep, LoadStep DEF ManifestInv
<1>2. ASSUME ManifestInv, UNCHANGED manifestVars  PROVE ManifestInv'
  BY <1>2 DEF ManifestInv, ManifestTypeOK, LockInv, Reading, ForceInv, CopyInv, SnapshotIsWhole,
              LoadInv, manifestVars, fileVars, loadVars, readVars, historyVars
<1>3. QED  BY <1>1, <1>2

(* The invariant of vm_reload, vm_get_snapshot and the rwlock holds in     *)
(* every behaviour.                                                        *)
THEOREM ManifestIsSound == ManifestSpec => []ManifestInv
BY InitIsSound, ManifestInvStep, PTL DEF ManifestSpec

(* Every variable keeps its type: vm_reload never puts an invalid version, *)
(* a missing size or half a digest in the manifest.                        *)
THEOREM ManifestTypeCorrect == ManifestSpec => []ManifestTypeOK
<1>1. ManifestInv => ManifestTypeOK
  BY DEF ManifestInv
<1>2. QED  BY ManifestIsSound, <1>1, PTL

(* A session's copy is one whole manifest that was in force, for any number*)
(* of sessions and reloads: the rwlock keeps vm_get_snapshot's copy and    *)
(* vm_reload's assignment apart.                                           *)
THEOREM SnapshotsAreWhole == ManifestSpec => []SnapshotIsWhole
<1>1. ManifestInv => SnapshotIsWhole
  BY DEF ManifestInv
<1>2. QED  BY ManifestIsSound, <1>1, PTL

(* A manifest that is put in force describes the package file, for every   *)
(* content and every length of a read: the size, and the digest that       *)
(* sha256_file_hex computes from the bytes of its reads is the SHA-256     *)
(* digest of the file; unless the file was edited meanwhile.               *)
THEOREM LoadsAreAccurate == ManifestSpec => []LoadIsAccurate
<1>1. ManifestInv => LoadIsAccurate
  <2>1. SUFFICES ASSUME ManifestInv, reloader = "compare", ~disturbed
        PROVE  /\ next.size = Len(package)
               /\ sha256_final(sha256_update(sha256_init, next.digest)) = Digest(package)
    BY DEF LoadIsAccurate
  <2>2. next.size = Len(package) /\ next.digest = package
    BY <2>1 DEF ManifestInv, LoadInv
  <2>3. package \in Seq(Nat)
    BY <2>1, ManifestAssumption DEF ManifestInv, ManifestTypeOK
  <2>4. QED  BY <2>2, <2>3, DigestOfFile
<1>2. QED  BY ManifestIsSound, <1>1, PTL
=============================================================================
