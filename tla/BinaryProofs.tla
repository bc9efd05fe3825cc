---------------------------- MODULE BinaryProofs ----------------------------
(***************************************************************************)
(* What the byte level of the codec promises, for every width of bytes and  *)
(* integers: what is written is read back, and nothing else is read.  The   *)
(* inductions are over a least counterexample.                              *)
(***************************************************************************)
EXTENDS Binary, WellFoundedInduction, TLAPS

(* A non-empty set of naturals has a least element. *)
LEMMA Least ==
    ASSUME NEW D, D \subseteq Nat, D # {}
    PROVE  \E i \in D : \A j \in D : i <= j
<1> DEFINE R == OpToRel(<, Nat)
<1>1. IsWellFoundedOn(R, Nat)
    BY Zenon, NatLessThanWellFounded
<1>2. \A i, j \in Nat : j < i => <<j, i>> \in R
    BY DEF OpToRel
<1> HIDE DEF R
<1>3. PICK i \in D : \A j \in D : ~(<<j, i>> \in R)
    BY Zenon, <1>1, WFMin
<1>4. \A j \in D : i \in Nat /\ j \in Nat /\ ~(j < i)
    BY Zenon, <1>2, <1>3
<1> QED BY <1>4

(* What holds of 0, and of a number if it holds of the one before, holds of all. *)
LEMMA Induction ==
    ASSUME NEW H, 0 \in H, \A n \in Nat : n \in H => n + 1 \in H
    PROVE  Nat \subseteq H
<1> DEFINE D == Nat \ H
<1> SUFFICES ASSUME D # {} PROVE FALSE
    BY Zenon
<1>1. PICK k \in D : \A j \in D : k <= j
    BY Zenon, Least
<1>2. k - 1 \in Nat /\ (k - 1) + 1 = k /\ ~(k <= k - 1)
    BY <1>1
<1> QED BY Zenon, <1>1, <1>2

-----------------------------------------------------------------------------
(* Arithmetic. *)

LEMMA Cancel == ASSUME NEW n \in Nat, NEW a \in Nat, NEW b \in Nat, a * n < b * n PROVE a < b
OBVIOUS

(* A number and its last digit. *)
Digits(w, g, v, r) == w % g = r /\ w \div g = v

LEMMA Digit ==
    ASSUME NEW g \in Nat, g > 0, NEW v \in Int, NEW r \in 0..(g - 1)
    PROVE  Digits(v * g + r, g, v, r) /\ Digits(r + g, g, 1, r)
BY DEF Digits

(* A number in its place is its last digit and the others in theirs. *)
Placed(v, g, r, p) == r * p + v * (p * g) = (v * g + r) * p /\ r * p \in Nat /\ v * (p * g) \in Nat

LEMMA Positional ==
    ASSUME NEW v \in Nat, NEW g \in Nat, NEW r \in Nat, NEW p \in Nat
    PROVE  Placed(v, g, r, p)
BY DEF Placed

LEMMA Scaled == ASSUME NEW n \in Nat, NEW a \in Nat, NEW b \in Nat, a <= b PROVE a * n <= b * n /\ b * n \in Nat
OBVIOUS

-----------------------------------------------------------------------------
(* Powers of two. *)

(* The powers up to the n-th. *)
Powers(n, f) == f = [i \in 0..n |-> IF i = 0 THEN 1 ELSE 2 * f[i - 1]]

LEMMA PowersStep ==
    ASSUME NEW n \in Nat, NEW f, Powers(n, f)
    PROVE  /\ f[0] = 1
           /\ \A i \in 1..n : f[i] = 2 * f[i - 1]
BY DEF Powers

LEMMA PowersExist == \A n \in Nat : \E f : Powers(n, f)
<1> DEFINE H == {n \in Nat : \E f : Powers(n, f)}
<1>1. Powers(0, [i \in 0..0 |-> 1])
    BY DEF Powers
<1>2. ASSUME NEW n \in Nat, n \in H PROVE n + 1 \in H
  <2>1. PICK f : Powers(n, f)
      BY Zenon, <1>2
  <2> DEFINE g == [i \in 0..(n + 1) |-> IF i = n + 1 THEN 2 * f[n] ELSE f[i]]
  <2>2. \A i \in 0..(n + 1) : g[i] = IF i = 0 THEN 1 ELSE 2 * g[i - 1]
    <3> SUFFICES ASSUME NEW i \in 0..(n + 1) PROVE g[i] = IF i = 0 THEN 1 ELSE 2 * g[i - 1]
        OBVIOUS
    <3>1. CASE i = n + 1
        BY <3>1
    <3>2. CASE i # n + 1
        BY <2>1, <3>2, PowersStep
    <3> QED BY Zenon, <3>1, <3>2
  <2>3. Powers(n + 1, g)
      BY Zenon, <2>2 DEF Powers
  <2>4. n + 1 \in Nat
      OBVIOUS
  <2> QED BY Zenon, <2>3, <2>4
<1>3. Nat \subseteq H
  <2>1. 0 \in H
      BY Zenon, <1>1
  <2> QED BY Zenon, <1>2, <2>1, Induction
<1> QED BY Zenon, <1>3

LEMMA PowersAgree ==
    ASSUME NEW n \in Nat, NEW f, NEW g, Powers(n, f), Powers(n + 1, g)
    PROVE  f[n] = g[n]
<1> DEFINE H == {i \in Nat : i <= n => f[i] = g[i]}
<1>1. 0 \in H
    BY PowersStep
<1>2. ASSUME NEW i \in Nat, i \in H PROVE i + 1 \in H
  <2> SUFFICES ASSUME i + 1 <= n PROVE f[i + 1] = g[i + 1]
      OBVIOUS
  <2>1. f[i] = g[i]
      BY <1>2
  <2>2. f[i + 1] = 2 * f[(i + 1) - 1] /\ g[i + 1] = 2 * g[(i + 1) - 1] /\ (i + 1) - 1 = i
      BY PowersStep
  <2> QED BY Zenon, <2>1, <2>2
<1>3. Nat \subseteq H
    BY Zenon, <1>1, <1>2, Induction
<1> QED BY <1>3

(* The powers of two are what their definition says. *)
LEMMA PowerEq == Power[0] = 1 /\ \A n \in Nat : Power[n + 1] = 2 * Power[n]
<1> DEFINE p(n) == CHOOSE f : Powers(n, f)
           g == [n \in Nat |-> p(n)[n]]
           Is(h) == h = [n \in Nat |-> IF n = 0 THEN 1 ELSE 2 * h[n - 1]]
<1>1. \A n \in Nat : Powers(n, p(n))
    BY Zenon, PowersExist
<1> HIDE DEF p
<1>2. ASSUME NEW n \in Nat PROVE g[n] = IF n = 0 THEN 1 ELSE 2 * g[n - 1]
  <2>1. CASE n = 0
      BY <1>1, <2>1, PowersStep
  <2>2. CASE n # 0
    <3>1. n - 1 \in Nat /\ (n - 1) + 1 = n /\ n \in 1..n
        BY <2>2
    <3>2. p(n)[n] = 2 * p(n)[n - 1]
        BY Zenon, <1>1, <3>1, PowersStep
    <3>3. p(n - 1)[n - 1] = p(n)[n - 1]
        BY Zenon, <1>1, <3>1, PowersAgree
    <3> QED BY Zenon, <2>2, <3>1, <3>2, <3>3
  <2> QED BY Zenon, <2>1, <2>2
<1>3. Is(g)
    BY Zenon, <1>2
<1>4. Power = CHOOSE h : Is(h)
    BY Zenon DEF Power
<1> HIDE DEF g
<1>5. Is(Power)
    BY Zenon, <1>3, <1>4
<1> QED BY <1>5

LEMMA PowerNat == \A n \in Nat : Power[n] \in Nat /\ Power[n] > 0
<1> DEFINE H == {n \in Nat : Power[n] \in Nat /\ Power[n] > 0}
<1>1. 0 \in H
    BY PowerEq
<1>2. ASSUME NEW n \in Nat, n \in H PROVE n + 1 \in H
    BY <1>2, PowerEq
<1>3. Nat \subseteq H
    BY Zenon, <1>1, <1>2, Induction
<1> QED BY <1>3

LEMMA PowerSum == \A m, n \in Nat : Power[m + n] = Power[m] * Power[n]
<1> TAKE m \in Nat
<1> DEFINE H == {n \in Nat : Power[m + n] = Power[m] * Power[n]}
<1>1. 0 \in H
    BY PowerEq, PowerNat
<1>2. ASSUME NEW n \in Nat, n \in H PROVE n + 1 \in H
  <2>1. Power[m + (n + 1)] = 2 * Power[m + n]
      BY PowerEq
  <2>2. Power[n + 1] = 2 * Power[n]
      BY PowerEq
  <2> QED BY <1>2, <2>1, <2>2, PowerNat
<1>3. Nat \subseteq H
    BY Zenon, <1>1, <1>2, Induction
<1> QED BY <1>3

-----------------------------------------------------------------------------
(* Widths.  The reader's turn idx adds a group at the scale P(idx); what is
   left to read from there on is below Cap(idx). *)
P(idx) == Power[idx * (ByteBits - 1)]
Cap(idx) == 2 * P(MaxGroups - 1 - idx)

LEMMA Widths ==
    /\ ByteBits \in Nat /\ ByteBits - 1 \in Nat /\ ByteBits - 1 >= 3
    /\ MaxGroups \in Nat /\ MaxGroups - 1 \in Nat /\ IntBits = (MaxGroups - 1) * (ByteBits - 1) + 1
<1>1. ByteBits \in Nat /\ ByteBits - 1 \in Nat /\ ByteBits - 1 >= 3
    BY WidthAssumption
<1> QED BY <1>1, WidthAssumption DEF MaxGroups

LEMMA GroupSize == Group \in Nat /\ Group >= 2 /\ Power[ByteBits] = 2 * Group /\ Byte = 0..(2 * Group - 1)
<1>1. Power[(ByteBits - 2) + 1] = 2 * Power[ByteBits - 2] /\ Power[(ByteBits - 1) + 1] = 2 * Power[ByteBits - 1]
    BY Widths, PowerEq
<1>2. Power[ByteBits - 2] \in Nat /\ Power[ByteBits - 2] > 0
    BY Widths, PowerNat
<1>3. ByteBits \in Nat /\ (ByteBits - 2) + 1 = ByteBits - 1 /\ (ByteBits - 1) + 1 = ByteBits
    BY WidthAssumption
<1> QED BY <1>1, <1>2, <1>3 DEF Group, Byte

LEMMA Scales ==
    /\ \A i \in Nat : P(i) \in Nat /\ P(i) > 0
    /\ P(0) = 1
    /\ \A i \in Nat : P(i + 1) = P(i) * Group
<1>1. \A i \in Nat : i * (ByteBits - 1) \in Nat /\ (i + 1) * (ByteBits - 1) = i * (ByteBits - 1) + (ByteBits - 1)
    BY Widths
<1>2. 0 * (ByteBits - 1) = 0
    BY Widths
<1>3. P(0) = 1
    BY Zenon, <1>2, PowerEq DEF P
<1>4. \A i \in Nat : P(i) \in Nat /\ P(i) > 0
    BY Zenon, <1>1, PowerNat DEF P
<1>5. \A i \in Nat : P(i + 1) = P(i) * Group
    BY Zenon, <1>1, Widths, PowerSum DEF P, Group
<1> QED BY Zenon, <1>3, <1>4, <1>5

LEMMA WordSize == Word \in Nat /\ Word = 2 * P(MaxGroups - 1)
<1>1. (MaxGroups - 1) * (ByteBits - 1) \in Nat
    BY Widths
<1>2. Power[(MaxGroups - 1) * (ByteBits - 1) + 1] = 2 * Power[(MaxGroups - 1) * (ByteBits - 1)]
    BY Zenon, <1>1, PowerEq
<1>3. Power[(MaxGroups - 1) * (ByteBits - 1)] \in Nat
    BY Zenon, <1>1, PowerNat
<1>4. Word = 2 * P(MaxGroups - 1)
    BY Zenon, <1>2, Widths DEF Word, P
<1> QED BY <1>3, <1>4 DEF P

(* Products of powers at three positions. *)
LEMMA ScaleSum == \A i, j \in Nat : P(i + j) = P(i) * P(j)
<1>1. \A i, j \in Nat : i * (ByteBits - 1) \in Nat /\ (i + j) * (ByteBits - 1) = i * (ByteBits - 1) + j * (ByteBits - 1)
    BY Widths
<1> QED BY Zenon, <1>1, PowerSum DEF P

LEMMA Caps ==
    ASSUME NEW i \in Nat, i <= MaxGroups - 1
    PROVE  /\ Cap(i) \in Nat /\ Cap(i) > 0 /\ Cap(i) * P(i) = Word /\ Cap(i) <= Word
           /\ i = MaxGroups - 1 => Cap(i) = 2
           /\ i # MaxGroups - 1 => i + 1 <= MaxGroups - 1 /\ Cap(i) = Cap(i + 1) * Group
<1> DEFINE m == MaxGroups - 1 - i
<1>1. m \in Nat /\ m + i = MaxGroups - 1
    BY Widths
<1> HIDE DEF m
<1>2. P(MaxGroups - 1) = P(m) * P(i)
    BY Zenon, <1>1, ScaleSum
<1>3. Cap(i) = 2 * P(m)
    BY DEF Cap, m
<1>4. P(m) \in Nat /\ P(m) > 0 /\ P(i) \in Nat /\ P(i) > 0
    BY Zenon, <1>1, Scales
<1>5. Cap(i) \in Nat /\ Cap(i) > 0 /\ Cap(i) * P(i) = Word /\ Cap(i) <= Word
    BY <1>2, <1>3, <1>4, WordSize
<1>6. ASSUME i = MaxGroups - 1 PROVE Cap(i) = 2
  <2>1. m = 0
      BY <1>1, <1>6
  <2> QED BY <1>3, <2>1, Scales
<1>7. ASSUME i # MaxGroups - 1 PROVE i + 1 <= MaxGroups - 1 /\ Cap(i) = Cap(i + 1) * Group
  <2>1. i + 1 <= MaxGroups - 1 /\ m - 1 \in Nat /\ (m - 1) + 1 = m /\ MaxGroups - 1 - (i + 1) = m - 1
      BY <1>1, <1>7, Widths
  <2>2. P(m) = P(m - 1) * Group /\ P(m - 1) \in Nat
      BY Zenon, <2>1, Scales
  <2>3. Cap(i + 1) = 2 * P(m - 1)
      BY Zenon, <2>1 DEF Cap
  <2> QED BY <1>3, <2>1, <2>2, <2>3, GroupSize
<1> QED BY Zenon, <1>5, <1>6, <1>7

-----------------------------------------------------------------------------
(* The writer. *)

(* The bytes of the numbers up to n. *)
Put(v, rest) == IF v >= Group THEN <<(v % Group) + Group>> \o rest ELSE <<v>>
Written(n, f) == f = [v \in 0..n |-> Put(v, f[v \div Group])]

LEMMA Quotient ==
    ASSUME NEW v \in Nat, v >= Group
    PROVE  v \div Group \in Nat /\ v \div Group < v /\ v \div Group > 0
BY GroupSize

LEMMA WrittenExists == \A n \in Nat : \E f : Written(n, f)
<1> DEFINE H == {n \in Nat : \E f : Written(n, f)}
<1>1. Written(0, [v \in 0..0 |-> <<v>>])
    BY GroupSize DEF Written, Put
<1>2. ASSUME NEW n \in Nat, n \in H PROVE n + 1 \in H
  <2>1. PICK f : Written(n, f)
      BY Zenon, <1>2
  <2> DEFINE body(h, v) == Put(v, h[v \div Group])
             g == [v \in 0..(n + 1) |-> IF v = n + 1 THEN body(f, v) ELSE f[v]]
  <2>2. \A v \in 0..(n + 1) : g[v] = body(g, v)
    <3> SUFFICES ASSUME NEW v \in 0..(n + 1) PROVE g[v] = body(g, v)
        OBVIOUS
    <3>1. v >= Group => v \div Group \in 0..(n + 1) /\ v \div Group # n + 1
        BY Quotient
    <3>2. v >= Group => g[v \div Group] = f[v \div Group]
        BY Zenon, <3>1
    <3>3. body(g, v) = body(f, v)
      <4>1. CASE v >= Group
          BY Zenon, <3>2, <4>1
      <4>2. CASE ~(v >= Group)
          BY Zenon, <4>2 DEF Put
      <4> QED BY Zenon, <4>1, <4>2
    <3>4. CASE v = n + 1
        BY Zenon, <3>3, <3>4
    <3>5. CASE v # n + 1
      <4>1. v \in 0..n
          BY <3>5
      <4>2. f[v] = body(f, v)
          BY Zenon, <2>1, <4>1 DEF Written
      <4> QED BY Zenon, <3>3, <3>5, <4>2
    <3> QED BY Zenon, <3>4, <3>5
  <2>3. Written(n + 1, g)
      BY Zenon, <2>2 DEF Written
  <2>4. n + 1 \in Nat
      OBVIOUS
  <2> QED BY Zenon, <2>3, <2>4
<1>3. 0 \in H
    BY Zenon, <1>1
<1>4. Nat \subseteq H
    BY Zenon, <1>2, <1>3, Induction
<1> QED BY Zenon, <1>4

(* The loop of put_uvarint, one turn at a time. *)
LEMMA PutEq ==
    ASSUME NEW w \in 0..(Word - 1)
    PROVE  put_uvarint(w) = IF w >= Group THEN <<(w % Group) + Group>> \o put_uvarint(w \div Group) ELSE <<w>>
<1> DEFINE put == CHOOSE f : Written(Word - 1, f)
<1>1. Word - 1 \in Nat
    BY WordSize
<1>2. Written(Word - 1, put)
    BY Zenon, <1>1, WrittenExists
<1>3. \A v : put_uvarint(v) = put[v]
    BY Zenon DEF put_uvarint, Written, Put
<1> HIDE DEF put
<1>4. put[w] = IF w >= Group THEN <<(w % Group) + Group>> \o put[w \div Group] ELSE <<w>>
    BY Zenon, <1>2 DEF Written, Put
<1> QED BY Zenon, <1>3, <1>4

(* A byte in front of some bytes. *)
LEMMA Cons ==
    ASSUME NEW b \in Byte, NEW s \in Seq(Byte)
    PROVE  /\ <<b>> \o s \in Seq(Byte) /\ Len(<<b>> \o s) = Len(s) + 1 /\ Len(s) \in Nat
           /\ (<<b>> \o s)[1] = b
           /\ \A k \in 1..Len(s) : (<<b>> \o s)[k + 1] = s[k]
OBVIOUS

Bytes(s) == s \in Seq(Byte) /\ Len(s) \in Nat /\ Len(s) > 0

LEMMA PutType == \A w \in 0..(Word - 1) : Bytes(put_uvarint(w))
<1> DEFINE D == {w \in 0..(Word - 1) : ~Bytes(put_uvarint(w))}
<1> SUFFICES ASSUME D # {} PROVE FALSE
    BY Zenon
<1>1. PICK w \in D : \A j \in D : w <= j
  <2>1. D \subseteq Nat
      OBVIOUS
  <2> QED BY Zenon, <2>1, Least
<1>2. w \in 0..(Word - 1) /\ w \in Nat /\ ~Bytes(put_uvarint(w))
    BY <1>1
<1>3. \A v \in 0..(Word - 1) : ~(w <= v) => Bytes(put_uvarint(v))
    BY Zenon, <1>1
<1> HIDE DEF D
<1>4. CASE w < Group
  <2>1. ~(w >= Group) /\ w \in Byte
      BY <1>2, <1>4, GroupSize
  <2>2. put_uvarint(w) = <<w>>
      BY Zenon, <1>2, <2>1, PutEq
  <2>3. Bytes(<<w>>)
      BY <2>1 DEF Bytes
  <2> QED BY Zenon, <1>2, <2>2, <2>3
<1>5. CASE w >= Group
  <2>1. w \div Group \in 0..(Word - 1) /\ ~(w <= w \div Group)
      BY <1>2, <1>5, Quotient, WordSize
  <2>2. Bytes(put_uvarint(w \div Group))
      BY Zenon, <1>3, <2>1
  <2>3. (w % Group) + Group \in Byte
      BY <1>2, GroupSize
  <2>4. put_uvarint(w) = <<(w % Group) + Group>> \o put_uvarint(w \div Group)
      BY Zenon, <1>2, <1>5, PutEq
  <2> DEFINE s == put_uvarint(w \div Group)
             b == (w % Group) + Group
  <2> HIDE DEF s, b
  <2>5. b \in Byte /\ s \in Seq(Byte) => Bytes(<<b>> \o s)
      BY Cons DEF Bytes
  <2> QED BY Zenon, <1>2, <2>2, <2>3, <2>4, <2>5 DEF Bytes, s, b
<1> QED BY <1>2, <1>4, <1>5, GroupSize

-----------------------------------------------------------------------------
(* The reader. *)

(* A turn of the loop of uvarint, given what the later turns read. *)
Part(bytes, idx) == ((bytes[idx + 1] % Group) * P(idx)) % Word
Rest(bytes, i) == SubSeq(bytes, i + 1, Len(bytes))
Turn(bytes, idx, next) ==
    IF idx >= MaxGroups \/ idx >= Len(bytes) THEN NoRead
    ELSE IF ~fits(idx, bytes[idx + 1]) THEN NoRead
    ELSE IF bytes[idx + 1] < Group
    THEN IF minimal(idx, bytes[idx + 1]) THEN Got(Part(bytes, idx), SubSeq(bytes, idx + 2, Len(bytes))) ELSE NoRead
    ELSE IF next.ok THEN Got(Part(bytes, idx) + next.val, next.rest) ELSE NoRead

(* What the turns from the n-th on read. *)
Turns(bytes, n, f) == f = [idx \in n..MaxGroups |-> Turn(bytes, idx, f[idx + 1])]

LEMMA TurnsExist ==
    ASSUME NEW bytes
    PROVE  \E f : Turns(bytes, 0, f)
<1> DEFINE H == {k \in Nat : k <= MaxGroups => \E f : Turns(bytes, MaxGroups - k, f)}
<1>0. MaxGroups \in Nat
    BY Widths DEF MaxGroups
<1>1. 0 \in H
  <2> DEFINE f == [idx \in MaxGroups..MaxGroups |-> NoRead]
  <2>1. MaxGroups - 0 = MaxGroups /\ \A idx \in MaxGroups..MaxGroups : idx >= MaxGroups
      BY <1>0
  <2>2. \A idx \in MaxGroups..MaxGroups : f[idx] = Turn(bytes, idx, f[idx + 1])
      BY Zenon, <2>1 DEF Turn
  <2>3. Turns(bytes, MaxGroups - 0, f)
      BY Zenon, <2>1, <2>2 DEF Turns
  <2> QED BY Zenon, <2>3
<1>2. ASSUME NEW k \in Nat, k \in H PROVE k + 1 \in H
  <2> DEFINE n == MaxGroups - (k + 1)
  <2> SUFFICES ASSUME k + 1 <= MaxGroups PROVE \E f : Turns(bytes, n, f)
      OBVIOUS
  <2>1. n \in Nat /\ n + 1 = MaxGroups - k /\ k <= MaxGroups
      BY <1>0
  <2> HIDE DEF n
  <2>2. PICK f : Turns(bytes, n + 1, f)
      BY Zenon, <1>2, <2>1
  <2> DEFINE g == [idx \in n..MaxGroups |-> IF idx = n THEN Turn(bytes, n, f[n + 1]) ELSE f[idx]]
  <2>3. \A idx \in n..MaxGroups : idx # n => idx \in (n + 1)..MaxGroups
      BY <2>1
  <2>4. \A idx \in n..MaxGroups : idx # MaxGroups => idx + 1 \in n..MaxGroups /\ idx + 1 # n
      BY <1>0, <2>1
  <2>5. \A idx \in n..MaxGroups : idx = MaxGroups => idx >= MaxGroups
      BY <1>0
  <2>6. \A idx \in n..MaxGroups : Turn(bytes, idx, g[idx + 1]) = Turn(bytes, idx, f[idx + 1])
    <3> SUFFICES ASSUME NEW idx \in n..MaxGroups PROVE Turn(bytes, idx, g[idx + 1]) = Turn(bytes, idx, f[idx + 1])
        OBVIOUS
    <3>1. CASE idx = MaxGroups
        BY Zenon, <2>5, <3>1 DEF Turn
    <3>2. CASE idx # MaxGroups
        BY Zenon, <2>4, <3>2
    <3> QED BY Zenon, <3>1, <3>2
  <2>7. \A idx \in n..MaxGroups : g[idx] = Turn(bytes, idx, g[idx + 1])
    <3> SUFFICES ASSUME NEW idx \in n..MaxGroups PROVE g[idx] = Turn(bytes, idx, f[idx + 1])
        BY Zenon, <2>6
    <3>1. CASE idx = n
        BY Zenon, <3>1
    <3>2. CASE idx # n
        BY Zenon, <2>2, <2>3, <3>2 DEF Turns
    <3> QED BY Zenon, <3>1, <3>2
  <2>8. Turns(bytes, n, g)
      BY Zenon, <2>7 DEF Turns
  <2> QED BY Zenon, <2>8
<1>3. Nat \subseteq H
    BY Zenon, <1>1, <1>2, Induction
<1>4. MaxGroups - MaxGroups = 0 /\ MaxGroups <= MaxGroups
    BY <1>0
<1> QED BY Zenon, <1>0, <1>3, <1>4

Reader(bytes) == CHOOSE f : Turns(bytes, 0, f)

(* The loop of uvarint, one turn at a time. *)
LEMMA ReaderEq ==
    ASSUME NEW bytes
    PROVE  /\ uvarint(bytes) = Reader(bytes)[0]
           /\ \A idx \in 0..MaxGroups : Reader(bytes)[idx] = Turn(bytes, idx, Reader(bytes)[idx + 1])
<1>1. uvarint(bytes) = Reader(bytes)[0]
    BY Zenon DEF uvarint, Reader, Turns, Turn, Part, P
<1>2. Turns(bytes, 0, Reader(bytes))
    BY Zenon, TurnsExist DEF Reader
<1>3. \A idx \in 0..MaxGroups : Reader(bytes)[idx] = Turn(bytes, idx, Reader(bytes)[idx + 1])
    BY Zenon, <1>2 DEF Turns
<1> QED BY Zenon, <1>1, <1>3

(* The bytes of w are at position idx. *)
Has(bytes, idx, w) ==
    /\ idx + Len(put_uvarint(w)) <= Len(bytes)
    /\ \A k \in 1..Len(put_uvarint(w)) : bytes[idx + k] = put_uvarint(w)[k]
(* Where they end. *)
End(idx, w) == idx + Len(put_uvarint(w))

LEMMA HasLast ==
    ASSUME NEW bytes \in Seq(Byte), NEW idx \in Nat, NEW w \in 0..(Word - 1), w < Group
    PROVE  /\ End(idx, w) = idx + 1
           /\ Has(bytes, idx, w) <=> idx < Len(bytes) /\ bytes[idx + 1] = w
<1>1. ~(w >= Group)
    BY GroupSize
<1>2. put_uvarint(w) = <<w>>
    BY Zenon, <1>1, PutEq
<1>3. Len(<<w>>) = 1 /\ <<w>>[1] = w
    OBVIOUS
<1>4. End(idx, w) = idx + 1
    BY Zenon, <1>2, <1>3 DEF End
<1>5. Has(bytes, idx, w) <=> idx + 1 <= Len(bytes) /\ \A k \in 1..1 : bytes[idx + k] = <<w>>[k]
    BY Zenon, <1>2, <1>3 DEF Has
<1> QED BY <1>3, <1>4, <1>5

(* The places of what is written after idx, one byte further on. *)
Shifted(idx, n, m, size) ==
    /\ idx + m = (idx + 1) + n
    /\ \A k \in 1..m : k # 1 => k - 1 \in 1..n /\ (k - 1) + 1 = k /\ (idx + 1) + (k - 1) = idx + k
    /\ \A k \in 1..n : k + 1 \in 1..m /\ idx + (k + 1) = (idx + 1) + k
    /\ 1 \in 1..m
    /\ (idx + 1) + n <= size => idx < size

LEMMA Shift ==
    ASSUME NEW idx \in Nat, NEW n \in Nat, NEW m, m = n + 1, NEW size \in Nat
    PROVE  Shifted(idx, n, m, size)
BY DEF Shifted

LEMMA HasMore ==
    ASSUME NEW bytes \in Seq(Byte), NEW idx \in Nat, NEW w \in 0..(Word - 1), w >= Group
    PROVE  /\ End(idx, w) = End(idx + 1, w \div Group)
           /\ Has(bytes, idx, w) <=> /\ idx < Len(bytes) /\ bytes[idx + 1] = (w % Group) + Group
                                     /\ Has(bytes, idx + 1, w \div Group)
<1> DEFINE s == put_uvarint(w \div Group)
           b == (w % Group) + Group
<1>1. w \div Group \in 0..(Word - 1) /\ w \in Nat
    BY Quotient, WordSize
<1>2. b \in Byte
    BY <1>1, GroupSize
<1>3. Bytes(s)
    BY Zenon, <1>1, PutType
<1>4. put_uvarint(w) = <<b>> \o s
    BY Zenon, PutEq
<1> HIDE DEF s, b
<1>5. /\ Len(<<b>> \o s) = Len(s) + 1 /\ Len(s) \in Nat /\ (<<b>> \o s)[1] = b
      /\ \A k \in 1..Len(s) : (<<b>> \o s)[k + 1] = s[k]
    BY Zenon, <1>2, <1>3, Cons DEF Bytes
<1> DEFINE t == <<b>> \o s
<1>6. /\ Len(t) = Len(s) + 1 /\ Len(s) \in Nat /\ t[1] = b
      /\ \A k \in 1..Len(s) : t[k + 1] = s[k]
    BY Zenon, <1>5
<1> HIDE DEF t
<1>7. /\ idx + Len(t) = (idx + 1) + Len(s)
      /\ \A k \in 1..Len(t) : k # 1 => k - 1 \in 1..Len(s) /\ (k - 1) + 1 = k /\ (idx + 1) + (k - 1) = idx + k
      /\ \A k \in 1..Len(s) : k + 1 \in 1..Len(t) /\ idx + (k + 1) = (idx + 1) + k
      /\ 1 \in 1..Len(t)
      /\ (idx + 1) + Len(s) <= Len(bytes) => idx < Len(bytes)
  <2>1. Shifted(idx, Len(s), Len(t), Len(bytes))
    <3>1. Len(bytes) \in Nat
        OBVIOUS
    <3> QED BY Zenon, <1>6, <3>1, Shift
  <2> QED BY Zenon, <2>1 DEF Shifted
<1>8. (\A k \in 1..Len(t) : bytes[idx + k] = t[k])
      <=> bytes[idx + 1] = b /\ \A k \in 1..Len(s) : bytes[(idx + 1) + k] = s[k]
  <2>1. ASSUME \A k \in 1..Len(t) : bytes[idx + k] = t[k]
        PROVE  bytes[idx + 1] = b /\ \A k \in 1..Len(s) : bytes[(idx + 1) + k] = s[k]
      BY Zenon, <1>6, <1>7, <2>1
  <2>2. ASSUME bytes[idx + 1] = b, \A k \in 1..Len(s) : bytes[(idx + 1) + k] = s[k], NEW k \in 1..Len(t)
        PROVE  bytes[idx + k] = t[k]
    <3>1. CASE k = 1
        BY Zenon, <1>6, <2>2, <3>1
    <3>2. CASE k # 1
      <4>1. k - 1 \in 1..Len(s) /\ (k - 1) + 1 = k /\ (idx + 1) + (k - 1) = idx + k
          BY Zenon, <1>7, <3>2
      <4>2. bytes[(idx + 1) + (k - 1)] = s[k - 1] /\ t[(k - 1) + 1] = s[k - 1]
          BY Zenon, <1>6, <2>2, <4>1
      <4> QED BY Zenon, <4>1, <4>2
    <3> QED BY Zenon, <3>1, <3>2
  <2> QED BY Zenon, <2>1, <2>2
<1>9. put_uvarint(w) = t
    BY Zenon, <1>4 DEF t
<1>10. End(idx, w) = End(idx + 1, w \div Group)
    BY Zenon, <1>7, <1>9 DEF End, s
<1>11. Has(bytes, idx, w) <=> /\ idx < Len(bytes) /\ bytes[idx + 1] = b
                              /\ Has(bytes, idx + 1, w \div Group)
    BY Zenon, <1>7, <1>8, <1>9 DEF Has, s
<1> QED BY Zenon, <1>10, <1>11 DEF b

-----------------------------------------------------------------------------
(* Reading what was written. *)

(* What the turns from idx on read when w is there. *)
Result(bytes, idx, w) == Got(w * P(idx), Rest(bytes, End(idx, w)))
Fit(idx, w) == w \in 0..(Cap(idx) - 1) /\ (idx > 0 => w > 0)

LEMMA FitWord ==
    ASSUME NEW idx \in 0..(MaxGroups - 1), NEW w, Fit(idx, w)
    PROVE  w \in Nat /\ w \in 0..(Word - 1) /\ w * P(idx) \in 0..(Word - 1)
<1>1. idx \in Nat /\ idx <= MaxGroups - 1
    BY Widths
<1>2. Cap(idx) \in Nat /\ Cap(idx) > 0 /\ Cap(idx) * P(idx) = Word /\ Cap(idx) <= Word
    BY Zenon, <1>1, Caps
<1>3. P(idx) \in Nat /\ P(idx) > 0
    BY Zenon, <1>1, Scales
<1>4. w \in Nat /\ w < Cap(idx)
    BY <1>2 DEF Fit
<1>5. w * P(idx) < Cap(idx) * P(idx) /\ w * P(idx) \in Nat
    BY <1>2, <1>3, <1>4
<1> QED BY <1>2, <1>4, <1>5, WordSize

(* The last group. *)
LEMMA ReadsLast ==
    ASSUME NEW bytes \in Seq(Byte), NEW idx \in 0..(MaxGroups - 1), NEW w, NEW next,
           Fit(idx, w), w < Group, Has(bytes, idx, w)
    PROVE  Turn(bytes, idx, next) = Result(bytes, idx, w)
<1>1. idx \in Nat /\ idx <= MaxGroups - 1 /\ ~(idx >= MaxGroups) /\ idx + 2 = (idx + 1) + 1
    BY Widths
<1>2. w \in Nat /\ w \in 0..(Word - 1) /\ w * P(idx) \in 0..(Word - 1)
    BY Zenon, FitWord
<1>3. End(idx, w) = idx + 1 /\ idx < Len(bytes) /\ bytes[idx + 1] = w
    BY Zenon, <1>1, <1>2, HasLast
<1>4. ~(idx >= Len(bytes))
    BY <1>1, <1>3
<1>5. fits(idx, w)
    BY <1>1, Caps DEF fits, Fit
<1>6. minimal(idx, w)
    BY <1>2 DEF minimal, Fit
<1>7. w % Group = w
    BY <1>2, GroupSize
<1>8. (w * P(idx)) % Word = w * P(idx)
    BY <1>2, WordSize
<1>9. Part(bytes, idx) = w * P(idx)
    BY Zenon, <1>3, <1>7, <1>8 DEF Part
<1>10. Turn(bytes, idx, next) = Got(Part(bytes, idx), SubSeq(bytes, idx + 2, Len(bytes)))
    BY Zenon, <1>1, <1>3, <1>4, <1>5, <1>6 DEF Turn
<1> QED BY Zenon, <1>1, <1>3, <1>9, <1>10 DEF Result, Rest

(* One more group, given that the others are read back. *)
LEMMA ReadsMore ==
    ASSUME NEW bytes \in Seq(Byte), NEW idx \in 0..(MaxGroups - 1), NEW w,
           Fit(idx, w), w >= Group, Has(bytes, idx, w)
    PROVE  /\ idx + 1 \in 0..(MaxGroups - 1)
           /\ Fit(idx + 1, w \div Group) /\ Has(bytes, idx + 1, w \div Group)
           /\ Turn(bytes, idx, Result(bytes, idx + 1, w \div Group)) = Result(bytes, idx, w)
<1> DEFINE v == w \div Group
<1>1. idx \in Nat /\ idx <= MaxGroups - 1 /\ ~(idx >= MaxGroups) /\ idx + 1 \in Nat /\ idx + 1 > 0
    BY Widths
<1>2. w \in Nat /\ w \in 0..(Word - 1) /\ w * P(idx) \in 0..(Word - 1)
    BY Zenon, FitWord
<1>3. End(idx, w) = End(idx + 1, v) /\ idx < Len(bytes) /\ bytes[idx + 1] = (w % Group) + Group /\ Has(bytes, idx + 1, v)
    BY Zenon, <1>1, <1>2, HasMore
<1>4. ~(idx >= Len(bytes))
    BY <1>1, <1>3
<1>5. idx # MaxGroups - 1
    BY <1>1, <1>2, Caps, GroupSize DEF Fit
<1>6. idx + 1 <= MaxGroups - 1 /\ Cap(idx) = Cap(idx + 1) * Group
    BY Zenon, <1>1, <1>5, Caps
<1>7. v \in Nat /\ v > 0 /\ w % Group \in 0..(Group - 1) /\ w = v * Group + (w % Group)
    BY <1>2, GroupSize
<1> DEFINE r == w % Group
<1> HIDE DEF v, r
<1>8. Fit(idx + 1, v)
  <2>1. Cap(idx + 1) \in Nat
      BY Zenon, <1>1, <1>6, Caps
  <2>2. w < Cap(idx + 1) * Group
      BY <1>2, <1>6, <2>1, GroupSize DEF Fit
  <2>3. v * Group < Cap(idx + 1) * Group
      BY <1>2, <1>7, <2>1, <2>2, GroupSize
  <2>4. v < Cap(idx + 1)
      BY Zenon, <1>7, <2>1, <2>3, GroupSize, Cancel
  <2> QED BY <1>7, <2>1, <2>4 DEF Fit
<1>9. P(idx) \in Nat /\ P(idx + 1) = P(idx) * Group /\ P(idx + 1) \in Nat
    BY Zenon, <1>1, Scales
<1>10. r \in Nat /\ r < Group /\ w = v * Group + r
    BY <1>7, GroupSize DEF r
<1>11. r * P(idx) + v * P(idx + 1) = w * P(idx) /\ r * P(idx) \in Nat /\ v * P(idx + 1) \in Nat
  <2>1. Placed(v, Group, r, P(idx))
      BY Zenon, <1>7, <1>9, <1>10, GroupSize, Positional
  <2> QED BY Zenon, <1>9, <1>10, <2>1 DEF Placed
<1>12. (r + Group) % Group = r
  <2>1. r \in 0..(Group - 1) /\ Group > 0 /\ 0 \in Int
      BY <1>10, GroupSize
  <2>2. Digits(r + Group, Group, 1, r)
      BY Zenon, <2>1, GroupSize, Digit
  <2> QED BY Zenon, <2>2 DEF Digits
<1>13. r * P(idx) < Word
    BY <1>2, <1>11, WordSize
<1>14. (r * P(idx)) % Word = r * P(idx)
    BY <1>11, <1>13, WordSize
<1>15. Part(bytes, idx) = r * P(idx)
    BY Zenon, <1>3, <1>12, <1>14 DEF Part, r
<1>16. fits(idx, bytes[idx + 1])
    BY Zenon, <1>5 DEF fits
<1>17. ~(bytes[idx + 1] < Group)
    BY <1>3, <1>10, GroupSize DEF r
<1> DEFINE next == Result(bytes, idx + 1, v)
<1>18. next.ok /\ next.val = v * P(idx + 1) /\ next.rest = Rest(bytes, End(idx, w))
    BY <1>3 DEF Result, Got
<1> HIDE DEF next
<1>19. Turn(bytes, idx, next) = Got(Part(bytes, idx) + next.val, next.rest)
    BY Zenon, <1>1, <1>4, <1>16, <1>17, <1>18 DEF Turn
<1>20. Turn(bytes, idx, next) = Result(bytes, idx, w)
    BY Zenon, <1>11, <1>15, <1>18, <1>19 DEF Result
<1>21. idx + 1 \in 0..(MaxGroups - 1)
    BY <1>1, <1>6, Widths
<1> QED BY Zenon, <1>3, <1>8, <1>20, <1>21 DEF next, v

(* Counting down from the last turn. *)
LEMMA Down ==
    ASSUME NEW H, MaxGroups - 1 \in H,
           \A idx \in 0..(MaxGroups - 1) : idx + 1 \in 0..(MaxGroups - 1) /\ idx + 1 \in H => idx \in H
    PROVE  0..(MaxGroups - 1) \subseteq H
<1> DEFINE K == {k \in Nat : k <= MaxGroups - 1 => MaxGroups - 1 - k \in H}
<1>1. 0 \in K
    BY Widths
<1>2. ASSUME NEW k \in Nat, k \in K PROVE k + 1 \in K
    BY <1>2, Widths
<1>3. Nat \subseteq K
    BY Zenon, <1>1, <1>2, Induction
<1>4. \A idx \in 0..(MaxGroups - 1) : MaxGroups - 1 - idx \in Nat /\ MaxGroups - 1 - idx <= MaxGroups - 1
                                     /\ MaxGroups - 1 - (MaxGroups - 1 - idx) = idx
    BY Widths
<1>5. ASSUME NEW idx \in 0..(MaxGroups - 1) PROVE MaxGroups - 1 - (MaxGroups - 1 - idx) \in H
    BY Zenon, <1>3, <1>4
<1> QED BY Zenon, <1>4, <1>5

LEMMA ReadsBack ==
    ASSUME NEW bytes \in Seq(Byte)
    PROVE  \A idx \in 0..(MaxGroups - 1) : \A w :
               Fit(idx, w) /\ Has(bytes, idx, w) => Reader(bytes)[idx] = Result(bytes, idx, w)
<1> DEFINE Back(idx) == \A w : Fit(idx, w) /\ Has(bytes, idx, w) => Reader(bytes)[idx] = Result(bytes, idx, w)
           H == {idx \in 0..(MaxGroups - 1) : Back(idx)}
<1>1. \A idx \in 0..(MaxGroups - 1) : Reader(bytes)[idx] = Turn(bytes, idx, Reader(bytes)[idx + 1])
  <2>1. \A idx \in 0..(MaxGroups - 1) : idx \in 0..MaxGroups
      BY Widths
  <2> QED BY Zenon, <2>1, ReaderEq
<1>2. \A idx \in 0..(MaxGroups - 1) : \A w : Fit(idx, w) => w < Group \/ w >= Group
    BY FitWord, GroupSize
<1>3. ASSUME NEW idx \in 0..(MaxGroups - 1), idx = MaxGroups - 1 \/ Back(idx + 1) PROVE Back(idx)
  <2> SUFFICES ASSUME NEW w, Fit(idx, w), Has(bytes, idx, w) PROVE Reader(bytes)[idx] = Result(bytes, idx, w)
      BY Zenon
  <2>1. CASE w < Group
      BY Zenon, <1>1, <2>1, ReadsLast
  <2>2. CASE w >= Group
    <3>1. /\ idx + 1 \in 0..(MaxGroups - 1)
          /\ Fit(idx + 1, w \div Group) /\ Has(bytes, idx + 1, w \div Group)
          /\ Turn(bytes, idx, Result(bytes, idx + 1, w \div Group)) = Result(bytes, idx, w)
        BY Zenon, <2>2, ReadsMore
    <3>2. idx # MaxGroups - 1
        BY <3>1, Widths
    <3>3. Reader(bytes)[idx + 1] = Result(bytes, idx + 1, w \div Group)
        BY Zenon, <1>3, <3>1, <3>2
    <3> QED BY Zenon, <1>1, <3>1, <3>3
  <2> QED BY Zenon, <1>2, <2>1, <2>2
<1> HIDE DEF Back
<1>4. MaxGroups - 1 \in H
  <2>1. MaxGroups - 1 \in 0..(MaxGroups - 1)
      BY Widths
  <2> QED BY Zenon, <1>3, <2>1
<1>5. 0..(MaxGroups - 1) \subseteq H
    BY Zenon, <1>3, <1>4, Down
<1> QED BY Zenon, <1>5 DEF Back

(* Reading exactly what was written. *)
LEMMA ReadsOnly ==
    ASSUME NEW bytes \in Seq(Byte)
    PROVE  \A idx \in 0..(MaxGroups - 1) :
               Reader(bytes)[idx].ok =>
                   \E w : Fit(idx, w) /\ Has(bytes, idx, w) /\ Reader(bytes)[idx] = Result(bytes, idx, w)
<1> DEFINE Only(idx) == Reader(bytes)[idx].ok =>
                            \E w : Fit(idx, w) /\ Has(bytes, idx, w) /\ Reader(bytes)[idx] = Result(bytes, idx, w)
           H == {idx \in 0..(MaxGroups - 1) : Only(idx)}
<1>1. \A idx \in 0..(MaxGroups - 1) : Reader(bytes)[idx] = Turn(bytes, idx, Reader(bytes)[idx + 1])
  <2>1. \A idx \in 0..(MaxGroups - 1) : idx \in 0..MaxGroups
      BY Widths
  <2> QED BY Zenon, <2>1, ReaderEq
<1>2. ASSUME NEW idx \in 0..(MaxGroups - 1), idx = MaxGroups - 1 \/ Only(idx + 1) PROVE Only(idx)
  <2> DEFINE b == bytes[idx + 1]
             next == Reader(bytes)[idx + 1]
  <2> SUFFICES ASSUME Reader(bytes)[idx].ok
               PROVE  \E w : Fit(idx, w) /\ Has(bytes, idx, w)
      BY Zenon, ReadsBack
  <2>1. Turn(bytes, idx, next).ok
      BY Zenon, <1>1
  <2> HIDE DEF next
  <2>2. ~NoRead.ok
      BY DEF NoRead
  <2>3. ~(idx >= Len(bytes)) /\ fits(idx, b) /\ (b < Group => minimal(idx, b)) /\ (~(b < Group) => next.ok)
      BY Zenon, <2>1, <2>2 DEF Turn
  <2>4. idx \in Nat /\ idx <= MaxGroups - 1 /\ Len(bytes) \in Nat /\ idx < Len(bytes) /\ idx + 1 \in 1..Len(bytes)
      BY <2>3, Widths
  <2>5. b \in 0..(2 * Group - 1)
      BY <2>4, GroupSize
  <2> HIDE DEF b
  <2>6. CASE b < Group
    <3>1. Fit(idx, b)
      <4>1. CASE idx = MaxGroups - 1
          BY <2>3, <2>4, <2>5, <2>6, <4>1, Caps, GroupSize DEF Fit, fits, minimal
      <4>2. CASE idx # MaxGroups - 1
        <5>1. Cap(idx) = Cap(idx + 1) * Group /\ Cap(idx + 1) \in Nat /\ Cap(idx + 1) > 0
          <6>1. idx + 1 \in Nat /\ idx + 1 <= MaxGroups - 1
              BY <2>4, <4>2, Widths
          <6> QED BY Zenon, <2>4, <4>2, <6>1, Caps
        <5>2. Cap(idx) \in Nat /\ Group <= Cap(idx)
            BY <5>1, GroupSize
        <5> QED BY <2>3, <2>4, <2>5, <2>6, <5>2, GroupSize DEF Fit, minimal
      <4> QED BY Zenon, <4>1, <4>2
    <3>2. b \in 0..(Word - 1)
        BY Zenon, <3>1, FitWord
    <3>3. Has(bytes, idx, b)
        BY Zenon, <2>4, <2>6, <3>2, HasLast DEF b
    <3> QED BY Zenon, <3>1, <3>3
  <2>7. CASE ~(b < Group)
    <3>1. idx # MaxGroups - 1
        BY <2>3, <2>5, <2>7, GroupSize DEF fits
    <3>2. idx + 1 \in 0..(MaxGroups - 1) /\ idx + 1 \in Nat /\ idx + 1 <= MaxGroups - 1 /\ idx + 1 > 0
        BY <2>4, <3>1, Widths
    <3>3. PICK v : Fit(idx + 1, v) /\ Has(bytes, idx + 1, v)
        BY Zenon, <1>2, <2>3, <2>7, <3>1 DEF next
    <3>4. Cap(idx) = Cap(idx + 1) * Group /\ Cap(idx + 1) \in Nat /\ Cap(idx) \in Nat
        BY Zenon, <2>4, <3>1, <3>2, Caps
    <3>5. v \in Nat /\ v > 0 /\ v + 1 <= Cap(idx + 1)
        BY <3>2, <3>3, <3>4 DEF Fit
    <3> DEFINE r == b - Group
               w == v * Group + r
    <3>6. r \in 0..(Group - 1) /\ b = r + Group
        BY <2>5, <2>7, GroupSize
    <3> HIDE DEF r
    <3>7. w % Group = r /\ w \div Group = v
      <4>1. v \in Int /\ Group > 0
          BY <3>5, GroupSize
      <4>2. Digits(w, Group, v, r)
          BY Zenon, <3>6, <4>1, GroupSize, Digit
      <4> QED BY Zenon, <4>2 DEF Digits
    <3>8. w \in Nat /\ w >= Group /\ w < (v + 1) * Group
        BY <3>5, <3>6, GroupSize
    <3> HIDE DEF w
    <3> DEFINE u == (v + 1) * Group
    <3>9. w < u /\ u \in Nat /\ u <= Cap(idx)
      <4>1. v + 1 \in Nat
          BY <3>5
      <4>2. u \in Nat
          BY <3>5, GroupSize
      <4>3. u <= Cap(idx + 1) * Group
          BY Zenon, <3>4, <3>5, <4>1, GroupSize, Scaled
      <4> QED BY Zenon, <3>4, <3>8, <4>2, <4>3
    <3> HIDE DEF u
    <3>10. Fit(idx, w)
        BY <3>4, <3>8, <3>9, GroupSize DEF Fit
    <3>11. w \in 0..(Word - 1)
        BY Zenon, <3>10, FitWord
    <3>12. Has(bytes, idx, w)
        BY Zenon, <2>4, <3>3, <3>6, <3>7, <3>8, <3>11, HasMore DEF b
    <3> QED BY Zenon, <3>10, <3>12
  <2> QED BY Zenon, <2>6, <2>7
<1> HIDE DEF Only
<1>3. MaxGroups - 1 \in H
  <2>1. MaxGroups - 1 \in 0..(MaxGroups - 1)
      BY Widths
  <2> QED BY Zenon, <1>2, <2>1
<1>4. 0..(MaxGroups - 1) \subseteq H
    BY Zenon, <1>2, <1>3, Down
<1> QED BY Zenon, <1>4 DEF Only

-----------------------------------------------------------------------------
(* The theorems about integers. *)

Joined(s, r, bytes) == bytes = s \o r

LEMMA JoinedHas ==
    ASSUME NEW s \in Seq(Byte), NEW r \in Seq(Byte)
    PROVE  /\ s \o r \in Seq(Byte) /\ Len(s) \in Nat /\ 0 + Len(s) <= Len(s \o r)
           /\ \A k \in 1..Len(s) : (s \o r)[0 + k] = s[k]
           /\ SubSeq(s \o r, (0 + Len(s)) + 1, Len(s \o r)) = r
OBVIOUS

LEMMA HasJoined ==
    ASSUME NEW bytes \in Seq(Byte), NEW s \in Seq(Byte), 0 + Len(s) <= Len(bytes),
           \A k \in 1..Len(s) : bytes[0 + k] = s[k]
    PROVE  /\ Joined(s, SubSeq(bytes, (0 + Len(s)) + 1, Len(bytes)), bytes)
           /\ SubSeq(bytes, (0 + Len(s)) + 1, Len(bytes)) \in Seq(Byte)
BY DEF Joined

LEMMA FitAll == \A w \in 0..(Word - 1) : Fit(0, w)
<1>1. 0 \in Nat /\ 0 <= MaxGroups - 1 /\ ~(0 > 0)
    BY Widths
<1>2. Cap(0) * 1 = Word /\ Cap(0) \in Nat
    BY Zenon, <1>1, Caps, Scales
<1> QED BY <1>1, <1>2 DEF Fit

(* ByteReader::uvarint reads back every integer put_uvarint wrote, and leaves
   exactly the bytes after it. *)
THEOREM VarintRoundTrip ==
    \A w \in 0..(Word - 1), rest \in Seq(Byte) : uvarint(put_uvarint(w) \o rest) = Got(w, rest)
<1> SUFFICES ASSUME NEW w \in 0..(Word - 1), NEW rest \in Seq(Byte)
             PROVE  uvarint(put_uvarint(w) \o rest) = Got(w, rest)
    OBVIOUS
<1> DEFINE s == put_uvarint(w)
           bytes == s \o rest
<1>1. s \in Seq(Byte)
    BY Zenon, PutType DEF Bytes
<1>2. /\ bytes \in Seq(Byte) /\ 0 + Len(s) <= Len(bytes)
      /\ \A k \in 1..Len(s) : bytes[0 + k] = s[k]
      /\ SubSeq(bytes, (0 + Len(s)) + 1, Len(bytes)) = rest
    BY Zenon, <1>1, JoinedHas
<1> HIDE DEF bytes
<1>3. Has(bytes, 0, w) /\ Rest(bytes, End(0, w)) = rest
    BY Zenon, <1>2 DEF Has, Rest, End
<1>4. 0 \in 0..(MaxGroups - 1) /\ w * P(0) = w
    BY Widths, WordSize, Scales
<1>5. Reader(bytes)[0] = Result(bytes, 0, w)
    BY Zenon, <1>2, <1>3, <1>4, FitAll, ReadsBack
<1>6. uvarint(bytes) = Got(w, rest)
    BY Zenon, <1>3, <1>4, <1>5, ReaderEq DEF Result
<1> QED BY Zenon, <1>6 DEF bytes

(* An integer has one encoding: whatever ByteReader::uvarint reads is what
   put_uvarint writes for it, the limit on the groups, the check of the last
   one and the refusal of a trailing zero group together. *)
THEOREM VarintCanonical ==
    \A bytes \in Seq(Byte) :
        uvarint(bytes).ok => /\ uvarint(bytes).val \in 0..(Word - 1) /\ uvarint(bytes).rest \in Seq(Byte)
                             /\ bytes = put_uvarint(uvarint(bytes).val) \o uvarint(bytes).rest
<1> SUFFICES ASSUME NEW bytes \in Seq(Byte), uvarint(bytes).ok
             PROVE  /\ uvarint(bytes).val \in 0..(Word - 1) /\ uvarint(bytes).rest \in Seq(Byte)
                    /\ bytes = put_uvarint(uvarint(bytes).val) \o uvarint(bytes).rest
    BY Zenon
<1>1. 0 \in 0..(MaxGroups - 1)
    BY Widths
<1>2. PICK w : Fit(0, w) /\ Has(bytes, 0, w) /\ uvarint(bytes) = Result(bytes, 0, w)
    BY Zenon, <1>1, ReaderEq, ReadsOnly
<1>3. w \in Nat /\ w \in 0..(Word - 1)
    BY Zenon, <1>1, <1>2, FitWord
<1>4. w * P(0) = w
    BY <1>3, Scales
<1>5. uvarint(bytes).val = w /\ uvarint(bytes).rest = Rest(bytes, End(0, w))
    BY <1>2, <1>4 DEF Result, Got
<1>6. put_uvarint(w) \in Seq(Byte)
    BY Zenon, <1>3, PutType DEF Bytes
<1>7. Joined(put_uvarint(w), Rest(bytes, End(0, w)), bytes) /\ Rest(bytes, End(0, w)) \in Seq(Byte)
    BY Zenon, <1>2, <1>6, HasJoined DEF Has, Rest, End
<1> QED BY Zenon, <1>3, <1>5, <1>7 DEF Joined

-----------------------------------------------------------------------------
(* Signed integers. *)

Half == Word \div 2
Coded(v) == IF v < 0 THEN Word - 1 - ((2 * v) % Word) ELSE (2 * v) % Word
Decoded(zz) == IF zz % 2 = 1 THEN Word - 1 - zz \div 2 ELSE zz \div 2

LEMMA HalfSize == Half \in Nat /\ Half > 0 /\ Word = 2 * Half
<1>1. P(MaxGroups - 1) \in Nat /\ P(MaxGroups - 1) > 0
    BY Zenon, Widths, Scales
<1> QED BY <1>1, WordSize DEF Half

LEMMA Doubled ==
    ASSUME NEW v \in (-Half)..(Half - 1)
    PROVE  (2 * v) % Word = IF v < 0 THEN 2 * v + Word ELSE 2 * v
<1>1. CASE v < 0
    BY <1>1, HalfSize
<1>2. CASE ~(v < 0)
    BY <1>2, HalfSize
<1> QED BY Zenon, <1>1, <1>2

LEMMA ZigZag ==
    ASSUME NEW v \in (-Half)..(Half - 1)
    PROVE  Coded(v) \in 0..(Word - 1) /\ Signed(Decoded(Coded(v))) = v
<1>1. Coded(v) = IF v < 0 THEN -2 * v - 1 ELSE 2 * v
    BY Doubled, HalfSize DEF Coded
<1>2. CASE v < 0
  <2>1. Coded(v) = 2 * (-v - 1) + 1
      BY <1>1, <1>2, HalfSize
  <2>2. Coded(v) % 2 = 1 /\ Coded(v) \div 2 = -v - 1
      BY <1>2, <2>1, HalfSize
  <2> QED BY <1>2, <2>1, <2>2, HalfSize DEF Decoded, Signed, Half
<1>3. CASE ~(v < 0)
  <2>1. Coded(v) % 2 = 0 /\ Coded(v) \div 2 = v
      BY <1>1, <1>3, HalfSize
  <2> QED BY <1>1, <1>3, <2>1, HalfSize DEF Decoded, Signed, Half
<1> QED BY Zenon, <1>2, <1>3

LEMMA ZagZig ==
    ASSUME NEW w \in 0..(Word - 1)
    PROVE  Signed(Decoded(w)) \in (-Half)..(Half - 1) /\ Coded(Signed(Decoded(w))) = w
<1> DEFINE v == Signed(Decoded(w))
<1>1. w \in Nat /\ w < Word
    BY HalfSize
<1>2. CASE w % 2 = 1
  <2>1. w = 2 * (w \div 2) + 1 /\ w \div 2 \in Nat /\ w \div 2 < Half
      BY <1>1, <1>2, HalfSize
  <2>2. v = -(w \div 2) - 1
      BY <1>2, <2>1, HalfSize DEF Decoded, Signed, Half
  <2> HIDE DEF v
  <2>3. v \in (-Half)..(Half - 1) /\ v < 0
      BY <2>1, <2>2, HalfSize
  <2>4. (2 * v) % Word = 2 * v + Word
      BY Zenon, <2>3, Doubled
  <2>5. Coded(v) = w
      BY <1>1, <2>1, <2>2, <2>3, <2>4, HalfSize DEF Coded
  <2> QED BY Zenon, <2>3, <2>5 DEF v
<1>3. CASE w % 2 # 1
  <2>1. w = 2 * (w \div 2) /\ w \div 2 \in Nat /\ w \div 2 < Half
      BY <1>1, <1>3, HalfSize
  <2>2. v = w \div 2
      BY <1>3, <2>1, HalfSize DEF Decoded, Signed, Half
  <2> HIDE DEF v
  <2>3. v \in (-Half)..(Half - 1) /\ ~(v < 0)
      BY <2>1, <2>2, HalfSize
  <2>4. (2 * v) % Word = 2 * v
      BY Zenon, <2>3, Doubled
  <2>5. Coded(v) = w
      BY <1>1, <2>1, <2>2, <2>3, <2>4, HalfSize DEF Coded
  <2> QED BY Zenon, <2>3, <2>5 DEF v
<1> QED BY Zenon, <1>2, <1>3

LEMMA ZigZagEq ==
    /\ \A v : put_zigzag(v) = put_uvarint(Coded(v))
    /\ \A bytes : zigzag(bytes) = IF uvarint(bytes).ok THEN Got(Signed(Decoded(uvarint(bytes).val)), uvarint(bytes).rest)
                                  ELSE NoRead
<1>1. \A v : put_zigzag(v) = put_uvarint(Coded(v))
    BY Zenon DEF put_zigzag, Coded
<1>2. \A bytes : zigzag(bytes) = IF uvarint(bytes).ok
                                 THEN Got(Signed(Decoded(uvarint(bytes).val)), uvarint(bytes).rest) ELSE NoRead
    BY Zenon DEF zigzag, Then, Decoded
<1> QED BY Zenon, <1>1, <1>2

(* ByteReader::zigzag reads back every signed integer put_zigzag wrote, the
   least and the greatest among them, and leaves exactly the bytes after it. *)
THEOREM ZigzagRoundTrip ==
    \A v \in (-Half)..(Half - 1), rest \in Seq(Byte) : zigzag(put_zigzag(v) \o rest) = Got(v, rest)
<1> SUFFICES ASSUME NEW v \in (-Half)..(Half - 1), NEW rest \in Seq(Byte)
             PROVE  zigzag(put_zigzag(v) \o rest) = Got(v, rest)
    OBVIOUS
<1> DEFINE bytes == put_zigzag(v) \o rest
<1>1. uvarint(bytes) = Got(Coded(v), rest)
    BY Zenon, ZigZag, ZigZagEq, VarintRoundTrip
<1> HIDE DEF bytes
<1>2. uvarint(bytes).ok /\ uvarint(bytes).val = Coded(v) /\ uvarint(bytes).rest = rest
    BY <1>1 DEF Got
<1>3. zigzag(bytes) = Got(v, rest)
    BY Zenon, <1>2, ZigZag, ZigZagEq
<1> QED BY Zenon, <1>3 DEF bytes

(* A signed integer has one encoding: what ByteReader::zigzag reads is what
   put_zigzag writes for it. *)
THEOREM ZigzagCanonical ==
    \A bytes \in Seq(Byte) :
        zigzag(bytes).ok => /\ zigzag(bytes).val \in (-Half)..(Half - 1)
                            /\ bytes = put_zigzag(zigzag(bytes).val) \o zigzag(bytes).rest
<1> SUFFICES ASSUME NEW bytes \in Seq(Byte), zigzag(bytes).ok
             PROVE  /\ zigzag(bytes).val \in (-Half)..(Half - 1)
                    /\ bytes = put_zigzag(zigzag(bytes).val) \o zigzag(bytes).rest
    BY Zenon
<1>1. uvarint(bytes).ok
    BY ZigZagEq DEF NoRead
<1> DEFINE w == uvarint(bytes).val
<1>2. w \in 0..(Word - 1) /\ Joined(put_uvarint(w), uvarint(bytes).rest, bytes)
    BY Zenon, <1>1, VarintCanonical DEF Joined
<1>3. zigzag(bytes) = Got(Signed(Decoded(w)), uvarint(bytes).rest)
    BY Zenon, <1>1, ZigZagEq
<1> HIDE DEF w
<1>4. zigzag(bytes).val = Signed(Decoded(w)) /\ zigzag(bytes).rest = uvarint(bytes).rest
    BY <1>3 DEF Got
<1>5. put_zigzag(zigzag(bytes).val) = put_uvarint(w)
    BY Zenon, <1>2, <1>4, ZagZig, ZigZagEq
<1> QED BY Zenon, <1>2, <1>4, <1>5, ZagZig DEF Joined

-----------------------------------------------------------------------------
(* base64: three bytes, cut where the symbols meet. *)

LEMMA Cuts ==
    /\ Q \in Nat /\ Q >= 2 /\ S = Q * Q * Q /\ S \in Nat /\ S >= 8 /\ Byte = 0..(S * Q - 1)
    /\ Power[3 * SymbolBits] = S * S * S /\ Power[2 * SymbolBits] = S * S
    /\ Power[1 * SymbolBits] = S /\ Power[0 * SymbolBits] = 1
<1> DEFINE k == ByteBits \div 4
<1>1. k \in Nat /\ k > 0 /\ ByteBits = k + (k + (k + k)) /\ SymbolBits = k + (k + k)
    BY WidthAssumption DEF SymbolBits
<1> HIDE DEF k
<1>2. k - 1 \in Nat /\ (k - 1) + 1 = k
    BY <1>1
<1>3. Power[k] = 2 * Power[k - 1] /\ Power[k - 1] \in Nat /\ Power[k - 1] > 0
    BY Zenon, <1>2, PowerEq, PowerNat
<1>4. Q = Power[k] /\ Q \in Nat /\ Q >= 2
    BY <1>3 DEF Q, k
<1>5. k + k \in Nat /\ k + (k + k) \in Nat
    BY <1>1
<1>6. Power[k + k] = Q * Q /\ Power[k + (k + k)] = Q * (Q * Q) /\ Power[k + (k + (k + k))] = Q * (Q * (Q * Q))
  <2>1. Power[k + k] = Power[k] * Power[k]
      BY <1>1, PowerSum
  <2>2. Power[k + (k + k)] = Power[k] * Power[k + k]
      BY <1>1, <1>5, PowerSum
  <2>3. Power[k + (k + (k + k))] = Power[k] * Power[k + (k + k)]
      BY <1>1, <1>5, PowerSum
  <2> QED BY Zenon, <1>4, <2>1, <2>2, <2>3
<1>7. S = Q * (Q * Q) /\ Power[ByteBits] = Q * S
    BY Zenon, <1>1, <1>6 DEF S
<1>8. Q * (Q * Q) = Q * Q * Q /\ Q * Q * Q \in Nat /\ Q * Q * Q >= 8
  <2>1. Q * Q >= 4 /\ Q * Q \in Nat
      BY <1>4
  <2> QED BY <1>4, <2>1
<1>9. Q * S = S * Q
    BY <1>4, <1>7, <1>8
<1>10. SymbolBits \in Nat /\ 2 * SymbolBits = SymbolBits + SymbolBits /\ 3 * SymbolBits = (SymbolBits + SymbolBits) + SymbolBits
       /\ SymbolBits + SymbolBits \in Nat /\ 1 * SymbolBits = SymbolBits /\ 0 * SymbolBits = 0
    BY <1>1
<1>11. Power[SymbolBits + SymbolBits] = S * S /\ Power[(SymbolBits + SymbolBits) + SymbolBits] = S * S * S
    BY Zenon, <1>10, PowerSum DEF S
<1>12. /\ Power[3 * SymbolBits] = S * S * S /\ Power[2 * SymbolBits] = S * S
       /\ Power[1 * SymbolBits] = S /\ Power[0 * SymbolBits] = 1
    BY Zenon, <1>10, <1>11, PowerEq DEF S
<1>13. Byte = 0..(S * Q - 1)
    BY Zenon, <1>7, <1>9 DEF Byte
<1> QED BY Zenon, <1>4, <1>7, <1>8, <1>12, <1>13

(* The pieces of three bytes. *)
Pieces(h1, l1, h2, l2, h3, l3) ==
    /\ h1 \in 0..(S - 1) /\ l1 \in 0..(Q - 1) /\ h2 \in 0..(Q * Q - 1)
    /\ l2 \in 0..(Q * Q - 1) /\ h3 \in 0..(Q - 1) /\ l3 \in 0..(S - 1)

Three(d1, d2, d3) == (d1 * S * Q + d2) * S * Q + d3
SymbolOf(d1, d2, d3, j) == (Three(d1, d2, d3) \div Power[(4 - j) * SymbolBits]) % S

(* A digit in base q below a bound p is below p * q. *)
LEMMA Below ==
    ASSUME NEW p \in Nat, NEW q \in Nat, NEW x \in 0..(p - 1), NEW y \in 0..(q - 1)
    PROVE  x * q + y \in 0..(p * q - 1)
<1>1. x + 1 \in Nat /\ x + 1 <= p
    OBVIOUS
<1>2. (x + 1) * q <= p * q /\ p * q \in Nat
    BY Zenon, <1>1, Scaled
<1>3. (x + 1) * q = x * q + q /\ x * q \in Nat
    OBVIOUS
<1> DEFINE xq == x * q
           pq == p * q
<1> HIDE DEF xq, pq
<1>4. xq + q <= pq /\ xq \in Nat /\ pq \in Nat
    BY Zenon, <1>2, <1>3 DEF xq, pq
<1>5. xq + y \in 0..(pq - 1)
    BY <1>4
<1> QED BY Zenon, <1>5 DEF xq, pq

(* The number of three bytes, in base S. *)
Same(q, s, h1, l1, h2, l2, h3, l3) ==
    ((h1 * q + l1) * s * q + (h2 * (q * q) + l2)) * s * q + (h3 * s + l3)
        = ((h1 * s + (l1 * (q * q) + h2)) * s + (l2 * q + h3)) * s + l3

LEMMA Regrouped ==
    ASSUME NEW q \in Nat, NEW s \in Nat, s = q * q * q,
           NEW h1 \in Nat, NEW l1 \in Nat, NEW h2 \in Nat, NEW l2 \in Nat, NEW h3 \in Nat, NEW l3 \in Nat
    PROVE  Same(q, s, h1, l1, h2, l2, h3, l3)
BY DEF Same

(* Three digits and the rest of a number in base s. *)
Digits3(s, h, a, b, l) ==
    LET n == ((h * s + a) * s + b) * s + l
    IN  /\ n % s = l /\ (n \div s) % s = b /\ (n \div (s * s)) % s = a
        /\ (n \div (s * s * s)) % s = h /\ n \div 1 = n

LEMMA ThreeDigits ==
    ASSUME NEW s \in Nat, s > 0, NEW h \in 0..(s - 1), NEW a \in 0..(s - 1), NEW b \in 0..(s - 1), NEW l \in 0..(s - 1)
    PROVE  Digits3(s, h, a, b, l)
<1> DEFINE u == h * s + a
           v == u * s + b
           n == v * s + l
<1>1. h \in Int /\ u \in Nat /\ u \in Int
    OBVIOUS
<1>2. Digits(u, s, h, a)
    BY Zenon, <1>1, Digit
<1> HIDE DEF u
<1>3. v \in Nat /\ v \in Int
    BY <1>1
<1>4. Digits(v, s, u, b)
    BY Zenon, <1>1, Digit
<1> HIDE DEF v
<1>5. n \in Nat
    BY <1>3
<1>6. Digits(n, s, v, l)
    BY Zenon, <1>3, Digit
<1>7. n \div (s * s) = u
  <2>1. b * s + l \in 0..(s * s - 1)
      BY Zenon, Below
  <2>2. n = u * (s * s) + (b * s + l)
      BY <1>1 DEF v
  <2>3. s * s \in Nat /\ s * s > 0
      OBVIOUS
  <2>4. Digits(u * (s * s) + (b * s + l), s * s, u, b * s + l)
      BY Zenon, <1>1, <2>1, <2>3, Digit
  <2> QED BY Zenon, <2>2, <2>4 DEF Digits
<1>8. n \div (s * s * s) = h
  <2>1. a * s + b \in 0..(s * s - 1)
      BY Zenon, Below
  <2>2. s * s \in Nat /\ s * s * s \in Nat /\ s * s * s > 0
      OBVIOUS
  <2>3. (a * s + b) * s + l \in 0..(s * s * s - 1)
      BY Zenon, <2>1, <2>2, Below
  <2>4. n = h * (s * s * s) + ((a * s + b) * s + l)
      BY DEF v, u
  <2>5. Digits(h * (s * s * s) + ((a * s + b) * s + l), s * s * s, h, (a * s + b) * s + l)
      BY Zenon, <1>1, <2>2, <2>3, Digit
  <2> QED BY Zenon, <2>4, <2>5 DEF Digits
<1>9. h % s = h /\ n \div 1 = n
    BY <1>5
<1> QED BY Zenon, <1>2, <1>4, <1>6, <1>7, <1>8, <1>9 DEF Digits, Digits3, v, u

Split(d1, d2, d3, h1, l1, h2, l2, h3, l3) ==
    /\ Pieces(h1, l1, h2, l2, h3, l3)
    /\ d1 = h1 * Q + l1 /\ d2 = h2 * (Q * Q) + l2 /\ d3 = h3 * S + l3
Laid(d1, d2, d3, s1, s2, s3, s4) ==
    /\ SymbolOf(d1, d2, d3, 1) = s1 /\ SymbolOf(d1, d2, d3, 2) = s2
    /\ SymbolOf(d1, d2, d3, 3) = s3 /\ SymbolOf(d1, d2, d3, 4) = s4
    /\ s1 \in Symbol /\ s2 \in Symbol /\ s3 \in Symbol /\ s4 \in Symbol

(* What the number of three bytes is made of, from the right: l3, then b, a
   and h1, each a digit in base S. *)
LEMMA Symbols ==
    ASSUME NEW h1, NEW l1, NEW h2, NEW l2, NEW h3, NEW l3, NEW d1, NEW d2, NEW d3,
           Split(d1, d2, d3, h1, l1, h2, l2, h3, l3)
    PROVE  Laid(d1, d2, d3, h1, l1 * (Q * Q) + h2, l2 * Q + h3, l3)
<1> USE DEF Split
<1> DEFINE a == l1 * (Q * Q) + h2
           b == l2 * Q + h3
           n == Three(d1, d2, d3)
<1>1. /\ h1 \in Nat /\ l1 \in Nat /\ h2 \in Nat /\ l2 \in Nat /\ h3 \in Nat /\ l3 \in Nat
      /\ h1 < S /\ l3 < S /\ Q * Q \in Nat /\ S \in Nat /\ S > 0
    BY Cuts DEF Pieces
<1>2. a \in 0..(S - 1)
  <2>1. l1 * (Q * Q) + h2 \in 0..(Q * (Q * Q) - 1)
      BY Zenon, <1>1, Cuts, Below DEF Pieces
  <2>2. Q * (Q * Q) = S
      BY Cuts
  <2> QED BY Zenon, <2>1, <2>2
<1>3. b \in 0..(S - 1)
  <2>1. l2 * Q + h3 \in 0..((Q * Q) * Q - 1)
      BY Zenon, <1>1, Cuts, Below DEF Pieces
  <2> QED BY Zenon, <2>1, Cuts
<1>4. n = ((h1 * S + a) * S + b) * S + l3
  <2>1. Same(Q, S, h1, l1, h2, l2, h3, l3)
      BY Zenon, <1>1, Cuts, Regrouped
  <2> QED BY Zenon, <2>1 DEF Same, Three
<1> HIDE DEF a, b, n
<1>5. Digits3(S, h1, a, b, l3)
    BY Zenon, <1>1, <1>2, <1>3, ThreeDigits DEF Pieces
<1>6. n % S = l3 /\ (n \div S) % S = b /\ (n \div (S * S)) % S = a /\ (n \div (S * S * S)) % S = h1 /\ n \div 1 = n
    BY Zenon, <1>4, <1>5 DEF Digits3
<1>7. 4 - 1 = 3 /\ 4 - 2 = 2 /\ 4 - 3 = 1 /\ 4 - 4 = 0
    OBVIOUS
<1>8. /\ SymbolOf(d1, d2, d3, 1) = h1 /\ SymbolOf(d1, d2, d3, 2) = a
      /\ SymbolOf(d1, d2, d3, 3) = b /\ SymbolOf(d1, d2, d3, 4) = l3
    BY Zenon, <1>6, <1>7, Cuts DEF SymbolOf, n
<1> QED BY Zenon, <1>2, <1>3, <1>8 DEF a, b, Symbol, Laid, Pieces

-----------------------------------------------------------------------------
(* base64: one quad. *)

(* Of three bytes the first r are there, the others count as zero. *)
Of(r, d1, d2, d3) ==
    /\ r \in 1..3 /\ d1 \in Byte /\ d2 \in Byte /\ d3 \in Byte
    /\ r < 3 => d3 = 0
    /\ r < 2 => d2 = 0
(* The symbols that show them. *)
Shown(c, r, d1, d2, d3) == \A j \in 1..4 : c[j] = IF j > r + 1 THEN Pad ELSE SymbolOf(d1, d2, d3, j)
First(r, d1, d2, d3) == IF r = 1 THEN <<d1>> ELSE IF r = 2 THEN <<d1, d2>> ELSE <<d1, d2, d3>>

ReadAs(c, last, r, d1, d2, d3) == quad(c, last) = Got(First(r, d1, d2, d3), <<>>)

(* A number below p * q has a quotient below p. *)
CutAt(x, p, q) == x \div q \in 0..(p - 1) /\ x % q \in 0..(q - 1) /\ x = (x \div q) * q + (x % q)

LEMMA Cutting ==
    ASSUME NEW p \in Nat, NEW q \in Nat, q > 0, NEW x \in 0..(p * q - 1)
    PROVE  CutAt(x, p, q)
<1>1. p * q \in Nat
    OBVIOUS
<1>2. x \in Nat /\ x < p * q
    BY <1>1
<1>3. x \div q \in Nat /\ x % q \in 0..(q - 1) /\ x = (x \div q) * q + (x % q)
    BY <1>2
<1> DEFINE d == x \div q
<1> HIDE DEF d
<1>4. d \in Nat /\ d * q < p * q
  <2>1. d \in Nat /\ d * q \in Nat /\ x % q \in Nat /\ x = d * q + (x % q)
      BY <1>3 DEF d
  <2> QED BY <1>1, <1>2, <2>1
<1>5. d < p
    BY Zenon, <1>4, Cancel
<1>6. d \in 0..(p - 1)
    BY <1>4, <1>5
<1> QED BY Zenon, <1>3, <1>6 DEF CutAt, d

LEMMA CutBytes ==
    ASSUME NEW d1 \in Byte, NEW d2 \in Byte, NEW d3 \in Byte
    PROVE  \E h1, l1, h2, l2, h3, l3 : Split(d1, d2, d3, h1, l1, h2, l2, h3, l3)
<1>1. Q \in Nat /\ Q > 0 /\ S \in Nat /\ S > 0 /\ Q * Q \in Nat /\ Q * Q > 0 /\ S * Q = (Q * Q) * (Q * Q) /\ S * Q = Q * S
    BY Cuts
<1>2. CutAt(d1, S, Q) /\ CutAt(d2, Q * Q, Q * Q) /\ CutAt(d3, Q, S)
    BY Zenon, <1>1, Cuts, Cutting
<1>3. Split(d1, d2, d3, d1 \div Q, d1 % Q, d2 \div (Q * Q), d2 % (Q * Q), d3 \div S, d3 % S)
    BY Zenon, <1>2 DEF CutAt, Pieces, Split
<1> QED BY Zenon, <1>3

LEMMA CutSymbols ==
    ASSUME NEW c2 \in Symbol, NEW c3 \in Symbol
    PROVE  CutAt(c2, Q, Q * Q) /\ CutAt(c3, Q * Q, Q)
<1>1. Q \in Nat /\ Q > 0 /\ Q * Q \in Nat /\ Q * Q > 0 /\ S = Q * (Q * Q) /\ S = (Q * Q) * Q
    BY Cuts
<1> QED BY Zenon, <1>1, Cutting DEF Symbol

(* A quad that shows some bytes is read as these bytes. *)
LEMMA QuadReads ==
    ASSUME NEW r, NEW d1, NEW d2, NEW d3, Of(r, d1, d2, d3), NEW c, Shown(c, r, d1, d2, d3),
           NEW last \in BOOLEAN, r < 3 => last
    PROVE  ReadAs(c, last, r, d1, d2, d3)
<1> USE DEF ReadAs
<1>0. d1 \in Byte /\ d2 \in Byte /\ d3 \in Byte
    BY Zenon DEF Of
<1>a. PICK h1, l1, h2, l2, h3, l3 : Split(d1, d2, d3, h1, l1, h2, l2, h3, l3)
    BY Zenon, <1>0, CutBytes
<1>1. /\ Pieces(h1, l1, h2, l2, h3, l3)
      /\ d1 = h1 * Q + l1 /\ d2 = h2 * (Q * Q) + l2 /\ d3 = h3 * S + l3
    BY Zenon, <1>a DEF Split
<1> DEFINE a == l1 * (Q * Q) + h2
           b == l2 * Q + h3
<1>2. /\ SymbolOf(d1, d2, d3, 1) = h1 /\ SymbolOf(d1, d2, d3, 2) = a
      /\ SymbolOf(d1, d2, d3, 3) = b /\ SymbolOf(d1, d2, d3, 4) = l3
      /\ a \in Symbol /\ b \in Symbol
  <2>1. Laid(d1, d2, d3, h1, l1 * (Q * Q) + h2, l2 * Q + h3, l3)
      BY Zenon, <1>a, Symbols
  <2> QED BY Zenon, <2>1 DEF Laid
<1>3. h1 \in Symbol /\ l3 \in Symbol
    BY Zenon, <1>1 DEF Pieces, Symbol
<1>4. /\ l1 \in Int /\ l2 \in Int /\ Q \in Nat /\ Q > 0 /\ Q * Q \in Nat /\ Q * Q > 0
      /\ h1 \in Nat /\ l1 \in Nat /\ h2 \in Nat /\ l2 \in Nat /\ h3 \in Nat /\ l3 \in Nat /\ S \in Nat /\ S > 0
    BY <1>1, Cuts DEF Pieces
<1>5. Digits(a, Q * Q, l1, h2) /\ Digits(b, Q, l2, h3)
    BY Zenon, <1>1, <1>4, Digit DEF Pieces
<1>6. a % (Q * Q) = h2 /\ a \div (Q * Q) = l1 /\ b % Q = h3 /\ b \div Q = l2
    BY Zenon, <1>5 DEF Digits
<1>7. \A x \in Symbol : x # Pad
    BY <1>4 DEF Symbol, Pad
<1> HIDE DEF a, b
<1>8. CASE r = 1
  <2>1. c[1] = h1 /\ c[2] = a /\ c[3] = Pad /\ c[4] = Pad
      BY <1>2, <1>8 DEF Shown
  <2>2. h2 * (Q * Q) + l2 = 0 /\ last
      BY <1>1, <1>8 DEF Of
  <2>3. h2 = 0
      BY <1>4, <2>2
  <2>4. quad(c, last) = Got(<<h1 * Q + l1>>, <<>>)
      BY Zenon, <1>2, <1>3, <1>6, <2>1, <2>2, <2>3 DEF quad, spare_bits_zero
  <2> QED BY Zenon, <1>1, <1>8, <2>4 DEF First
<1>9. CASE r = 2
  <2>1. c[1] = h1 /\ c[2] = a /\ c[3] = b /\ c[4] = Pad
      BY <1>2, <1>9 DEF Shown
  <2>2. h3 * S + l3 = 0 /\ last
      BY <1>1, <1>9 DEF Of
  <2>3. h3 = 0
      BY <1>4, <2>2
  <2>4. quad(c, last) = Got(<<h1 * Q + l1, h2 * (Q * Q) + l2>>, <<>>)
      BY Zenon, <1>2, <1>3, <1>6, <1>7, <2>1, <2>2, <2>3 DEF quad, spare_bits_zero
  <2>5. r # 1
      BY <1>9
  <2> QED BY Zenon, <1>1, <1>9, <2>4, <2>5 DEF First
<1>10. CASE r = 3
  <2>1. c[1] = h1 /\ c[2] = a /\ c[3] = b /\ c[4] = l3
      BY <1>2, <1>10 DEF Shown
  <2>2. quad(c, last) = Got(<<h1 * Q + l1, h2 * (Q * Q) + l2, h3 * S + l3>>, <<>>)
      BY Zenon, <1>2, <1>3, <1>6, <1>7, <2>1 DEF quad
  <2>3. r # 1 /\ r # 2
      BY <1>10
  <2> QED BY Zenon, <1>1, <2>2, <2>3 DEF First
<1> QED BY <1>8, <1>9, <1>10 DEF Of

(* A quad that is read shows some bytes. *)
LEMMA QuadOnly ==
    ASSUME NEW c, NEW last \in BOOLEAN, quad(c, last).ok
    PROVE  \E r, d1, d2, d3 : Of(r, d1, d2, d3) /\ Shown(c, r, d1, d2, d3) /\ (r < 3 => last)
<1>1. ~NoRead.ok
    BY Zenon DEF NoRead
<1>2. c[1] \in Symbol /\ c[2] \in Symbol
    BY Zenon, <1>1 DEF quad
<1>3. /\ Q \in Nat /\ Q > 0 /\ Q * Q \in Nat /\ Q * Q > 0 /\ S \in Nat /\ S > 0 /\ S * Q \in Nat
      /\ S * Q = (Q * Q) * (Q * Q) /\ S * Q = Q * S /\ Byte = 0..(S * Q - 1)
    BY Cuts
<1>4. \A x \in Symbol : x \in Int /\ x # Pad
    BY <1>3 DEF Symbol, Pad
<1>5. 0 \in Symbol /\ 0 % (Q * Q) = 0 /\ 0 % Q = 0 /\ 0 \div Q = 0
    BY <1>3 DEF Symbol
<1> DEFINE g3 == IF c[3] = Pad THEN 0 ELSE c[3]
           g4 == IF c[4] = Pad THEN 0 ELSE c[4]
           l1 == c[2] \div (Q * Q)
           h2 == c[2] % (Q * Q)
           l2 == g3 \div Q
           h3 == g3 % Q
           d1 == c[1] * Q + l1
           d2 == h2 * (Q * Q) + l2
           d3 == h3 * S + g4
<1>6. g3 \in Symbol /\ g4 \in Symbol
    BY Zenon, <1>1, <1>5 DEF quad
<1>7. CutAt(c[2], Q, Q * Q) /\ CutAt(g3, Q * Q, Q)
    BY Zenon, <1>2, <1>6, CutSymbols
<1>8. Pieces(c[1], l1, h2, l2, h3, g4) /\ c[2] = l1 * (Q * Q) + h2 /\ g3 = l2 * Q + h3
    BY Zenon, <1>2, <1>6, <1>7 DEF CutAt, Pieces, Symbol
<1>9. Split(d1, d2, d3, c[1], l1, h2, l2, h3, g4)
    BY Zenon, <1>8 DEF Split
<1>10. Laid(d1, d2, d3, c[1], l1 * (Q * Q) + h2, l2 * Q + h3, g4)
    BY Zenon, <1>9, Symbols
<1>11. /\ SymbolOf(d1, d2, d3, 1) = c[1] /\ SymbolOf(d1, d2, d3, 2) = c[2]
       /\ SymbolOf(d1, d2, d3, 3) = g3 /\ SymbolOf(d1, d2, d3, 4) = g4
    BY Zenon, <1>8, <1>10 DEF Laid
<1>12. d1 \in Byte /\ d2 \in Byte /\ d3 \in Byte
  <2>1. c[1] * Q + l1 \in 0..(S * Q - 1)
      BY Zenon, <1>3, <1>8, Below DEF Pieces
  <2>2. h2 * (Q * Q) + l2 \in 0..((Q * Q) * (Q * Q) - 1)
      BY Zenon, <1>3, <1>8, Below DEF Pieces
  <2>3. h3 * S + g4 \in 0..(Q * S - 1)
      BY Zenon, <1>3, <1>8, Below DEF Pieces
  <2> QED BY Zenon, <1>3, <2>1, <2>2, <2>3
<1>13. CASE c[3] = Pad
  <2>1. c[4] = Pad /\ last /\ h2 = 0
      BY Zenon, <1>1, <1>13 DEF quad, spare_bits_zero
  <2>2. g3 = 0 /\ g4 = 0 /\ l2 = 0 /\ h3 = 0
      BY Zenon, <1>5, <1>13, <2>1
  <2>3. d2 = 0 /\ d3 = 0
      BY <1>3, <2>1, <2>2
  <2> HIDE DEF d1, d2, d3
  <2>4. Of(1, d1, d2, d3)
      BY <1>12, <2>3 DEF Of
  <2>5. Shown(c, 1, d1, d2, d3)
      BY <1>11, <1>13, <2>1 DEF Shown
  <2> QED BY Zenon, <2>1, <2>4, <2>5
<1>14. CASE c[3] # Pad /\ c[4] = Pad
  <2>1. last /\ h3 = 0
      BY Zenon, <1>1, <1>14 DEF quad, spare_bits_zero
  <2>2. g4 = 0 /\ g3 = c[3]
      BY Zenon, <1>14
  <2>3. d3 = 0
      BY <1>3, <2>1, <2>2
  <2>4. SymbolOf(d1, d2, d3, 3) = c[3]
      BY Zenon, <1>11, <2>2
  <2> HIDE DEF d1, d2, d3
  <2>5. Of(2, d1, d2, d3)
      BY <1>12, <2>3 DEF Of
  <2>6. Shown(c, 2, d1, d2, d3)
      BY <1>11, <1>14, <2>4 DEF Shown
  <2> QED BY Zenon, <2>1, <2>5, <2>6
<1>15. CASE c[3] # Pad /\ c[4] # Pad
  <2>1. SymbolOf(d1, d2, d3, 3) = c[3] /\ SymbolOf(d1, d2, d3, 4) = c[4]
      BY Zenon, <1>11, <1>15
  <2> HIDE DEF d1, d2, d3
  <2>2. Of(3, d1, d2, d3) /\ ~(3 < 3)
      BY <1>12 DEF Of
  <2>3. Shown(c, 3, d1, d2, d3)
      BY <1>11, <2>1 DEF Shown
  <2> QED BY Zenon, <2>2, <2>3
<1> QED BY Zenon, <1>13, <1>14, <1>15

-----------------------------------------------------------------------------
(* base64: a text. Encodes relates data to the one text that shows it. *)

At(data, i) == IF i <= Len(data) THEN data[i] ELSE 0
Quads(n) == (n + 2) \div 3
(* How many of n bytes the q-th quad shows. *)
Count(n, q) == IF 3 * q <= n THEN 3 ELSE n - 3 * (q - 1)
Sym(data, q, j) == SymbolOf(At(data, 3 * q - 2), At(data, 3 * q - 1), At(data, 3 * q), j)
ShownAt(data, in, q) ==
    \A j \in 1..4 : in[4 * q - 4 + j] = IF j > Count(Len(data), q) + 1 THEN Pad ELSE Sym(data, q, j)
Encodes(data, in) == Len(in) = 4 * Quads(Len(data)) /\ \A q \in 1..Quads(Len(data)) : ShownAt(data, in, q)

LEMMA Counts ==
    ASSUME NEW n \in Nat
    PROVE  /\ Quads(n) \in Nat /\ (Quads(n) = 0 => n = 0)
           /\ \A q \in 1..Quads(n) : /\ Count(n, q) \in 1..3
                                     /\ Count(n, q) < 3 => q = Quads(n)
                                     /\ q = Quads(n) => 3 * (q - 1) + Count(n, q) = n
                                     /\ 3 * (q - 1) + Count(n, q) <= n
                                     /\ \A j \in 1..4 : 3 * (q - 1) + j > n + 1 <=> j > Count(n, q) + 1
    BY DEF Quads, Count

LEMMA EncodeEq ==
    ASSUME NEW data
    PROVE  base64_encode(data) =
               [k \in 1..(4 * Quads(Len(data))) |->
                   IF 3 * ((k + 3) \div 4 - 1) + (((k - 1) % 4) + 1) > Len(data) + 1 THEN Pad
                   ELSE Sym(data, (k + 3) \div 4, ((k - 1) % 4) + 1)]
    BY Zenon DEF base64_encode, Quads, Sym, SymbolOf, Three, At

(* The bytes a quad shows. *)
LEMMA OfData ==
    ASSUME NEW data \in Seq(Byte), NEW q \in 1..Quads(Len(data))
    PROVE  Of(Count(Len(data), q), At(data, 3 * q - 2), At(data, 3 * q - 1), At(data, 3 * q))
<1>1. Len(data) \in Nat /\ \A i \in 1..Len(data) : data[i] \in Byte
    OBVIOUS
<1>2. 0 \in Byte
    BY Cuts
<1>3. q \in Nat /\ q > 0 /\ Count(Len(data), q) \in 1..3
    BY <1>1, Counts
<1>4. 3 * (q - 1) + Count(Len(data), q) <= Len(data)
    BY <1>1, Counts
<1>5. \A i \in Nat \ {0} : At(data, i) \in Byte
    BY <1>1, <1>2 DEF At
<1>6. 3 * q - 2 \in Nat \ {0} /\ 3 * q - 1 \in Nat \ {0} /\ 3 * q \in Nat \ {0}
    BY <1>3
<1>7. Count(Len(data), q) < 3 => 3 * q > Len(data)
    BY <1>1, <1>3 DEF Count
<1>8. Count(Len(data), q) < 2 => 3 * q - 1 > Len(data)
    BY <1>1, <1>3 DEF Count
<1>9. Count(Len(data), q) < 3 => At(data, 3 * q) = 0
    BY <1>1, <1>6, <1>7 DEF At
<1>10. Count(Len(data), q) < 2 => At(data, 3 * q - 1) = 0
    BY <1>1, <1>6, <1>8 DEF At
<1> QED BY Zenon, <1>3, <1>5, <1>6, <1>9, <1>10 DEF Of

LEMMA SymInSymbol ==
    ASSUME NEW data \in Seq(Byte), NEW q \in 1..Quads(Len(data)), NEW j \in 1..4
    PROVE  Sym(data, q, j) \in Symbol
<1> DEFINE d1 == At(data, 3 * q - 2)
           d2 == At(data, 3 * q - 1)
           d3 == At(data, 3 * q)
<1>1. d1 \in Byte /\ d2 \in Byte /\ d3 \in Byte
    BY Zenon, OfData DEF Of
<1> HIDE DEF d1, d2, d3
<1>2. PICK h1, l1, h2, l2, h3, l3 : Split(d1, d2, d3, h1, l1, h2, l2, h3, l3)
    BY Zenon, <1>1, CutBytes
<1>3. Laid(d1, d2, d3, h1, l1 * (Q * Q) + h2, l2 * Q + h3, l3)
    BY Zenon, <1>2, Symbols
<1>4. /\ SymbolOf(d1, d2, d3, 1) \in Symbol /\ SymbolOf(d1, d2, d3, 2) \in Symbol
      /\ SymbolOf(d1, d2, d3, 3) \in Symbol /\ SymbolOf(d1, d2, d3, 4) \in Symbol
    BY Zenon, <1>3 DEF Laid
<1>5. j = 1 \/ j = 2 \/ j = 3 \/ j = 4
    OBVIOUS
<1>6. SymbolOf(d1, d2, d3, j) \in Symbol
    BY Zenon, <1>4, <1>5
<1> QED BY Zenon, <1>6 DEF Sym, d1, d2, d3

(* base64_encode writes the text that shows the data, and no other does. *)
LEMMA EncodeEncodes ==
    ASSUME NEW data \in Seq(Byte)
    PROVE  base64_encode(data) \in Seq(Symbol \cup {Pad}) /\ Encodes(data, base64_encode(data))
<1> DEFINE e == base64_encode(data)
           m == Quads(Len(data))
           f(k) == IF 3 * ((k + 3) \div 4 - 1) + (((k - 1) % 4) + 1) > Len(data) + 1 THEN Pad
                   ELSE Sym(data, (k + 3) \div 4, ((k - 1) % 4) + 1)
<1>1. Len(data) \in Nat /\ m \in Nat
    BY Counts
<1>2. e = [k \in 1..(4 * m) |-> f(k)]
    BY Zenon, EncodeEq
<1>3. \A k \in 1..(4 * m) : f(k) \in Symbol \cup {Pad}
  <2> SUFFICES ASSUME NEW k \in 1..(4 * m) PROVE f(k) \in Symbol \cup {Pad}
      OBVIOUS
  <2>1. (k + 3) \div 4 \in 1..m /\ ((k - 1) % 4) + 1 \in 1..4
      BY <1>1
  <2>2. Sym(data, (k + 3) \div 4, ((k - 1) % 4) + 1) \in Symbol
      BY Zenon, <2>1, SymInSymbol
  <2> QED BY Zenon, <2>2
<1>4. \A q \in 1..m : ShownAt(data, e, q)
  <2> SUFFICES ASSUME NEW q \in 1..m, NEW j \in 1..4
               PROVE  e[4 * q - 4 + j] = IF j > Count(Len(data), q) + 1 THEN Pad ELSE Sym(data, q, j)
      BY Zenon DEF ShownAt
  <2> DEFINE k == 4 * q - 4 + j
  <2>1. q \in Nat \ {0} /\ k \in 1..(4 * m)
      BY <1>1
  <2>2. (k + 3) \div 4 = q /\ ((k - 1) % 4) + 1 = j
      BY <2>1
  <2>3. e[k] = f(k)
      BY Zenon, <1>2, <2>1
  <2>4. f(k) = IF 3 * (q - 1) + j > Len(data) + 1 THEN Pad ELSE Sym(data, q, j)
      BY Zenon, <2>2
  <2>5. 3 * (q - 1) + j > Len(data) + 1 <=> j > Count(Len(data), q) + 1
      BY Zenon, <1>1, Counts
  <2> QED BY Zenon, <2>3, <2>4, <2>5
<1> HIDE DEF f, m
<1>5. e \in Seq(Symbol \cup {Pad}) /\ Len(e) = 4 * m
  <2>1. 4 * m \in Nat
      BY <1>1
  <2> HIDE DEF e
  <2> QED BY <1>2, <1>3, <2>1
<1> QED BY Zenon, <1>4, <1>5 DEF Encodes, m

LEMMA EncodesOnce ==
    ASSUME NEW data \in Seq(Byte), NEW in \in Seq(Int), Encodes(data, in)
    PROVE  base64_encode(data) = in
<1> DEFINE e == base64_encode(data)
           m == Quads(Len(data))
<1>1. m \in Nat
    BY Counts
<1>2. e \in Seq(Symbol \cup {Pad}) /\ Encodes(data, e)
    BY Zenon, EncodeEncodes
<1> HIDE DEF e
<1>3. Len(e) = 4 * m /\ Len(in) = 4 * m
    BY Zenon, <1>2 DEF Encodes
<1>4. ASSUME NEW k \in 1..(4 * m) PROVE e[k] = in[k]
  <2> DEFINE q == (k + 3) \div 4
             j == ((k - 1) % 4) + 1
  <2>1. q \in 1..m /\ j \in 1..4 /\ k = 4 * q - 4 + j
      BY <1>1
  <2> HIDE DEF q, j
  <2>2. ShownAt(data, e, q) /\ ShownAt(data, in, q)
      BY Zenon, <1>2, <2>1 DEF Encodes
  <2> QED BY Zenon, <2>1, <2>2 DEF ShownAt
<1> HIDE DEF m
<1>5. e = in
    BY <1>1, <1>2, <1>3, <1>4
<1> QED BY Zenon, <1>5 DEF e

(* What base64_decode reads from the q-th quad. *)
Decode(in, q) == quad(SubSeq(in, 4 * q - 3, 4 * q), q = Len(in) \div 4)
Size(in) == IF Len(in) \div 4 = 0 THEN 0 ELSE 3 * (Len(in) \div 4 - 1) + Len(Decode(in, Len(in) \div 4).val)
ByteAt(in, i) == Decode(in, (i + 2) \div 3).val[((i - 1) % 3) + 1]
DecodedBytes(in) == [i \in 1..Size(in) |-> ByteAt(in, i)]

LEMMA DecodeEq ==
    ASSUME NEW in
    PROVE  base64_decode(in) = IF Len(in) % 4 # 0 \/ \E q \in 1..(Len(in) \div 4) : ~Decode(in, q).ok THEN NoRead
                               ELSE Got(DecodedBytes(in), <<>>)
    BY Zenon DEF base64_decode, Decode, Size, ByteAt, DecodedBytes

LEMMA SubQuad ==
    ASSUME NEW in \in Seq(Int), NEW m \in Nat, Len(in) = 4 * m, NEW q \in 1..m, NEW j \in 1..4
    PROVE  SubSeq(in, 4 * q - 3, 4 * q)[j] = in[4 * q - 4 + j]
    OBVIOUS

Lists(b, r, d1, d2, d3) == Len(b) = r /\ b[1] = d1 /\ (r > 1 => b[2] = d2) /\ (r > 2 => b[3] = d3)

LEMMA FirstBytes ==
    ASSUME NEW r, NEW d1, NEW d2, NEW d3, Of(r, d1, d2, d3)
    PROVE  Lists(First(r, d1, d2, d3), r, d1, d2, d3)
<1>1. r \in 1..3
    BY Zenon DEF Of
<1> QED BY <1>1 DEF First, Lists

LEMMA GotFields == \A val, rest : Got(val, rest).ok /\ Got(val, rest).val = val
    BY DEF Got

(* The text that shows the data is read as the data. *)
LEMMA EncodesRead ==
    ASSUME NEW data \in Seq(Byte), NEW in \in Seq(Int), Encodes(data, in)
    PROVE  base64_decode(in) = Got(data, <<>>)
<1> DEFINE n == Len(data)
           m == Quads(n)
           b(q) == First(Count(n, q), At(data, 3 * q - 2), At(data, 3 * q - 1), At(data, 3 * q))
<1>1. n \in Nat /\ m \in Nat
    BY Counts
<1>2. Len(in) = 4 * m /\ Len(in) % 4 = 0 /\ Len(in) \div 4 = m
  <2>1. Len(in) = 4 * m
      BY Zenon DEF Encodes
  <2> HIDE DEF m
  <2> QED BY <1>1, <2>1
<1>3. \A q \in 1..m : Decode(in, q) = Got(b(q), <<>>)
  <2> SUFFICES ASSUME NEW q \in 1..m PROVE Decode(in, q) = Got(b(q), <<>>)
      OBVIOUS
  <2> DEFINE c == SubSeq(in, 4 * q - 3, 4 * q)
  <2>1. Of(Count(n, q), At(data, 3 * q - 2), At(data, 3 * q - 1), At(data, 3 * q))
      BY Zenon, OfData
  <2>2. \A j \in 1..4 : c[j] = in[4 * q - 4 + j]
      BY Zenon, <1>1, <1>2, SubQuad
  <2>3. ShownAt(data, in, q)
      BY Zenon DEF Encodes
  <2>4. Shown(c, Count(n, q), At(data, 3 * q - 2), At(data, 3 * q - 1), At(data, 3 * q))
      BY Zenon, <2>2, <2>3 DEF Shown, ShownAt, Sym
  <2>5. Count(n, q) < 3 => q = m
      BY Zenon, <1>1, Counts
  <2> HIDE DEF c
  <2> DEFINE last == q = m
  <2>6. last \in BOOLEAN /\ (Count(n, q) < 3 => last)
      BY Zenon, <2>5
  <2> HIDE DEF last
  <2>7. ReadAs(c, last, Count(n, q), At(data, 3 * q - 2), At(data, 3 * q - 1), At(data, 3 * q))
      BY Zenon, <2>1, <2>4, <2>6, QuadReads
  <2> QED BY Zenon, <1>2, <2>7 DEF Decode, c, last, ReadAs
<1>4. \A q \in 1..m : Decode(in, q).ok /\ Decode(in, q).val = b(q)
    BY Zenon, <1>3, GotFields
<1>5. \A q \in 1..m : Of(Count(n, q), At(data, 3 * q - 2), At(data, 3 * q - 1), At(data, 3 * q))
    BY Zenon, OfData
<1>6. \A q \in 1..m : /\ Len(b(q)) = Count(n, q) /\ b(q)[1] = At(data, 3 * q - 2)
                      /\ Count(n, q) > 1 => b(q)[2] = At(data, 3 * q - 1)
                      /\ Count(n, q) > 2 => b(q)[3] = At(data, 3 * q)
  <2>1. \A q \in 1..m : Lists(b(q), Count(n, q), At(data, 3 * q - 2), At(data, 3 * q - 1), At(data, 3 * q))
      BY Zenon, <1>5, FirstBytes
  <2> QED BY Zenon, <2>1 DEF Lists
<1> HIDE DEF b
<1>7. Size(in) = n
  <2>1. CASE m = 0
    <3>1. n = 0
        BY Zenon, <1>1, <2>1, Counts
    <3> QED BY Zenon, <1>2, <2>1, <3>1 DEF Size
  <2>2. CASE m # 0
    <3>1. m \in 1..m
        BY <1>1, <2>2
    <3>2. 3 * (m - 1) + Count(n, m) = n
        BY Zenon, <1>1, <3>1, Counts
    <3> QED BY Zenon, <1>2, <1>4, <1>6, <2>2, <3>1, <3>2 DEF Size
  <2> QED BY Zenon, <2>1, <2>2
<1>8. ASSUME NEW i \in 1..n PROVE Decode(in, (i + 2) \div 3).val[((i - 1) % 3) + 1] = data[i]
  <2> DEFINE q == (i + 2) \div 3
             p == ((i - 1) % 3) + 1
  <2>1. q \in 1..m /\ p \in 1..3 /\ i = 3 * q - 3 + p
      BY <1>1 DEF Quads
  <2> HIDE DEF q, p, m, n
  <2>2. p <= Count(n, q) /\ Count(n, q) \in 1..3
    <3>1. Count(n, q) \in 1..3
        BY Zenon, <1>1, <2>1, Counts DEF m
    <3>2. q \in Int
        BY <1>1, <2>1
    <3> QED BY <1>1, <2>1, <3>1, <3>2 DEF Count
  <2>3. b(q)[p] = At(data, i)
    <3>1. q \in Int /\ p \in Int
        BY <1>1, <2>1
    <3>2. CASE p = 1
      <4>1. i = 3 * q - 2
          BY <2>1, <3>1, <3>2
      <4> QED BY Zenon, <1>6, <2>1, <3>2, <4>1
    <3>3. CASE p = 2
      <4>1. i = 3 * q - 1 /\ Count(n, q) > 1
          BY <2>1, <2>2, <3>1, <3>3
      <4> QED BY Zenon, <1>6, <2>1, <3>3, <4>1
    <3>4. CASE p = 3
      <4>1. i = 3 * q /\ Count(n, q) > 2
          BY <2>1, <2>2, <3>1, <3>4
      <4> QED BY Zenon, <1>6, <2>1, <3>4, <4>1
    <3> QED BY <2>1, <3>2, <3>3, <3>4
  <2>4. At(data, i) = data[i]
      BY <1>1 DEF At, n
  <2>5. Decode(in, q).val[p] = data[i]
      BY Zenon, <1>4, <2>1, <2>3, <2>4
  <2> QED BY Zenon, <2>5 DEF q, p
<1>9. DecodedBytes(in) = data
  <2>1. DecodedBytes(in) = [i \in 1..n |-> data[i]]
      BY Zenon, <1>7, <1>8 DEF DecodedBytes, ByteAt
  <2>2. data = [i \in 1..Len(data) |-> data[i]]
      OBVIOUS
  <2> QED BY Zenon, <2>1, <2>2
<1> QED BY Zenon, <1>2, <1>4, <1>9, DecodeEq

(* Every quad but the last has three bytes, the last has a. *)
Sizes(m, a, n, q, b) ==
    /\ m \in Nat /\ q \in 1..m /\ a \in 1..3 /\ b \in 1..3 /\ n = 3 * (m - 1) + a
    /\ q # m => b = 3
    /\ q = m => b = a
Shows(n, q, b) == Count(n, q) = b /\ \A p \in 1..3 : 3 * q - 3 + p \in 1..n <=> p \in 1..b

LEMMA Sized ==
    ASSUME NEW m, NEW a, NEW n, NEW q, NEW b, Sizes(m, a, n, q, b)
    PROVE  Shows(n, q, b)
    BY DEF Sizes, Shows, Count

Placed3(i, m, q, p) == q \in 1..m /\ p \in 1..3 /\ i = 3 * q - 3 + p

LEMMA SizedWhole ==
    ASSUME NEW m \in Nat, m # 0, NEW a \in 1..3, NEW n, n = 3 * (m - 1) + a
    PROVE  Quads(n) = m /\ \A i \in 1..n : Placed3(i, m, (i + 2) \div 3, ((i - 1) % 3) + 1)
<1>1. Quads(n) = m
    BY DEF Quads
<1>2. \A i \in 1..n : Placed3(i, m, (i + 2) \div 3, ((i - 1) % 3) + 1)
    BY DEF Placed3
<1> QED BY Zenon, <1>1, <1>2

(* A text that is read shows some data. *)
LEMMA ReadEncodes ==
    ASSUME NEW in \in Seq(Int), base64_decode(in).ok
    PROVE  \E data \in Seq(Byte) : Encodes(data, in)
<1> DEFINE m == Len(in) \div 4
           data == DecodedBytes(in)
           n == Size(in)
<1>1. Len(in) % 4 = 0 /\ \A q \in 1..m : Decode(in, q).ok
  <2>1. ~NoRead.ok
      BY Zenon DEF NoRead
  <2> QED BY Zenon, <2>1, DecodeEq
<1>2. m \in Nat /\ Len(in) = 4 * m
    BY <1>1
<1>3. ASSUME NEW q \in 1..m
      PROVE  \E r, d1, d2, d3 : /\ Of(r, d1, d2, d3) /\ Shown(SubSeq(in, 4 * q - 3, 4 * q), r, d1, d2, d3)
                                /\ r < 3 => q = m
                                /\ Lists(Decode(in, q).val, r, d1, d2, d3)
  <2> DEFINE c == SubSeq(in, 4 * q - 3, 4 * q)
             last == q = m
  <2>1. last \in BOOLEAN /\ quad(c, last).ok
      BY Zenon, <1>1 DEF Decode
  <2>2. Decode(in, q) = quad(c, last)
      BY Zenon DEF Decode
  <2> HIDE DEF c, last
  <2>3. PICK r, d1, d2, d3 : Of(r, d1, d2, d3) /\ Shown(c, r, d1, d2, d3) /\ (r < 3 => last)
      BY Zenon, <2>1, QuadOnly
  <2>4. ReadAs(c, last, r, d1, d2, d3)
      BY Zenon, <2>1, <2>3, QuadReads
  <2>5. Decode(in, q).val = First(r, d1, d2, d3)
      BY Zenon, <2>2, <2>4, GotFields DEF ReadAs
  <2>6. Lists(Decode(in, q).val, r, d1, d2, d3)
      BY Zenon, <2>3, <2>5, FirstBytes
  <2> QED BY Zenon, <2>3, <2>6 DEF c, last
<1> DEFINE len(q) == Len(Decode(in, q).val)
<1>4. \A q \in 1..m : len(q) \in 1..3 /\ (q # m => len(q) = 3)
  <2> SUFFICES ASSUME NEW q \in 1..m PROVE len(q) \in 1..3 /\ (q # m => len(q) = 3)
      OBVIOUS
  <2>1. PICK r, d1, d2, d3 : /\ Of(r, d1, d2, d3) /\ Shown(SubSeq(in, 4 * q - 3, 4 * q), r, d1, d2, d3)
                             /\ r < 3 => q = m
                             /\ Lists(Decode(in, q).val, r, d1, d2, d3)
      BY Zenon, <1>3
  <2>2. len(q) = r /\ r \in 1..3
      BY Zenon, <2>1 DEF Lists, Of
  <2> HIDE DEF len
  <2> QED BY <2>1, <2>2
<1>5. n \in Nat /\ (m = 0 => n = 0) /\ (m # 0 => n = 3 * (m - 1) + len(m))
  <2>1. m # 0 => m \in 1..m
      BY <1>2
  <2>2. m # 0 => len(m) \in 1..3
      BY Zenon, <1>4, <2>1
  <2>3. (m = 0 => n = 0) /\ (m # 0 => n = 3 * (m - 1) + len(m))
      BY Zenon DEF Size
  <2> HIDE DEF m, n, len
  <2> QED BY <1>2, <2>2, <2>3
<1>6. data = [i \in 1..n |-> ByteAt(in, i)]
    BY Zenon DEF DecodedBytes
<1> HIDE DEF data, n
<1>7. \A q \in 1..m : Count(n, q) = len(q)
  <2> SUFFICES ASSUME NEW q \in 1..m PROVE Count(n, q) = len(q)
      OBVIOUS
  <2>1. m # 0 /\ m \in 1..m /\ q \in Nat /\ q <= m
      BY <1>2
  <2>2. len(m) \in 1..3 /\ len(q) \in 1..3 /\ (q # m => len(q) = 3) /\ n = 3 * (m - 1) + len(m)
      BY Zenon, <1>4, <1>5, <2>1
  <2>3. q = m => len(q) = len(m)
      BY Zenon
  <2> HIDE DEF m, len
  <2>4. Sizes(m, len(m), n, q, len(q))
      BY Zenon, <1>2, <2>2, <2>3 DEF Sizes
  <2>5. Shows(n, q, len(q))
      BY Zenon, <2>4, Sized
  <2> QED BY Zenon, <2>5 DEF Shows
<1>8. Quads(n) = m
  <2>1. m # 0 => m \in 1..m
      BY <1>2
  <2>2. m # 0 => len(m) \in 1..3
      BY Zenon, <1>4, <2>1
  <2> HIDE DEF m, len
  <2>3. CASE m = 0
      BY <1>5, <2>3 DEF Quads
  <2>4. CASE m # 0
      BY Zenon, <1>2, <1>5, <2>2, <2>4, SizedWhole
  <2> QED BY Zenon, <2>3, <2>4
<1>9. ASSUME NEW q \in 1..m, NEW p \in 1..len(q)
      PROVE  3 * q - 3 + p \in 1..n /\ data[3 * q - 3 + p] = Decode(in, q).val[p]
  <2>1. m # 0 /\ m \in 1..m /\ q \in Nat /\ q > 0 /\ q <= m
      BY <1>2
  <2>2. len(m) \in 1..3 /\ len(q) \in 1..3 /\ (q # m => len(q) = 3) /\ n = 3 * (m - 1) + len(m)
      BY Zenon, <1>4, <1>5, <2>1
  <2>3. q = m => len(q) = len(m)
      BY Zenon
  <2>4. p \in 1..3
    <3> HIDE DEF len
    <3> QED BY <2>2
  <2>5. 3 * q - 3 + p \in 1..n
    <3> HIDE DEF m, len
    <3>1. Sizes(m, len(m), n, q, len(q))
        BY Zenon, <1>2, <2>2, <2>3 DEF Sizes
    <3>2. Shows(n, q, len(q))
        BY Zenon, <3>1, Sized
    <3> QED BY Zenon, <2>4, <3>2 DEF Shows
  <2>6. ((3 * q - 3 + p) + 2) \div 3 = q /\ (((3 * q - 3 + p) - 1) % 3) + 1 = p
    <3> HIDE DEF m, len
    <3> QED BY <2>1, <2>4
  <2> DEFINE k == 3 * q - 3 + p
  <2>7. k \in 1..n /\ (k + 2) \div 3 = q /\ ((k - 1) % 3) + 1 = p
      BY Zenon, <2>5, <2>6
  <2> HIDE DEF k
  <2>8. data[k] = ByteAt(in, k)
      BY Zenon, <1>6, <2>7
  <2>9. data[k] = Decode(in, q).val[p]
      BY Zenon, <2>7, <2>8 DEF ByteAt
  <2> QED BY Zenon, <2>7, <2>9 DEF k
<1>10. ASSUME NEW i \in 1..n
       PROVE  \E q \in 1..m : \E p \in 1..len(q) : i = 3 * q - 3 + p
  <2> DEFINE q == (i + 2) \div 3
             p == ((i - 1) % 3) + 1
  <2>1. m # 0
      BY <1>2, <1>5
  <2>2. m \in 1..m
      BY <1>2, <2>1
  <2>3. len(m) \in 1..3 /\ n = 3 * (m - 1) + len(m)
      BY Zenon, <1>4, <1>5, <2>1, <2>2
  <2>4. q \in 1..m /\ p \in 1..3 /\ i = 3 * q - 3 + p
    <3> HIDE DEF m, len
    <3>1. Placed3(i, m, q, p)
        BY Zenon, <1>2, <2>1, <2>3, SizedWhole
    <3> QED BY Zenon, <3>1 DEF Placed3
  <2> HIDE DEF q, p
  <2>5. len(q) \in 1..3 /\ (q # m => len(q) = 3) /\ (q = m => len(q) = len(m))
      BY Zenon, <1>4, <2>4
  <2>6. p \in 1..len(q)
    <3> HIDE DEF m, len
    <3>1. Sizes(m, len(m), n, q, len(q))
        BY Zenon, <1>2, <2>3, <2>4, <2>5 DEF Sizes
    <3>2. Shows(n, q, len(q))
        BY Zenon, <3>1, Sized
    <3> QED BY Zenon, <2>4, <3>2 DEF Shows
  <2> QED BY Zenon, <2>4, <2>6
<1>11. data \in Seq(Byte) /\ Len(data) = n
  <2>1. ASSUME NEW i \in 1..n PROVE data[i] \in Byte
    <3>1. PICK q \in 1..m : \E p \in 1..len(q) : i = 3 * q - 3 + p
        BY Zenon, <1>10
    <3>2. PICK p \in 1..len(q) : i = 3 * q - 3 + p
        BY Zenon, <3>1
    <3>3. data[i] = Decode(in, q).val[p]
        BY Zenon, <1>9, <3>2
    <3>4. PICK r, d1, d2, d3 : /\ Of(r, d1, d2, d3) /\ Shown(SubSeq(in, 4 * q - 3, 4 * q), r, d1, d2, d3)
                               /\ r < 3 => q = m
                               /\ Lists(Decode(in, q).val, r, d1, d2, d3)
        BY Zenon, <1>3
    <3> DEFINE v == Decode(in, q).val
    <3>5. p \in 1..r /\ r \in 1..3
        BY Zenon, <3>4 DEF Lists, Of
    <3>6. p = 1 \/ (p = 2 /\ r > 1) \/ (p = 3 /\ r > 2)
        BY <3>5
    <3> QED BY Zenon, <3>3, <3>4, <3>6 DEF Lists, Of
  <2>2. data = [i \in 1..n |-> data[i]]
      BY Zenon, <1>6
  <2> QED BY <1>5, <2>1, <2>2
<1>12. ASSUME NEW q \in 1..m PROVE ShownAt(data, in, q)
  <2>1. PICK r, d1, d2, d3 : /\ Of(r, d1, d2, d3) /\ Shown(SubSeq(in, 4 * q - 3, 4 * q), r, d1, d2, d3)
                             /\ r < 3 => q = m
                             /\ Lists(Decode(in, q).val, r, d1, d2, d3)
      BY Zenon, <1>3
  <2>2. len(q) = r /\ Count(n, q) = r /\ r \in 1..3
      BY Zenon, <1>7, <2>1 DEF Lists, Of
  <2>3. q \in Nat /\ q > 0
      BY <1>2
  <2>4. 3 * q - 3 + 1 = 3 * q - 2 /\ 3 * q - 3 + 2 = 3 * q - 1 /\ 3 * q - 3 + 3 = 3 * q
      BY <2>3
  <2>5. At(data, 3 * q - 2) = d1
    <3>1. 1 \in 1..len(q)
        BY <2>2
    <3>2. 3 * q - 3 + 1 \in 1..n /\ data[3 * q - 3 + 1] = Decode(in, q).val[1]
        BY Zenon, <1>9, <3>1
    <3>3. 3 * q - 2 \in 1..n /\ data[3 * q - 2] = d1
        BY Zenon, <2>1, <2>4, <3>2 DEF Lists
    <3> QED BY <1>5, <1>11, <3>3 DEF At
  <2>6. At(data, 3 * q - 1) = d2
    <3>1. CASE r > 1
      <4>1. 2 \in 1..len(q)
          BY <2>2, <3>1
      <4>2. 3 * q - 3 + 2 \in 1..n /\ data[3 * q - 3 + 2] = Decode(in, q).val[2]
          BY Zenon, <1>9, <4>1
      <4>3. 3 * q - 1 \in 1..n /\ data[3 * q - 1] = d2
          BY Zenon, <2>1, <2>4, <3>1, <4>2 DEF Lists
      <4> QED BY <1>5, <1>11, <4>3 DEF At
    <3>2. CASE ~(r > 1)
      <4>1. r < 2
          BY <2>2, <3>2
      <4>2. d2 = 0
          BY Zenon, <2>1, <4>1 DEF Of
      <4>3. 3 * q - 1 > n
          BY <1>5, <2>2, <2>3, <4>1 DEF Count
      <4> QED BY <1>5, <1>11, <2>3, <4>2, <4>3 DEF At
    <3> QED BY Zenon, <3>1, <3>2
  <2>7. At(data, 3 * q) = d3
    <3>1. CASE r > 2
      <4>1. 3 \in 1..len(q)
          BY <2>2, <3>1
      <4>2. 3 * q - 3 + 3 \in 1..n /\ data[3 * q - 3 + 3] = Decode(in, q).val[3]
          BY Zenon, <1>9, <4>1
      <4>3. 3 * q \in 1..n /\ data[3 * q] = d3
          BY Zenon, <2>1, <2>4, <3>1, <4>2 DEF Lists
      <4> QED BY <1>5, <1>11, <4>3 DEF At
    <3>2. CASE ~(r > 2)
      <4>1. r < 3
          BY <2>2, <3>2
      <4>2. d3 = 0
          BY Zenon, <2>1, <4>1 DEF Of
      <4>3. 3 * q > n
          BY <1>5, <2>2, <2>3, <4>1 DEF Count
      <4> QED BY <1>5, <1>11, <2>3, <4>2, <4>3 DEF At
    <3> QED BY Zenon, <3>1, <3>2
  <2>8. \A j \in 1..4 : SubSeq(in, 4 * q - 3, 4 * q)[j] = in[4 * q - 4 + j]
      BY Zenon, <1>2, SubQuad
  <2> HIDE DEF m, len
  <2>9. \A j \in 1..4 : in[4 * q - 4 + j] = IF j > r + 1 THEN Pad ELSE SymbolOf(d1, d2, d3, j)
      BY Zenon, <2>1, <2>8 DEF Shown
  <2>10. \A j \in 1..4 : Sym(data, q, j) = SymbolOf(d1, d2, d3, j)
      BY Zenon, <2>5, <2>6, <2>7 DEF Sym
  <2> QED BY Zenon, <1>11, <2>2, <2>9, <2>10 DEF ShownAt
<1>13. Encodes(data, in)
    BY Zenon, <1>2, <1>8, <1>11, <1>12 DEF Encodes
<1> QED BY Zenon, <1>11, <1>13

(* base64 loses nothing: the text base64_encode writes for any bytes is one
   base64_decode accepts, and it returns those bytes. *)
THEOREM Base64RoundTrip ==
    \A data \in Seq(Byte) : base64_decode(base64_encode(data)) = Got(data, <<>>)
<1> SUFFICES ASSUME NEW data \in Seq(Byte) PROVE base64_decode(base64_encode(data)) = Got(data, <<>>)
    OBVIOUS
<1> DEFINE e == base64_encode(data)
<1>1. e \in Seq(Symbol \cup {Pad}) /\ Encodes(data, e)
    BY Zenon, EncodeEncodes
<1>2. Symbol \cup {Pad} \subseteq Int
    BY Cuts DEF Symbol, Pad
<1> HIDE DEF e
<1>3. e \in Seq(Int)
    BY <1>1, <1>2
<1>4. base64_decode(e) = Got(data, <<>>)
    BY Zenon, <1>1, <1>3, EncodesRead
<1> QED BY Zenon, <1>4 DEF e

(* Some bytes have one text only: whatever base64_decode accepts, misplaced
   padding and spare bits refused, is what base64_encode writes for the bytes
   it returns. *)
THEOREM Base64Canonical ==
    \A in \in Seq(Int) : base64_decode(in).ok => base64_encode(base64_decode(in).val) = in
<1> SUFFICES ASSUME NEW in \in Seq(Int), base64_decode(in).ok PROVE base64_encode(base64_decode(in).val) = in
    OBVIOUS
<1>1. PICK data \in Seq(Byte) : Encodes(data, in)
    BY Zenon, ReadEncodes
<1>2. base64_decode(in) = Got(data, <<>>) /\ base64_encode(data) = in
    BY Zenon, <1>1, EncodesRead, EncodesOnce
<1> QED BY Zenon, <1>2, GotFields
=============================================================================
