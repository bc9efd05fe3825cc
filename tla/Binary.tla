------------------------------- MODULE Binary -------------------------------
(***************************************************************************)
(* The byte level of the native format (src/detail/binary.cpp) and base64   *)
(* (src/detail/base64.cpp), with the widths as parameters: a byte has       *)
(* ByteBits bits (8 in the code), an integer IntBits (64 in the code, which *)
(* is, as here, one bit more than a whole number of varint groups), and a   *)
(* float is one byte: a sign, two exponent bits and a mantissa.             *)
(***************************************************************************)
EXTENDS Integers, Sequences

CONSTANTS ByteBits, IntBits

ASSUME WidthAssumption ==
    /\ ByteBits \in Nat /\ ByteBits % 4 = 0 /\ ByteBits > 0
    /\ IntBits \in Nat /\ IntBits % (ByteBits - 1) = 1

Power[n \in Nat] == IF n = 0 THEN 1 ELSE 2 * Power[n - 1]   \* 2^n: 1 << n

Byte == 0..(Power[ByteBits] - 1)
Group == Power[ByteBits - 1]                  \* 0x80: the continuation bit
MaxGroups == IntBits \div (ByteBits - 1) + 1  \* 10
Word == Power[IntBits]                        \* arithmetic is modulo this
Signed(w) == IF w >= Word \div 2 THEN w - Word ELSE w

(* What a reader returns: a value and the bytes that are left, or a failure. *)
Got(val, rest) == [ok |-> TRUE, val |-> val, rest |-> rest]
NoRead == [ok |-> FALSE]
Then(read, F(_)) == IF read.ok THEN F(read) ELSE NoRead

u8(bytes) == IF bytes = <<>> THEN NoRead ELSE Got(Head(bytes), Tail(bytes))
take(n, bytes) ==
    IF Len(bytes) < n THEN NoRead ELSE Got(SubSeq(bytes, 1, n), SubSeq(bytes, n + 1, Len(bytes)))

-----------------------------------------------------------------------------
put_uvarint(w) ==
    LET put[v \in 0..(Word - 1)] ==
            IF v >= Group THEN <<(v % Group) + Group>> \o put[v \div Group] ELSE <<v>>
    IN  put[w]

(* Mutant: a trailing all-zero group is accepted. *)
minimal_any(idx, b) == TRUE
minimal(idx, b) == ~(idx > 0 /\ b = 0)
fits(idx, b) == ~(idx = MaxGroups - 1 /\ b > 1)

(* What the turns of the loop from idx on read; the groups are or-ed together. *)
uvarint(bytes) ==
    LET from[idx \in 0..MaxGroups] ==
            LET b == bytes[idx + 1]
                group == ((b % Group) * Power[idx * (ByteBits - 1)]) % Word
            IN  IF idx >= MaxGroups \/ idx >= Len(bytes) THEN NoRead
                ELSE IF ~fits(idx, b) THEN NoRead
                ELSE IF b < Group
                THEN IF minimal(idx, b) THEN Got(group, SubSeq(bytes, idx + 2, Len(bytes))) ELSE NoRead
                ELSE IF from[idx + 1].ok
                THEN Got(group + from[idx + 1].val, from[idx + 1].rest) ELSE NoRead
    IN  from[0]

(* (v << 1) ^ sign and its inverse, (zz >> 1) ^ -(zz & 1), on words: to xor
   with a word of ones is to subtract from it. *)
put_zigzag(v) ==
    LET doubled == (2 * v) % Word
    IN  put_uvarint(IF v < 0 THEN Word - 1 - doubled ELSE doubled)
zigzag(bytes) ==
    LET decoded(zz) == IF zz % 2 = 1 THEN Word - 1 - zz \div 2 ELSE zz \div 2
    IN  Then(uvarint(bytes), LAMBDA w : Got(Signed(decoded(w.val)), w.rest))

(* Every NaN is written as the canonical one, and no other is read. *)
CanonicalNaN == 7
IsNaN(bits) == bits % 8 = 7
put_f64le(bits) == <<IF IsNaN(bits) THEN CanonicalNaN ELSE bits>>
f64le(bytes) ==
    IF bytes = <<>> \/ (IsNaN(bytes[1]) /\ bytes[1] # CanonicalNaN) THEN NoRead ELSE u8(bytes)

-----------------------------------------------------------------------------
(* base64: three bytes are four symbols, each with 3/4 of a byte's bits. *)
SymbolBits == (3 * ByteBits) \div 4
S == Power[SymbolBits]             \* 64
Q == Power[ByteBits \div 4]        \* 4
Pad == -1                          \* '='
Symbol == 0..(S - 1)

(* The j-th symbol of the q-th three bytes; the last may be only one or two. *)
base64_encode(data) ==
    LET d(i) == IF i <= Len(data) THEN data[i] ELSE 0
        n(q) == (d(3 * q - 2) * S * Q + d(3 * q - 1)) * S * Q + d(3 * q)
        symbol(q, j) ==
            IF 3 * (q - 1) + j > Len(data) + 1 THEN Pad ELSE (n(q) \div Power[(4 - j) * SymbolBits]) % S
    IN  [k \in 1..(4 * ((Len(data) + 2) \div 3)) |-> symbol((k + 3) \div 4, ((k - 1) % 4) + 1)]

spare_bits_zero(v, m) == v % m = 0

(* The bytes of four symbols, of which the last one or two may be padding. *)
quad(c, last_quad) ==
    LET pad2 == c[3] = Pad
        pad3 == c[4] = Pad
        b1 == c[1] * Q + c[2] \div (Q * Q)
        b2 == (c[2] % (Q * Q)) * (Q * Q) + c[3] \div Q
        b3 == (c[3] % Q) * S + c[4]
    IN  IF ((pad2 \/ pad3) /\ ~last_quad) \/ (pad2 /\ ~pad3) \/ ~({c[1], c[2]} \subseteq Symbol) THEN NoRead
        ELSE IF pad2 THEN IF spare_bits_zero(c[2], Q * Q) THEN Got(<<b1>>, <<>>) ELSE NoRead
        ELSE IF c[3] \notin Symbol THEN NoRead
        ELSE IF pad3 THEN IF spare_bits_zero(c[3], Q) THEN Got(<<b1, b2>>, <<>>) ELSE NoRead
        ELSE IF c[4] \notin Symbol THEN NoRead
        ELSE Got(<<b1, b2, b3>>, <<>>)

(* Every quad but the last has three bytes. *)
base64_decode(in) ==
    LET quads == Len(in) \div 4
        decoded(q) == quad(SubSeq(in, 4 * q - 3, 4 * q), q = quads)
        size == IF quads = 0 THEN 0 ELSE 3 * (quads - 1) + Len(decoded(quads).val)
    IN  IF Len(in) % 4 # 0 \/ \E q \in 1..quads : ~decoded(q).ok THEN NoRead
        ELSE Got([i \in 1..size |-> decoded((i + 2) \div 3).val[((i - 1) % 3) + 1]], <<>>)
=============================================================================
