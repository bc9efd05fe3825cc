---------------------------- MODULE StringProofs ----------------------------
(***************************************************************************)
(* The strings of a JSON document, for every string: what json_quote writes *)
(* is read back, so is what any other writer escapes, and valid_utf8 accepts *)
(* the well-formed encodings of the Unicode standard and nothing else.  The  *)
(* loops of the code go over a text of any length: a piece of text is shown  *)
(* to be read the same wherever it stands, and a text is a row of pieces.    *)
(***************************************************************************)
EXTENDS JsonStrings, WellFoundedInduction, TLAPS

(* A non-empty set of naturals has a least element. *)
LEMMA Least ==
    ASSUME NEW D, D \subseteq Nat, D # {}
    PROVE  \E i \in D : \A j \in D : i <= j
<1> DEFINE R == OpToRel(<, Nat)
<1>1. IsWellFoundedOn(R, Nat)
    BY Zenon, NatLessThanWellFounded
<1>2. \A i, j \in Nat : j < i => <<j, i>> \in R
    BY DEF OpToRel
<1> HIDE DEF R
<1>3. PICK i \in D : \A j \in D : ~(<<j, i>> \in R)
    BY Zenon, <1>1, WFMin
<1>4. \A j \in D : i \in Nat /\ j \in Nat /\ ~(j < i)
    BY Zenon, <1>2, <1>3
<1> QED BY <1>4

(* What holds of 0, and of a number if it holds of the one before, holds of all. *)
LEMMA Induction ==
    ASSUME NEW H, 0 \in H, \A n \in Nat : n \in H => n + 1 \in H
    PROVE  Nat \subseteq H
<1> DEFINE D == Nat \ H
<1> SUFFICES ASSUME D # {} PROVE FALSE
    BY Zenon
<1>1. PICK i \in D : \A j \in D : i <= j
    BY Zenon, Least
<1>2. i # 0
    BY Zenon, <1>1
<1>3. i - 1 \in Nat /\ (i - 1) + 1 = i /\ ~(i <= i - 1)
    BY <1>1, <1>2
<1> QED BY Zenon, <1>1, <1>3

-----------------------------------------------------------------------------
(* Recursion from the end of a text.  What holds of a position if it holds of
   all later ones holds of all. *)
LEMMA Downward ==
    ASSUME NEW n \in Nat, NEW H, \A i \in 1..(n + 1) : (\A j \in (i + 1)..(n + 1) : j \in H) => i \in H
    PROVE  \A i \in 1..(n + 1) : i \in H
<1> DEFINE D == {k \in Nat : (n + 1) - k \in 1..(n + 1) /\ (n + 1) - k \notin H}
<1>1. D = {}
  <2> SUFFICES ASSUME D # {} PROVE FALSE
      OBVIOUS
  <2>1. PICK k \in D : \A j \in D : k <= j
      BY Zenon, Least
  <2>2. ASSUME NEW j \in ((n + 1) - k + 1)..(n + 1) PROVE j \in H
    <3>1. k \in Nat /\ (n + 1) - k \in 1..(n + 1)
        BY <2>1
    <3>2. /\ (n + 1) - j \in Nat /\ (n + 1) - ((n + 1) - j) = j /\ j \in 1..(n + 1)
          /\ ~(k <= (n + 1) - j)
        BY <3>1
    <3>3. (n + 1) - j \notin D
        BY Zenon, <2>1, <3>2
    <3> QED BY Zenon, <3>2, <3>3
  <2> QED BY Zenon, <2>1, <2>2
<1>2. ASSUME NEW i \in 1..(n + 1) PROVE i \in H
  <2>1. (n + 1) - i \in Nat /\ (n + 1) - ((n + 1) - i) = i
      OBVIOUS
  <2> QED BY Zenon, <1>1, <2>1
<1> QED BY Zenon, <1>2

(* f is defined at each position, from m on, by what it is at later ones. *)
Defined(n, G, m, f) == \A i \in m..(n + 1) : f[i] = G[i][[j \in (i + 1)..(n + 1) |-> f[j]]]

(* A rule that gives each position a value from those of the later ones defines a function. *)
LEMMA Recursion ==
    ASSUME NEW n \in Nat, NEW R, NEW G, \A i \in 1..(n + 1) : \A g \in [(i + 1)..(n + 1) -> R] : G[i][g] \in R
    PROVE  \E f \in [1..(n + 1) -> R] : Defined(n, G, 1, f)
<1> DEFINE H == {k \in Nat : k <= n + 1 => \E f \in [(n + 2 - k)..(n + 1) -> R] : Defined(n, G, n + 2 - k, f)}
<1>1. 0 \in H
  <2>1. \A i : i \notin (n + 2 - 0)..(n + 1)
      OBVIOUS
  <2> DEFINE f == [i \in (n + 2 - 0)..(n + 1) |-> 0]
  <2>2. f \in [(n + 2 - 0)..(n + 1) -> R] /\ Defined(n, G, n + 2 - 0, f)
      BY Zenon, <2>1 DEF Defined
  <2> QED BY Zenon, <2>2
<1>2. ASSUME NEW k \in Nat, k \in H PROVE k + 1 \in H
  <2> DEFINE m == n + 2 - (k + 1)
  <2> SUFFICES ASSUME k + 1 <= n + 1 PROVE \E f \in [m..(n + 1) -> R] : Defined(n, G, m, f)
      OBVIOUS
  <2>1. m \in 1..(n + 1) /\ m + 1 = n + 2 - k /\ k <= n + 1
      OBVIOUS
  <2> HIDE DEF m
  <2>2. PICK f \in [(m + 1)..(n + 1) -> R] : Defined(n, G, m + 1, f)
      BY Zenon, <1>2, <2>1
  <2> DEFINE g == [i \in m..(n + 1) |-> IF i = m THEN G[m][f] ELSE f[i]]
  <2>3. \A i \in m..(n + 1) : i # m => i \in (m + 1)..(n + 1) /\ i \in 1..(n + 1)
      BY <2>1
  <2>4. \A i \in m..(n + 1) : \A j \in (i + 1)..(n + 1) : j \in m..(n + 1) /\ j # m
      BY <2>1
  <2>5. G[m][f] \in R
      BY Zenon, <2>1, <2>2
  <2>6. g \in [m..(n + 1) -> R]
      BY Zenon, <2>2, <2>3, <2>5
  <2>7. \A i \in m..(n + 1) : [j \in (i + 1)..(n + 1) |-> g[j]] = [j \in (i + 1)..(n + 1) |-> f[j]]
      BY Zenon, <2>4
  <2>8. ASSUME NEW i \in m..(n + 1) PROVE g[i] = G[i][[j \in (i + 1)..(n + 1) |-> g[j]]]
    <3>1. CASE i = m
      <4>1. [j \in (m + 1)..(n + 1) |-> f[j]] = f
          BY Zenon, <2>2
      <4> QED BY Zenon, <2>7, <3>1, <4>1
    <3>2. CASE i # m
        BY Zenon, <2>2, <2>3, <2>7, <3>2 DEF Defined
    <3> QED BY Zenon, <3>1, <3>2
  <2>9. Defined(n, G, m, g)
      BY Zenon, <2>8 DEF Defined
  <2> QED BY Zenon, <2>6, <2>9
<1>3. Nat \subseteq H
    BY Zenon, <1>1, <1>2, Induction
<1>4. n + 2 - (n + 1) = 1 /\ n + 1 \in Nat /\ n + 1 <= n + 1
    OBVIOUS
<1> QED BY Zenon, <1>3, <1>4

-----------------------------------------------------------------------------
(* The bounds of what is read, as inequalities. *)
Unit == {n \in Nat : n <= 65535}
CodePoint == {n \in Nat : n <= 1114111}

(* The surrogates, as inequalities. *)
LEMMA Surrogates ==
    /\ \A n : n \in High <=> n \in Nat /\ 55296 <= n /\ n <= 56319
    /\ \A n : n \in Low <=> n \in Nat /\ 56320 <= n /\ n <= 57343
<1>1. \A n : n \in High <=> n \in Nat /\ 55296 <= n /\ n <= 56319
    BY SMTT(30) DEF High
<1>2. \A n : n \in Low <=> n \in Nat /\ 56320 <= n /\ n <= 57343
    BY SMTT(30) DEF Low
<1> QED BY SMT, <1>1, <1>2

(* What a scan is, and what its fields are. *)
Scans == {Bad} \cup {Scanned(v, n) : v \in Seq(Octet), n \in Nat}

LEMMA ScanFields ==
    /\ ~Bad.ok /\ Bad.ok \in BOOLEAN
    /\ \A v, n : Scanned(v, n).ok /\ Scanned(v, n).val = v /\ Scanned(v, n).next = n
BY DEF Bad, Scanned

(* What a character that is read is: bytes, and a later position. *)
Advances(scan, text, i) == scan.ok => scan.val \in Seq(Octet) /\ scan.next \in (i + 1)..(Len(text) + 1)

LEMMA ScanAdvances ==
    ASSUME NEW text, NEW i, NEW v \in Seq(Octet), NEW n \in (i + 1)..(Len(text) + 1)
    PROVE  Advances(Scanned(v, n), text, i)
<1>1. Scanned(v, n).val \in Seq(Octet)
    BY SMT DEF Scanned
<1>2. Scanned(v, n).next \in (i + 1)..(Len(text) + 1)
    BY Zenon DEF Scanned
<1> QED BY Zenon, <1>1, <1>2 DEF Advances

(* Bytes, and short rows of them. *)
LEMMA OctetSeqs ==
    /\ \A a \in Octet : <<a>> \in Seq(Octet)
    /\ \A a, b \in Octet : <<a, b>> \in Seq(Octet)
    /\ \A a, b, c \in Octet : <<a, b, c>> \in Seq(Octet)
    /\ \A a, b, c, d \in Octet : <<a, b, c, d>> \in Seq(Octet)
    /\ \A a : a \in Octet <=> a \in Nat /\ a <= 255
<1>1. \A a : a \in Octet <=> a \in Nat /\ a <= 255
    BY SMT DEF Octet
<1> QED BY SMT, <1>1

(* The bytes of a code point are bytes: the first says how many follow, and those are 128 to 191. *)
LEMMA EncodeType ==
    ASSUME NEW cp \in CodePoint
    PROVE  encode_utf8(cp) \in Seq(Octet)
<1>1. cp \in Nat /\ cp <= 1114111
    BY SMT DEF CodePoint
<1>2. CASE cp <= 127
  <2>1. encode_utf8(cp) = <<cp>>
      BY SMT, <1>2 DEF encode_utf8
  <2>2. cp \in Octet
      BY SMT, <1>1, <1>2, OctetSeqs
  <2> QED BY Zenon, <2>1, <2>2, OctetSeqs
<1>3. CASE ~(cp <= 127) /\ cp <= 2047
  <2>1. encode_utf8(cp) = <<192 + cp \div 64, 128 + (cp % 64)>>
      BY SMT, <1>3 DEF encode_utf8
  <2>2. 192 + cp \div 64 \in Octet /\ 128 + (cp % 64) \in Octet
      BY SMT, <1>1, <1>3, OctetSeqs
  <2> QED BY SMT, <2>1, <2>2, OctetSeqs
<1>4. CASE ~(cp <= 2047) /\ cp <= 65535
  <2>1. encode_utf8(cp) = <<224 + cp \div 4096, 128 + ((cp \div 64) % 64), 128 + (cp % 64)>>
      BY SMT, <1>1, <1>4 DEF encode_utf8
  <2>2. /\ 224 + cp \div 4096 \in Octet /\ 128 + ((cp \div 64) % 64) \in Octet
        /\ 128 + (cp % 64) \in Octet
      BY SMT, <1>1, <1>4, OctetSeqs
  <2> QED BY SMT, <2>1, <2>2, OctetSeqs
<1>5. CASE ~(cp <= 65535)
  <2>1. encode_utf8(cp) =
            <<240 + cp \div 262144, 128 + ((cp \div 4096) % 64), 128 + ((cp \div 64) % 64), 128 + (cp % 64)>>
      BY SMT, <1>1, <1>5 DEF encode_utf8
  <2>2. /\ 240 + cp \div 262144 \in Octet /\ 128 + ((cp \div 4096) % 64) \in Octet
        /\ 128 + ((cp \div 64) % 64) \in Octet /\ 128 + (cp % 64) \in Octet
      BY SMT, <1>1, <1>5, OctetSeqs
  <2> QED BY SMT, <2>1, <2>2, OctetSeqs
<1> QED BY SMT, <1>1, <1>2, <1>3, <1>4, <1>5

(* What hex digits, a surrogate pair and an escape are read as. *)
LEMMA PairType == \A hi \in High, lo \in Low : surrogates(hi, lo) \in CodePoint
BY SMT, Surrogates DEF surrogates, CodePoint

(* The number four digits spell. *)
Four(a, b, c, d) == ((a * 16 + b) * 16 + c) * 16 + d

LEMMA FourType ==
    ASSUME NEW a \in 0..15, NEW b \in 0..15, NEW c \in 0..15, NEW d \in 0..15
    PROVE  Four(a, b, c, d) \in Unit
<1>1. /\ a \in Nat /\ b \in Nat /\ c \in Nat /\ d \in Nat
      /\ a <= 15 /\ b <= 15 /\ c <= 15 /\ d <= 15
    OBVIOUS
<1>2. Four(a, b, c, d) \in Nat
    BY SMT, <1>1 DEF Four
<1>3. Four(a, b, c, d) <= 65535
    BY SMT, <1>1 DEF Four
<1> QED BY SMT, <1>2, <1>3 DEF Unit

LEMMA HexType ==
    ASSUME NEW text \in Seq(Octet), NEW i \in Nat \ {0}, parse_hex4(text, i).ok
    PROVE  /\ i + 3 <= Len(text)
           /\ parse_hex4(text, i).val \in Unit
           /\ parse_hex4(text, i).next = i + 4
<1> DEFINE d(k) == hex_digit(text[i + k])
<1>1. /\ ~(i + 3 > Len(text)) /\ ~\E k \in 0..3 : d(k) = -1
      /\ parse_hex4(text, i) = Scanned(Four(d(0), d(1), d(2), d(3)), i + 4)
    BY Zenon, ScanFields DEF parse_hex4, Four
<1>2. \A k \in 0..3 : i + k \in 1..Len(text)
    BY <1>1
<1>3. \A k \in 0..3 : text[i + k] \in Octet
    BY <1>2
<1>4. \A c \in Octet : hex_digit(c) \in (0..15) \cup {-1}
    BY DEF hex_digit, Octet, Digit
<1>5. \A k \in 0..3 : d(k) \in (0..15) \cup {-1} /\ d(k) # -1
    BY Zenon, <1>1, <1>3, <1>4
<1> HIDE DEF d
<1>6. d(0) \in 0..15 /\ d(1) \in 0..15 /\ d(2) \in 0..15 /\ d(3) \in 0..15
    BY <1>5
<1>7. Four(d(0), d(1), d(2), d(3)) \in Unit
    BY Zenon, <1>6, FourType
<1>8. i + 3 <= Len(text)
    BY <1>1
<1>9. parse_hex4(text, i).val \in Unit /\ parse_hex4(text, i).next = i + 4
    BY SMT, <1>1, <1>7, ScanFields
<1> QED BY Zenon, <1>8, <1>9

LEMMA UnicodeType ==
    ASSUME NEW text \in Seq(Octet), NEW i \in Nat \ {0}
    PROVE  Advances(unicode_escape(text, i), text, i)
<1> DEFINE hi == parse_hex4(text, i)
           lo == parse_hex4(text, i + 6)
<1> SUFFICES ASSUME unicode_escape(text, i).ok PROVE Advances(unicode_escape(text, i), text, i)
    BY Zenon DEF Advances
<1>1. hi.ok
    BY Zenon, ScanFields DEF unicode_escape
<1>2. i + 3 <= Len(text) /\ hi.val \in Unit
    BY Zenon, <1>1, HexType
<1>3. CASE unicode_escape(text, i) = Scanned(encode_utf8(hi.val), i + 4)
  <2>1. hi.val \in CodePoint /\ i + 4 \in (i + 1)..(Len(text) + 1)
      BY SMT, <1>2 DEF Unit, CodePoint
  <2> QED BY Zenon, <1>3, <2>1, EncodeType, ScanAdvances
<1>4. CASE unicode_escape(text, i) # Scanned(encode_utf8(hi.val), i + 4)
  <2> DEFINE cp == surrogates(hi.val, lo.val)
  <2>1. /\ lo.ok /\ hi.val \in High /\ lo.val \in Low
        /\ unicode_escape(text, i) = Scanned(encode_utf8(cp), i + 10)
      BY Zenon, <1>4, ScanFields DEF unicode_escape
  <2>2. i + 6 \in Nat \ {0}
      OBVIOUS
  <2>3. (i + 6) + 3 <= Len(text)
      BY Zenon, <2>1, <2>2, HexType
  <2>4. cp \in CodePoint
      BY Zenon, <2>1, PairType
  <2>5. i + 10 \in (i + 1)..(Len(text) + 1)
      BY <2>3
  <2> QED BY Zenon, <2>1, <2>4, <2>5, EncodeType, ScanAdvances
<1> QED BY Zenon, <1>3, <1>4

(* A character of a string is read as bytes, up to a later position. *)
LEMMA CharacterType ==
    ASSUME NEW text \in Seq(Octet), NEW i \in 1..Len(text)
    PROVE  Advances(character(text, i), text, i)
<1> DEFINE c == text[i]
<1>1. c \in Octet /\ i + 1 \in (i + 1)..(Len(text) + 1)
    OBVIOUS
<1>2. CASE c = Backslash
  <2>1. character(text, i) = escape(text, i + 1)
      BY Zenon, <1>2 DEF character
  <2>2. CASE i + 1 > Len(text)
      BY Zenon, <2>1, <2>2, ScanFields DEF escape, Advances
  <2>3. CASE ~(i + 1 > Len(text))
    <3>1. i + 1 \in 1..Len(text) /\ text[i + 1] \in Octet
        BY <2>3
    <3>2. \A e \in Named : <<unescaped(e)>> \in Seq(Octet)
        BY DEF Named, unescaped, Octet, Quote, Backslash
    <3>3. CASE text[i + 1] \in Named
      <4>1. character(text, i) = Scanned(<<unescaped(text[i + 1])>>, (i + 1) + 1)
          BY Zenon, <2>1, <2>3, <3>3 DEF escape
      <4>2. (i + 1) + 1 \in (i + 1)..(Len(text) + 1)
          BY <2>3
      <4> QED BY Zenon, <4>1, <4>2, <3>2, <3>3, ScanAdvances
    <3>4. CASE text[i + 1] \notin Named /\ text[i + 1] = U
      <4>1. character(text, i) = unicode_escape(text, (i + 1) + 1)
          BY Zenon, <2>1, <2>3, <3>4 DEF escape
      <4>2. Advances(unicode_escape(text, (i + 1) + 1), text, (i + 1) + 1)
        <5>1. (i + 1) + 1 \in Nat \ {0}
            OBVIOUS
        <5> QED BY Zenon, <5>1, UnicodeType
      <4>3. \A n : n \in (((i + 1) + 1) + 1)..(Len(text) + 1) => n \in (i + 1)..(Len(text) + 1)
          OBVIOUS
      <4> QED BY Zenon, <4>1, <4>2, <4>3 DEF Advances
    <3>5. CASE text[i + 1] \notin Named /\ text[i + 1] # U
        BY Zenon, <2>1, <2>3, <3>5, ScanFields DEF escape, Advances
    <3> QED BY Zenon, <3>3, <3>4, <3>5
  <2> QED BY Zenon, <2>2, <2>3
<1>3. CASE c # Backslash /\ c < 32
    BY Zenon, <1>3, ScanFields DEF character, Advances
<1>4. CASE c # Backslash /\ ~(c < 32)
  <2>1. character(text, i) = Scanned(<<c>>, i + 1)
      BY Zenon, <1>4 DEF character
  <2>2. <<c>> \in Seq(Octet)
      BY <1>1
  <2> QED BY Zenon, <1>1, <2>1, <2>2, ScanAdvances
<1> QED BY Zenon, <1>2, <1>3, <1>4

-----------------------------------------------------------------------------
(* The turns of parse_string's loop, as a function of what the later turns are. *)
StringTurn(text, i, f) ==
    LET c == character(text, i)
    IN  IF i > Len(text) THEN Bad
        ELSE IF text[i] = Quote THEN Scanned(<<>>, i + 1)
        ELSE IF c.ok THEN Before(c.val, f[c.next]) ELSE Bad
StringTurns(text, f) == f = [i \in 1..(Len(text) + 1) |-> StringTurn(text, i, f)]
StringReader(text) == CHOOSE f : StringTurns(text, f)

LEMMA ScanCases ==
    /\ Bad \in Scans
    /\ \A v \in Seq(Octet), n \in Nat : Scanned(v, n) \in Scans
    /\ \A scan \in Scans : scan = Bad \/ \E v \in Seq(Octet), n \in Nat : scan = Scanned(v, n)
BY SMT DEF Scans

LEMMA BeforeEq ==
    /\ \A v : Before(v, Bad) = Bad
    /\ \A v, w, n : Before(v, Scanned(w, n)) = Scanned(v \o w, n)
<1>1. \A v : Before(v, Bad) = Bad
    BY Zenon, ScanFields DEF Before
<1>2. \A v, w, n : Before(v, Scanned(w, n)) = Scanned(v \o w, n)
    BY SMT DEF Before, Scanned
<1> QED BY Zenon, <1>1, <1>2

LEMMA BeforeType ==
    ASSUME NEW v \in Seq(Octet), NEW scan \in Scans
    PROVE  Before(v, scan) \in Scans
<1>1. \A w \in Seq(Octet) : v \o w \in Seq(Octet)
    OBVIOUS
<1>2. CASE scan = Bad
    BY Zenon, <1>2, BeforeEq, ScanCases
<1>3. ASSUME NEW w \in Seq(Octet), NEW n \in Nat, scan = Scanned(w, n) PROVE Before(v, scan) \in Scans
  <2>1. Before(v, scan) = Scanned(v \o w, n)
      BY Zenon, <1>3, BeforeEq
  <2> QED BY Zenon, <1>1, <2>1, ScanCases
<1> QED BY Zenon, <1>2, <1>3, ScanCases

(* A turn of the loop gives a scan if the later ones do. *)
LEMMA StringTurnType ==
    ASSUME NEW text \in Seq(Octet), NEW i \in 1..(Len(text) + 1), NEW f,
           \A j \in (i + 1)..(Len(text) + 1) : f[j] \in Scans
    PROVE  StringTurn(text, i, f) \in Scans
<1> DEFINE c == character(text, i)
<1>1. <<>> \in Seq(Octet) /\ i + 1 \in Nat
    OBVIOUS
<1>2. CASE i > Len(text)
    BY Zenon, <1>2, ScanCases DEF StringTurn
<1>3. CASE ~(i > Len(text)) /\ text[i] = Quote
    BY Zenon, <1>1, <1>3, ScanCases DEF StringTurn
<1>4. CASE ~(i > Len(text)) /\ text[i] # Quote /\ c.ok
  <2>1. i \in 1..Len(text)
      BY <1>4
  <2>2. c.val \in Seq(Octet) /\ c.next \in (i + 1)..(Len(text) + 1)
      BY Zenon, <1>4, <2>1, CharacterType DEF Advances
  <2>3. StringTurn(text, i, f) = Before(c.val, f[c.next])
      BY Zenon, <1>4 DEF StringTurn
  <2> QED BY Zenon, <2>2, <2>3, BeforeType
<1>5. CASE ~(i > Len(text)) /\ text[i] # Quote /\ ~c.ok
    BY Zenon, <1>5, ScanCases DEF StringTurn
<1> QED BY Zenon, <1>2, <1>3, <1>4, <1>5

(* A turn looks at later ones only. *)
LEMMA StringTurnLater ==
    ASSUME NEW text \in Seq(Octet), NEW i \in 1..(Len(text) + 1), NEW f
    PROVE  StringTurn(text, i, [j \in (i + 1)..(Len(text) + 1) |-> f[j]]) = StringTurn(text, i, f)
<1> DEFINE c == character(text, i)
           g == [j \in (i + 1)..(Len(text) + 1) |-> f[j]]
<1>1. CASE i > Len(text) \/ text[i] = Quote \/ ~c.ok
    BY Zenon, <1>1 DEF StringTurn
<1>2. CASE ~(i > Len(text)) /\ text[i] # Quote /\ c.ok
  <2>1. i \in 1..Len(text)
      BY <1>2
  <2>2. c.next \in (i + 1)..(Len(text) + 1)
      BY Zenon, <1>2, <2>1, CharacterType DEF Advances
  <2>3. g[c.next] = f[c.next]
      BY Zenon, <2>2
  <2>4. StringTurn(text, i, f) = Before(c.val, f[c.next]) /\ StringTurn(text, i, g) = Before(c.val, g[c.next])
      BY Zenon, <1>2 DEF StringTurn
  <2> QED BY Zenon, <2>3, <2>4
<1> QED BY Zenon, <1>1, <1>2

(* The loop ends: the turns from every position have a result. *)
LEMMA StringReaderEq ==
    ASSUME NEW text \in Seq(Octet)
    PROVE  /\ StringReader(text) \in [1..(Len(text) + 1) -> Scans]
           /\ StringTurns(text, StringReader(text))
           /\ \A i \in 1..(Len(text) + 1) : StringReader(text)[i] = StringTurn(text, i, StringReader(text))
<1> DEFINE n == Len(text)
           G == [i \in 1..(n + 1) |-> [g \in [(i + 1)..(n + 1) -> Scans] |-> StringTurn(text, i, g)]]
<1>1. n \in Nat
    OBVIOUS
<1>2. ASSUME NEW i \in 1..(n + 1), NEW g \in [(i + 1)..(n + 1) -> Scans]
      PROVE  G[i][g] = StringTurn(text, i, g) /\ G[i][g] \in Scans
  <2>1. G[i][g] = StringTurn(text, i, g)
      BY Zenon
  <2>2. \A j \in (i + 1)..(n + 1) : g[j] \in Scans
      BY Zenon
  <2> QED BY Zenon, <2>1, <2>2, StringTurnType
<1> HIDE DEF n, G
<1>3. PICK f \in [1..(n + 1) -> Scans] : Defined(n, G, 1, f)
    BY Zenon, <1>1, <1>2, Recursion
<1>4. ASSUME NEW i \in 1..(n + 1) PROVE f[i] = StringTurn(text, i, f)
  <2> DEFINE g == [j \in (i + 1)..(n + 1) |-> f[j]]
  <2>1. \A j \in (i + 1)..(n + 1) : j \in 1..(n + 1)
      BY <1>1
  <2>2. g \in [(i + 1)..(n + 1) -> Scans]
      BY Zenon, <1>3, <2>1
  <2>3. f[i] = G[i][g]
      BY Zenon, <1>3 DEF Defined
  <2> QED BY Zenon, <1>2, <2>2, <2>3, StringTurnLater DEF n
<1>5. f = [i \in 1..(n + 1) |-> StringTurn(text, i, f)]
    BY Zenon, <1>3, <1>4
<1>6. StringTurns(text, StringReader(text))
    BY Zenon, <1>5 DEF StringTurns, StringReader, n
<1> DEFINE r == StringReader(text)
<1>7. r = [i \in 1..(n + 1) |-> StringTurn(text, i, r)]
    BY Zenon, <1>6 DEF StringTurns, n
<1> HIDE DEF r
<1>8. \A i \in 1..(n + 1) : r[i] = StringTurn(text, i, r)
    BY Zenon, <1>7
<1> DEFINE H == {i \in 1..(n + 1) : r[i] \in Scans}
<1>9. ASSUME NEW i \in 1..(n + 1), \A j \in (i + 1)..(n + 1) : j \in H PROVE i \in H
    BY Zenon, <1>8, <1>9, StringTurnType DEF n
<1>10. \A i \in 1..(n + 1) : i \in H
    BY Zenon, <1>1, <1>9, Downward
<1>11. r \in [1..(n + 1) -> Scans]
    BY Zenon, <1>7, <1>10
<1> QED BY Zenon, <1>6, <1>8, <1>11 DEF n, r

-----------------------------------------------------------------------------
(* A piece stands at a position of a text. *)
At(text, i, p) ==
    /\ i \in Nat /\ 1 <= i /\ i + Len(p) <= Len(text) + 1
    /\ \A k \in 1..Len(p) : text[i + k - 1] = p[k]

(* Wherever the piece p stands, the loop reads it as v and goes on behind it. *)
StandsFor(p, v) ==
    /\ p \in Seq(Octet) /\ v \in Seq(Octet)
    /\ \A text \in Seq(Octet) : \A i \in Nat :
            At(text, i, p) => StringReader(text)[i] = Before(v, StringReader(text)[i + Len(p)])

(* Where two pieces stand, each of them stands. *)
LEMMA AtSplit ==
    ASSUME NEW text \in Seq(Octet), NEW i \in Nat, NEW p \in Seq(Octet), NEW q \in Seq(Octet),
           At(text, i, p \o q)
    PROVE  At(text, i, p) /\ At(text, i + Len(p), q)
<1> DEFINE m == Len(p)
           n == Len(q)
<1>1. /\ Len(p \o q) = m + n /\ m \in Nat /\ n \in Nat
      /\ \A k \in 1..m : (p \o q)[k] = p[k]
      /\ \A k \in 1..n : (p \o q)[m + k] = q[k]
    OBVIOUS
<1>2. /\ 1 <= i /\ i + (m + n) <= Len(text) + 1 /\ Len(text) \in Nat
      /\ \A k \in 1..(m + n) : text[i + k - 1] = (p \o q)[k]
    BY <1>1 DEF At
<1> HIDE DEF m, n
<1>3. \A k \in 1..m : k \in 1..(m + n)
    BY <1>1
<1>4. \A k \in 1..n : m + k \in 1..(m + n) /\ i + (m + k) - 1 = (i + m) + k - 1
    BY <1>1
<1>5. /\ i + m <= Len(text) + 1 /\ i + m \in Nat /\ 1 <= i + m
      /\ (i + m) + n <= Len(text) + 1
    BY <1>1, <1>2
<1>6. \A k \in 1..m : text[i + k - 1] = p[k]
    BY Zenon, <1>1, <1>2, <1>3
<1>7. \A k \in 1..n : text[(i + m) + k - 1] = q[k]
  <2> TAKE k \in 1..n
  <2>1. text[i + (m + k) - 1] = (p \o q)[m + k]
      BY Zenon, <1>2, <1>4
  <2>2. i + (m + k) - 1 = (i + m) + k - 1
      BY Zenon, <1>4
  <2>3. (p \o q)[m + k] = q[k]
      BY Zenon, <1>1
  <2> QED BY Zenon, <2>1, <2>2, <2>3
<1> QED BY Zenon, <1>1, <1>2, <1>5, <1>6, <1>7 DEF At, m, n

LEMMA AtRange ==
    ASSUME NEW text \in Seq(Octet), NEW i \in Nat, NEW p \in Seq(Octet), At(text, i, p)
    PROVE  /\ i \in 1..(Len(text) + 1) /\ i + Len(p) \in 1..(Len(text) + 1)
           /\ StringReader(text)[i] \in Scans /\ StringReader(text)[i + Len(p)] \in Scans
<1>1. i \in 1..(Len(text) + 1) /\ i + Len(p) \in 1..(Len(text) + 1)
    BY DEF At
<1> QED BY Zenon, <1>1, StringReaderEq

(* Putting bytes before a scan, one after the other, is putting both before it. *)
LEMMA BeforeNothing == \A scan \in Scans : Before(<<>>, scan) = scan
<1> SUFFICES ASSUME NEW scan \in Scans PROVE Before(<<>>, scan) = scan
    BY Zenon
<1>1. ASSUME NEW w \in Seq(Octet), NEW n \in Nat, scan = Scanned(w, n) PROVE Before(<<>>, scan) = scan
  <2>1. <<>> \o w = w
      OBVIOUS
  <2>2. Before(<<>>, Scanned(w, n)) = Scanned(<<>> \o w, n)
      BY Zenon, BeforeEq
  <2> QED BY Zenon, <1>1, <2>1, <2>2
<1> QED BY Zenon, <1>1, BeforeEq, ScanCases

LEMMA BeforeBoth ==
    ASSUME NEW v \in Seq(Octet), NEW w \in Seq(Octet), NEW scan \in Scans
    PROVE  Before(v, Before(w, scan)) = Before(v \o w, scan)
<1>1. CASE scan = Bad
    BY Zenon, <1>1, BeforeEq
<1>2. ASSUME NEW x \in Seq(Octet), NEW n \in Nat, scan = Scanned(x, n)
      PROVE  Before(v, Before(w, scan)) = Before(v \o w, scan)
  <2>1. v \o (w \o x) = (v \o w) \o x
      OBVIOUS
  <2>2. Before(w, scan) = Scanned(w \o x, n) /\ Before(v \o w, scan) = Scanned((v \o w) \o x, n)
      BY Zenon, <1>2, BeforeEq
  <2>3. Before(v, Scanned(w \o x, n)) = Scanned(v \o (w \o x), n)
      BY Zenon, BeforeEq
  <2> QED BY Zenon, <2>1, <2>2, <2>3
<1> QED BY Zenon, <1>1, <1>2, ScanCases

(* What pieces stand for, their concatenation stands for. *)
LEMMA StandsEmpty == StandsFor(<<>>, <<>>)
<1>1. <<>> \in Seq(Octet)
    OBVIOUS
<1>2. ASSUME NEW text \in Seq(Octet), NEW i \in Nat, At(text, i, <<>>)
      PROVE  StringReader(text)[i] = Before(<<>>, StringReader(text)[i + Len(<<>>)])
  <2>1. i + Len(<<>>) = i
      OBVIOUS
  <2>2. StringReader(text)[i] \in Scans
      BY Zenon, <1>1, <1>2, AtRange
  <2>3. Before(<<>>, StringReader(text)[i]) = StringReader(text)[i]
      BY Zenon, <2>2, BeforeNothing
  <2> QED BY Zenon, <2>1, <2>3
<1> QED BY Zenon, <1>1, <1>2 DEF StandsFor

LEMMA StandsJoin ==
    ASSUME NEW p, NEW q, NEW v, NEW w, StandsFor(p, v), StandsFor(q, w)
    PROVE  StandsFor(p \o q, v \o w)
<1>1. p \in Seq(Octet) /\ q \in Seq(Octet) /\ v \in Seq(Octet) /\ w \in Seq(Octet)
    BY Zenon DEF StandsFor
<1>2. p \o q \in Seq(Octet) /\ v \o w \in Seq(Octet)
    BY <1>1
<1>3. ASSUME NEW text \in Seq(Octet), NEW i \in Nat, At(text, i, p \o q)
      PROVE  StringReader(text)[i] = Before(v \o w, StringReader(text)[i + Len(p \o q)])
  <2> DEFINE r == StringReader(text)
             j == i + Len(p)
  <2>1. At(text, i, p) /\ At(text, j, q)
      BY Zenon, <1>1, <1>3, AtSplit
  <2>2. j \in Nat
      BY <1>1
  <2>3. r[i] = Before(v, r[j])
      BY Zenon, <2>1 DEF StandsFor
  <2>4. r[j] = Before(w, r[j + Len(q)])
      BY Zenon, <2>1, <2>2 DEF StandsFor
  <2>5. r[j + Len(q)] \in Scans
      BY Zenon, <1>1, <2>1, <2>2, AtRange
  <2>6. Before(v, Before(w, r[j + Len(q)])) = Before(v \o w, r[j + Len(q)])
      BY Zenon, <1>1, <2>5, BeforeBoth
  <2>7. i + Len(p \o q) = j + Len(q)
      BY <1>1
  <2> QED BY Zenon, <2>3, <2>4, <2>6, <2>7
<1> QED BY Zenon, <1>2, <1>3 DEF StandsFor

-----------------------------------------------------------------------------
(* The pieces from each one on, joined. *)
Joins(pieces, f) == f = [i \in 1..(Len(pieces) + 1) |-> IF i > Len(pieces) THEN <<>> ELSE pieces[i] \o f[i + 1]]
Joined(pieces) == CHOOSE f : Joins(pieces, f)

(* Concat, as a function of the position. *)
LEMMA JoinedEq ==
    ASSUME NEW pieces \in Seq(Seq(Octet))
    PROVE  /\ Concat(pieces) = Joined(pieces)[1]
           /\ \A i \in 1..(Len(pieces) + 1) :
                Joined(pieces)[i] = IF i > Len(pieces) THEN <<>> ELSE pieces[i] \o Joined(pieces)[i + 1]
           /\ \A i \in 1..(Len(pieces) + 1) : Joined(pieces)[i] \in Seq(Octet)
<1> DEFINE n == Len(pieces)
           R == Seq(Octet)
           G == [i \in 1..(n + 1) |-> [g \in [(i + 1)..(n + 1) -> R] |-> IF i > n THEN <<>> ELSE pieces[i] \o g[i + 1]]]
<1>1. n \in Nat /\ <<>> \in R /\ \A p, q \in R : p \o q \in R
    OBVIOUS
<1>2. \A i \in 1..(n + 1) : ~(i > n) => pieces[i] \in R /\ i + 1 \in (i + 1)..(n + 1) /\ i + 1 \in 1..(n + 1)
    OBVIOUS
<1> HIDE DEF n, R
<1>3. \A i \in 1..(n + 1) : \A g \in [(i + 1)..(n + 1) -> R] :
        G[i][g] = IF i > n THEN <<>> ELSE pieces[i] \o g[i + 1]
    BY Zenon
<1> HIDE DEF G
<1>4. \A i \in 1..(n + 1) : \A g \in [(i + 1)..(n + 1) -> R] : G[i][g] \in R
  <2> SUFFICES ASSUME NEW i \in 1..(n + 1), NEW g \in [(i + 1)..(n + 1) -> R] PROVE G[i][g] \in R
      BY Zenon
  <2>1. G[i][g] = IF i > n THEN <<>> ELSE pieces[i] \o g[i + 1]
      BY Zenon, <1>3
  <2>2. CASE i > n
    <3>1. G[i][g] = <<>>
        BY Zenon, <2>1, <2>2
    <3> QED BY Zenon, <1>1, <3>1
  <2>3. CASE ~(i > n)
    <3>1. G[i][g] = pieces[i] \o g[i + 1]
        BY Zenon, <2>1, <2>3
    <3>2. pieces[i] \in R /\ g[i + 1] \in R
        BY Zenon, <1>2, <2>3
    <3> QED BY Zenon, <1>1, <3>1, <3>2
  <2> QED BY Zenon, <2>2, <2>3
<1>5. PICK f \in [1..(n + 1) -> R] : Defined(n, G, 1, f)
    BY Zenon, <1>1, <1>4, Recursion
<1>6. ASSUME NEW i \in 1..(n + 1) PROVE f[i] = IF i > n THEN <<>> ELSE pieces[i] \o f[i + 1]
  <2> DEFINE g == [j \in (i + 1)..(n + 1) |-> f[j]]
  <2>1. \A j \in (i + 1)..(n + 1) : j \in 1..(n + 1)
      BY <1>1
  <2>2. g \in [(i + 1)..(n + 1) -> R]
      BY Zenon, <1>5, <2>1
  <2>3. f[i] = G[i][g]
      BY Zenon, <1>5 DEF Defined
  <2>4. ~(i > n) => g[i + 1] = f[i + 1]
      BY Zenon, <1>2
  <2>5. f[i] = IF i > n THEN <<>> ELSE pieces[i] \o g[i + 1]
      BY Zenon, <1>3, <2>2, <2>3
  <2> QED BY Zenon, <2>4, <2>5
<1>7. f = [i \in 1..(n + 1) |-> IF i > n THEN <<>> ELSE pieces[i] \o f[i + 1]]
    BY Zenon, <1>5, <1>6
<1>8. Joins(pieces, Joined(pieces))
    BY Zenon, <1>7 DEF Joins, Joined, n
<1>9. Concat(pieces) = Joined(pieces)[1]
    BY Zenon DEF Concat, Joined, Joins
<1> DEFINE r == Joined(pieces)
<1>10. \A i \in 1..(n + 1) : r[i] = IF i > n THEN <<>> ELSE pieces[i] \o r[i + 1]
    BY Zenon, <1>8 DEF Joins, n
<1> HIDE DEF r
<1> DEFINE H == {i \in 1..(n + 1) : r[i] \in R}
<1>11. ASSUME NEW i \in 1..(n + 1), \A j \in (i + 1)..(n + 1) : j \in H PROVE i \in H
  <2>1. CASE i > n
      BY Zenon, <1>1, <1>10, <2>1
  <2>2. CASE ~(i > n)
    <3>1. r[i + 1] \in R /\ pieces[i] \in R
        BY Zenon, <1>2, <1>11, <2>2
    <3>2. r[i] = pieces[i] \o r[i + 1]
        BY Zenon, <1>10, <2>2
    <3> QED BY Zenon, <1>1, <3>1, <3>2
  <2> QED BY Zenon, <2>1, <2>2
<1>12. \A i \in 1..(n + 1) : i \in H
    BY Zenon, <1>1, <1>11, Downward
<1> QED BY Zenon, <1>9, <1>10, <1>12 DEF n, r, R

(* Pieces that each stand for something stand, joined, for that joined. *)
LEMMA StandsPieces ==
    ASSUME NEW ps \in Seq(Seq(Octet)), NEW vs \in Seq(Seq(Octet)), Len(vs) = Len(ps),
           \A i \in 1..Len(ps) : StandsFor(ps[i], vs[i])
    PROVE  StandsFor(Concat(ps), Concat(vs))
<1> DEFINE n == Len(ps)
           H == {i \in 1..(n + 1) : StandsFor(Joined(ps)[i], Joined(vs)[i])}
<1>1. n \in Nat /\ Len(vs) = n /\ 1 \in 1..(n + 1)
    OBVIOUS
<1>2. \A i \in 1..(n + 1) : Joined(ps)[i] = IF i > n THEN <<>> ELSE ps[i] \o Joined(ps)[i + 1]
    BY Zenon, JoinedEq
<1>3. \A i \in 1..(n + 1) : Joined(vs)[i] = IF i > n THEN <<>> ELSE vs[i] \o Joined(vs)[i + 1]
    BY Zenon, <1>1, JoinedEq
<1>4. ASSUME NEW i \in 1..(n + 1), \A j \in (i + 1)..(n + 1) : j \in H PROVE i \in H
  <2>1. CASE i > n
      BY Zenon, <1>2, <1>3, <2>1, StandsEmpty
  <2>2. CASE ~(i > n)
    <3>1. i \in 1..n /\ i + 1 \in (i + 1)..(n + 1)
        BY <2>2
    <3>2. StandsFor(ps[i], vs[i]) /\ StandsFor(Joined(ps)[i + 1], Joined(vs)[i + 1])
        BY Zenon, <1>4, <3>1
    <3>3. StandsFor(ps[i] \o Joined(ps)[i + 1], vs[i] \o Joined(vs)[i + 1])
        BY Zenon, <3>2, StandsJoin
    <3> QED BY Zenon, <1>2, <1>3, <2>2, <3>3
  <2> QED BY Zenon, <2>1, <2>2
<1>5. \A i \in 1..(n + 1) : i \in H
    BY Zenon, <1>1, <1>4, Downward
<1>6. StandsFor(Joined(ps)[1], Joined(vs)[1])
    BY Zenon, <1>1, <1>5
<1> QED BY Zenon, <1>6, JoinedEq

(* In quotes, and whatever follows, they are read as a string. *)
LEMMA ParseQuoted ==
    ASSUME NEW ps \in Seq(Seq(Octet)), NEW v, StandsFor(Concat(ps), v), NEW rest \in Seq(Octet)
    PROVE  parse_string(InQuotes(ps) \o rest) = Read(v, rest)
<1> DEFINE p == Concat(ps)
           text == InQuotes(ps) \o rest
           r == StringReader(text)
           end == 2 + Len(p)
<1>1. p \in Seq(Octet) /\ v \in Seq(Octet)
    BY Zenon DEF StandsFor
<1>2. text = (<<Quote>> \o (p \o <<Quote>>)) \o rest
    BY Zenon DEF InQuotes
<1>3. Quote \in Octet
    BY DEF Quote, Octet
<1> HIDE DEF text, p
<1>4. /\ text \in Seq(Octet) /\ Len(text) = Len(p) + 2 + Len(rest)
      /\ \A k \in 1..Len(p) : text[2 + k - 1] = p[k]
      /\ text[end] = Quote
      /\ SubSeq(text, end + 1, Len(text)) = rest
    BY <1>1, <1>2, <1>3
<1>5. Len(p) \in Nat /\ Len(rest) \in Nat /\ end \in 1..Len(text) /\ end \in 1..(Len(text) + 1) /\ 2 \in Nat
    BY <1>1, <1>4
<1>6. At(text, 2, p)
  <2>1. 1 <= 2 /\ 2 + Len(p) <= Len(text) + 1
      BY <1>4, <1>5
  <2> QED BY Zenon, <1>4, <1>5, <2>1 DEF At
<1>7. r[2] = Before(v, r[end])
    BY Zenon, <1>4, <1>5, <1>6 DEF StandsFor, p
<1>8. r[end] = Scanned(<<>>, end + 1)
  <2>1. ~(end > Len(text))
      BY <1>5
  <2>2. r[end] = StringTurn(text, end, r)
      BY Zenon, <1>4, <1>5, StringReaderEq
  <2> QED BY Zenon, <1>4, <2>1, <2>2 DEF StringTurn
<1>9. r[2] = Scanned(v, end + 1)
  <2>1. Before(v, Scanned(<<>>, end + 1)) = Scanned(v \o <<>>, end + 1)
      BY Zenon, BeforeEq
  <2>2. v \o <<>> = v
      BY <1>1
  <2> QED BY Zenon, <1>7, <1>8, <2>1, <2>2
<1>10. r[2].ok /\ r[2].val = v /\ r[2].next = end + 1
  <2> HIDE DEF r, end
  <2> QED BY SMT, <1>9 DEF Scanned
<1>11. parse_string(text) = IF r[2].ok THEN Read(r[2].val, After(text, r[2].next - 1)) ELSE Bad
    BY Zenon DEF parse_string, StringReader, StringTurns, StringTurn
<1>12. parse_string(text) = Read(v, After(text, (end + 1) - 1))
    BY Zenon, <1>10, <1>11
<1>13. ((end + 1) - 1) + 1 = end + 1
    BY <1>5
<1>14. After(text, (end + 1) - 1) = rest
    BY Zenon, <1>4, <1>13 DEF After
<1> QED BY Zenon, <1>12, <1>14 DEF text

-----------------------------------------------------------------------------
(* What one turn of the loop reads is a piece. *)
LEMMA StandsCharacter ==
    ASSUME NEW p \in Seq(Octet), NEW v \in Seq(Octet), Len(p) >= 1, p[1] # Quote,
           \A text \in Seq(Octet) : \A i \in Nat : At(text, i, p) => character(text, i) = Scanned(v, i + Len(p))
    PROVE  StandsFor(p, v)
<1> SUFFICES ASSUME NEW text \in Seq(Octet), NEW i \in Nat, At(text, i, p)
             PROVE  StringReader(text)[i] = Before(v, StringReader(text)[i + Len(p)])
    BY Zenon DEF StandsFor
<1> DEFINE r == StringReader(text)
           c == character(text, i)
<1>1. i \in 1..(Len(text) + 1) /\ ~(i > Len(text)) /\ text[i] = p[1]
  <2>1. /\ 1 <= i /\ i + Len(p) <= Len(text) + 1 /\ Len(text) \in Nat /\ Len(p) \in Nat
        /\ \A k \in 1..Len(p) : text[i + k - 1] = p[k]
      BY DEF At
  <2>2. 1 \in 1..Len(p) /\ i + 1 - 1 = i
      BY <2>1
  <2>3. text[i] = p[1]
      BY <2>1, <2>2
  <2> QED BY <2>1, <2>3
<1>2. c = Scanned(v, i + Len(p))
    BY Zenon
<1>3. c.ok /\ c.val = v /\ c.next = i + Len(p)
  <2> HIDE DEF c
  <2> QED BY SMT, <1>2 DEF Scanned
<1>4. r[i] = StringTurn(text, i, r)
    BY Zenon, <1>1, StringReaderEq
<1>5. StringTurn(text, i, r) = Before(c.val, r[c.next])
    BY Zenon, <1>1, <1>3 DEF StringTurn
<1> QED BY Zenon, <1>3, <1>4, <1>5

(* The first byte of a piece. *)
LEMMA AtFirst ==
    ASSUME NEW text \in Seq(Octet), NEW i \in Nat, NEW c, At(text, i, <<c>>)
    PROVE  text[i] = c /\ i <= Len(text)
BY DEF At

(* A byte that needs no escape. *)
LEMMA StandsByte ==
    ASSUME NEW c \in Octet, c >= 32, c # Quote, c # Backslash
    PROVE  StandsFor(<<c>>, <<c>>)
<1>1. /\ <<c>> \in Seq(Octet) /\ Len(<<c>>) = 1 /\ Len(<<c>>) >= 1 /\ <<c>>[1] = c
      /\ \A i \in Nat : i + Len(<<c>>) = i + 1
    OBVIOUS
<1>2. ~(c < 32)
    BY OctetSeqs
<1>3. ASSUME NEW text \in Seq(Octet), NEW i \in Nat, At(text, i, <<c>>)
      PROVE  character(text, i) = Scanned(<<c>>, i + Len(<<c>>))
  <2>1. text[i] = c
      BY Zenon, <1>3, AtFirst
  <2> QED BY Zenon, <1>1, <1>2, <2>1 DEF character
<1> QED BY Zenon, <1>1, <1>3, StandsCharacter

(* A backslash and what follows it. *)
LEMMA AtEscape ==
    ASSUME NEW text \in Seq(Octet), NEW i \in Nat, NEW e, At(text, i, <<Backslash, e>>)
    PROVE  character(text, i) = escape(text, i + 1) /\ text[i + 1] = e /\ ~(i + 1 > Len(text))
<1>1. text[i] = Backslash /\ text[i + 1] = e /\ i + 2 <= Len(text) + 1
  <2>1. /\ i + 2 <= Len(text) + 1
        /\ \A k \in 1..2 : text[i + k - 1] = <<Backslash, e>>[k]
      BY DEF At
  <2>2. i + 1 - 1 = i /\ i + 2 - 1 = i + 1
      OBVIOUS
  <2>3. text[i + 1 - 1] = Backslash /\ text[i + 2 - 1] = e
      BY <2>1
  <2> QED BY <2>1, <2>2, <2>3
<1>2. ~(i + 1 > Len(text))
    BY <1>1
<1> QED BY Zenon, <1>1, <1>2 DEF character

(* An escape that names a byte stands for it. *)
LEMMA StandsNamed ==
    ASSUME NEW e \in Named
    PROVE  StandsFor(<<Backslash, e>>, <<unescaped(e)>>)
<1>1. e \in Octet /\ Backslash \in Octet /\ unescaped(e) \in Octet
    BY DEF Named, unescaped, Octet, Quote, Backslash
<1>2. Backslash # Quote
    BY DEF Backslash, Quote
<1>3. <<Backslash, e>> \in Seq(Octet) /\ <<unescaped(e)>> \in Seq(Octet)
    BY Zenon, <1>1, OctetSeqs
<1>4. /\ Len(<<Backslash, e>>) >= 1 /\ <<Backslash, e>>[1] = Backslash
      /\ \A i \in Nat : i + Len(<<Backslash, e>>) = (i + 1) + 1
    OBVIOUS
<1>5. ASSUME NEW text \in Seq(Octet), NEW i \in Nat, At(text, i, <<Backslash, e>>)
      PROVE  character(text, i) = Scanned(<<unescaped(e)>>, i + Len(<<Backslash, e>>))
  <2>1. text[i + 1] = e /\ ~(i + 1 > Len(text)) /\ character(text, i) = escape(text, i + 1)
      BY <1>5, AtEscape
  <2>2. escape(text, i + 1) = Scanned(<<unescaped(e)>>, (i + 1) + 1)
      BY Zenon, <2>1 DEF escape
  <2> QED BY Zenon, <1>4, <2>1, <2>2
<1> QED BY Zenon, <1>2, <1>3, <1>4, <1>5, StandsCharacter

-----------------------------------------------------------------------------
(* The four digits of a number, and its escape. *)
Hex4(n) == (n \div 4096) % 16
Hex3(n) == (n \div 256) % 16
Hex2(n) == (n \div 16) % 16
Hex1(n) == n % 16
Nibble == 0..15
Spelled(n) == /\ Hex4(n) \in Nibble /\ Hex3(n) \in Nibble /\ Hex2(n) \in Nibble /\ Hex1(n) \in Nibble
              /\ Four(Hex4(n), Hex3(n), Hex2(n), Hex1(n)) = n
Digits(n) == <<Hex[Hex4(n) + 1], Hex[Hex3(n) + 1], Hex[Hex2(n) + 1], Hex[Hex1(n) + 1]>>
EscapeOf(n) == <<Backslash, U>> \o Digits(n)

(* The four hex digits of a unit are read as that unit. *)
LEMMA HexDigits == \A n \in Nibble : Hex[n + 1] \in Octet /\ hex_digit(Hex[n + 1]) = n
BY DEF Hex, Octet, hex_digit, Digit, Nibble

LEMMA FourDigits ==
    ASSUME NEW n \in Unit
    PROVE  Spelled(n)
<1>1. n \in Nat /\ n <= 65535
    BY SMT DEF Unit
<1> DEFINE a == n \div 16
           b == n \div 256
           c == n \div 4096
<1>2. /\ a \in Nat /\ n = 16 * a + (n % 16) /\ n % 16 \in 0..15
    BY SMT, <1>1
<1>3. b \in Nat /\ b = a \div 16
    BY SMT, <1>1
<1>4. c \in Nat /\ c = b \div 16 /\ c <= 15
    BY SMT, <1>1
<1> HIDE DEF a, b, c
<1>5. a = 16 * b + (a % 16) /\ a % 16 \in 0..15
    BY SMT, <1>2, <1>3
<1>6. b = 16 * c + (b % 16) /\ b % 16 \in 0..15
    BY SMT, <1>3, <1>4
<1>7. c % 16 = c /\ c \in 0..15
    BY SMT, <1>4
<1> DEFINE x == n % 16
           y == a % 16
           z == b % 16
<1> HIDE DEF x, y, z
<1>8. /\ a \in Nat /\ b \in Nat /\ c \in Nat /\ x \in Nat /\ y \in Nat /\ z \in Nat
      /\ n = 16 * a + x /\ a = 16 * b + y /\ b = 16 * c + z
    BY SMT, <1>2, <1>3, <1>4, <1>5, <1>6 DEF x, y, z
<1>9. Four(c, z, y, x) = n
    BY SMT, <1>8 DEF Four
<1>10. Hex4(n) = c /\ Hex3(n) = z /\ Hex2(n) = y /\ Hex1(n) = x
    BY SMT, <1>7 DEF a, b, c, x, y, z, Hex1, Hex2, Hex3, Hex4
<1>11. c \in Nibble /\ z \in Nibble /\ y \in Nibble /\ x \in Nibble
    BY SMT, <1>2, <1>5, <1>6, <1>7 DEF x, y, z, Nibble
<1> QED BY Zenon, <1>9, <1>10, <1>11 DEF Spelled

LEMMA DigitsType ==
    ASSUME NEW n \in Unit
    PROVE  Digits(n) \in Seq(Octet) /\ Len(Digits(n)) = 4 /\ EscapeOf(n) \in Seq(Octet) /\ Len(EscapeOf(n)) = 6
<1>1. Digits(n) \in Seq(Octet)
  <2>1. Spelled(n)
      BY Zenon, FourDigits
  <2>2. /\ Hex[Hex4(n) + 1] \in Octet /\ Hex[Hex3(n) + 1] \in Octet
        /\ Hex[Hex2(n) + 1] \in Octet /\ Hex[Hex1(n) + 1] \in Octet
      BY Zenon, <2>1, HexDigits DEF Spelled
  <2> QED BY Zenon, <2>2, OctetSeqs DEF Digits
<1>2. Len(Digits(n)) = 4
    BY DEF Digits
<1>3. Backslash \in Octet /\ U \in Octet
    BY DEF Backslash, U, Octet
<1>4. \A q \in Seq(Octet) : <<Backslash, U>> \o q \in Seq(Octet) /\ Len(<<Backslash, U>> \o q) = Len(q) + 2
    BY <1>3
<1>5. EscapeOf(n) \in Seq(Octet) /\ Len(EscapeOf(n)) = 4 + 2
    BY Zenon, <1>1, <1>2, <1>4 DEF EscapeOf
<1>6. 4 + 2 = 6
    OBVIOUS
<1> QED BY Zenon, <1>1, <1>2, <1>5, <1>6

LEMMA AtDigits ==
    ASSUME NEW text \in Seq(Octet), NEW i \in Nat, NEW n \in Unit, At(text, i, Digits(n))
    PROVE  parse_hex4(text, i) = Scanned(n, i + 4)
<1> DEFINE a == Hex4(n)
           b == Hex3(n)
           c == Hex2(n)
           d == Hex1(n)
           e(k) == hex_digit(text[i + k])
<1>1. a \in Nibble /\ b \in Nibble /\ c \in Nibble /\ d \in Nibble /\ Four(a, b, c, d) = n
  <2>1. Spelled(n)
      BY Zenon, FourDigits
  <2> QED BY Zenon, <2>1 DEF Spelled
<1>2. Digits(n) = <<Hex[a + 1], Hex[b + 1], Hex[c + 1], Hex[d + 1]>>
    BY Zenon DEF Digits
<1> HIDE DEF a, b, c, d
<1>3. /\ i + 4 <= Len(text) + 1
      /\ \A k \in 1..4 : text[i + k - 1] = <<Hex[a + 1], Hex[b + 1], Hex[c + 1], Hex[d + 1]>>[k]
    BY <1>2 DEF At
<1>4. i + 1 - 1 = i + 0 /\ i + 2 - 1 = i + 1 /\ i + 3 - 1 = i + 2 /\ i + 4 - 1 = i + 3
    OBVIOUS
<1>5. /\ text[i + 1 - 1] = Hex[a + 1] /\ text[i + 2 - 1] = Hex[b + 1]
      /\ text[i + 3 - 1] = Hex[c + 1] /\ text[i + 4 - 1] = Hex[d + 1]
    BY <1>3
<1>6. /\ text[i + 0] = Hex[a + 1] /\ text[i + 1] = Hex[b + 1]
      /\ text[i + 2] = Hex[c + 1] /\ text[i + 3] = Hex[d + 1]
    BY Zenon, <1>4, <1>5
<1>7. e(0) = a /\ e(1) = b /\ e(2) = c /\ e(3) = d
    BY Zenon, <1>1, <1>6, HexDigits
<1> HIDE DEF e
<1>8. ~\E k \in 0..3 : e(k) = -1
    BY <1>1, <1>7 DEF Nibble
<1>9. ~(i + 3 > Len(text))
    BY <1>3
<1>10. parse_hex4(text, i) = Scanned(Four(e(0), e(1), e(2), e(3)), i + 4)
    BY Zenon, <1>8, <1>9 DEF parse_hex4, Four, e
<1> QED BY Zenon, <1>1, <1>7, <1>10

(* Where the escape of a number stands, the loop reads that number. *)
LEMMA AtEscapeOf ==
    ASSUME NEW text \in Seq(Octet), NEW i \in Nat, NEW n \in Unit, At(text, i, EscapeOf(n))
    PROVE  /\ text[i] = Backslash /\ text[i + 1] = U /\ ~(i + 1 > Len(text))
           /\ parse_hex4(text, i + 2) = Scanned(n, i + 6)
           /\ character(text, i) = unicode_escape(text, i + 2)
<1> DEFINE two == <<Backslash, U>>
<1>1. two \in Seq(Octet) /\ Len(two) = 2 /\ Digits(n) \in Seq(Octet)
    BY DigitsType DEF Backslash, U, Octet
<1>2. At(text, i, two) /\ At(text, i + Len(two), Digits(n))
    BY Zenon, <1>1, AtSplit DEF EscapeOf
<1>3. i + Len(two) = i + 2 /\ i + 2 \in Nat /\ (i + 2) + 4 = i + 6 /\ (i + 1) + 1 = i + 2
    BY <1>1
<1>4. parse_hex4(text, i + 2) = Scanned(n, (i + 2) + 4)
  <2>1. At(text, i + 2, Digits(n))
      BY Zenon, <1>2, <1>3
  <2> HIDE DEF two
  <2> QED BY Zenon, <1>3, <2>1, AtDigits
<1>5. character(text, i) = escape(text, i + 1) /\ text[i + 1] = U /\ ~(i + 1 > Len(text))
    BY <1>2, AtEscape
<1>6. text[i] = Backslash
  <2>1. \A k \in 1..2 : text[i + k - 1] = two[k]
      BY Zenon, <1>1, <1>2 DEF At
  <2>2. text[i + 1 - 1] = Backslash /\ i + 1 - 1 = i
      BY <2>1
  <2> QED BY <2>2
<1>7. escape(text, i + 1) = unicode_escape(text, (i + 1) + 1)
  <2>1. U \notin Named
      BY DEF U, Named, Quote, Backslash
  <2> QED BY Zenon, <1>5, <2>1 DEF escape
<1> QED BY Zenon, <1>3, <1>4, <1>5, <1>6, <1>7

(* A unit that is no surrogate, escaped, stands for its encoding. *)
LEMMA StandsUnit ==
    ASSUME NEW n \in Unit, n \notin High, n \notin Low
    PROVE  StandsFor(EscapeOf(n), encode_utf8(n))
<1> DEFINE p == EscapeOf(n)
<1>1. n \in CodePoint
    BY SMT DEF Unit, CodePoint
<1>2. p \in Seq(Octet) /\ Len(p) = 6
    BY Zenon, DigitsType
<1>3. p[1] # Quote
  <2>1. Digits(n) \in Seq(Octet)
      BY Zenon, DigitsType
  <2>2. \A q \in Seq(Octet) : (<<Backslash, U>> \o q)[1] = Backslash
      OBVIOUS
  <2>3. Backslash # Quote
      BY DEF Backslash, Quote
  <2> QED BY Zenon, <2>1, <2>2, <2>3 DEF EscapeOf
<1>4. ASSUME NEW text \in Seq(Octet), NEW i \in Nat, At(text, i, p)
      PROVE  character(text, i) = Scanned(encode_utf8(n), i + 6)
  <2>1. parse_hex4(text, i + 2) = Scanned(n, i + 6) /\ character(text, i) = unicode_escape(text, i + 2)
      BY <1>4, AtEscapeOf
  <2>2. parse_hex4(text, i + 2).ok /\ parse_hex4(text, i + 2).val = n
      BY SMT, <2>1 DEF Scanned
  <2>3. unicode_escape(text, i + 2) = Scanned(encode_utf8(n), (i + 2) + 4)
      BY Zenon, <2>2 DEF unicode_escape
  <2>4. (i + 2) + 4 = i + 6
      OBVIOUS
  <2> QED BY Zenon, <2>1, <2>3, <2>4
<1> HIDE DEF p
<1>5. Len(p) >= 1
    BY <1>2
<1>6. encode_utf8(n) \in Seq(Octet)
    BY Zenon, <1>1, EncodeType
<1>7. StandsFor(p, encode_utf8(n))
    BY Zenon, <1>2, <1>3, <1>4, <1>5, <1>6, StandsCharacter
<1> QED BY Zenon, <1>7 DEF p

(* A surrogate is a unit. *)
LEMMA SurrogateUnit == \A n : n \in High \/ n \in Low => n \in Unit
BY SMT, Surrogates DEF Unit

(* Two surrogates, escaped one after the other, stand for the character they make up. *)
LEMMA StandsPair ==
    ASSUME NEW hi \in High, NEW lo \in Low
    PROVE  StandsFor(EscapeOf(hi) \o EscapeOf(lo), encode_utf8(surrogates(hi, lo)))
<1> DEFINE p == EscapeOf(hi)
           q == EscapeOf(lo)
           v == encode_utf8(surrogates(hi, lo))
<1>1. hi \in Unit /\ lo \in Unit /\ hi \notin Low
    BY SMT, SurrogateUnit, Surrogates
<1>2. p \in Seq(Octet) /\ Len(p) = 6 /\ q \in Seq(Octet) /\ Len(q) = 6
    BY Zenon, <1>1, DigitsType
<1>3. v \in Seq(Octet)
    BY Zenon, PairType, EncodeType
<1>4. p[1] # Quote
  <2>1. Digits(hi) \in Seq(Octet)
      BY Zenon, <1>1, DigitsType
  <2>2. \A s \in Seq(Octet) : (<<Backslash, U>> \o s)[1] = Backslash
      OBVIOUS
  <2>3. Backslash # Quote
      BY DEF Backslash, Quote
  <2> QED BY Zenon, <2>1, <2>2, <2>3 DEF EscapeOf
<1> HIDE DEF p, q, v
<1>5. p \o q \in Seq(Octet) /\ Len(p \o q) = 12 /\ Len(p \o q) >= 1 /\ (p \o q)[1] = p[1]
  <2>1. \A a, b \in Seq(Octet) : /\ a \o b \in Seq(Octet) /\ Len(a \o b) = Len(a) + Len(b)
                                 /\ \A k \in 1..Len(a) : (a \o b)[k] = a[k]
      OBVIOUS
  <2>2. 6 + 6 = 12 /\ 12 >= 1 /\ 1 \in 1..6
      OBVIOUS
  <2>3. p \o q \in Seq(Octet) /\ Len(p \o q) = Len(p) + Len(q) /\ \A k \in 1..Len(p) : (p \o q)[k] = p[k]
      BY Zenon, <1>2, <2>1
  <2>4. Len(p \o q) = 12 /\ (p \o q)[1] = p[1]
      BY <1>2, <2>3
  <2> QED BY Zenon, <2>2, <2>3, <2>4
<1>6. ASSUME NEW text \in Seq(Octet), NEW i \in Nat, At(text, i, p \o q)
      PROVE  character(text, i) = Scanned(v, i + 12)
  <2> DEFINE j == i + 2
  <2>0. /\ i + 6 \in Nat /\ j + 6 = (i + 6) + 2 /\ j + 4 = i + 6 /\ j + 5 = (i + 6) + 1 /\ j + 10 = i + 12
      OBVIOUS
  <2>1. At(text, i, p) /\ At(text, i + 6, q)
      BY Zenon, <1>2, <1>6, AtSplit
  <2>2. parse_hex4(text, j) = Scanned(hi, i + 6) /\ character(text, i) = unicode_escape(text, j)
      BY <1>1, <2>1, AtEscapeOf DEF p
  <2>3. /\ text[i + 6] = Backslash /\ text[(i + 6) + 1] = U /\ ~((i + 6) + 1 > Len(text))
        /\ parse_hex4(text, (i + 6) + 2) = Scanned(lo, (i + 6) + 6)
      BY <1>1, <2>0, <2>1, AtEscapeOf DEF q
  <2> HIDE DEF j
  <2>4. text[j + 4] = Backslash /\ text[j + 5] = U /\ ~(j + 5 > Len(text))
      BY Zenon, <2>0, <2>3
  <2>5. parse_hex4(text, j + 6) = Scanned(lo, (i + 6) + 6)
      BY Zenon, <2>0, <2>3
  <2>6. parse_hex4(text, j).ok /\ parse_hex4(text, j).val = hi
      BY SMT, <2>2 DEF Scanned
  <2>7. parse_hex4(text, j + 6).ok /\ parse_hex4(text, j + 6).val = lo
      BY SMT, <2>5 DEF Scanned
  <2>8. unicode_escape(text, j) = Scanned(v, j + 10)
      BY Zenon, <1>1, <2>4, <2>6, <2>7 DEF unicode_escape, v
  <2> QED BY Zenon, <2>0, <2>2, <2>8
<1>7. StandsFor(p \o q, v)
    BY Zenon, <1>3, <1>4, <1>5, <1>6, StandsCharacter
<1> QED BY Zenon, <1>7 DEF p, q, v

LEMMA EscapedUnitEq ==
    ASSUME NEW n \in Unit
    PROVE  EscapedUnit(n) = EscapeOf(n)
BY SMT DEF EscapedUnit, EscapeOf, Digits, Hex1, Hex2, Hex3, Hex4

(* The two halves of a code point beyond the units make it again. *)
LEMMA Halves ==
    ASSUME NEW cp \in CodePoint, ~(cp <= 65535)
    PROVE  HighHalf(cp) \in High /\ LowHalf(cp) \in Low /\ surrogates(HighHalf(cp), LowHalf(cp)) = cp
<1>1. cp \in Nat /\ cp <= 1114111
    BY SMT DEF CodePoint
<1>2. PICK d \in Nat : d = cp - 65536 /\ d <= 1048575
    BY SMT, <1>1
<1>3. /\ d \div 1024 \in Nat /\ d \div 1024 <= 1023 /\ d % 1024 \in Nat /\ d % 1024 <= 1023
      /\ d = 1024 * (d \div 1024) + (d % 1024)
    BY SMT, <1>2
<1>4. HighHalf(cp) = 55296 + d \div 1024 /\ LowHalf(cp) = 56320 + (d % 1024)
    BY SMT, <1>2 DEF HighHalf, LowHalf
<1>5. HighHalf(cp) \in High
    BY SMT, <1>3, <1>4, Surrogates
<1>6. LowHalf(cp) \in Low
    BY SMT, <1>3, <1>4, Surrogates
<1>7. surrogates(HighHalf(cp), LowHalf(cp)) = cp
    BY SMT, <1>1, <1>2, <1>3, <1>4 DEF surrogates
<1> QED BY SMT, <1>5, <1>6, <1>7

Scalar == {cp \in CodePoint : cp \notin High /\ cp \notin Low}

(* Every character, escaped, stands for its encoding. *)
LEMMA StandsEscaped ==
    ASSUME NEW cp \in Scalar
    PROVE  StandsFor(Escaped(cp), encode_utf8(cp))
<1>1. cp \in CodePoint /\ cp \notin High /\ cp \notin Low
    BY Zenon DEF Scalar
<1>2. CASE cp <= 65535
  <2>1. cp \in Unit
      BY SMT, <1>1, <1>2 DEF Unit, CodePoint
  <2>2. Escaped(cp) = EscapeOf(cp)
      BY SMT, <1>2, <2>1, EscapedUnitEq DEF Escaped
  <2> QED BY SMT, <1>1, <2>1, <2>2, StandsUnit
<1>3. CASE ~(cp <= 65535)
  <2> DEFINE hi == HighHalf(cp)
             lo == LowHalf(cp)
  <2>1. hi \in High /\ lo \in Low /\ surrogates(hi, lo) = cp
      BY SMT, <1>1, <1>3, Halves
  <2>2. hi \in Unit /\ lo \in Unit
      BY SMT, <2>1, SurrogateUnit
  <2>3. Escaped(cp) = EscapeOf(hi) \o EscapeOf(lo)
      BY SMT, <1>3, <2>2, EscapedUnitEq DEF Escaped
  <2> HIDE DEF hi, lo
  <2>4. StandsFor(EscapeOf(hi) \o EscapeOf(lo), encode_utf8(surrogates(hi, lo)))
      BY SMT, <2>1, StandsPair
  <2> QED BY SMT, <2>1, <2>3, <2>4
<1> QED BY SMT, <1>2, <1>3

HighByte == 128..255

(* Sequences with the same elements are the same; a tuple is its front and its last. *)
LEMMA SameSequence ==
    ASSUME NEW S, NEW p \in Seq(S), NEW q \in Seq(S), Len(p) = Len(q), \A k \in 1..Len(p) : p[k] = q[k]
    PROVE  p = q
OBVIOUS

OneMore(p, x, q) == Len(q) = Len(p) + 1 /\ (\A k \in 1..Len(p) : q[k] = p[k]) /\ q[Len(p) + 1] = x
Appends(p, x, q) == p \o <<x>> = q

LEMMA Appended ==
    ASSUME NEW S, NEW p \in Seq(S), NEW x \in S, NEW q \in Seq(S), OneMore(p, x, q)
    PROVE  Appends(p, x, q)
<1>1. /\ p \o <<x>> \in Seq(S) /\ Len(p \o <<x>>) = Len(p) + 1 /\ Len(p) \in Nat
      /\ \A k \in 1..Len(p) : (p \o <<x>>)[k] = p[k]
      /\ (p \o <<x>>)[Len(p) + 1] = x
    OBVIOUS
<1>2. \A k \in 1..(Len(p) + 1) : k \in 1..Len(p) \/ k = Len(p) + 1
    BY <1>1
<1>3. \A k \in 1..Len(p \o <<x>>) : (p \o <<x>>)[k] = q[k]
    BY Zenon, <1>1, <1>2 DEF OneMore
<1>4. Len(p \o <<x>>) = Len(q)
    BY Zenon, <1>1 DEF OneMore
<1>5. p \o <<x>> = q
  <2> DEFINE w == p \o <<x>>
  <2>1. w \in Seq(S) /\ Len(w) = Len(q) /\ \A k \in 1..Len(w) : w[k] = q[k]
      BY Zenon, <1>1, <1>3, <1>4
  <2> HIDE DEF w
  <2>2. w = q
      BY SMT, <2>1
  <2> QED BY Zenon, <2>2 DEF w
<1> QED BY Zenon, <1>5 DEF Appends

LEMMA Tuples ==
    ASSUME NEW S, NEW a \in S, NEW b \in S, NEW c \in S, NEW d \in S
    PROVE  <<a>> \o <<b>> = <<a, b>> /\ <<a, b>> \o <<c>> = <<a, b, c>> /\ <<a, b, c>> \o <<d>> = <<a, b, c, d>>
<1>1. <<a>> \o <<b>> = <<a, b>>
  <2>1. <<a>> \in Seq(S) /\ <<a, b>> \in Seq(S)
      OBVIOUS
  <2>2. OneMore(<<a>>, b, <<a, b>>)
      BY DEF OneMore
  <2>3. Appends(<<a>>, b, <<a, b>>)
      BY Zenon, <2>1, <2>2, Appended
  <2> QED BY Zenon, <2>3 DEF Appends
<1>2. <<a, b>> \o <<c>> = <<a, b, c>>
  <2>1. <<a, b>> \in Seq(S) /\ <<a, b, c>> \in Seq(S)
      OBVIOUS
  <2>2. OneMore(<<a, b>>, c, <<a, b, c>>)
      BY DEF OneMore
  <2>3. Appends(<<a, b>>, c, <<a, b, c>>)
      BY Zenon, <2>1, <2>2, Appended
  <2> QED BY Zenon, <2>3 DEF Appends
<1>3. <<a, b, c>> \o <<d>> = <<a, b, c, d>>
  <2>1. <<a, b, c>> \in Seq(S) /\ <<a, b, c, d>> \in Seq(S)
      OBVIOUS
  <2>2. OneMore(<<a, b, c>>, d, <<a, b, c, d>>)
      BY DEF OneMore
  <2>3. Appends(<<a, b, c>>, d, <<a, b, c, d>>)
      BY Zenon, <2>1, <2>2, Appended
  <2> QED BY Zenon, <2>3 DEF Appends
<1> QED BY Zenon, <1>1, <1>2, <1>3

(* Bytes of 128 and more stand for themselves. *)
LEMMA StandsHigh ==
    ASSUME NEW a \in HighByte, NEW b \in HighByte, NEW c \in HighByte, NEW d \in HighByte
    PROVE  /\ StandsFor(<<a, b>>, <<a, b>>) /\ StandsFor(<<a, b, c>>, <<a, b, c>>)
           /\ StandsFor(<<a, b, c, d>>, <<a, b, c, d>>)
<1>1. ASSUME NEW x \in HighByte PROVE StandsFor(<<x>>, <<x>>)
  <2>1. x \in Octet /\ x >= 32 /\ x # Quote /\ x # Backslash
      BY SMT DEF HighByte, Octet, Quote, Backslash
  <2> QED BY Zenon, <2>1, StandsByte
<1>2. <<a>> \o <<b>> = <<a, b>> /\ <<a, b>> \o <<c>> = <<a, b, c>> /\ <<a, b, c>> \o <<d>> = <<a, b, c, d>>
    BY Tuples
<1>3. StandsFor(<<a, b>>, <<a, b>>)
  <2>1. StandsFor(<<a>> \o <<b>>, <<a>> \o <<b>>)
      BY Zenon, <1>1, StandsJoin
  <2> QED BY Zenon, <1>2, <2>1
<1>4. StandsFor(<<a, b, c>>, <<a, b, c>>)
  <2>1. StandsFor(<<a, b>> \o <<c>>, <<a, b>> \o <<c>>)
      BY Zenon, <1>1, <1>3, StandsJoin
  <2> QED BY Zenon, <1>2, <2>1
<1>5. StandsFor(<<a, b, c, d>>, <<a, b, c, d>>)
  <2>1. StandsFor(<<a, b, c>> \o <<d>>, <<a, b, c>> \o <<d>>)
      BY Zenon, <1>1, <1>4, StandsJoin
  <2> QED BY Zenon, <1>2, <2>1
<1> QED BY Zenon, <1>3, <1>4, <1>5

(* A character that needs no escape, encoded, stands for its encoding. *)
LEMMA StandsEncode ==
    ASSUME NEW cp \in CodePoint, cp \notin MustEscape
    PROVE  StandsFor(encode_utf8(cp), encode_utf8(cp))
<1> DEFINE e == encode_utf8(cp)
<1>1. cp \in Nat /\ cp <= 1114111
    BY SMT DEF CodePoint
<1>2. CASE cp <= 127
  <2>1. e = <<cp>>
      BY SMT, <1>2 DEF encode_utf8
  <2>2. cp \in Octet /\ cp >= 32 /\ cp # Quote /\ cp # Backslash
      BY SMT, <1>1, <1>2, OctetSeqs DEF MustEscape
  <2>3. StandsFor(<<cp>>, <<cp>>)
      BY SMT, <2>2, StandsByte
  <2> HIDE DEF e
  <2> QED BY SMT, <2>1, <2>3 DEF e
<1>3. CASE ~(cp <= 127) /\ cp <= 2047
  <2> DEFINE a == 192 + cp \div 64
             b == 128 + (cp % 64)
  <2>1. e = <<a, b>>
      BY SMT, <1>3 DEF encode_utf8
  <2>2. a \in HighByte /\ b \in HighByte
      BY SMT, <1>1, <1>3 DEF HighByte
  <2> HIDE DEF a, b, e
  <2>3. StandsFor(<<a, b>>, <<a, b>>)
      BY Zenon, <2>2, StandsHigh
  <2> QED BY SMT, <2>1, <2>3 DEF e
<1>4. CASE ~(cp <= 2047) /\ cp <= 65535
  <2> DEFINE a == 224 + cp \div 4096
             b == 128 + ((cp \div 64) % 64)
             c == 128 + (cp % 64)
  <2>1. e = <<a, b, c>>
      BY SMT, <1>1, <1>4 DEF encode_utf8
  <2>2. a \in HighByte /\ b \in HighByte /\ c \in HighByte
      BY SMT, <1>1, <1>4 DEF HighByte
  <2> HIDE DEF a, b, c, e
  <2>3. StandsFor(<<a, b, c>>, <<a, b, c>>)
      BY Zenon, <2>2, StandsHigh
  <2> QED BY SMT, <2>1, <2>3 DEF e
<1>5. CASE ~(cp <= 65535)
  <2> DEFINE a == 240 + cp \div 262144
             b == 128 + ((cp \div 4096) % 64)
             c == 128 + ((cp \div 64) % 64)
             d == 128 + (cp % 64)
  <2>1. e = <<a, b, c, d>>
      BY SMT, <1>1, <1>5 DEF encode_utf8
  <2>2. a \in HighByte /\ b \in HighByte /\ c \in HighByte /\ d \in HighByte
      BY SMT, <1>1, <1>5 DEF HighByte
  <2> HIDE DEF a, b, c, d, e
  <2>3. StandsFor(<<a, b, c, d>>, <<a, b, c, d>>)
      BY Zenon, <2>2, StandsHigh
  <2> QED BY SMT, <2>1, <2>3 DEF e
<1> QED BY SMT, <1>1, <1>2, <1>3, <1>4, <1>5

(* What json_quote writes for a byte stands for that byte. *)
LEMMA StandsQuoted ==
    ASSUME NEW c \in Octet
    PROVE  StandsFor(quoted(c), <<c>>)
<1>0. c \in Nat /\ c <= 255
    BY SMT, OctetSeqs
<1>1. ASSUME NEW e \in Named, quoted(c) = <<Backslash, e>>, unescaped(e) = c
      PROVE  StandsFor(quoted(c), <<c>>)
  <2>1. StandsFor(<<Backslash, e>>, <<unescaped(e)>>)
      BY Zenon, StandsNamed
  <2> QED BY Zenon, <1>1, <2>1
<1>2. CASE c \in {Quote, Backslash}
  <2>1. c \in Named /\ unescaped(c) = c
      BY SMT, <1>2 DEF Named, unescaped, Quote, Backslash
  <2>2. quoted(c) = <<Backslash, c>>
      BY SMT, <1>2 DEF quoted, Quote, Backslash
  <2> QED BY Zenon, <1>1, <2>1, <2>2
<1>3. CASE c \in {8, 9, 10, 12, 13}
  <2>1. \E e \in {98, 102, 110, 114, 116} : quoted(c) = <<Backslash, e>> /\ unescaped(e) = c
      BY SMT, <1>3 DEF quoted, unescaped, Quote, Backslash
  <2>2. \A e \in {98, 102, 110, 114, 116} : e \in Named
      BY DEF Named
  <2>3. \E e \in Named : quoted(c) = <<Backslash, e>> /\ unescaped(e) = c
      BY SMT, <2>1, <2>2
  <2> QED BY Zenon, <1>1, <2>3
<1>4. CASE c <= 31 /\ c \notin {8, 9, 10, 12, 13}
  <2>1. c \in Unit /\ c \notin High /\ c \notin Low
      BY SMT, <1>0, <1>4, Surrogates DEF Unit
  <2>2. quoted(c) = <<Backslash, U, Zero, Zero, Hex[c \div 16 + 1], Hex[(c % 16) + 1]>>
      BY SMT, <1>0, <1>4 DEF quoted, Quote, Backslash
  <2>3. Hex4(c) = 0 /\ Hex3(c) = 0 /\ Hex2(c) = c \div 16 /\ Hex1(c) = c % 16
      BY SMT, <1>0, <1>4 DEF Hex1, Hex2, Hex3, Hex4
  <2>4. Hex[0 + 1] = Zero
      BY DEF Hex, Zero
  <2>5. EscapedUnit(c) = <<Backslash, U, Hex[Hex4(c) + 1], Hex[Hex3(c) + 1], Hex[Hex2(c) + 1], Hex[Hex1(c) + 1]>>
      BY SMT DEF EscapedUnit, Hex1, Hex2, Hex3, Hex4
  <2>6. quoted(c) = EscapedUnit(c)
      BY SMT, <2>2, <2>3, <2>4, <2>5
  <2>7. quoted(c) = EscapeOf(c)
      BY SMT, <2>1, <2>6, EscapedUnitEq
  <2>8. encode_utf8(c) = <<c>>
      BY SMT, <1>0, <1>4 DEF encode_utf8
  <2>9. StandsFor(EscapeOf(c), encode_utf8(c))
      BY Zenon, <2>1, StandsUnit
  <2> QED BY Zenon, <2>7, <2>8, <2>9
<1>5. CASE c >= 32 /\ c # Quote /\ c # Backslash
  <2>1. quoted(c) = <<c>>
      BY SMT, <1>0, <1>5 DEF quoted
  <2>2. StandsFor(<<c>>, <<c>>)
      BY Zenon, <1>5, StandsByte
  <2> QED BY Zenon, <2>1, <2>2
<1>6. c <= 31 \/ c >= 32
    BY <1>0
<1> QED BY Zenon, <1>2, <1>3, <1>4, <1>5, <1>6

-----------------------------------------------------------------------------
(* A string from a position on is the byte there and the string behind it. *)
LEMMA Onwards ==
    ASSUME NEW s \in Seq(Octet), NEW i \in 1..Len(s)
    PROVE  <<s[i]>> \o SubSeq(s, i + 1, Len(s)) = SubSeq(s, i, Len(s))
<1> DEFINE p == <<s[i]>> \o SubSeq(s, i + 1, Len(s))
           q == SubSeq(s, i, Len(s))
           r == SubSeq(s, i + 1, Len(s))
           n == Len(s)
<1>1. n \in Nat /\ s[i] \in Octet /\ <<s[i]>> \in Seq(Octet)
    OBVIOUS
<1>2. r \in Seq(Octet) /\ Len(r) = n - i /\ \A k \in 1..(n - i) : r[k] = s[i + k]
  <2>1. r \in Seq(Octet) /\ Len(r) = n - i
      OBVIOUS
  <2>2. \A k \in 1..(n - i) : r[k] = s[(i + 1) + k - 1] /\ (i + 1) + k - 1 = i + k
      OBVIOUS
  <2> QED BY Zenon, <2>1, <2>2
<1>3. q \in Seq(Octet) /\ Len(q) = n - i + 1 /\ \A k \in 1..(n - i + 1) : q[k] = s[i + k - 1]
    OBVIOUS
<1> HIDE DEF r, q, n
<1>4. /\ p \in Seq(Octet) /\ Len(p) = n - i + 1 /\ p[1] = s[i]
      /\ \A k \in 1..(n - i) : p[k + 1] = r[k]
    BY <1>1, <1>2 DEF r, n
<1> HIDE DEF p
<1>5. \A k \in 1..(n - i + 1) : p[k] = q[k]
  <2> TAKE k \in 1..(n - i + 1)
  <2>1. CASE k = 1
      BY <1>1, <1>3, <1>4, <2>1
  <2>2. CASE k # 1
    <3>1. k - 1 \in 1..(n - i) /\ (k - 1) + 1 = k /\ i + (k - 1) = i + k - 1
        BY <1>1, <2>2
    <3>2. p[(k - 1) + 1] = r[k - 1] /\ r[k - 1] = s[i + (k - 1)] /\ q[k] = s[i + k - 1]
        BY Zenon, <1>2, <1>3, <1>4, <3>1
    <3> QED BY Zenon, <3>1, <3>2
  <2> QED BY Zenon, <2>1, <2>2
<1>6. p = q
  <2>1. Len(p) = Len(q) /\ \A k \in 1..Len(p) : p[k] = q[k]
      BY Zenon, <1>3, <1>4, <1>5
  <2> QED BY SMT, <1>3, <1>4, <2>1, SameSequence
<1> QED BY Zenon, <1>6 DEF p, q

(* Bytes put together one at a time. *)
LEMMA ConcatBytes ==
    ASSUME NEW s \in Seq(Octet)
    PROVE  Concat([i \in 1..Len(s) |-> <<s[i]>>]) = s
<1> DEFINE n == Len(s)
           vs == [i \in 1..n |-> <<s[i]>>]
           H == {i \in 1..(n + 1) : Joined(vs)[i] = SubSeq(s, i, n)}
<1>1. n \in Nat /\ \A i \in 1..n : <<s[i]>> \in Seq(Octet)
    OBVIOUS
<1>2. vs \in Seq(Seq(Octet)) /\ Len(vs) = n /\ \A i \in 1..n : vs[i] = <<s[i]>>
    BY <1>1
<1>3. SubSeq(s, n + 1, n) = <<>> /\ SubSeq(s, 1, n) = s
    OBVIOUS
<1>4. \A i \in 1..n : <<s[i]>> \o SubSeq(s, i + 1, n) = SubSeq(s, i, n)
    BY SMT, Onwards
<1> HIDE DEF vs
<1>5. \A i \in 1..(n + 1) : Joined(vs)[i] = IF i > n THEN <<>> ELSE vs[i] \o Joined(vs)[i + 1]
    BY Zenon, <1>2, JoinedEq
<1> HIDE DEF n
<1>6. ASSUME NEW i \in 1..(n + 1), \A j \in (i + 1)..(n + 1) : j \in H PROVE i \in H
  <2>1. CASE i > n
    <3>1. i = n + 1
        BY <1>1, <2>1
    <3> QED BY Zenon, <1>3, <1>5, <2>1, <3>1
  <2>2. CASE ~(i > n)
    <3>1. i \in 1..n /\ i + 1 \in (i + 1)..(n + 1)
        BY <1>1, <2>2
    <3>2. Joined(vs)[i + 1] = SubSeq(s, i + 1, n)
        BY Zenon, <1>6, <3>1
    <3>3. Joined(vs)[i] = <<s[i]>> \o SubSeq(s, i + 1, n)
        BY Zenon, <1>2, <1>5, <2>2, <3>1, <3>2
    <3> QED BY Zenon, <1>4, <3>1, <3>3
  <2> QED BY Zenon, <2>1, <2>2
<1>7. \A i \in 1..(n + 1) : i \in H
    BY Zenon, <1>1, <1>6, Downward
<1>8. 1 \in 1..(n + 1)
    BY <1>1
<1>9. Joined(vs)[1] = s
    BY Zenon, <1>3, <1>7, <1>8
<1>10. Concat(vs) = Joined(vs)[1]
    BY Zenon, <1>2, JoinedEq
<1> QED BY Zenon, <1>9, <1>10 DEF vs, n

(* What json_quote writes for a string, parse_string reads back as that string:
   for every string of bytes, text or not, and whatever follows it. *)
THEOREM StringRoundTrip ==
    ASSUME NEW s \in Seq(Octet), NEW rest \in Seq(Octet)
    PROVE  parse_string(json_quote(s) \o rest) = Read(s, rest)
<1> DEFINE n == Len(s)
           ps == [i \in 1..n |-> quoted(s[i])]
           vs == [i \in 1..n |-> <<s[i]>>]
<1>1. \A i \in 1..n : s[i] \in Octet
    OBVIOUS
<1>2. \A i \in 1..n : StandsFor(quoted(s[i]), <<s[i]>>)
    BY Zenon, <1>1, StandsQuoted
<1>3. \A i \in 1..n : quoted(s[i]) \in Seq(Octet) /\ <<s[i]>> \in Seq(Octet)
    BY Zenon, <1>2 DEF StandsFor
<1>4. ps \in Seq(Seq(Octet)) /\ Len(ps) = n /\ \A i \in 1..n : ps[i] = quoted(s[i])
    BY <1>3
<1>5. vs \in Seq(Seq(Octet)) /\ Len(vs) = n /\ \A i \in 1..n : vs[i] = <<s[i]>>
    BY <1>3
<1>6. Concat(vs) = s
    BY Zenon, ConcatBytes
<1>7. json_quote(s) = InQuotes(ps)
    BY Zenon DEF json_quote
<1> HIDE DEF ps, vs, n
<1>8. Len(vs) = Len(ps) /\ \A i \in 1..Len(ps) : StandsFor(ps[i], vs[i])
    BY Zenon, <1>2, <1>4, <1>5
<1>9. StandsFor(Concat(ps), Concat(vs))
    BY Zenon, <1>4, <1>5, <1>8, StandsPieces
<1>10. StandsFor(Concat(ps), s)
    BY Zenon, <1>6, <1>9
<1>11. parse_string(InQuotes(ps) \o rest) = Read(s, rest)
    BY SMT, <1>4, <1>10, ParseQuoted
<1> QED BY Zenon, <1>7, <1>11

(* However another writer spells a text, with any of its characters escaped
   as \u and surrogate pairs, parse_string reads the UTF-8 encoding of it. *)
THEOREM SpellingRead ==
    ASSUME NEW s \in Seq(Scalar), NEW escaped, NEW rest \in Seq(Octet),
           \A i \in 1..Len(s) : s[i] \in MustEscape => i \in escaped
    PROVE  parse_string(Spelling(s, escaped) \o rest) = Read(Utf8(s), rest)
<1> DEFINE n == Len(s)
           p(i) == IF i \in escaped THEN Escaped(s[i]) ELSE encode_utf8(s[i])
           ps == [i \in 1..n |-> p(i)]
           vs == [i \in 1..n |-> encode_utf8(s[i])]
<1>1. \A i \in 1..n : s[i] \in Scalar
    OBVIOUS
<1>2. ASSUME NEW i \in 1..n PROVE StandsFor(p(i), encode_utf8(s[i]))
  <2>1. s[i] \in Scalar /\ s[i] \in CodePoint
      BY Zenon, <1>1 DEF Scalar
  <2>2. CASE i \in escaped
      BY Zenon, <2>1, <2>2, StandsEscaped
  <2>3. CASE i \notin escaped
      BY Zenon, <2>1, <2>3, StandsEncode
  <2> QED BY Zenon, <2>2, <2>3
<1> HIDE DEF p
<1>3. \A i \in 1..n : p(i) \in Seq(Octet) /\ encode_utf8(s[i]) \in Seq(Octet)
    BY Zenon, <1>2 DEF StandsFor
<1>4. ps \in Seq(Seq(Octet)) /\ Len(ps) = n /\ \A i \in 1..n : ps[i] = p(i)
    BY <1>3
<1>5. vs \in Seq(Seq(Octet)) /\ Len(vs) = n /\ \A i \in 1..n : vs[i] = encode_utf8(s[i])
    BY <1>3
<1>6. Utf8(s) = Concat(vs)
    BY Zenon DEF Utf8
<1>7. Spelling(s, escaped) = InQuotes(ps)
    BY Zenon DEF Spelling, p
<1> HIDE DEF ps, vs, n
<1>8. Len(vs) = Len(ps) /\ \A i \in 1..Len(ps) : StandsFor(ps[i], vs[i])
    BY Zenon, <1>2, <1>4, <1>5
<1>9. StandsFor(Concat(ps), Utf8(s))
    BY Zenon, <1>4, <1>5, <1>6, <1>8, StandsPieces
<1>10. parse_string(InQuotes(ps) \o rest) = Read(Utf8(s), rest)
    BY SMT, <1>4, <1>9, ParseQuoted
<1> QED BY Zenon, <1>7, <1>10

-----------------------------------------------------------------------------
(* valid_utf8 looks at one character: its length is that of its first byte,
   the other bytes follow, and the code point is in range. *)
CharAt(s, i) ==
    LET n == extra(s[i])
    IN  n # -1 /\ i + n <= Len(s) /\ (\A k \in 1..n : s[i + k] \div 64 = 2) /\ in_range(s, i)
(* The standard does: its bytes are in the ranges of a row of the table. *)
RowAt(s, i, e) == i + Len(e) <= Len(s) + 1 /\ \A k \in 1..Len(e) : s[i + k - 1] \in e[k]

(* The conditions of valid_utf8 on the code point and on each byte, as inequalities. *)
LEMMA ScalarEq ==
    \A cp, lo, hi \in Int :
        scalar(cp, lo, hi) <=> lo <= cp /\ cp <= hi /\ ~(55296 <= cp /\ cp <= 57343)
<1>1. \A cp \in Int : cp \in High \cup Low <=> 55296 <= cp /\ cp <= 57343
    BY SMT, Surrogates
<1> QED BY SMT, <1>1 DEF scalar

LEMMA One ==
    ASSUME NEW a \in Octet
    PROVE  /\ extra(a) \in {-1, 0, 1, 2, 3}
           /\ extra(a) = 0 <=> a <= 127
           /\ extra(a) = 1 <=> 192 <= a /\ a <= 223
           /\ extra(a) = 2 <=> 224 <= a /\ a <= 239
           /\ extra(a) = 3 <=> 240 <= a /\ a <= 247
<1>1. a \in Nat /\ a <= 255
    BY SMT, OctetSeqs
<1> QED BY SMT, <1>1 DEF extra

LEMMA FollowEq ==
    ASSUME NEW b \in Octet
    PROVE  /\ b \div 64 = 2 <=> 128 <= b /\ b <= 191
           /\ b \in Follow <=> 128 <= b /\ b <= 191
           /\ 128 <= b /\ b <= 191 => b % 64 = b - 128
<1>1. b \in Nat /\ b <= 255
    BY SMT, OctetSeqs
<1>2. b \div 64 = 2 <=> 128 <= b /\ b <= 191
    BY SMT, <1>1
<1>3. b \in Follow <=> 128 <= b /\ b <= 191
    BY SMT, <1>1 DEF Follow
<1>4. 128 <= b /\ b <= 191 => b % 64 = b - 128
    BY SMT, <1>1
<1> QED BY SMT, <1>2, <1>3, <1>4

(* The rows of the table, as inequalities. *)
Row2(a, b) == 194 <= a /\ a <= 223 /\ 128 <= b /\ b <= 191
Row3(a, b, c) ==
    /\ 128 <= b /\ b <= 191 /\ 128 <= c /\ c <= 191
    /\ \/ a = 224 /\ 160 <= b
       \/ 225 <= a /\ a <= 236
       \/ a = 237 /\ b <= 159
       \/ 238 <= a /\ a <= 239
Row4(a, b, c, d) ==
    /\ 128 <= b /\ b <= 191 /\ 128 <= c /\ c <= 191 /\ 128 <= d /\ d <= 191
    /\ \/ a = 240 /\ 144 <= b
       \/ 241 <= a /\ a <= 243
       \/ a = 244 /\ b <= 143

(* The code point of two, three or four bytes is in range exactly in a row of the table. *)
LEMMA TwoBytes ==
    ASSUME NEW a \in Octet, NEW b \in Octet
    PROVE  /\ 192 <= a /\ a <= 223 /\ b \div 64 = 2 /\ scalar((a % 32) * 64 + (b % 64), 128, 2047)
           <=> Row2(a, b)
<1>1. a \in Nat /\ a <= 255 /\ b \in Nat /\ b <= 255
    BY SMT, OctetSeqs
<1>2. b \div 64 = 2 <=> 128 <= b /\ b <= 191
    BY SMT, <1>1
<1>3. CASE 192 <= a /\ a <= 223 /\ 128 <= b /\ b <= 191
  <2>1. a % 32 = a - 192 /\ b % 64 = b - 128
      BY SMT, <1>1, <1>3
  <2>2. (a % 32) * 64 + (b % 64) = (a - 192) * 64 + (b - 128) /\ (a - 192) * 64 + (b - 128) \in Int
      BY SMT, <1>1, <2>1
  <2>3. scalar((a - 192) * 64 + (b - 128), 128, 2047) <=> 194 <= a
      BY SMT, <1>1, <1>3, ScalarEq
  <2> QED BY SMT, <1>2, <1>3, <2>2, <2>3 DEF Row2
<1>4. CASE ~(192 <= a /\ a <= 223 /\ 128 <= b /\ b <= 191)
    BY SMT, <1>1, <1>2, <1>4 DEF Row2
<1> QED BY SMT, <1>3, <1>4

LEMMA ThreeBytes ==
    ASSUME NEW a \in Octet, NEW b \in Octet, NEW c \in Octet
    PROVE  /\ 224 <= a /\ a <= 239 /\ b \div 64 = 2 /\ c \div 64 = 2
           /\ scalar(((a % 16) * 64 + (b % 64)) * 64 + (c % 64), 2048, 65535)
           <=> Row3(a, b, c)
<1>1. a \in Nat /\ a <= 255 /\ b \in Nat /\ b <= 255 /\ c \in Nat /\ c <= 255
    BY SMT, OctetSeqs
<1>2. (b \div 64 = 2 <=> 128 <= b /\ b <= 191) /\ (c \div 64 = 2 <=> 128 <= c /\ c <= 191)
    BY SMT, <1>1
<1>3. CASE 224 <= a /\ a <= 239 /\ 128 <= b /\ b <= 191 /\ 128 <= c /\ c <= 191
  <2> DEFINE cp == ((a - 224) * 64 + (b - 128)) * 64 + (c - 128)
  <2>1. a % 16 = a - 224 /\ b % 64 = b - 128 /\ c % 64 = c - 128
      BY SMT, <1>1, <1>3
  <2>2. ((a % 16) * 64 + (b % 64)) * 64 + (c % 64) = cp /\ cp \in Int
      BY SMT, <1>1, <2>1
  <2>3. 2048 <= cp /\ cp <= 65535 /\ ~(55296 <= cp /\ cp <= 57343) <=> Row3(a, b, c)
      BY SMT, <1>1, <1>3 DEF Row3
  <2> HIDE DEF cp
  <2>4. scalar(cp, 2048, 65535) <=> Row3(a, b, c)
      BY SMT, <2>2, <2>3, ScalarEq
  <2> QED BY SMT, <1>2, <1>3, <2>2, <2>4
<1>4. CASE ~(224 <= a /\ a <= 239 /\ 128 <= b /\ b <= 191 /\ 128 <= c /\ c <= 191)
    BY SMT, <1>1, <1>2, <1>4 DEF Row3
<1> QED BY SMT, <1>3, <1>4

LEMMA FourBytes ==
    ASSUME NEW a \in Octet, NEW b \in Octet, NEW c \in Octet, NEW d \in Octet
    PROVE  /\ 240 <= a /\ a <= 247 /\ b \div 64 = 2 /\ c \div 64 = 2 /\ d \div 64 = 2
           /\ scalar((((a % 8) * 64 + (b % 64)) * 64 + (c % 64)) * 64 + (d % 64), 65536, 1114111)
           <=> Row4(a, b, c, d)
<1>1. a \in Nat /\ a <= 255 /\ b \in Nat /\ b <= 255 /\ c \in Nat /\ c <= 255 /\ d \in Nat /\ d <= 255
    BY SMT, OctetSeqs
<1>2. /\ b \div 64 = 2 <=> 128 <= b /\ b <= 191
      /\ c \div 64 = 2 <=> 128 <= c /\ c <= 191
      /\ d \div 64 = 2 <=> 128 <= d /\ d <= 191
    BY SMT, <1>1
<1>3. CASE /\ 240 <= a /\ a <= 247 /\ 128 <= b /\ b <= 191 /\ 128 <= c /\ c <= 191
           /\ 128 <= d /\ d <= 191
  <2> DEFINE cp == (((a - 240) * 64 + (b - 128)) * 64 + (c - 128)) * 64 + (d - 128)
  <2>1. a % 8 = a - 240 /\ b % 64 = b - 128 /\ c % 64 = c - 128 /\ d % 64 = d - 128
      BY SMT, <1>1, <1>3
  <2>2. (((a % 8) * 64 + (b % 64)) * 64 + (c % 64)) * 64 + (d % 64) = cp /\ cp \in Int
      BY SMT, <1>1, <2>1
  <2>3. 65536 <= cp /\ cp <= 1114111 /\ ~(55296 <= cp /\ cp <= 57343) <=> Row4(a, b, c, d)
      BY SMT, <1>1, <1>3 DEF Row4
  <2> HIDE DEF cp
  <2>4. scalar(cp, 65536, 1114111) <=> Row4(a, b, c, d)
      BY SMT, <2>2, <2>3, ScalarEq
  <2> QED BY SMT, <1>2, <1>3, <2>2, <2>4
<1>4. CASE ~(/\ 240 <= a /\ a <= 247 /\ 128 <= b /\ b <= 191 /\ 128 <= c /\ c <= 191
             /\ 128 <= d /\ d <= 191)
    BY SMT, <1>1, <1>2, <1>4 DEF Row4
<1> QED BY SMT, <1>3, <1>4

(* The characters of one to four bytes. *)
Char1(s, i) == s[i] <= 127
Char2(s, i) == i + 1 <= Len(s) /\ Row2(s[i], s[i + 1])
Char3(s, i) == i + 2 <= Len(s) /\ Row3(s[i], s[i + 1], s[i + 2])
Char4(s, i) == i + 3 <= Len(s) /\ Row4(s[i], s[i + 1], s[i + 2], s[i + 3])

(* How many bytes follow the first byte of a character. *)
LEMMA CharWidth ==
    ASSUME NEW s \in Seq(Octet), NEW i \in 1..Len(s)
    PROVE  /\ Char1(s, i) => extra(s[i]) = 0
           /\ Char2(s, i) => extra(s[i]) = 1
           /\ Char3(s, i) => extra(s[i]) = 2
           /\ Char4(s, i) => extra(s[i]) = 3
<1>1. s[i] \in Octet
    OBVIOUS
<1>2. \A a \in Octet : /\ a <= 127 => extra(a) = 0
                       /\ \A b : Row2(a, b) => extra(a) = 1
                       /\ \A b, c : Row3(a, b, c) => extra(a) = 2
                       /\ \A b, c, d : Row4(a, b, c, d) => extra(a) = 3
  <2> SUFFICES ASSUME NEW a \in Octet
               PROVE  /\ a <= 127 => extra(a) = 0
                      /\ \A b : Row2(a, b) => extra(a) = 1
                      /\ \A b, c : Row3(a, b, c) => extra(a) = 2
                      /\ \A b, c, d : Row4(a, b, c, d) => extra(a) = 3
      BY Zenon
  <2>1. a \in Nat
      BY SMT, OctetSeqs
  <2> QED BY SMT, <2>1, One DEF Row2, Row3, Row4
<1> QED BY Zenon, <1>1, <1>2 DEF Char1, Char2, Char3, Char4

(* valid_utf8 takes a character exactly where a row of the table is. *)
LEMMA CharIs ==
    ASSUME NEW s \in Seq(Octet), NEW i \in 1..Len(s)
    PROVE  CharAt(s, i) <=> Char1(s, i) \/ Char2(s, i) \/ Char3(s, i) \/ Char4(s, i)
<1> DEFINE n == extra(s[i])
<1>0. s[i] \in Octet /\ \A k \in Nat : i + k <= Len(s) => s[i + k] \in Octet
    OBVIOUS
<1>1. n \in {-1, 0, 1, 2, 3} /\ i \in Nat /\ Len(s) \in Nat
    BY <1>0, One
<1>2. CASE n = -1
  <2>1. ~CharAt(s, i)
      BY Zenon, <1>2 DEF CharAt
  <2>2. ~Char1(s, i) /\ ~Char2(s, i) /\ ~Char3(s, i) /\ ~Char4(s, i)
      BY SMT, <1>2, CharWidth
  <2> QED BY Zenon, <2>1, <2>2
<1>3. CASE n = 0
  <2>1. i + n <= Len(s) /\ n # -1 /\ \A k \in 1..n : s[i + k] \div 64 = 2
    <3>1. i + 0 <= Len(s) /\ 0 # -1 /\ \A k : k \notin 1..0
        BY <1>1
    <3> QED BY Zenon, <1>3, <3>1
  <2>2. in_range(s, i)
      BY SMT, <1>3 DEF in_range
  <2>3. Char1(s, i)
      BY Zenon, <1>0, <1>3, One DEF Char1
  <2> QED BY Zenon, <2>1, <2>2, <2>3 DEF CharAt
<1>4. CASE n = 1
  <2>1. CASE ~(i + 1 <= Len(s))
    <3>1. ~CharAt(s, i)
        BY Zenon, <1>4, <2>1 DEF CharAt
    <3>2. ~Char1(s, i) /\ ~Char2(s, i) /\ ~Char3(s, i) /\ ~Char4(s, i)
        BY <1>4, <2>1, CharWidth DEF Char2
    <3> QED BY Zenon, <3>1, <3>2
  <2>2. CASE i + 1 <= Len(s)
    <3>1. s[i + 1] \in Octet
        BY Zenon, <1>0, <2>2
    <3>2. in_range(s, i) <=> scalar((s[i] % 32) * 64 + (s[i + 1] % 64), 128, 2047)
        BY SMT, <1>4 DEF in_range
    <3>3. (\A k \in 1..n : s[i + k] \div 64 = 2) <=> s[i + 1] \div 64 = 2
        BY SMT, <1>4
    <3>4. 192 <= s[i] /\ s[i] <= 223
        BY SMT, <1>0, <1>4, One
    <3>5. CharAt(s, i) <=> Row2(s[i], s[i + 1])
        BY SMT, <1>0, <1>4, <2>2, <3>1, <3>2, <3>3, <3>4, TwoBytes DEF CharAt
    <3>6. ~Char1(s, i) /\ ~Char3(s, i) /\ ~Char4(s, i)
        BY SMT, <1>4, CharWidth
    <3> QED BY SMT, <2>2, <3>5, <3>6 DEF Char2
  <2> QED BY Zenon, <2>1, <2>2
<1>5. CASE n = 2
  <2>1. CASE ~(i + 2 <= Len(s))
    <3>1. ~CharAt(s, i)
        BY Zenon, <1>5, <2>1 DEF CharAt
    <3>2. ~Char1(s, i) /\ ~Char2(s, i) /\ ~Char3(s, i) /\ ~Char4(s, i)
        BY <1>5, <2>1, CharWidth DEF Char3
    <3> QED BY Zenon, <3>1, <3>2
  <2>2. CASE i + 2 <= Len(s)
    <3>1. i + 1 <= Len(s) /\ s[i + 1] \in Octet /\ s[i + 2] \in Octet
        BY <1>1, <1>0, <2>2
    <3>2. in_range(s, i) <=> scalar(((s[i] % 16) * 64 + (s[i + 1] % 64)) * 64 + (s[i + 2] % 64), 2048, 65535)
        BY SMT, <1>5 DEF in_range
    <3>3. (\A k \in 1..n : s[i + k] \div 64 = 2) <=> s[i + 1] \div 64 = 2 /\ s[i + 2] \div 64 = 2
        BY SMT, <1>5
    <3>4. 224 <= s[i] /\ s[i] <= 239
        BY SMT, <1>0, <1>5, One
    <3>5. CharAt(s, i) <=> Row3(s[i], s[i + 1], s[i + 2])
        BY SMT, <1>0, <1>5, <2>2, <3>1, <3>2, <3>3, <3>4, ThreeBytes DEF CharAt
    <3>6. ~Char1(s, i) /\ ~Char2(s, i) /\ ~Char4(s, i)
        BY SMT, <1>5, CharWidth
    <3> QED BY SMT, <2>2, <3>5, <3>6 DEF Char3
  <2> QED BY Zenon, <2>1, <2>2
<1>6. CASE n = 3
  <2>1. CASE ~(i + 3 <= Len(s))
    <3>1. ~CharAt(s, i)
        BY Zenon, <1>6, <2>1 DEF CharAt
    <3>2. ~Char1(s, i) /\ ~Char2(s, i) /\ ~Char3(s, i) /\ ~Char4(s, i)
        BY <1>6, <2>1, CharWidth DEF Char4
    <3> QED BY Zenon, <3>1, <3>2
  <2>2. CASE i + 3 <= Len(s)
    <3>1. i + 1 <= Len(s) /\ i + 2 <= Len(s) /\ s[i + 1] \in Octet /\ s[i + 2] \in Octet /\ s[i + 3] \in Octet
        BY <1>1, <1>0, <2>2
    <3>2. in_range(s, i) <=>
            scalar((((s[i] % 8) * 64 + (s[i + 1] % 64)) * 64 + (s[i + 2] % 64)) * 64 + (s[i + 3] % 64), 65536, 1114111)
        BY SMT, <1>6 DEF in_range
    <3>3. (\A k \in 1..n : s[i + k] \div 64 = 2) <=>
            s[i + 1] \div 64 = 2 /\ s[i + 2] \div 64 = 2 /\ s[i + 3] \div 64 = 2
        BY SMT, <1>6
    <3>4. 240 <= s[i] /\ s[i] <= 247
        BY SMT, <1>0, <1>6, One
    <3>5. CharAt(s, i) <=> Row4(s[i], s[i + 1], s[i + 2], s[i + 3])
        BY SMT, <1>0, <1>6, <2>2, <3>1, <3>2, <3>3, <3>4, FourBytes DEF CharAt
    <3>6. ~Char1(s, i) /\ ~Char2(s, i) /\ ~Char3(s, i)
        BY SMT, <1>6, CharWidth
    <3> QED BY SMT, <2>2, <3>5, <3>6 DEF Char4
  <2> QED BY Zenon, <2>1, <2>2
<1> QED BY Zenon, <1>1, <1>2, <1>3, <1>4, <1>5, <1>6

(* The rows of the table, byte by byte. *)
LEMMA RowTuple ==
    ASSUME NEW s \in Seq(Octet), NEW i \in 1..Len(s), NEW A, NEW B, NEW C, NEW D
    PROVE  /\ RowAt(s, i, <<A>>) <=> s[i] \in A
           /\ RowAt(s, i, <<A, B>>) <=> i + 1 <= Len(s) /\ s[i] \in A /\ s[i + 1] \in B
           /\ RowAt(s, i, <<A, B, C>>) <=> i + 2 <= Len(s) /\ s[i] \in A /\ s[i + 1] \in B /\ s[i + 2] \in C
           /\ RowAt(s, i, <<A, B, C, D>>) <=>
                i + 3 <= Len(s) /\ s[i] \in A /\ s[i + 1] \in B /\ s[i + 2] \in C /\ s[i + 3] \in D
<1>1. RowAt(s, i, <<A>>) <=> s[i] \in A
    BY SMT DEF RowAt
<1>2. RowAt(s, i, <<A, B>>) <=> i + 1 <= Len(s) /\ s[i] \in A /\ s[i + 1] \in B
    BY SMT DEF RowAt
<1>3. RowAt(s, i, <<A, B, C>>) <=> i + 2 <= Len(s) /\ s[i] \in A /\ s[i + 1] \in B /\ s[i + 2] \in C
    BY SMT DEF RowAt
<1>4. RowAt(s, i, <<A, B, C, D>>) <=>
        i + 3 <= Len(s) /\ s[i] \in A /\ s[i + 1] \in B /\ s[i + 2] \in C /\ s[i + 3] \in D
    BY SMT DEF RowAt
<1> QED BY Zenon, <1>1, <1>2, <1>3, <1>4

(* The row of the table that a character is in, and the character a row is of. *)
RowOf(s, i, n) == \E e \in Encodings : RowAt(s, i, e) /\ Len(e) = n

(* The rows of the table are those inequalities. *)
LEMMA RowIs ==
    ASSUME NEW s \in Seq(Octet), NEW i \in 1..Len(s)
    PROVE  /\ \A e \in Encodings : RowAt(s, i, e) =>
                \/ Len(e) = 1 /\ Char1(s, i)
                \/ Len(e) = 2 /\ Char2(s, i)
                \/ Len(e) = 3 /\ Char3(s, i)
                \/ Len(e) = 4 /\ Char4(s, i)
           /\ Char1(s, i) => RowOf(s, i, 1)
           /\ Char2(s, i) => RowOf(s, i, 2)
           /\ Char3(s, i) => RowOf(s, i, 3)
           /\ Char4(s, i) => RowOf(s, i, 4)
<1> DEFINE A == 0..127
           B == 194..223
           C1 == {224}
           C2 == 160..191
           C3 == 225..236
           C4 == {237}
           C5 == 128..159
           C6 == 238..239
           D1 == {240}
           D2 == 144..191
           D3 == 241..243
           D4 == {244}
           D5 == 128..143
           F == Follow
           a == s[i]
           b == s[i + 1]
           c == s[i + 2]
           d == s[i + 3]
<1>1. Encodings = {<<A>>, <<B, F>>, <<C1, C2, F>>, <<C3, F, F>>, <<C4, C5, F>>, <<C6, F, F>>,
                   <<D1, D2, F, F>>, <<D3, F, F, F>>, <<D4, D5, F, F>>}
    BY Zenon DEF Encodings
<1>2. \A x \in Octet : /\ x \in A <=> x <= 127
                       /\ x \in B <=> 194 <= x /\ x <= 223
                       /\ x \in C1 <=> x = 224
                       /\ x \in C2 <=> 160 <= x /\ x <= 191
                       /\ x \in C3 <=> 225 <= x /\ x <= 236
                       /\ x \in C4 <=> x = 237
                       /\ x \in C5 <=> 128 <= x /\ x <= 159
                       /\ x \in C6 <=> 238 <= x /\ x <= 239
  <2> SUFFICES ASSUME NEW x \in Nat, x <= 255
               PROVE  /\ x \in A <=> x <= 127
                      /\ x \in B <=> 194 <= x /\ x <= 223
                      /\ x \in C1 <=> x = 224
                      /\ x \in C2 <=> 160 <= x /\ x <= 191
                      /\ x \in C3 <=> 225 <= x /\ x <= 236
                      /\ x \in C4 <=> x = 237
                      /\ x \in C5 <=> 128 <= x /\ x <= 159
                      /\ x \in C6 <=> 238 <= x /\ x <= 239
    <3> HIDE DEF A, B, C1, C2, C3, C4, C5, C6
    <3> QED BY SMT, OctetSeqs
  <2> QED BY SMT
<1>3. \A x \in Octet : /\ x \in D1 <=> x = 240
                       /\ x \in D2 <=> 144 <= x /\ x <= 191
                       /\ x \in D3 <=> 241 <= x /\ x <= 243
                       /\ x \in D4 <=> x = 244
                       /\ x \in D5 <=> 128 <= x /\ x <= 143
  <2> SUFFICES ASSUME NEW x \in Nat, x <= 255
               PROVE  /\ x \in D1 <=> x = 240
                      /\ x \in D2 <=> 144 <= x /\ x <= 191
                      /\ x \in D3 <=> 241 <= x /\ x <= 243
                      /\ x \in D4 <=> x = 244
                      /\ x \in D5 <=> 128 <= x /\ x <= 143
    <3> HIDE DEF D1, D2, D3, D4, D5
    <3> QED BY SMT, OctetSeqs
  <2> QED BY SMT
<1>4. \A x \in Octet : x \in F <=> 128 <= x /\ x <= 191
    BY SMT, FollowEq
<1> HIDE DEF A, B, C1, C2, C3, C4, C5, C6, D1, D2, D3, D4, D5, F
<1>5. a \in Octet /\ a \in Nat
    BY SMT, OctetSeqs
<1>6. /\ i + 1 <= Len(s) => b \in Octet /\ b \in Nat
      /\ i + 2 <= Len(s) => b \in Octet /\ b \in Nat /\ c \in Octet /\ c \in Nat /\ i + 1 <= Len(s)
      /\ i + 3 <= Len(s) => /\ b \in Octet /\ b \in Nat /\ c \in Octet /\ c \in Nat /\ d \in Octet /\ d \in Nat
                            /\ i + 1 <= Len(s) /\ i + 2 <= Len(s)
    BY SMT, OctetSeqs
<1>7. /\ Len(<<A>>) = 1 /\ Len(<<B, F>>) = 2
      /\ Len(<<C1, C2, F>>) = 3 /\ Len(<<C3, F, F>>) = 3 /\ Len(<<C4, C5, F>>) = 3 /\ Len(<<C6, F, F>>) = 3
      /\ Len(<<D1, D2, F, F>>) = 4 /\ Len(<<D3, F, F, F>>) = 4 /\ Len(<<D4, D5, F, F>>) = 4
    OBVIOUS
<1>8. RowAt(s, i, <<A>>) <=> Char1(s, i)
  <2>1. RowAt(s, i, <<A>>) <=> a \in A
      BY Zenon, RowTuple
  <2> QED BY SMT, <1>2, <1>5, <2>1 DEF Char1
<1>9. RowAt(s, i, <<B, F>>) <=> Char2(s, i)
  <2>1. RowAt(s, i, <<B, F>>) <=> i + 1 <= Len(s) /\ a \in B /\ b \in F
      BY Zenon, RowTuple
  <2> QED BY SMT, <1>2, <1>4, <1>5, <1>6, <2>1 DEF Char2, Row2
<1>10. RowAt(s, i, <<C1, C2, F>>) \/ RowAt(s, i, <<C3, F, F>>) \/ RowAt(s, i, <<C4, C5, F>>) \/ RowAt(s, i, <<C6, F, F>>)
        <=> Char3(s, i)
  <2>1. /\ RowAt(s, i, <<C1, C2, F>>) <=> i + 2 <= Len(s) /\ a \in C1 /\ b \in C2 /\ c \in F
        /\ RowAt(s, i, <<C3, F, F>>) <=> i + 2 <= Len(s) /\ a \in C3 /\ b \in F /\ c \in F
        /\ RowAt(s, i, <<C4, C5, F>>) <=> i + 2 <= Len(s) /\ a \in C4 /\ b \in C5 /\ c \in F
        /\ RowAt(s, i, <<C6, F, F>>) <=> i + 2 <= Len(s) /\ a \in C6 /\ b \in F /\ c \in F
      BY Zenon, RowTuple
  <2>2. ASSUME NEW x \in Octet, NEW y \in Octet, NEW z \in Octet
        PROVE  \/ x \in C1 /\ y \in C2 /\ z \in F
               \/ x \in C3 /\ y \in F /\ z \in F
               \/ x \in C4 /\ y \in C5 /\ z \in F
               \/ x \in C6 /\ y \in F /\ z \in F
               <=> Row3(x, y, z)
    <3>1. x \in Nat /\ y \in Nat /\ z \in Nat
        BY SMT, OctetSeqs
    <3>2. /\ x \in C1 <=> x = 224
          /\ x \in C3 <=> 225 <= x /\ x <= 236
          /\ x \in C4 <=> x = 237
          /\ x \in C6 <=> 238 <= x /\ x <= 239
        BY SMT, <1>2
    <3>3. /\ y \in C2 <=> 160 <= y /\ y <= 191
          /\ y \in C5 <=> 128 <= y /\ y <= 159
          /\ y \in F <=> 128 <= y /\ y <= 191
          /\ z \in F <=> 128 <= z /\ z <= 191
        BY SMT, <1>2, <1>4
    <3> QED BY SMT, <3>1, <3>2, <3>3 DEF Row3
  <2>3. CASE i + 2 <= Len(s)
    <3>1. b \in Octet /\ c \in Octet
        BY Zenon, <1>6, <2>3
    <3> QED BY Zenon, <1>5, <2>1, <2>2, <2>3, <3>1 DEF Char3
  <2>4. CASE ~(i + 2 <= Len(s))
      BY Zenon, <2>1, <2>4 DEF Char3
  <2> QED BY Zenon, <2>3, <2>4
<1>11. RowAt(s, i, <<D1, D2, F, F>>) \/ RowAt(s, i, <<D3, F, F, F>>) \/ RowAt(s, i, <<D4, D5, F, F>>)
        <=> Char4(s, i)
  <2>1. /\ RowAt(s, i, <<D1, D2, F, F>>) <=> i + 3 <= Len(s) /\ a \in D1 /\ b \in D2 /\ c \in F /\ d \in F
        /\ RowAt(s, i, <<D3, F, F, F>>) <=> i + 3 <= Len(s) /\ a \in D3 /\ b \in F /\ c \in F /\ d \in F
        /\ RowAt(s, i, <<D4, D5, F, F>>) <=> i + 3 <= Len(s) /\ a \in D4 /\ b \in D5 /\ c \in F /\ d \in F
      BY Zenon, RowTuple
  <2>2. ASSUME NEW x \in Octet, NEW y \in Octet, NEW z \in Octet, NEW w \in Octet
        PROVE  \/ x \in D1 /\ y \in D2 /\ z \in F /\ w \in F
               \/ x \in D3 /\ y \in F /\ z \in F /\ w \in F
               \/ x \in D4 /\ y \in D5 /\ z \in F /\ w \in F
               <=> Row4(x, y, z, w)
    <3>1. x \in Nat /\ y \in Nat /\ z \in Nat /\ w \in Nat
        BY SMT, OctetSeqs
    <3>2. /\ x \in D1 <=> x = 240
          /\ x \in D3 <=> 241 <= x /\ x <= 243
          /\ x \in D4 <=> x = 244
        BY SMT, <1>3
    <3>3. /\ y \in D2 <=> 144 <= y /\ y <= 191
          /\ y \in D5 <=> 128 <= y /\ y <= 143
          /\ y \in F <=> 128 <= y /\ y <= 191
          /\ z \in F <=> 128 <= z /\ z <= 191
          /\ w \in F <=> 128 <= w /\ w <= 191
        BY SMT, <1>3, <1>4
    <3> QED BY SMT, <3>1, <3>2, <3>3 DEF Row4
  <2>3. CASE i + 3 <= Len(s)
    <3>1. b \in Octet /\ c \in Octet /\ d \in Octet
        BY Zenon, <1>6, <2>3
    <3> QED BY Zenon, <1>5, <2>1, <2>2, <2>3, <3>1 DEF Char4
  <2>4. CASE ~(i + 3 <= Len(s))
      BY Zenon, <2>1, <2>4 DEF Char4
  <2> QED BY Zenon, <2>3, <2>4
<1>12. ASSUME NEW e \in Encodings, RowAt(s, i, e)
       PROVE  \/ Len(e) = 1 /\ Char1(s, i)
              \/ Len(e) = 2 /\ Char2(s, i)
              \/ Len(e) = 3 /\ Char3(s, i)
              \/ Len(e) = 4 /\ Char4(s, i)
  <2>1. CASE e = <<A>>
      BY Zenon, <1>7, <1>8, <1>12, <2>1
  <2>2. CASE e = <<B, F>>
      BY Zenon, <1>7, <1>9, <1>12, <2>2
  <2>3. CASE e \in {<<C1, C2, F>>, <<C3, F, F>>, <<C4, C5, F>>, <<C6, F, F>>}
      BY Zenon, <1>7, <1>10, <1>12, <2>3
  <2>4. CASE e \in {<<D1, D2, F, F>>, <<D3, F, F, F>>, <<D4, D5, F, F>>}
      BY Zenon, <1>7, <1>11, <1>12, <2>4
  <2>5. \/ e = <<A>> \/ e = <<B, F>>
        \/ e \in {<<C1, C2, F>>, <<C3, F, F>>, <<C4, C5, F>>, <<C6, F, F>>}
        \/ e \in {<<D1, D2, F, F>>, <<D3, F, F, F>>, <<D4, D5, F, F>>}
      BY Zenon, <1>1, <1>12
  <2> QED BY Zenon, <2>1, <2>2, <2>3, <2>4, <2>5
<1>13. Char1(s, i) => RowOf(s, i, 1)
    BY Zenon, <1>1, <1>7, <1>8 DEF RowOf
<1>14. Char2(s, i) => RowOf(s, i, 2)
    BY Zenon, <1>1, <1>7, <1>9 DEF RowOf
<1>15. Char3(s, i) => RowOf(s, i, 3)
    BY Zenon, <1>1, <1>7, <1>10 DEF RowOf
<1>16. Char4(s, i) => RowOf(s, i, 4)
    BY Zenon, <1>1, <1>7, <1>11 DEF RowOf
<1> QED BY Zenon, <1>12, <1>13, <1>14, <1>15, <1>16

-----------------------------------------------------------------------------
(* The turns of the loop of valid_utf8. *)
Utf8Turn(s, i, f) ==
    LET n == extra(s[i])
    IN  \/ i > Len(s)
        \/ /\ n # -1 /\ i + n <= Len(s)
           /\ \A k \in 1..n : s[i + k] \div 64 = 2
           /\ in_range(s, i)
           /\ f[i + 1 + n]
Utf8Turns(s, f) == f = [i \in 1..(Len(s) + 1) |-> Utf8Turn(s, i, f)]
Utf8Reader(s) == CHOOSE f : Utf8Turns(s, f)

(* What is well-formed from each position on. *)
RowTurn(s, i, f) ==
    \/ i > Len(s)
    \/ \E e \in Encodings : /\ i + Len(e) <= Len(s) + 1
                            /\ \A k \in 1..Len(e) : s[i + k - 1] \in e[k]
                            /\ f[i + Len(e)]
RowTurns(s, f) == f = [i \in 1..(Len(s) + 1) |-> RowTurn(s, i, f)]
RowReader(s) == CHOOSE f : RowTurns(s, f)

(* A turn of either loop. *)
LEMMA Utf8TurnIs ==
    ASSUME NEW s, NEW i, NEW f
    PROVE  Utf8Turn(s, i, f) <=> i > Len(s) \/ (CharAt(s, i) /\ f[i + 1 + extra(s[i])])
BY Zenon DEF Utf8Turn, CharAt

LEMMA RowTurnIs ==
    ASSUME NEW s, NEW i, NEW f
    PROVE  RowTurn(s, i, f) <=> i > Len(s) \/ \E e \in Encodings : RowAt(s, i, e) /\ f[i + Len(e)]
BY Zenon DEF RowTurn, RowAt

(* Where the next character is. *)
LEMMA CharNext ==
    ASSUME NEW s \in Seq(Octet), NEW i \in 1..(Len(s) + 1), ~(i > Len(s))
    PROVE  /\ i \in 1..Len(s)
           /\ CharAt(s, i) => i + 1 + extra(s[i]) \in (i + 1)..(Len(s) + 1)
           /\ \A e \in Encodings : RowAt(s, i, e) => i + Len(e) \in (i + 1)..(Len(s) + 1)
<1>1. i \in 1..Len(s)
    OBVIOUS
<1>2. ASSUME CharAt(s, i) PROVE i + 1 + extra(s[i]) \in (i + 1)..(Len(s) + 1)
  <2>1. s[i] \in Octet
      BY <1>1
  <2>2. extra(s[i]) \in {-1, 0, 1, 2, 3}
      BY Zenon, <2>1, One
  <2>3. extra(s[i]) # -1 /\ i + extra(s[i]) <= Len(s)
      BY Zenon, <1>2 DEF CharAt
  <2> QED BY SMT, <1>1, <2>2, <2>3
<1>3. ASSUME NEW e \in Encodings, RowAt(s, i, e) PROVE i + Len(e) \in (i + 1)..(Len(s) + 1)
  <2>1. Len(e) \in {1, 2, 3, 4}
      BY Zenon, <1>1, <1>3, RowIs
  <2>2. i + Len(e) <= Len(s) + 1
      BY Zenon, <1>3 DEF RowAt
  <2>3. Len(s) \in Nat /\ \A w \in {1, 2, 3, 4} : i + w <= Len(s) + 1 => i + w \in (i + 1)..(Len(s) + 1)
      BY <1>1
  <2> QED BY Zenon, <2>1, <2>2, <2>3
<1> QED BY Zenon, <1>1, <1>2, <1>3

(* A turn of either loop needs only the later ones. *)
LEMMA SameTruth == \A a, b \in BOOLEAN : (a <=> b) => a = b
OBVIOUS

LEMMA Utf8TurnLater ==
    ASSUME NEW s \in Seq(Octet), NEW i \in 1..(Len(s) + 1), NEW f
    PROVE  Utf8Turn(s, i, [j \in (i + 1)..(Len(s) + 1) |-> f[j]]) = Utf8Turn(s, i, f)
<1> DEFINE g == [j \in (i + 1)..(Len(s) + 1) |-> f[j]]
<1>1. Utf8Turn(s, i, g) <=> Utf8Turn(s, i, f)
  <2>1. CASE i > Len(s)
      BY Zenon, <2>1, Utf8TurnIs
  <2>2. CASE ~(i > Len(s))
    <3>1. CharAt(s, i) => g[i + 1 + extra(s[i])] = f[i + 1 + extra(s[i])]
        BY Zenon, <2>2, CharNext
    <3> HIDE DEF g
    <3> QED BY Zenon, <2>2, <3>1, Utf8TurnIs
  <2> QED BY Zenon, <2>1, <2>2
<1>2. Utf8Turn(s, i, g) \in BOOLEAN /\ Utf8Turn(s, i, f) \in BOOLEAN
    BY Zenon DEF Utf8Turn
<1> QED BY Zenon, <1>1, <1>2, SameTruth

LEMMA RowTurnLater ==
    ASSUME NEW s \in Seq(Octet), NEW i \in 1..(Len(s) + 1), NEW f
    PROVE  RowTurn(s, i, [j \in (i + 1)..(Len(s) + 1) |-> f[j]]) = RowTurn(s, i, f)
<1> DEFINE g == [j \in (i + 1)..(Len(s) + 1) |-> f[j]]
<1>1. RowTurn(s, i, g) <=> RowTurn(s, i, f)
  <2>1. CASE i > Len(s)
      BY Zenon, <2>1, RowTurnIs
  <2>2. CASE ~(i > Len(s))
    <3>1. \A e \in Encodings : RowAt(s, i, e) => g[i + Len(e)] = f[i + Len(e)]
        BY Zenon, <2>2, CharNext
    <3> HIDE DEF g
    <3> QED BY Zenon, <2>2, <3>1, RowTurnIs
  <2> QED BY Zenon, <2>1, <2>2
<1>2. RowTurn(s, i, g) \in BOOLEAN /\ RowTurn(s, i, f) \in BOOLEAN
    BY Zenon DEF RowTurn
<1> QED BY Zenon, <1>1, <1>2, SameTruth

(* Both loops are well defined. *)
LEMMA Utf8ReaderEq ==
    ASSUME NEW s \in Seq(Octet)
    PROVE  /\ valid_utf8(s) = Utf8Reader(s)[1]
           /\ \A i \in 1..(Len(s) + 1) : Utf8Reader(s)[i] = Utf8Turn(s, i, Utf8Reader(s))
<1> DEFINE n == Len(s)
           G == [i \in 1..(n + 1) |-> [g \in [(i + 1)..(n + 1) -> BOOLEAN] |-> Utf8Turn(s, i, g)]]
<1>1. n \in Nat
    OBVIOUS
<1>2. ASSUME NEW i \in 1..(n + 1), NEW g \in [(i + 1)..(n + 1) -> BOOLEAN]
      PROVE  G[i][g] = Utf8Turn(s, i, g) /\ G[i][g] \in BOOLEAN
  <2>1. G[i][g] = Utf8Turn(s, i, g)
      BY Zenon
  <2>2. Utf8Turn(s, i, g) \in BOOLEAN
      BY Zenon DEF Utf8Turn
  <2> QED BY Zenon, <2>1, <2>2
<1> HIDE DEF n, G
<1>3. PICK f \in [1..(n + 1) -> BOOLEAN] : Defined(n, G, 1, f)
    BY Zenon, <1>1, <1>2, Recursion
<1>4. ASSUME NEW i \in 1..(n + 1) PROVE f[i] = Utf8Turn(s, i, f)
  <2> DEFINE g == [j \in (i + 1)..(n + 1) |-> f[j]]
  <2>1. \A j \in (i + 1)..(n + 1) : j \in 1..(n + 1)
      BY <1>1
  <2>2. g \in [(i + 1)..(n + 1) -> BOOLEAN]
      BY Zenon, <1>3, <2>1
  <2>3. f[i] = G[i][g]
      BY Zenon, <1>3 DEF Defined
  <2>4. f[i] = Utf8Turn(s, i, g)
      BY Zenon, <1>2, <2>2, <2>3
  <2>5. Utf8Turn(s, i, g) = Utf8Turn(s, i, f)
      BY Zenon, Utf8TurnLater DEF n
  <2> QED BY Zenon, <2>4, <2>5
<1>5. f = [i \in 1..(n + 1) |-> Utf8Turn(s, i, f)]
    BY Zenon, <1>3, <1>4
<1>6. Utf8Turns(s, Utf8Reader(s))
    BY Zenon, <1>5 DEF Utf8Turns, Utf8Reader, n
<1>7. \A i \in 1..(n + 1) : Utf8Reader(s)[i] = Utf8Turn(s, i, Utf8Reader(s))
    BY Zenon, <1>6 DEF Utf8Turns, n
<1>8. valid_utf8(s) = Utf8Reader(s)[1]
    BY Zenon DEF valid_utf8, Utf8Reader, Utf8Turns, Utf8Turn
<1> QED BY Zenon, <1>7, <1>8 DEF n

LEMMA RowReaderEq ==
    ASSUME NEW s \in Seq(Octet)
    PROVE  /\ WellFormed(s) = RowReader(s)[1]
           /\ \A i \in 1..(Len(s) + 1) : RowReader(s)[i] = RowTurn(s, i, RowReader(s))
<1> DEFINE n == Len(s)
           G == [i \in 1..(n + 1) |-> [g \in [(i + 1)..(n + 1) -> BOOLEAN] |-> RowTurn(s, i, g)]]
<1>1. n \in Nat
    OBVIOUS
<1>2. ASSUME NEW i \in 1..(n + 1), NEW g \in [(i + 1)..(n + 1) -> BOOLEAN]
      PROVE  G[i][g] = RowTurn(s, i, g) /\ G[i][g] \in BOOLEAN
  <2>1. G[i][g] = RowTurn(s, i, g)
      BY Zenon
  <2>2. RowTurn(s, i, g) \in BOOLEAN
      BY Zenon DEF RowTurn
  <2> QED BY Zenon, <2>1, <2>2
<1> HIDE DEF n, G
<1>3. PICK f \in [1..(n + 1) -> BOOLEAN] : Defined(n, G, 1, f)
    BY Zenon, <1>1, <1>2, Recursion
<1>4. ASSUME NEW i \in 1..(n + 1) PROVE f[i] = RowTurn(s, i, f)
  <2> DEFINE g == [j \in (i + 1)..(n + 1) |-> f[j]]
  <2>1. \A j \in (i + 1)..(n + 1) : j \in 1..(n + 1)
      BY <1>1
  <2>2. g \in [(i + 1)..(n + 1) -> BOOLEAN]
      BY Zenon, <1>3, <2>1
  <2>3. f[i] = G[i][g]
      BY Zenon, <1>3 DEF Defined
  <2>4. f[i] = RowTurn(s, i, g)
      BY Zenon, <1>2, <2>2, <2>3
  <2>5. RowTurn(s, i, g) = RowTurn(s, i, f)
      BY Zenon, RowTurnLater DEF n
  <2> QED BY Zenon, <2>4, <2>5
<1>5. f = [i \in 1..(n + 1) |-> RowTurn(s, i, f)]
    BY Zenon, <1>3, <1>4
<1>6. RowTurns(s, RowReader(s))
    BY Zenon, <1>5 DEF RowTurns, RowReader, n
<1>7. \A i \in 1..(n + 1) : RowReader(s)[i] = RowTurn(s, i, RowReader(s))
    BY Zenon, <1>6 DEF RowTurns, n
<1>8. WellFormed(s) = RowReader(s)[1]
    BY Zenon DEF WellFormed, RowReader, RowTurns, RowTurn
<1> QED BY Zenon, <1>7, <1>8 DEF n

(* A character valid_utf8 accepts is a row of the table of that length, and the other way round. *)
LEMMA CharRow ==
    ASSUME NEW s \in Seq(Octet), NEW i \in 1..Len(s)
    PROVE  /\ CharAt(s, i) => \E e \in Encodings : RowAt(s, i, e) /\ i + Len(e) = i + 1 + extra(s[i])
           /\ \A e \in Encodings : RowAt(s, i, e) => CharAt(s, i) /\ i + Len(e) = i + 1 + extra(s[i])
<1> DEFINE n == extra(s[i])
<1>1. /\ Char1(s, i) => n = 0
      /\ Char2(s, i) => n = 1
      /\ Char3(s, i) => n = 2
      /\ Char4(s, i) => n = 3
    BY Zenon, CharWidth
<1> HIDE DEF n
<1>2. i + 1 = i + 1 + 0 /\ i + 2 = i + 1 + 1 /\ i + 3 = i + 1 + 2 /\ i + 4 = i + 1 + 3
    OBVIOUS
<1>3. ASSUME NEW e \in Encodings, RowAt(s, i, e) PROVE CharAt(s, i) /\ i + Len(e) = i + 1 + n
  <2>1. \/ Len(e) = 1 /\ Char1(s, i)
        \/ Len(e) = 2 /\ Char2(s, i)
        \/ Len(e) = 3 /\ Char3(s, i)
        \/ Len(e) = 4 /\ Char4(s, i)
      BY Zenon, <1>3, RowIs
  <2>2. CharAt(s, i)
      BY Zenon, <2>1, CharIs
  <2>3. i + Len(e) = i + 1 + n
      BY Zenon, <1>1, <1>2, <2>1
  <2> QED BY Zenon, <2>2, <2>3
<1>4. ASSUME CharAt(s, i) PROVE \E e \in Encodings : RowAt(s, i, e)
  <2>1. Char1(s, i) \/ Char2(s, i) \/ Char3(s, i) \/ Char4(s, i)
      BY Zenon, <1>4, CharIs
  <2>2. RowOf(s, i, 1) \/ RowOf(s, i, 2) \/ RowOf(s, i, 3) \/ RowOf(s, i, 4)
      BY Zenon, <2>1, RowIs
  <2> QED BY Zenon, <2>2 DEF RowOf
<1> QED BY Zenon, <1>3, <1>4 DEF n

(* valid_utf8 accepts the byte strings that the Unicode standard calls
   well-formed UTF-8, and no other: no overlong form, no surrogate, nothing
   above U+10FFFF, no character cut short. *)
THEOREM Utf8Exact ==
    ASSUME NEW s \in Seq(Octet)
    PROVE  valid_utf8(s) <=> WellFormed(s)
<1> DEFINE n == Len(s)
           V == Utf8Reader(s)
           W == RowReader(s)
           H == {i \in 1..(n + 1) : V[i] <=> W[i]}
<1>1. n \in Nat /\ 1 \in 1..(n + 1)
    OBVIOUS
<1>2. \A i \in 1..(n + 1) : V[i] <=> i > n \/ (CharAt(s, i) /\ V[i + 1 + extra(s[i])])
    BY Zenon, Utf8ReaderEq, Utf8TurnIs
<1>3. \A i \in 1..(n + 1) : W[i] <=> i > n \/ \E e \in Encodings : RowAt(s, i, e) /\ W[i + Len(e)]
    BY Zenon, RowReaderEq, RowTurnIs
<1>4. ASSUME NEW i \in 1..(n + 1), \A j \in (i + 1)..(n + 1) : j \in H PROVE i \in H
  <2> DEFINE j == i + 1 + extra(s[i])
  <2>1. CASE i > n
      BY Zenon, <1>2, <1>3, <2>1
  <2>2. CASE ~(i > n)
    <3>1. i \in 1..n
        BY Zenon, <2>2, CharNext
    <3>2. /\ CharAt(s, i) => \E e \in Encodings : RowAt(s, i, e) /\ i + Len(e) = j
          /\ \A e \in Encodings : RowAt(s, i, e) => CharAt(s, i) /\ i + Len(e) = j
        BY Zenon, <3>1, CharRow
    <3>3. CharAt(s, i) => j \in (i + 1)..(n + 1)
        BY Zenon, <2>2, CharNext
    <3> HIDE DEF j, V, W, n
    <3>4. CharAt(s, i) => (V[j] <=> W[j])
        BY Zenon, <1>4, <3>3
    <3>5. V[i] <=> CharAt(s, i) /\ V[j]
        BY Zenon, <1>2, <2>2 DEF j
    <3>6. W[i] <=> \E e \in Encodings : RowAt(s, i, e) /\ W[i + Len(e)]
        BY Zenon, <1>3, <2>2
    <3>7. (\E e \in Encodings : RowAt(s, i, e) /\ W[i + Len(e)]) <=> CharAt(s, i) /\ W[j]
        BY Zenon, <3>2
    <3> QED BY Zenon, <3>4, <3>5, <3>6, <3>7
  <2> QED BY Zenon, <2>1, <2>2
<1> HIDE DEF n
<1>5. \A i \in 1..(n + 1) : i \in H
    BY Zenon, <1>1, <1>4, Downward
<1>6. V[1] <=> W[1]
    BY Zenon, <1>1, <1>5
<1>7. valid_utf8(s) = V[1] /\ WellFormed(s) = W[1]
    BY Zenon, Utf8ReaderEq, RowReaderEq
<1> QED BY Zenon, <1>6, <1>7

-----------------------------------------------------------------------------
(* Wherever the piece p stands, valid_utf8 goes on behind it. *)
Passes(p) ==
    /\ p \in Seq(Octet)
    /\ \A text \in Seq(Octet) : \A i \in Nat :
            At(text, i, p) => (Utf8Reader(text)[i] <=> Utf8Reader(text)[i + Len(p)])

(* What passes piece by piece passes as a whole. *)
LEMMA PassesEmpty == Passes(<<>>)
<1>1. <<>> \in Seq(Octet) /\ \A i \in Nat : i + Len(<<>>) = i
    OBVIOUS
<1> QED BY Zenon, <1>1 DEF Passes

LEMMA PassesJoin ==
    ASSUME NEW p, NEW q, Passes(p), Passes(q)
    PROVE  Passes(p \o q)
<1>1. p \in Seq(Octet) /\ q \in Seq(Octet)
    BY Zenon DEF Passes
<1>2. p \o q \in Seq(Octet)
    BY <1>1
<1>3. ASSUME NEW text \in Seq(Octet), NEW i \in Nat, At(text, i, p \o q)
      PROVE  Utf8Reader(text)[i] <=> Utf8Reader(text)[i + Len(p \o q)]
  <2> DEFINE j == i + Len(p)
  <2>1. At(text, i, p) /\ At(text, j, q)
      BY Zenon, <1>1, <1>3, AtSplit
  <2>2. j \in Nat /\ i + Len(p \o q) = j + Len(q)
      BY <1>1
  <2>3. Utf8Reader(text)[i] <=> Utf8Reader(text)[j]
      BY Zenon, <2>1 DEF Passes
  <2>4. Utf8Reader(text)[j] <=> Utf8Reader(text)[j + Len(q)]
      BY Zenon, <2>1, <2>2 DEF Passes
  <2> QED BY Zenon, <2>2, <2>3, <2>4
<1> QED BY Zenon, <1>2, <1>3 DEF Passes

LEMMA PassesPieces ==
    ASSUME NEW ps \in Seq(Seq(Octet)), \A i \in 1..Len(ps) : Passes(ps[i])
    PROVE  Passes(Concat(ps))
<1> DEFINE n == Len(ps)
           H == {i \in 1..(n + 1) : Passes(Joined(ps)[i])}
<1>1. n \in Nat /\ 1 \in 1..(n + 1)
    OBVIOUS
<1>2. \A i \in 1..(n + 1) : Joined(ps)[i] = IF i > n THEN <<>> ELSE ps[i] \o Joined(ps)[i + 1]
    BY Zenon, JoinedEq
<1>3. ASSUME NEW i \in 1..(n + 1), \A j \in (i + 1)..(n + 1) : j \in H PROVE i \in H
  <2>1. CASE i > n
      BY Zenon, <1>2, <2>1, PassesEmpty
  <2>2. CASE ~(i > n)
    <3>1. i \in 1..n /\ i + 1 \in (i + 1)..(n + 1)
        BY <2>2
    <3>2. Passes(ps[i]) /\ Passes(Joined(ps)[i + 1])
        BY Zenon, <1>3, <3>1
    <3>3. Passes(ps[i] \o Joined(ps)[i + 1])
        BY Zenon, <3>2, PassesJoin
    <3> QED BY Zenon, <1>2, <2>2, <3>3
  <2> QED BY Zenon, <2>1, <2>2
<1>4. \A i \in 1..(n + 1) : i \in H
    BY Zenon, <1>1, <1>3, Downward
<1>5. Passes(Joined(ps)[1])
    BY Zenon, <1>1, <1>4
<1> QED BY Zenon, <1>5, JoinedEq

(* A piece that is one character wherever it stands. *)
LEMMA PassesCharacter ==
    ASSUME NEW p \in Seq(Octet), Len(p) >= 1,
           \A text \in Seq(Octet) : \A i \in 1..Len(text) :
                At(text, i, p) => CharAt(text, i) /\ i + 1 + extra(text[i]) = i + Len(p)
    PROVE  Passes(p)
<1> SUFFICES ASSUME NEW text \in Seq(Octet), NEW i \in Nat, At(text, i, p)
             PROVE  Utf8Reader(text)[i] <=> Utf8Reader(text)[i + Len(p)]
    BY Zenon DEF Passes
<1>1. i \in 1..Len(text) /\ i \in 1..(Len(text) + 1) /\ ~(i > Len(text))
  <2>1. i + Len(p) <= Len(text) + 1 /\ 1 <= i /\ Len(p) \in Nat /\ Len(text) \in Nat
      BY DEF At
  <2> QED BY <2>1
<1>2. CharAt(text, i) /\ i + 1 + extra(text[i]) = i + Len(p)
    BY Zenon, <1>1
<1>3. Utf8Reader(text)[i] <=> CharAt(text, i) /\ Utf8Reader(text)[i + 1 + extra(text[i])]
    BY Zenon, <1>1, Utf8ReaderEq, Utf8TurnIs
<1> QED BY Zenon, <1>2, <1>3

(* encode_utf8 writes a row of the table for every code point but the surrogates. *)
LEMMA EncodedRows ==
    ASSUME NEW cp \in Scalar
    PROVE  \/ cp <= 127 /\ encode_utf8(cp) = <<cp>>
           \/ \E a, b \in Octet : encode_utf8(cp) = <<a, b>> /\ Row2(a, b)
           \/ \E a, b, c \in Octet : encode_utf8(cp) = <<a, b, c>> /\ Row3(a, b, c)
           \/ \E a, b, c, d \in Octet : encode_utf8(cp) = <<a, b, c, d>> /\ Row4(a, b, c, d)
<1>1. cp \in Nat /\ cp <= 1114111 /\ ~(55296 <= cp /\ cp <= 57343)
    BY SMT, Surrogates DEF Scalar, CodePoint
<1>2. CASE cp <= 127
    BY SMT, <1>2 DEF encode_utf8
<1>3. CASE ~(cp <= 127) /\ cp <= 2047
  <2> DEFINE a == 192 + cp \div 64
             b == 128 + (cp % 64)
  <2>1. encode_utf8(cp) = <<a, b>>
      BY SMT, <1>3 DEF encode_utf8
  <2>2. a \in Octet /\ b \in Octet /\ Row2(a, b)
      BY SMT, <1>1, <1>3, OctetSeqs DEF Row2
  <2> HIDE DEF a, b
  <2> QED BY Zenon, <2>1, <2>2
<1>4. CASE ~(cp <= 2047) /\ cp <= 65535
  <2> DEFINE x == cp \div 4096
             y == (cp \div 64) % 64
             z == cp % 64
             a == 224 + x
             b == 128 + y
             c == 128 + z
  <2>1. encode_utf8(cp) = <<a, b, c>>
      BY SMT, <1>1, <1>4 DEF encode_utf8
  <2>2. /\ x \in Nat /\ y \in Nat /\ z \in Nat /\ x <= 15 /\ y <= 63 /\ z <= 63
        /\ cp = 4096 * x + 64 * y + z
      BY SMT, <1>1, <1>4
  <2> HIDE DEF x, y, z
  <2>3. a \in Octet /\ b \in Octet /\ c \in Octet
      BY SMT, <2>2, OctetSeqs
  <2>4. Row3(a, b, c)
      BY SMT, <1>1, <1>4, <2>2 DEF Row3
  <2> HIDE DEF a, b, c
  <2> QED BY Zenon, <2>1, <2>3, <2>4
<1>5. CASE ~(cp <= 65535)
  <2> DEFINE x == cp \div 262144
             y == (cp \div 4096) % 64
             z == (cp \div 64) % 64
             w == cp % 64
             a == 240 + x
             b == 128 + y
             c == 128 + z
             d == 128 + w
  <2>1. encode_utf8(cp) = <<a, b, c, d>>
      BY SMT, <1>1, <1>5 DEF encode_utf8
  <2>2. /\ x \in Nat /\ y \in Nat /\ z \in Nat /\ w \in Nat /\ x <= 4 /\ y <= 63 /\ z <= 63 /\ w <= 63
        /\ cp = 262144 * x + 4096 * y + 64 * z + w
      BY SMT, <1>1, <1>5
  <2> HIDE DEF x, y, z, w
  <2>3. a \in Octet /\ b \in Octet /\ c \in Octet /\ d \in Octet
      BY SMT, <2>2, OctetSeqs
  <2>4. Row4(a, b, c, d)
      BY SMT, <1>1, <1>5, <2>2 DEF Row4
  <2> HIDE DEF a, b, c, d
  <2> QED BY Zenon, <2>1, <2>3, <2>4
<1> QED BY SMT, <1>1, <1>2, <1>3, <1>4, <1>5

(* The bytes of a tuple that stands at i. *)
LEMMA AtTuple ==
    ASSUME NEW text \in Seq(Octet), NEW i \in Nat,
           NEW a \in Octet, NEW b \in Octet, NEW c \in Octet, NEW d \in Octet
    PROVE  /\ At(text, i, <<a>>) => text[i] = a
           /\ At(text, i, <<a, b>>) => i + 1 <= Len(text) /\ text[i] = a /\ text[i + 1] = b
           /\ At(text, i, <<a, b, c>>) =>
                i + 2 <= Len(text) /\ text[i] = a /\ text[i + 1] = b /\ text[i + 2] = c
           /\ At(text, i, <<a, b, c, d>>) =>
                i + 3 <= Len(text) /\ text[i] = a /\ text[i + 1] = b /\ text[i + 2] = c /\ text[i + 3] = d
<1>1. /\ i + 1 - 1 = i /\ i + 2 - 1 = i + 1 /\ i + 3 - 1 = i + 2 /\ i + 4 - 1 = i + 3 /\ Len(text) \in Nat
      /\ i + 2 <= Len(text) + 1 => i + 1 <= Len(text)
      /\ i + 3 <= Len(text) + 1 => i + 2 <= Len(text)
      /\ i + 4 <= Len(text) + 1 => i + 3 <= Len(text)
    BY SMT
<1>2. ASSUME At(text, i, <<a>>) PROVE text[i] = a
  <2>1. Len(<<a>>) = 1 /\ <<a>>[1] = a /\ 1 \in 1..1
      BY SMT
  <2> QED BY Zenon, <1>1, <1>2, <2>1 DEF At
<1>3. ASSUME At(text, i, <<a, b>>) PROVE i + 1 <= Len(text) /\ text[i] = a /\ text[i + 1] = b
  <2>1. Len(<<a, b>>) = 2 /\ <<a, b>>[1] = a /\ <<a, b>>[2] = b /\ 1 \in 1..2 /\ 2 \in 1..2
      BY SMT
  <2> QED BY Zenon, <1>1, <1>3, <2>1 DEF At
<1>4. ASSUME At(text, i, <<a, b, c>>)
      PROVE  i + 2 <= Len(text) /\ text[i] = a /\ text[i + 1] = b /\ text[i + 2] = c
  <2>1. /\ Len(<<a, b, c>>) = 3 /\ <<a, b, c>>[1] = a /\ <<a, b, c>>[2] = b /\ <<a, b, c>>[3] = c
        /\ 1 \in 1..3 /\ 2 \in 1..3 /\ 3 \in 1..3
      BY SMT
  <2> QED BY Zenon, <1>1, <1>4, <2>1 DEF At
<1>5. ASSUME At(text, i, <<a, b, c, d>>)
      PROVE  i + 3 <= Len(text) /\ text[i] = a /\ text[i + 1] = b /\ text[i + 2] = c /\ text[i + 3] = d
  <2>1. /\ Len(<<a, b, c, d>>) = 4 /\ <<a, b, c, d>>[1] = a /\ <<a, b, c, d>>[2] = b
        /\ <<a, b, c, d>>[3] = c /\ <<a, b, c, d>>[4] = d
        /\ 1 \in 1..4 /\ 2 \in 1..4 /\ 3 \in 1..4 /\ 4 \in 1..4
      BY SMT
  <2> QED BY Zenon, <1>1, <1>5, <2>1 DEF At
<1> QED BY Zenon, <1>2, <1>3, <1>4, <1>5

(* The bytes that encode_utf8 writes are one character to valid_utf8. *)
LEMMA PassesEncode ==
    ASSUME NEW cp \in Scalar
    PROVE  Passes(encode_utf8(cp))
<1> DEFINE e == encode_utf8(cp)
<1>1. e \in Seq(Octet)
    BY Zenon, EncodeType DEF Scalar
<1>2. ASSUME NEW text \in Seq(Octet), NEW i \in 1..Len(text), At(text, i, e)
      PROVE  CharAt(text, i) /\ i + 1 + extra(text[i]) = i + Len(e)
  <2>1. i \in Nat
      OBVIOUS
  <2>2. CASE cp <= 127 /\ e = <<cp>>
    <3>1. Len(e) = 1 /\ cp \in Octet
        BY SMT, <2>2, OctetSeqs DEF Scalar, CodePoint
    <3>2. text[i] = cp
      <4>1. At(text, i, <<cp>>)
          BY Zenon, <1>2, <2>2
      <4> QED BY Zenon, <2>1, <3>1, <4>1, AtTuple
    <3>3. Char1(text, i)
        BY Zenon, <2>2, <3>2 DEF Char1
    <3>4. CharAt(text, i) /\ extra(text[i]) = 0
        BY Zenon, <3>3, CharIs, CharWidth
    <3> QED BY SMT, <2>1, <3>1, <3>4
  <2>3. ASSUME NEW a \in Octet, NEW b \in Octet, e = <<a, b>>, Row2(a, b)
        PROVE  CharAt(text, i) /\ i + 1 + extra(text[i]) = i + Len(e)
    <3>1. Len(e) = 2
        BY SMT, <2>3
    <3>2. Char2(text, i)
      <4>1. At(text, i, <<a, b>>)
          BY Zenon, <1>2, <2>3
      <4>2. i + 1 <= Len(text) /\ text[i] = a /\ text[i + 1] = b
          BY Zenon, <2>1, <4>1, AtTuple
      <4> QED BY Zenon, <2>3, <4>2 DEF Char2
    <3>3. CharAt(text, i) /\ extra(text[i]) = 1
        BY Zenon, <3>2, CharIs, CharWidth
    <3> QED BY SMT, <2>1, <3>1, <3>3
  <2>4. ASSUME NEW a \in Octet, NEW b \in Octet, NEW c \in Octet, e = <<a, b, c>>, Row3(a, b, c)
        PROVE  CharAt(text, i) /\ i + 1 + extra(text[i]) = i + Len(e)
    <3>1. Len(e) = 3
        BY SMT, <2>4
    <3>2. Char3(text, i)
      <4>1. At(text, i, <<a, b, c>>)
          BY Zenon, <1>2, <2>4
      <4>2. i + 2 <= Len(text) /\ text[i] = a /\ text[i + 1] = b /\ text[i + 2] = c
          BY Zenon, <2>1, <4>1, AtTuple
      <4> QED BY Zenon, <2>4, <4>2 DEF Char3
    <3>3. CharAt(text, i) /\ extra(text[i]) = 2
        BY Zenon, <3>2, CharIs, CharWidth
    <3> QED BY SMT, <2>1, <3>1, <3>3
  <2>5. ASSUME NEW a \in Octet, NEW b \in Octet, NEW c \in Octet, NEW d \in Octet,
               e = <<a, b, c, d>>, Row4(a, b, c, d)
        PROVE  CharAt(text, i) /\ i + 1 + extra(text[i]) = i + Len(e)
    <3>1. Len(e) = 4
        BY SMT, <2>5
    <3>2. Char4(text, i)
      <4>1. At(text, i, <<a, b, c, d>>)
          BY Zenon, <1>2, <2>5
      <4>2. i + 3 <= Len(text) /\ text[i] = a /\ text[i + 1] = b /\ text[i + 2] = c /\ text[i + 3] = d
          BY Zenon, <2>1, <4>1, AtTuple
      <4> QED BY Zenon, <2>5, <4>2 DEF Char4
    <3>3. CharAt(text, i) /\ extra(text[i]) = 3
        BY Zenon, <3>2, CharIs, CharWidth
    <3> QED BY SMT, <2>1, <3>1, <3>3
  <2> QED BY Zenon, <2>2, <2>3, <2>4, <2>5, EncodedRows
<1>3. Len(e) >= 1
  <2>1. \A a, b, c, d : Len(<<a>>) >= 1 /\ Len(<<a, b>>) >= 1 /\ Len(<<a, b, c>>) >= 1 /\ Len(<<a, b, c, d>>) >= 1
      BY SMT
  <2> QED BY Zenon, <2>1, EncodedRows
<1> HIDE DEF e
<1>4. Passes(e)
    BY Zenon, <1>1, <1>2, <1>3, PassesCharacter
<1> QED BY Zenon, <1>4 DEF e

(* What encode_utf8 writes for a text, the gate's valid_utf8 lets pass: a
   string that the parser makes of escapes is never refused on the way out. *)
THEOREM Utf8Accepted ==
    ASSUME NEW s \in Seq(Scalar)
    PROVE  Utf8(s) \in Seq(Octet) /\ valid_utf8(Utf8(s))
<1> DEFINE n == Len(s)
           vs == [i \in 1..n |-> encode_utf8(s[i])]
<1>1. \A i \in 1..n : s[i] \in Scalar
    OBVIOUS
<1>2. \A i \in 1..n : Passes(encode_utf8(s[i]))
    BY Zenon, <1>1, PassesEncode
<1>3. \A i \in 1..n : encode_utf8(s[i]) \in Seq(Octet)
    BY Zenon, <1>2 DEF Passes
<1>4. vs \in Seq(Seq(Octet)) /\ Len(vs) = n /\ \A i \in 1..n : vs[i] = encode_utf8(s[i])
    BY <1>3
<1>5. Utf8(s) = Concat(vs)
    BY Zenon DEF Utf8
<1> HIDE DEF vs, n
<1>6. \A i \in 1..Len(vs) : Passes(vs[i])
    BY Zenon, <1>2, <1>4
<1> DEFINE t == Concat(vs)
<1>7. Passes(t)
    BY Zenon, <1>4, <1>6, PassesPieces
<1> HIDE DEF t
<1>8. t \in Seq(Octet)
    BY Zenon, <1>7 DEF Passes
<1>9. At(t, 1, t) /\ 1 \in Nat
  <2>1. 1 + Len(t) <= Len(t) + 1 /\ (\A k \in 1..Len(t) : 1 + k - 1 = k) /\ 1 \in Nat /\ 1 <= 1
      BY <1>8
  <2> QED BY Zenon, <2>1 DEF At
<1>10. Utf8Reader(t)[1] <=> Utf8Reader(t)[1 + Len(t)]
    BY Zenon, <1>7, <1>8, <1>9 DEF Passes
<1>11. 1 + Len(t) \in 1..(Len(t) + 1) /\ 1 + Len(t) > Len(t)
    BY <1>8
<1>12. Utf8Reader(t)[1 + Len(t)]
    BY Zenon, <1>8, <1>11, Utf8ReaderEq, Utf8TurnIs
<1>13. valid_utf8(t)
    BY Zenon, <1>8, <1>10, <1>12, Utf8ReaderEq
<1> QED BY Zenon, <1>5, <1>8, <1>13 DEF t
=============================================================================
