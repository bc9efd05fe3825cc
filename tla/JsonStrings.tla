---------------------------- MODULE JsonStrings -----------------------------
(***************************************************************************)
(* The strings of a JSON document (src/detail/json.cpp): json_quote writes   *)
(* them, parse_string reads them, valid_utf8 says whether one is text.  A    *)
(* text is a sequence of bytes, i a position in it.  What an error says is   *)
(* left out.  At the end, for comparison: how another writer may spell a     *)
(* string, and the Unicode standard's table of well-formed encodings.        *)
(***************************************************************************)
EXTENDS Integers, Sequences

Octet == 0..255
Quote == 34
Backslash == 92
U == 117
Zero == 48
Digit == 48..57
Hex == <<48, 49, 50, 51, 52, 53, 54, 55, 56, 57, 97, 98, 99, 100, 101, 102>>

High == 55296..56319           \* D800..DBFF
Low == 56320..57343            \* DC00..DFFF

Read(val, rest) == [ok |-> TRUE, val |-> val, rest |-> rest]
Bad == [ok |-> FALSE]
After(text, n) == SubSeq(text, n + 1, Len(text))

(* What was read up to a position, and what stands before it. *)
Scanned(val, next) == [ok |-> TRUE, val |-> val, next |-> next]
Before(val, scan) == IF scan.ok THEN Scanned(val \o scan.val, scan.next) ELSE Bad

Concat(pieces) ==
    LET from[i \in 1..(Len(pieces) + 1)] == IF i > Len(pieces) THEN <<>> ELSE pieces[i] \o from[i + 1]
    IN  from[1]
InQuotes(pieces) == <<Quote>> \o (Concat(pieces) \o <<Quote>>)

-----------------------------------------------------------------------------
encode_utf8(cp) ==
    LET six(n) == 128 + (n % 64)
    IN  IF cp <= 127 THEN <<cp>>
        ELSE IF cp <= 2047 THEN <<192 + cp \div 64, six(cp)>>
        ELSE IF cp <= 65535 THEN <<224 + cp \div 4096, six(cp \div 64), six(cp)>>
        ELSE <<240 + cp \div 262144, six(cp \div 4096), six(cp \div 64), six(cp)>>

hex_digit(c) ==
    IF c \in Digit THEN c - 48
    ELSE IF c \in 97..102 THEN c - 87 ELSE IF c \in 65..70 THEN c - 55 ELSE -1

parse_hex4(text, i) ==
    LET d(k) == hex_digit(text[i + k])
    IN  IF i + 3 > Len(text) \/ \E k \in 0..3 : d(k) = -1 THEN Bad
        ELSE Scanned(((d(0) * 16 + d(1)) * 16 + d(2)) * 16 + d(3), i + 4)

surrogates(hi, lo) == 65536 + (hi - 55296) * 1024 + (lo - 56320)

(* After \u: four digits, and a second escape after a high surrogate. *)
unicode_escape(text, i) ==
    LET hi == parse_hex4(text, i)
        lo == parse_hex4(text, i + 6)
        unpaired == i + 5 > Len(text) \/ text[i + 4] # Backslash \/ text[i + 5] # U
    IN  IF ~hi.ok \/ hi.val \in Low THEN Bad
        ELSE IF hi.val \notin High THEN Scanned(encode_utf8(hi.val), i + 4)
        ELSE IF unpaired \/ ~lo.ok \/ lo.val \notin Low THEN Bad
        ELSE Scanned(encode_utf8(surrogates(hi.val, lo.val)), i + 10)

Named == {Quote, Backslash, 47, 98, 102, 110, 114, 116}     \* " \ / b f n r t
unescaped(e) ==
    CASE e = 98 -> 8 [] e = 102 -> 12 [] e = 110 -> 10 [] e = 114 -> 13 [] e = 116 -> 9 [] OTHER -> e

(* After the backslash. *)
escape(text, i) ==
    IF i > Len(text) THEN Bad
    ELSE IF text[i] \in Named THEN Scanned(<<unescaped(text[i])>>, i + 1)
    ELSE IF text[i] = U THEN unicode_escape(text, i + 1) ELSE Bad

character(text, i) ==
    IF text[i] = Backslash THEN escape(text, i + 1)
    ELSE IF text[i] < 32 THEN Bad ELSE Scanned(<<text[i]>>, i + 1)

(* The turns of the loop from i on; the text starts with the opening quote. *)
parse_string(text) ==
    LET from[i \in 1..(Len(text) + 1)] ==
            LET c == character(text, i)
            IN  IF i > Len(text) THEN Bad
                ELSE IF text[i] = Quote THEN Scanned(<<>>, i + 1)
                ELSE IF c.ok THEN Before(c.val, from[c.next]) ELSE Bad
    IN  IF from[2].ok THEN Read(from[2].val, After(text, from[2].next - 1)) ELSE Bad

(* Control characters are escaped, by name where they have one. *)
quoted(c) ==
    CASE c \in {Quote, Backslash} -> <<Backslash, c>>
      [] c = 8 -> <<Backslash, 98>>
      [] c = 12 -> <<Backslash, 102>>
      [] c = 10 -> <<Backslash, 110>>
      [] c = 13 -> <<Backslash, 114>>
      [] c = 9 -> <<Backslash, 116>>
      [] c \in (0..31) \ {8, 9, 10, 12, 13} ->
            <<Backslash, U, Zero, Zero, Hex[c \div 16 + 1], Hex[(c % 16) + 1]>>
      [] OTHER -> <<c>>
json_quote(s) == InQuotes([i \in 1..Len(s) |-> quoted(s[i])])

(* Mutant: the encodings of surrogates pass. *)
scalar_any(cp, lo, hi) == cp \in lo..hi
scalar(cp, lo, hi) == cp \in lo..hi /\ cp \notin High \cup Low

(* How many bytes follow the first one of a character, -1 if none can. *)
extra(c) ==
    IF c < 128 THEN 0
    ELSE IF c \div 32 = 6 THEN 1 ELSE IF c \div 16 = 14 THEN 2 ELSE IF c \div 8 = 30 THEN 3 ELSE -1

(* The code point they spell is one, and one that needs that many. *)
in_range(s, i) ==
    LET n == extra(s[i])
        six(k) == s[i + k] % 64
    IN  CASE n = 0 -> TRUE
          [] n = 1 -> scalar((s[i] % 32) * 64 + six(1), 128, 2047)
          [] n = 2 -> scalar(((s[i] % 16) * 64 + six(1)) * 64 + six(2), 2048, 65535)
          [] n = 3 -> scalar((((s[i] % 8) * 64 + six(1)) * 64 + six(2)) * 64 + six(3), 65536, 1114111)

valid_utf8(s) ==
    LET from[i \in 1..(Len(s) + 1)] ==
            LET n == extra(s[i])
            IN  \/ i > Len(s)
                \/ /\ n # -1 /\ i + n <= Len(s)
                   /\ \A k \in 1..n : s[i + k] \div 64 = 2
                   /\ in_range(s, i)
                   /\ from[i + 1 + n]
    IN  from[1]

-----------------------------------------------------------------------------
(* How another writer may spell a character, for all this parser knows. *)
EscapedUnit(n) ==
    LET digit(k) == Hex[(k % 16) + 1]
    IN  <<Backslash, U, digit(n \div 4096), digit(n \div 256), digit(n \div 16), digit(n)>>
HighHalf(cp) == 55296 + (cp - 65536) \div 1024
LowHalf(cp) == 56320 + ((cp - 65536) % 1024)
Escaped(cp) ==
    IF cp <= 65535 THEN EscapedUnit(cp) ELSE EscapedUnit(HighHalf(cp)) \o EscapedUnit(LowHalf(cp))
MustEscape == (0..31) \cup {Quote, Backslash}

Utf8(s) == Concat([i \in 1..Len(s) |-> encode_utf8(s[i])])
Spelling(s, escaped) == InQuotes([i \in 1..Len(s) |-> IF i \in escaped THEN Escaped(s[i]) ELSE encode_utf8(s[i])])

(* The well-formed encodings of one character, after table 3-7 of the Unicode
   standard: a range for each byte. *)
Follow == 128..191
Encodings ==
    {<<0..127>>, <<194..223, Follow>>, <<{224}, 160..191, Follow>>, <<225..236, Follow, Follow>>,
     <<{237}, 128..159, Follow>>, <<238..239, Follow, Follow>>,
     <<{240}, 144..191, Follow, Follow>>, <<241..243, Follow, Follow, Follow>>,
     <<{244}, 128..143, Follow, Follow>>}
WellFormed(s) ==
    LET from[i \in 1..(Len(s) + 1)] ==
            \/ i > Len(s)
            \/ \E e \in Encodings : /\ i + Len(e) <= Len(s) + 1
                                    /\ \A k \in 1..Len(e) : s[i + k - 1] \in e[k]
                                    /\ from[i + Len(e)]
    IN  from[1]
=============================================================================
