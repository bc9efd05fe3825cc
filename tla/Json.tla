-------------------------------- MODULE Json --------------------------------
(***************************************************************************)
(* The text of a JSON document (src/detail/json.cpp): the parser.  A text   *)
(* is a sequence of bytes; JsonStrings reads its strings, and a reader      *)
(* returns what it read and the text that is left.  What an error says is   *)
(* left out.  Trees(text), at the end, is the reference: the grammar of     *)
(* RFC 8259 with unique keys, and no parser.                                *)
(***************************************************************************)
EXTENDS JsonStrings, SequencesExt

CONSTANT MaxDepth   \* parse_json's max_depth

LBrace == 123
RBrace == 125
LBracket == 91
RBracket == 93
Comma == 44
Colon == 58
Minus == 45
Plus == 43
Point == 46
Exponent == {69, 101}          \* E, e
Blank == {32, 9, 10, 13}
True == <<116, 114, 117, 101>>
False == <<102, 97, 108, 115, 101>>
Nil == <<110, 117, 108, 108>>
Then(read, F(_)) == IF read.ok THEN F(read) ELSE Bad
peek(text) == IF text = <<>> THEN 0 ELSE Head(text)
Run(text, class) ==            \* how many characters of a class it starts with
    LET other == SelectInSeq(text, LAMBDA c : c \notin class)
    IN  IF other = 0 THEN Len(text) ELSE other - 1
skip_ws(text) == After(text, Run(text, Blank))

Str(s) == [type |-> "String", text |-> s]
Num(s) == [type |-> "Number", text |-> s]
Boolean(b) == [type |-> "Bool", boolean |-> b]
NullNode == [type |-> "Null"]
Arr(items) == [type |-> "Array", items |-> items]
Obj(members) == [type |-> "Object", members |-> members]

-----------------------------------------------------------------------------
(* Numbers keep their text. *)

digits(text, F(_)) == IF peek(text) \in Digit THEN F(After(text, Run(text, Digit))) ELSE Bad

parse_number(text) ==
    LET token(rest) == Read(Num(SubSeq(text, 1, Len(text) - Len(rest))), rest)
        exponent(t) ==
            IF peek(t) \notin Exponent THEN token(t)
            ELSE digits(IF peek(Tail(t)) \in {Plus, Minus} THEN After(t, 2) ELSE Tail(t), token)
        fraction(t) == IF peek(t) = Point THEN digits(Tail(t), exponent) ELSE exponent(t)
        integer(t) == IF peek(t) = Zero THEN fraction(Tail(t)) ELSE digits(t, fraction)
    IN  integer(IF peek(text) = Minus THEN Tail(text) ELSE text)

match_literal(text, lit, node) ==
    IF IsPrefix(lit, text) THEN Read(node, After(text, Len(lit))) ELSE Bad
parse_bool(text) ==
    IF peek(text) = 116 THEN match_literal(text, True, Boolean(TRUE))
    ELSE match_literal(text, False, Boolean(FALSE))
parse_null(text) == match_literal(text, Nil, NullNode)

-----------------------------------------------------------------------------
(* Values. *)

enter(depth) == depth + 1 <= MaxDepth

(* Mutant: a repeated key is taken, and find will see the first of them. *)
duplicate_never(key, members) == FALSE
duplicate(key, members) == \E i \in 1..Len(members) : members[i].name = key

RECURSIVE parse_value(_, _)
RECURSIVE members_from(_, _, _)
RECURSIVE items_from(_, _, _)
members_from(members, text, depth) ==
    LET after_value(all, t) ==
            IF peek(t) = Comma THEN members_from(all, skip_ws(Tail(t)), depth)
            ELSE IF peek(t) = RBrace THEN Read(Obj(all), Tail(t)) ELSE Bad
        after_key(key, t) ==
            IF duplicate(key, members) \/ peek(t) # Colon THEN Bad
            ELSE Then(parse_value(Tail(t), depth), LAMBDA val :
                     after_value(Append(members, [name |-> key, node |-> val.val]), skip_ws(val.rest)))
    IN  IF peek(text) # Quote THEN Bad
        ELSE Then(parse_string(text), LAMBDA key : after_key(key.val, skip_ws(key.rest)))

parse_object(text, depth) ==
    LET inner(t) == IF peek(t) = RBrace THEN Read(Obj(<<>>), Tail(t)) ELSE members_from(<<>>, t, depth + 1)
    IN  IF enter(depth) THEN inner(skip_ws(Tail(text))) ELSE Bad

items_from(items, text, depth) ==
    LET after_value(all, t) ==
            IF peek(t) = Comma THEN items_from(all, Tail(t), depth)
            ELSE IF peek(t) = RBracket THEN Read(Arr(all), Tail(t)) ELSE Bad
    IN  Then(parse_value(text, depth), LAMBDA val : after_value(Append(items, val.val), skip_ws(val.rest)))

parse_array(text, depth) ==
    LET inner(t) == IF peek(t) = RBracket THEN Read(Arr(<<>>), Tail(t)) ELSE items_from(<<>>, t, depth + 1)
    IN  IF enter(depth) THEN inner(skip_ws(Tail(text))) ELSE Bad

parse_value(text, depth) ==
    LET value(t) ==
            IF t = <<>> THEN Bad
            ELSE CASE Head(t) = LBrace -> parse_object(t, depth)
                   [] Head(t) = LBracket -> parse_array(t, depth)
                   [] Head(t) = Quote -> Then(parse_string(t), LAMBDA s : Read(Str(s.val), s.rest))
                   [] Head(t) \in {True[1], False[1]} -> parse_bool(t)
                   [] Head(t) = Nil[1] -> parse_null(t)
                   [] Head(t) \in Digit \cup {Minus} -> parse_number(t)
                   [] OTHER -> Bad
    IN  value(skip_ws(text))

parse_json(text) ==
    Then(parse_value(text, 0), LAMBDA v : IF skip_ws(v.rest) = <<>> THEN v ELSE Bad)

-----------------------------------------------------------------------------
(* The reference: the trees a text spells (one, or none). *)

Trim(text) == Reverse(skip_ws(Reverse(skip_ws(text))))
Inner(text) == SubSeq(text, 2, Len(text) - 1)
Between(text, open, close) == Len(text) >= 2 /\ Head(text) = open /\ Last(text) = close
Upto(text, i) == SubSeq(text, 1, i - 1)
Positions(text, c) == {i \in 1..Len(text) : text[i] = c}

Digits(t) == t # <<>> /\ Run(t, Digit) = Len(t)
IsNumber(t) ==
    \E s \in 0..1, i \in 1..Len(t) : \E f \in i..Len(t) :
        /\ i > s /\ (s = 1 => t[1] = Minus)
        /\ Digits(SubSeq(t, s + 1, i)) /\ (t[s + 1] = Zero => i = s + 1)
        /\ f > i => t[i + 1] = Point /\ Digits(SubSeq(t, i + 2, f))
        /\ f < Len(t) => /\ t[f + 1] \in Exponent
                         /\ \/ Digits(After(t, f + 1))
                            \/ Len(t) > f + 1 /\ t[f + 2] \in {Plus, Minus} /\ Digits(After(t, f + 2))

HexValue(t) == ((hex_digit(t[1]) * 16 + hex_digit(t[2])) * 16 + hex_digit(t[3])) * 16 + hex_digit(t[4])
IsEscape(t) ==
    Len(t) = 6 /\ IsPrefix(<<Backslash, U>>, t) /\ \A i \in 3..6 : hex_digit(t[i]) # -1

(* The bytes one character of a string stands for, if it is a character. *)
Stands(t) ==
    CASE Len(t) = 1 -> IF t[1] < 32 \/ t[1] \in {Quote, Backslash} THEN {} ELSE {t}
      [] Len(t) = 2 -> {<<unescaped(e)>> : e \in {n \in Named : t = <<Backslash, n>>}}
      [] Len(t) = 6 ->
            IF ~IsEscape(t) THEN {}
            ELSE IF HexValue(After(t, 2)) \in High \cup Low THEN {} ELSE {encode_utf8(HexValue(After(t, 2)))}
      [] Len(t) = 12 ->
            IF ~IsEscape(Upto(t, 7)) \/ ~IsEscape(After(t, 6)) THEN {}
            ELSE LET hi == HexValue(After(t, 2))
                     lo == HexValue(After(t, 8))
                 IN  IF hi \in High /\ lo \in Low
                     THEN {encode_utf8(65536 + (hi % 1024) * 1024 + (lo % 1024))} ELSE {}

RECURSIVE Spelled(_)
Spelled(t) ==
    IF t = <<>> THEN {<<>>}
    ELSE UNION {{c \o s : c \in Stands(Upto(t, n + 1)), s \in Spelled(After(t, n))} :
                    n \in {k \in {1, 2, 6, 12} : k <= Len(t) /\ Stands(Upto(t, k + 1)) # {}}}
Strings(t) == IF Between(t, Quote, Quote) THEN Spelled(Inner(t)) ELSE {}

RECURSIVE Trees(_)
RECURSIVE ItemLists(_)
RECURSIVE MemberLists(_)
ItemLists(t) ==
    {<<v>> : v \in Trees(Trim(t))}
    \cup UNION {{<<v>> \o r : v \in Trees(Trim(Upto(t, i))), r \in ItemLists(After(t, i))} : i \in Positions(t, Comma)}
Members(t) ==
    UNION {{[name |-> k, node |-> v] : k \in Strings(Trim(Upto(t, i))), v \in Trees(Trim(After(t, i)))} :
               i \in Positions(t, Colon)}
MemberLists(t) ==
    {<<m>> : m \in Members(t)}
    \cup UNION {{<<m>> \o r : m \in Members(Upto(t, i)), r \in MemberLists(After(t, i))} : i \in Positions(t, Comma)}
Trees(t) ==
    {n \in {Boolean(TRUE)} : t = True} \cup {n \in {Boolean(FALSE)} : t = False} \cup {n \in {NullNode} : t = Nil}
    \cup {Num(n) : n \in {x \in {t} : IsNumber(x)}} \cup {Str(s) : s \in Strings(t)}
    \cup (IF ~Between(t, LBracket, RBracket) THEN {}
          ELSE IF Trim(Inner(t)) = <<>> THEN {Arr(<<>>)} ELSE {Arr(l) : l \in ItemLists(Inner(t))})
    \cup (IF ~Between(t, LBrace, RBrace) THEN {}
          ELSE IF Trim(Inner(t)) = <<>> THEN {Obj(<<>>)}
          ELSE {Obj(l) : l \in {x \in MemberLists(Inner(t)) :
                                    \A i, j \in 1..Len(x) : x[i].name = x[j].name => i = j}})

RECURSIVE AllStrings(_)
AllStrings(node) ==
    CASE node.type = "String" -> {node.text}
      [] node.type = "Array" -> UNION {AllStrings(node.items[i]) : i \in 1..Len(node.items)}
      [] node.type = "Object" ->
            UNION {{node.members[i].name} \cup AllStrings(node.members[i].node) : i \in 1..Len(node.members)}
      [] OTHER -> {}
=============================================================================
