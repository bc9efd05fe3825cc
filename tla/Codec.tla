------------------------------- MODULE Codec -------------------------------
(***************************************************************************)
(* Values on the wire (src/serialize.cpp): the native binary format, the    *)
(* compatibility JSON format, and the gate both are admitted through.       *)
(*                                                                         *)
(* The header of the native format is a record, its body is bytes.  JSON is *)
(* a tree; the text of a JSON string is a record that says what it spells:   *)
(* the number of [dec |-> n], the symbols of [b64 |-> s], the characters of *)
(* [chars |-> s].                                                           *)
(***************************************************************************)
EXTENDS Gate, Binary, FiniteSets

CONSTANTS
    MaxBinaryDepth,   \* kMaxBinaryDepth
    MaxFieldBytes,    \* kMaxFieldBytes
    MaxListCount,     \* kMaxListCount
    MaxJsonDepth,     \* parse_json's max_depth
    NotUtf8           \* a byte that occurs in no valid text

valid_utf8(text) == "chars" \in DOMAIN text => \A i \in 1..Len(text.chars) : text.chars[i] # NotUtf8

-----------------------------------------------------------------------------
(* Native: encode. *)

MaskBytes(n) == (n + ByteBits - 1) \div ByteBits

(* Mutant: the bit of a field is taken from the wrong end of its byte. *)
bit(i) == 2^((i - 1) % ByteBits)

mask(present, n) ==
    [b \in 1..MaskBytes(n) |->
        Fold(LAMBDA sum, i : IF i \in present THEN sum + bit(i) ELSE sum, 0,
                 [k \in 1..ByteBits |-> (b - 1) * ByteBits + k])]

RECURSIVE bin_encode_value(_, _)
bin_encode_body(v) ==
    LET n == Len(v.schema.fields)
        present == {i \in 1..n : v.slots[i] # Absent}
    IN  mask(present, n)
        \o FlattenSeq([i \in 1..n |-> IF i \in present
                                      THEN bin_encode_value(v.slots[i], v.schema.fields[i].type) ELSE <<>>])

bin_encode_value(c, t) ==
    CASE t.kind = "Int" -> put_zigzag(c.Int)
      [] t.kind = "Float" -> put_f64le(c.Float)
      [] t.kind = "Text" -> put_uvarint(Len(c.Text.chars)) \o c.Text.chars
      [] t.kind = "Bool" -> <<IF c.Bool THEN 1 ELSE 0>>
      [] t.kind = "Bytes" -> put_uvarint(Len(c.Bytes)) \o c.Bytes
      [] t.kind = "Message" -> bin_encode_body(c.Message)
      [] t.kind = "List" ->
            put_uvarint(Len(c.List)) \o FlattenSeq([i \in 1..Len(c.List) |-> bin_encode_value(c.List[i], t.element)])

serialize(v) ==
    [well_formed |-> TRUE, name |-> v.schema.name, version |-> v.schema.version,
     content_id |-> content_id(v.schema), body |-> bin_encode_body(v)]

-----------------------------------------------------------------------------
(* Native: decode.  The first failure is final, for there is nothing to resync
   on; where it is, and its wording, are left out. *)

(* A length, and as many bytes. *)
counted(bytes) ==
    Then(uvarint(bytes), LAMBDA len : IF len.val > MaxFieldBytes THEN NoRead ELSE take(len.val, len.rest))

padding_zero(last, n) == n % ByteBits = 0 \/ last < 2^(n % ByteBits)

As(kind, read) == Then(read, LAMBDA r : Got(kind :> r.val, r.rest))

RECURSIVE decode_value(_, _, _)
RECURSIVE decode_fields(_, _, _, _, _)
RECURSIVE decode_list(_, _, _, _, _)
decode_body(door, bytes, depth) ==
    LET n == Len(door.fields)
    IN  IF depth > MaxBinaryDepth THEN NoRead
        ELSE Then(take(MaskBytes(n), bytes), LAMBDA m :
                 IF n > 0 /\ ~padding_zero(Last(m.val), n) THEN NoRead
                 ELSE decode_fields(door, m.val, <<>>, m.rest, depth))

decode_fields(door, presence, slots, bytes, depth) ==
    LET i == Len(slots) + 1
        present == (presence[((i - 1) \div ByteBits) + 1] \div bit(i)) % 2 = 1
    IN  IF i > Len(door.fields) THEN Got(Value(door, slots), bytes)
        ELSE IF ~present THEN decode_fields(door, presence, Append(slots, Absent), bytes, depth)
        ELSE Then(decode_value(door.fields[i].type, bytes, depth), LAMBDA v :
                 decode_fields(door, presence, Append(slots, v.val), v.rest, depth))

decode_list(element, count, list, bytes, depth) ==
    IF count = 0 THEN Got(list, bytes)
    ELSE Then(decode_value(element, bytes, depth), LAMBDA v :
             decode_list(element, count - 1, Append(list, v.val), v.rest, depth))

decode_value(t, bytes, depth) ==
    IF depth > MaxBinaryDepth THEN NoRead
    ELSE CASE t.kind = "Int" -> As("Int", zigzag(bytes))
           [] t.kind = "Float" -> As("Float", f64le(bytes))
           [] t.kind = "Text" ->
                Then(counted(bytes), LAMBDA r :
                    IF valid_utf8([chars |-> r.val]) THEN Got([Text |-> [chars |-> r.val]], r.rest) ELSE NoRead)
           [] t.kind = "Bool" ->
                Then(u8(bytes), LAMBDA r : IF r.val <= 1 THEN Got([Bool |-> r.val = 1], r.rest) ELSE NoRead)
           [] t.kind = "Bytes" -> As("Bytes", counted(bytes))
           [] t.kind = "Message" -> As("Message", decode_body(t.message, bytes, depth + 1))
           [] t.kind = "List" ->
                Then(uvarint(bytes), LAMBDA count :
                    IF count.val > MaxListCount THEN NoRead
                    ELSE As("List", decode_list(t.element, count.val, <<>>, count.rest, depth + 1)))

-----------------------------------------------------------------------------
(* JSON: encode. *)

Node(type, text) == [type |-> type, text |-> text]
Finite(bits) == (bits \div 2) % 4 # 3

RECURSIVE json_encode_cell(_)
json_encode_fields(v) ==
    [type |-> "Object",
     members |-> FlattenSeq([i \in 1..Len(v.slots) |->
                     IF v.slots[i] = Absent THEN <<>>
                     ELSE <<[name |-> v.schema.fields[i].name, node |-> json_encode_cell(v.slots[i])]>>])]

json_encode_cell(c) ==
    CASE KindOf(c) = "Int" -> Node("String", [dec |-> c.Int])
      [] KindOf(c) = "Float" ->
            IF IsNaN(c.Float) THEN Node("String", [token |-> "NaN"])
            ELSE IF ~Finite(c.Float)
            THEN Node("String", [token |-> IF c.Float >= 8 THEN "-Infinity" ELSE "Infinity"])
            ELSE Node("Number", [float |-> c.Float])
      [] KindOf(c) = "Text" -> Node("String", c.Text)
      [] KindOf(c) = "Bool" -> [type |-> "Bool", boolean |-> c.Bool]
      [] KindOf(c) = "Bytes" -> Node("String", [b64 |-> base64_encode(c.Bytes)])
      [] KindOf(c) = "Message" ->
            IF c.Message = Null THEN [type |-> "Null"] ELSE json_encode_fields(c.Message)
      [] KindOf(c) = "List" ->
            [type |-> "Array", items |-> [i \in 1..Len(c.List) |-> json_encode_cell(c.List[i])]]

(* compat::serialize; absent members are not modelled as text but as flags. *)
compat_serialize(v) ==
    [strict |-> TRUE, zen |-> 1, name |-> v.schema.name, version |-> v.schema.version,
     content_id |-> [hex |-> content_id(v.schema)], fields |-> json_encode_fields(v)]

-----------------------------------------------------------------------------
(* JSON: decode.  A bad field does not spoil the others, so errors add up. *)

Found(cell, errs) == [got |-> TRUE, cell |-> cell, errs |-> errs]
Push(kind, path) == [got |-> FALSE, errs |-> <<Error(kind, path)>>]

RECURSIVE json_cell(_, _, _, _)
json_fields(obj, door, base, collect_all) ==
    LET unknown == SelectSeq(obj.members, LAMBDA m : IndexOf(door, m.name) = 0)
        errors == [i \in 1..Len(unknown) |-> Error("UnknownField", At(base, unknown[i].name))]
        next(a, f) ==
            LET m == SelectInSeq(obj.members, LAMBDA x : x.name = f.name)
                r == json_cell(obj.members[m].node, f.type, At(base, f.name), collect_all)
            IN  IF Stopped(collect_all, a.errs) \/ m = 0 THEN [a EXCEPT !.slots = Append(@, Absent)]
                ELSE [errs |-> a.errs \o r.errs, slots |-> Append(a.slots, IF r.got THEN r.cell ELSE Absent)]
    IN  Fold(next,
             [errs |-> IF Stopped(collect_all, errors) THEN <<Head(errors)>> ELSE errors, slots |-> <<>>],
             door.fields)

json_type_number(t) ==
    CASE t.kind \in {"Int", "Text", "Bytes"} -> {"String"} [] t.kind = "Float" -> {"Number"}
      [] t.kind = "Bool" -> {"Bool"} [] t.kind = "Message" -> {"Object"} [] t.kind = "List" -> {"Array"}
json_type(t) ==
    CASE t.kind \in {"Int", "Text", "Bytes"} -> {"String"}
      [] t.kind = "Float" -> {"Number", "String"}
      [] t.kind = "Bool" -> {"Bool"} [] t.kind = "Message" -> {"Object"} [] t.kind = "List" -> {"Array"}

FloatOf(token) == CASE token = "NaN" -> CanonicalNaN [] token = "Infinity" -> 6 [] token = "-Infinity" -> 14

json_primitive(node, t, path) ==
    LET spells(what) == what \in DOMAIN node.text
        malformed == Push("MalformedField", path)
    IN  CASE t.kind = "Bool" -> Found([Bool |-> node.boolean], <<>>)
          [] t.kind = "Int" ->
                IF spells("dec") /\ node.text.dec \in -(Word \div 2)..(Word \div 2 - 1)
                THEN Found([Int |-> node.text.dec], <<>>) ELSE malformed
          [] t.kind = "Float" ->
                IF node.type = "Number" /\ spells("float") THEN Found([Float |-> node.text.float], <<>>)
                ELSE IF node.type = "String" /\ spells("token")
                THEN Found([Float |-> FloatOf(node.text.token)], <<>>) ELSE malformed
          [] t.kind = "Text" -> IF valid_utf8(node.text) THEN Found([Text |-> node.text], <<>>) ELSE malformed
          [] t.kind = "Bytes" ->
                IF ~spells("b64") THEN malformed
                ELSE LET b == base64_decode(node.text.b64)
                     IN  IF b.ok THEN Found([Bytes |-> b.val], <<>>) ELSE malformed

json_cell(node, t, path, collect_all) ==
    IF node.type \notin json_type(t) THEN Push("TypeMismatch", path)
    ELSE CASE t.kind \in Primitive -> json_primitive(node, t, path)
           [] t.kind = "Message" ->
                LET r == json_fields(node, t.message, path, collect_all)
                IN  Found([Message |-> Value(t.message, r.slots)], r.errs)
           [] t.kind = "List" ->
                LET next(a, i) ==
                        LET r == json_cell(node.items[i], t.element, AtIndex(path, i), collect_all)
                        IN  IF Stopped(collect_all, a.errs) THEN a
                            ELSE [errs |-> a.errs \o r.errs, list |-> IF r.got THEN Append(a.list, r.cell) ELSE a.list]
                    all == Fold(next, [errs |-> <<>>, list |-> <<>>], [i \in 1..Len(node.items) |-> i])
                IN  Found([List |-> all.list], all.errs)

RECURSIVE JsonDepth(_)
JsonDepth(node) ==
    LET deepest(nodes) == Fold(LAMBDA d, n : IF JsonDepth(n) > d THEN JsonDepth(n) ELSE d, 0, nodes)
    IN  CASE node.type = "Object" -> 1 + deepest([i \in 1..Len(node.members) |-> node.members[i].node])
          [] node.type = "Array" -> 1 + deepest(node.items)
          [] OTHER -> 0

compat_parse(doc) ==
    [well_formed |-> /\ 1 + JsonDepth(doc.fields) <= MaxJsonDepth
                     /\ doc.strict
                     /\ doc.zen = 1
                     /\ doc.fields.type = "Object"
                     /\ DOMAIN doc.content_id \subseteq {"hex", "absent"},
     name |-> doc.name, version |-> doc.version, content_id |-> doc.content_id, json |-> doc.fields]

-----------------------------------------------------------------------------
(* The persistence gate. *)

(* Mutant: with every error asked for, a document that decodes is accepted. *)
judged_decoded(verrs, decode_errs) == <<>>
judged(verrs, decode_errs) ==
    LET covered == {decode_errs[i].path : i \in 1..Len(decode_errs)}
    IN  SelectSeq(verrs, LAMBDA e : e.path \notin covered)

finish(candidate, decode_errs, door, collect_all) ==
    LET further(verrs) == IF collect_all THEN judged(verrs, decode_errs) ELSE verrs
        verdict(all) ==
            IF all = <<>> THEN accept(candidate) ELSE reject(IF collect_all THEN all ELSE <<Head(all)>>)
    IN  verdict(decode_errs \o further(validate_into(candidate, door, collect_all)))

Names(u, door) == u.name = door.name /\ u.version = door.version

admit_native(u, door, collect_all) ==
    LET decoded(r) ==
            IF ~r.ok THEN reject(<<Error("MalformedBytes", <<>>)>>)
            ELSE IF r.rest # <<>> THEN reject(<<Error("MalformedBytes", <<>>)>>)
            ELSE finish(r.val, <<>>, door, collect_all)
    IN  IF ~u.well_formed THEN reject(<<Error("MalformedBytes", <<>>)>>)
        ELSE IF ~Names(u, door) \/ u.content_id # content_id(door) THEN reject(<<Error("SchemaMismatch", <<>>)>>)
        ELSE decoded(decode_body(door, u.body, 0))

admit_json(u, door, collect_all) ==
    LET decoded(r) == finish(Value(door, r.slots), r.errs, door, collect_all)
    IN  IF ~u.well_formed THEN reject(<<Error("MalformedBytes", <<>>)>>)
        ELSE IF \/ ~Names(u, door)
                \/ "hex" \in DOMAIN u.content_id /\ u.content_id.hex # content_id(door)
        THEN reject(<<Error("SchemaMismatch", <<>>)>>)
        ELSE decoded(json_fields(u.json, door, <<>>, collect_all))
=============================================================================
