---------------------------- MODULE Persistence ----------------------------
(***************************************************************************)
(* A value's way through the codec: somebody constructs it, or bytes or a   *)
(* document arrive from anywhere; it is written in one of the two formats;  *)
(* a door admits or refuses it.  Schemas are described and rebuilt likewise. *)
(* The gate is asked twice, for the first error and for all of them.        *)
(* A message that somebody posts is delivered to one Shard, compiled in, in  *)
(* a library and in a child process.                                        *)
(***************************************************************************)
EXTENDS Codec, SchemaCodec, Seam

Text == INSTANCE Json WITH MaxDepth <- MaxJsonDepth

CONSTANTS
    Doors,           \* the schemas doors ask for
    Claims(_),       \* values that claim a schema, right or wrong
    Bodies,          \* byte strings that may arrive as the body of a native value
    Documents(_),    \* JSON documents that may arrive for a door
    Descriptions,    \* schema descriptions that may arrive
    TextSorts,       \* sorts of texts
    Texts(_),        \* texts of a sort that may arrive as a JSON document
    ByteStrings,     \* strings json_quote is asked to write
    CharStrings,     \* strings of code points another writer spells
    Mails            \* messages that may be posted to the Shard

VARIABLES
    what,      \* what is at hand: nothing, a value, native bytes, a document, a description, a text,
               \* or what became of it
    door,      \* the door it is for
    origin,    \* the value or schema it was made from, or Null
    wire,      \* the bytes, document or description
    first,     \* the verdict with the first error only
    full       \* the verdict with every error

vars == <<what, door, origin, wire, first, full>>

Init ==
    /\ what = "nothing"
    /\ door = Null /\ origin = Null /\ wire = Null /\ first = Null /\ full = Null

construct ==
    /\ what = "nothing"
    /\ \E d \in Doors : door' = d /\ origin' \in Claims(d)
    /\ what' = "value"
    /\ UNCHANGED <<wire, first, full>>

(* serialize throws for a cell of the wrong kind and for a null message. *)
RECURSIVE Encodable(_, _)
Encodable(c, t) ==
    /\ KindOf(c) = t.kind
    /\ t.kind = "Message" =>
          c.Message # Null /\ \A i \in 1..Len(c.Message.slots) :
              c.Message.slots[i] = Absent \/ Encodable(c.Message.slots[i], c.Message.schema.fields[i].type)
    /\ t.kind = "List" => \A i \in 1..Len(c.List) : Encodable(c.List[i], t.element)

write_native ==
    /\ what = "value"
    /\ Encodable([Message |-> origin], type_message(door))
    /\ wire' = serialize(origin)
    /\ what' = "native"
    /\ UNCHANGED <<door, origin, first, full>>

write_json ==
    /\ what = "value"
    /\ wire' = compat_serialize(origin)
    /\ what' = "json"
    /\ UNCHANGED <<door, origin, first, full>>

arrive_native ==
    /\ what = "nothing"
    /\ \E d \in Doors, b \in Bodies :
        door' = d /\ wire' = [serialize(Value(d, [i \in 1..Len(d.fields) |-> Absent])) EXCEPT !.body = b]
    /\ what' = "native"
    /\ UNCHANGED <<origin, first, full>>

arrive_json ==
    /\ what = "nothing"
    /\ \E d \in Doors : door' = d /\ wire' \in Documents(d)
    /\ what' = "json"
    /\ UNCHANGED <<origin, first, full>>

Judged(as, f, a) ==
    /\ first' = f /\ full' = a
    /\ what' = as
    /\ UNCHANGED <<door, origin, wire>>

admit_value == what = "value" /\ Judged("value_judged", admit(origin, door, FALSE), admit(origin, door, TRUE))
admit_bytes == what = "native" /\ Judged("native_judged", admit_native(wire, door, FALSE), admit_native(wire, door, TRUE))
admit_document ==
    /\ what = "json"
    /\ LET u == compat_parse(wire) IN Judged("json_judged", admit_json(u, door, FALSE), admit_json(u, door, TRUE))

describe ==
    /\ what = "nothing"
    /\ \E s \in Doors : origin' = s /\ wire' = encode_schema(s)
    /\ what' = "desc"
    /\ UNCHANGED <<door, first, full>>

arrive_description ==
    /\ what = "nothing"
    /\ wire' \in Descriptions
    /\ what' = "desc"
    /\ UNCHANGED <<door, origin, first, full>>

rebuild ==
    /\ what = "desc"
    /\ first' = decode_schema(wire, Doors)
    /\ what' = "rebuilt"
    /\ UNCHANGED <<door, origin, wire, full>>

arrive_text ==
    /\ what = "nothing"
    /\ \E sort \in TextSorts : wire' \in Texts(sort)
    /\ what' = "text"
    /\ UNCHANGED <<door, origin, first, full>>

write_text ==
    /\ what = "nothing"
    /\ \E s \in ByteStrings : origin' = Text!Str(s) /\ wire' = Text!json_quote(s)
    /\ what' = "text"
    /\ UNCHANGED <<door, first, full>>

(* Another writer escapes what it must, and beyond that what it likes. *)
spell_text ==
    /\ what = "nothing"
    /\ \E s \in CharStrings : \E escaped \in SUBSET (1..Len(s)) :
        /\ \A i \in 1..Len(s) : s[i] \in Text!MustEscape => i \in escaped
        /\ origin' = Text!Str(Text!Utf8(s))
        /\ wire' = Text!Spelling(s, escaped)
    /\ what' = "text"
    /\ UNCHANGED <<door, first, full>>

parse_text ==
    /\ what = "text"
    /\ first' = Text!parse_json(wire)
    /\ what' = "parsed"
    /\ UNCHANGED <<door, origin, wire, full>>

post ==
    /\ what = "nothing"
    /\ origin' \in Mails
    /\ what' = "mail"
    /\ UNCHANGED <<door, wire, first, full>>

(* The same message, to the same Shard, compiled in and placed elsewhere. *)
deliver_one ==
    /\ what = "mail"
    /\ \E placement \in {"library", "child"}, how \in {"reply", "send", "publish"} :
        /\ wire' = [placement |-> placement, how |-> how]
        /\ first' = deliver(origin, "compiled", how)
        /\ full' = deliver(origin, placement, how)
    /\ what' = "delivered"
    /\ UNCHANGED <<door, origin>>

(* Saved bytes become the state of the Shard, and are asked back. *)
swap_one ==
    /\ what = "native"
    /\ door = state_schema
    /\ \E placement \in {"library", "child"} :
        /\ first' = swap_state(wire, "compiled")
        /\ full' = swap_state(wire, placement)
    /\ what' = "swapped"
    /\ UNCHANGED <<door, origin, wire>>

Next ==
    \/ post \/ swap_one \/ deliver_one \/ arrive_text \/ write_text \/ spell_text \/ parse_text
    \/ construct \/ write_native \/ write_json \/ arrive_native \/ arrive_json
    \/ admit_value \/ admit_bytes \/ admit_document \/ describe \/ arrive_description \/ rebuild

Spec == Init /\ [][Next]_vars

-----------------------------------------------------------------------------
IsJudged == what \in {"value_judged", "native_judged", "json_judged"}

(* The gate admits exactly what conforms, whichever way it came: a missing
   field, a wrong kind or a wrong shape at any depth is refused, and nothing
   else is. *)
AdmitsExactlyWhatConforms ==
    /\ IsJudged /\ full.ok => Conforms(full.value, door)
    /\ what = "value_judged" => (full.ok <=> Conforms(origin, door))

(* Asking for every error never changes the verdict, and the first error of
   the long report is the error of the short one. *)
ReportsAgree ==
    IsJudged => /\ first.ok <=> full.ok
                /\ first.ok => first.value = full.value
                /\ ~first.ok => first.errors = <<Head(full.errors)>>

RECURSIVE Normal(_)
Normal(c) ==
    CASE KindOf(c) = "Float" -> [Float |-> IF IsNaN(c.Float) THEN CanonicalNaN ELSE c.Float]
      [] KindOf(c) = "Message" ->
            [Message |-> Value(c.Message.schema, [i \in 1..Len(c.Message.slots) |-> Normal(c.Message.slots[i])])]
      [] KindOf(c) = "List" -> [List |-> [i \in 1..Len(c.List) |-> Normal(c.List[i])]]
      [] OTHER -> c

(* The caps of the formats and the validity of text, which the gate does not
   look at: a conforming value beyond them can be written but not read. *)
RECURSIVE Fits(_, _, _)
Fits(c, depth, native) ==
    LET all(cells, d) == \A i \in 1..Len(cells) : Fits(cells[i], d, native)
    IN  CASE KindOf(c) = "Text" -> valid_utf8(c.Text) /\ (native => Len(c.Text.chars) <= MaxFieldBytes)
          [] KindOf(c) = "Bytes" -> native => Len(c.Bytes) <= MaxFieldBytes
          [] KindOf(c) = "Message" -> depth < 0 /\ all(c.Message.slots, depth + 1)
          [] KindOf(c) = "List" ->
                /\ native => Len(c.List) <= MaxListCount
                /\ (native /\ c.List = <<>>) \/ depth < 0
                /\ all(c.List, depth + 1)
          [] OTHER -> TRUE

(* What serialize and compat::serialize write is read back: the same value,
   every NaN being one, unless it is beyond what the format can carry; then it
   is refused. *)
RoundTrip ==
    LET back(depth, native) ==
            IF Fits([Message |-> origin], depth, native)
            THEN full = accept(Normal([Message |-> origin]).Message) ELSE ~full.ok
    IN  (IsJudged /\ origin # Null /\ Conforms(origin, door)) =>
            /\ what = "native_judged" => back(-1 - MaxBinaryDepth, TRUE)
            /\ what = "json_judged" => back(1 - MaxJsonDepth, FALSE)

(* A value has one encoding: native bytes that are admitted are the bytes
   serialize would write, and base64 text that is admitted in a document is the
   text base64_encode would write. *)
EncodingsAreCanonical ==
    IsJudged /\ full.ok =>
        /\ what = "native_judged" => serialize(full.value) = wire
        /\ what = "json_judged" =>
              \A i \in 1..Len(wire.fields.members) :
                  LET m == wire.fields.members[i]
                      c == get(full.value, m.name)
                  IN  KindOf(c) = "Bytes" => base64_encode(c.Bytes) = m.node.text.b64

(* A described schema is rebuilt as it was, and a description that is accepted
   describes what was rebuilt, down to the last token. *)
DescriptionsAreFaithful ==
    what = "rebuilt" =>
        /\ origin # Null => first = Decoded(origin)
        /\ first.ok => \A i \in 1..Len(wire.fields) :
              LET told == wire.fields[i].type
                  built == encode_type(first.val.fields[i].type)
              IN  Len(built) = Len(told) /\ \A k \in 1..Len(told) : built[k].kind = told[k].kind

(* parse_json accepts exactly the texts the grammar of JSON spells, with unique
   keys and no deeper than its limit, as the tree they spell; and no escape
   turns a valid text into a string that is not valid UTF-8. *)
ParsesExactlyJson ==
    what = "parsed" =>
        /\ {t \in Text!Trees(Text!Trim(wire)) : JsonDepth(t) <= MaxJsonDepth}
              = IF first.ok THEN {first.val} ELSE {}
        /\ first.ok /\ Text!WellFormed(wire) => \A s \in Text!AllStrings(first.val) : Text!WellFormed(s)

(* What json_quote writes, and whatever another writer chose to escape, is read
   as the string it was; and the string is text exactly if it is well formed. *)
StringsSurvive ==
    what = "parsed" /\ origin # Null =>
        /\ first = Text!Read(origin, <<>>)
        /\ Text!valid_utf8(origin.text) <=> Text!WellFormed(origin.text)

(* "A no-match is therefore impossible for a *delivered* message": whatever
   passed the gate finds its handler, and the handler's struct is read without
   following a pointer to nothing, in every placement and even if schemas of
   the Shard collide. *)
HandlersReadWhatWasGated ==
    what = "delivered" => {first.status, full.status} \cap {"threw", "faulted"} = {}

(* "the same Shard works whether it is compiled in or loaded from a .so": behind
   either seam its handler sees the message it would see compiled in, and what
   it sends reaches the bus the same, every NaN being one.  But nobody tells it
   its own id there, so a reply of its own names no address for an answer; and
   a message beyond the limits of the format is dropped without a word.  Bytes
   that become its state are the bytes its next snapshot has. *)
SeamIsTransparent ==
    LET payload == origin.payload
        doors == accepted_schemas(Shapes)
        told(id, m) == Routed(handle(Shapes, m, id, wire.how))
    IN  /\ (what = "delivered" /\ payload.schema \in {doors[i] : i \in 1..Len(doors)}) =>
               IF first.status # "handled" THEN full = first
               ELSE IF Fits([Message |-> payload], -1 - MaxBinaryDepth, TRUE)
               THEN full = told(NoSelf, [origin EXCEPT !.payload = Normal([Message |-> payload]).Message])
               ELSE full = Dropped("refused")
        /\ what = "swapped" => full = first /\ (full.ok => serialize(full.value) = wire)
=============================================================================
