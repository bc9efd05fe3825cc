--------------------------- MODULE MCPersistence ---------------------------
(* A small instance of Persistence for TLC. *)
EXTENDS Persistence

point == make_schema("point", 1, <<Field("x", type_of("Int"), TRUE), Field("up", type_of("Bool"), FALSE)>>)
spot == make_schema("spot", 1, <<Field("y", type_of("Int"), TRUE), Field("up", type_of("Bool"), FALSE)>>)
note == make_schema("note", 2, <<Field("text", type_of("Text"), TRUE), Field("real", type_of("Float"), FALSE)>>)
blob == make_schema("blob", 1, <<Field("data", type_of("Bytes"), FALSE)>>)
flags == make_schema("flags", 1, [i \in 1..5 |-> Field(<<"a", "b", "c", "d", "e">>[i], type_of("Bool"), i = 5)])
path == make_schema("path", 1, <<Field("from", type_message(point), TRUE),
                                Field("via", type_list(type_message(point)), FALSE)>>)
deep == make_schema("deep", 1, <<Field("lists", type_list(type_list(type_list(type_of("Bool")))), TRUE)>>)
empty == make_schema("empty", 1, <<>>)
(* The state of the Shard. *)
Spot == ZEN_SHAPE("Spot", 1, <<Member("x", Cpp("int64_t")), Member("at", Cpp("double"))>>)

TheDoors == {point, note, blob, flags, path, deep, empty, schema_of(Spot)}

-----------------------------------------------------------------------------
(* Cells for a type: right ones at the boundaries, and one of the wrong kind. *)
PointClaims ==
    {Value(point, s) : s \in {<<[Int |-> 0], Absent>>, <<[Int |-> -64], [Bool |-> TRUE]>>,
                              <<Absent, [Bool |-> TRUE]>>, <<[Bool |-> TRUE], Absent>>}}

RECURSIVE Cells(_)
Cells(t) ==
    CASE t.kind = "Int" -> {[Int |-> n] : n \in {-64, -5, -1, 0, 4, 63}}
      [] t.kind = "Float" -> {[Float |-> f] : f \in {0, 3, 6, 7, 8, 14, 15}}
      [] t.kind = "Text" -> {[Text |-> [chars |-> s]] : s \in {<<>>, <<1>>, <<NotUtf8>>, <<1, 0, 1>>, <<1, 1, 1, 1>>}}
      [] t.kind = "Bool" -> {[Bool |-> b] : b \in BOOLEAN}
      [] t.kind = "Bytes" -> {[Bytes |-> s] : s \in {<<>>, <<15>>, <<1, 2>>, <<9, 14, 3>>, <<1, 2, 3, 4>>}}
      [] t.kind = "Message" ->
            {[Message |-> Null], [Message |-> Value(spot, <<[Int |-> 1], Absent>>)]}
            \cup {[Message |-> v] : v \in PointClaims}
      [] t.kind = "List" ->
            LET some == IF t.element.kind = "List" THEN Cells(t.element)
                        ELSE Cells(t.element) \cup {[Float |-> 0]}
            IN  {[List |-> <<>>]} \cup {[List |-> <<e>>] : e \in some}
                \cup {[List |-> <<e, f>>] : e \in some, f \in some}
                \cup {[List |-> <<e, e, e>>] : e \in Cells(t.element)}

Slot(f) ==
    IF f.type.kind = "List" /\ f.type.element.kind = "List"
    THEN {Absent, [List |-> <<>>], [List |-> <<[List |-> <<>>]>>]}
         \cup {[List |-> <<[List |-> <<c>>]>>] : c \in Cells(f.type.element.element)}
    ELSE {Absent, IF f.type.kind = "Int" THEN [Bool |-> TRUE] ELSE [Int |-> 1]} \cup Cells(f.type)

TheClaims(s) ==
    {Value(s, slots) : slots \in
        CASE Len(s.fields) = 0 -> {<<>>}
          [] Len(s.fields) = 1 -> {<<c>> : c \in Slot(s.fields[1])}
          [] Len(s.fields) = 2 -> {<<c, d>> : c \in Slot(s.fields[1]), d \in Slot(s.fields[2])}
          [] Len(s.fields) = 5 -> [1..5 -> {Absent, [Bool |-> TRUE]}]}
    \cup (IF s = point THEN {Value(spot, <<[Int |-> 1], Absent>>)} ELSE {})

-----------------------------------------------------------------------------
Alphabet == {0, 1, 2, 3, 7, 8, 9, 15}
TheBodies == UNION {[1..n -> Byte] : n \in 0..2} \cup UNION {[1..n -> Alphabet] : n \in 3..4}

Object(members) == [type |-> "Object", members |-> members]
Nodes ==
    {Node("String", [dec |-> 5]), Node("String", [dec |-> 64]), Node("String", [token |-> "NaN"]),
     Node("String", [chars |-> <<1>>]), Node("String", [chars |-> <<NotUtf8>>]),
     Node("Number", [float |-> 3]), Node("Number", [huge |-> TRUE]),
     [type |-> "Bool", boolean |-> TRUE], [type |-> "Null"], [type |-> "Array", items |-> <<>>],
     [type |-> "Array", items |-> <<Object(<<>>), [type |-> "Null"]>>], Object(<<>>),
     Object(<<[name |-> "x", node |-> Node("String", [dec |-> 5])]>>),
     Object(<<[name |-> "z", node |-> [type |-> "Null"]]>>)}
Base64Texts == [1..4 -> {-2, Pad, 0, 1, 2, 7}] \cup [1..8 -> {Pad, 0, 4}] \cup {<<0, 0>>}

Document(s, members) ==
    [compat_serialize(Value(s, <<>>)) EXCEPT !.fields = Object(members)]
Members(f) == {<<>>} \cup {<<[name |-> f.name, node |-> n]>> : n \in Nodes}
Extra == {<<>>, <<[name |-> "other", node |-> [type |-> "Null"]]>>}

TheDocuments(s) ==
    (CASE Len(s.fields) = 0 -> {Document(s, e) : e \in Extra}
       [] Len(s.fields) = 1 -> {Document(s, m \o e) : m \in Members(s.fields[1]), e \in Extra}
       [] OTHER -> {Document(s, e \o m \o n) :
                        m \in Members(s.fields[1]), n \in Members(s.fields[2]), e \in Extra})
    \cup (IF s = blob
          THEN {Document(s, <<[name |-> "data", node |-> Node("String", [b64 |-> t])]>>) : t \in Base64Texts}
          ELSE {})
    \cup {[Document(s, <<>>) EXCEPT !.strict = FALSE], [Document(s, <<>>) EXCEPT !.zen = 2],
          [Document(s, <<>>) EXCEPT !.version = 7], [Document(s, <<>>) EXCEPT !.content_id = [bad |-> TRUE]],
          [Document(s, <<>>) EXCEPT !.content_id = [absent |-> TRUE]],
          [Document(s, <<>>) EXCEPT !.content_id = [hex |-> content_id(spot)]]}

-----------------------------------------------------------------------------
Refs == {NoRef, [name |-> "point", version |-> 1], [name |-> "point", version |-> 9], [name |-> "spot", version |-> 1]}
Tokens == [kind : {-1, 0, 4, 5, 6, 7}, ref : Refs]
TheDescriptions ==
    {[name |-> "told", version |-> v, fields |-> <<[name |-> n, required |-> TRUE, type |-> t],
                                                  [name |-> "a", required |-> FALSE, type |-> <<[kind |-> 3, ref |-> NoRef]>>]>>] :
        v \in {1, -1}, n \in {"", "a", "b"}, t \in UNION {[1..k -> Tokens] : k \in 0..2}}

-----------------------------------------------------------------------------
(* Texts: the structure, the numbers and the strings, each from its own pieces. *)
OfUpTo(n, pieces) == UNION {{FlattenSeq(f) : f \in [1..k -> pieces]} : k \in 0..n}
KeyA == <<34, 97, 34, 58>>               \* "a":
EscapedKeyA == <<34, 92, 117, 48, 48, 54, 49, 34, 58>>   \* "\u0061":
Structure == {<<123>>, <<125>>, <<91>>, <<93>>, <<44>>, <<32>>, <<49>>, KeyA, KeyA \o <<49>>}
Nested(n, m) ==
    FlattenSeq([i \in 1..n |-> IF i % 2 = 0 THEN <<123, 9>> \o KeyA ELSE <<91>>])
    \o FlattenSeq([i \in 1..m |-> IF (n - i) % 2 = 1 THEN <<125>> ELSE <<10, 93>>])
Escape(n) == Text!Escaped(n)
InStrings ==
    {<<34>>, <<92>>, <<117>>, <<110>>, <<31>>, <<32>>, <<92, 117, 68, 56, 48>>, Escape(55296), Escape(56319),
     Escape(56320), Escape(57343), Escape(57344), Escape(127), Escape(128), Escape(2047), Escape(2048)}
TheTexts(sort) ==
    CASE sort = "structure" -> OfUpTo(5, Structure)
      [] sort = "nesting" -> {Nested(n, m) : n \in 0..6, m \in 0..6}
      [] sort = "number" -> OfUpTo(5, {<<45>>, <<48>>, <<49>>, <<46>>, <<101>>, <<43>>})
      [] sort = "literal" -> {Text!True, Text!False, Text!Nil, <<116, 114, 117>>, Text!Nil \o <<108>>, <<110, 117, 0>>}
      [] sort = "string" -> {<<34>> \o s \o <<34>> : s \in OfUpTo(3, InStrings)}
      [] sort = "keys" -> {<<123>> \o KeyA \o <<49, 44>> \o k \o <<49, 125>> : k \in {EscapedKeyA, <<34, 34, 58>>}}

(* Bytes on both sides of every boundary of UTF-8, and what json_quote escapes. *)
TheByteStrings ==
    UNION {[1..n -> {65, 128, 143, 144, 159, 160, 191, 193, 194, 224, 237, 240, 244, 245}] : n \in 0..3}
    \cup {<<240, b, 128, c>> : b \in {128, 143, 144, 191}, c \in {65, 128, 191, 192}}
    \cup {<<244, b, 128, c>> : b \in {128, 143, 144, 191}, c \in {65, 128, 191, 192}}
    \cup UNION {[1..n -> {0, 8, 9, 31, 32, 34, 47, 92, 127, 255}] : n \in 1..3}
TheCharStrings ==
    UNION {[1..n -> {0, 31, 34, 65, 127, 128, 2047, 2048, 55295, 57344, 65535, 65536, 1114111}] : n \in 1..2}

-----------------------------------------------------------------------------
(* A Shard with five shapes: two versions of one name, two that collide, a
   nested one. *)
Ping == ZEN_SHAPE("Ping", 1, <<Member("seq", Cpp("int64_t"))>>)
Ping2 == ZEN_SHAPE("Ping", 2, <<Member("data", Cpp("Bytes")), Member("seq", Cpp("bool"))>>)
Tick == ZEN_SHAPE("Tick", 1, <<Member("text", Cpp("string"))>>)
Walk == ZEN_SHAPE("Walk", 1, <<Member("from", Struct(Spot)), Member("via", Vector(Struct(Spot))),
                              Member("flags", Vector(Cpp("bool")))>>)
TheShapes == <<Ping, Ping2, Tick, Spot, Walk>>

(* A schema nobody registered, under a name that is taken; its content id
   collides with the one it pretends to be.  Ping's and Tick's collide too. *)
False_walk == make_schema("Walk", 1, <<Field("flags", type_list(type_of("Bool")), TRUE),
                                       Field("from", type_message(schema_of(Spot)), FALSE)>>)
TheHash(structure) ==
    CASE structure.name = "Tick" -> [collision |-> 1]
      [] structure.name = "Ping" /\ structure.version = 1 -> [collision |-> 1]
      [] structure.name = "Walk" -> [collision |-> 2]
      [] OTHER -> structure

SpotCells ==
    {[Message |-> Null], [Message |-> Value(schema_of(Ping), <<[Int |-> 1]>>)]}
    \cup {[Message |-> Value(schema_of(Spot), <<c, f>>)] : c \in {Absent, [Int |-> 63]}, f \in {[Float |-> 3], [Float |-> 15]}}
SlotsOf(shape) ==
    CASE shape \in {Ping, Tick} -> {<<c>> : c \in {Absent} \cup Cells(type_of("Int")) \cup Cells(type_of("Text"))}
      [] shape = Ping2 -> {<<c, b>> : c \in {Absent} \cup Cells(type_of("Bytes")), b \in {Absent, [Bool |-> TRUE], [Int |-> 0]}}
      [] shape = Spot -> {<<c, f>> : c \in {Absent, [Int |-> -1]}, f \in {Absent} \cup Cells(type_of("Float"))}
      [] shape = Walk -> {<<c, [List |-> l], [List |-> b]>> :
                          c \in SpotCells \cup {Absent}, l \in {<<>>} \cup {<<d>> : d \in SpotCells} \cup {<<d, d>> : d \in SpotCells},
                          b \in {<<>>, <<[Bool |-> TRUE]>>, <<[Bool |-> TRUE], [Bool |-> FALSE], [Bool |-> TRUE]>>}}
Posted ==
    UNION {{Value(schema_of(shape), slots) : slots \in SlotsOf(shape)} : shape \in {Ping, Ping2, Tick, Spot, Walk}}
    \cup {Value(False_walk, <<[List |-> l], c>>) : l \in {<<>>, <<[Bool |-> TRUE]>>}, c \in SpotCells \cup {Absent}}
    \cup {Value(schema_of(ZEN_SHAPE("Ping", 3, Ping.zen_fields)), <<[Int |-> 0]>>)}
TheMails == {Message(v, 5, r, c) : v \in Posted, r \in {0, 6}, c \in {0, 7}}
=============================================================================
