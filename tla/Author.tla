------------------------------- MODULE Author -------------------------------
(***************************************************************************)
(* The authoring layer (include/zen/author/): what a Shard's author writes  *)
(* as C++ structs, and the schemas, values and dispatch derived from it.    *)
(*                                                                         *)
(* A C++ type is [cpp |-> name]; an object of a shape is the sequence of    *)
(* its members, a member is its bare value.                                *)
(***************************************************************************)
EXTENDS Gate

Scalar == [int64_t |-> "Int", double |-> "Float", string |-> "Text", bool |-> "Bool", Bytes |-> "Bytes"]
Cpp(name) == [cpp |-> name]
Vector(T) == [cpp |-> "vector", of |-> T]
Struct(S) == [cpp |-> "shape", of |-> S]

Member(name, type) == [name |-> name, type |-> type]
ZEN_SHAPE(name, version, members) == [zen_name |-> name, zen_version |-> version, zen_fields |-> members]

(* Every field is required. *)
RECURSIVE schema_of(_)
RECURSIVE type_ref_for(_)
type_ref_for(T) ==
    CASE T.cpp = "vector" -> type_list(type_ref_for(T.of))
      [] T.cpp = "shape" -> type_message(schema_of(T.of))
      [] OTHER -> type_of(Scalar[T.cpp])
schema_of(S) ==
    make_schema(S.zen_name, S.zen_version,
                [i \in 1..Len(S.zen_fields) |->
                    Field(S.zen_fields[i].name, type_ref_for(S.zen_fields[i].type), TRUE)])

RECURSIVE to_cell(_, _)
to_value(obj, S) == Value(schema_of(S), [i \in 1..Len(obj) |-> to_cell(obj[i], S.zen_fields[i].type)])
to_cell(x, T) ==
    CASE T.cpp = "vector" -> [List |-> [i \in 1..Len(x) |-> to_cell(x[i], T.of)]]
      [] T.cpp = "shape" -> [Message |-> to_value(x, T.of)]
      [] OTHER -> Scalar[T.cpp] :> x

(* from_value follows *v.get(name) without looking, and as_int and the like
   throw for another kind: does it find what it takes for granted? *)
RECURSIVE readable(_, _)
readable_value(v, S) ==
    \A i \in 1..Len(S.zen_fields) : readable(get(v, S.zen_fields[i].name), S.zen_fields[i].type)
readable(c, T) ==
    CASE T.cpp = "vector" -> KindOf(c) = "List" /\ \A i \in 1..Len(c.List) : readable(c.List[i], T.of)
      [] T.cpp = "shape" -> KindOf(c) = "Message" /\ c.Message # Null /\ readable_value(c.Message, T.of)
      [] OTHER -> KindOf(c) = Scalar[T.cpp]

RECURSIVE from_cell(_, _)
from_value(v, S) ==
    [i \in 1..Len(S.zen_fields) |-> from_cell(get(v, S.zen_fields[i].name), S.zen_fields[i].type)]
from_cell(c, T) ==
    CASE T.cpp = "vector" -> [i \in 1..Len(c.List) |-> from_cell(c.List[i], T.of)]
      [] T.cpp = "shape" -> from_value(c.Message, T.of)
      [] OTHER -> c[Scalar[T.cpp]]

(* The state of a Shard is a shape too. *)
snapshot(obj, S) == to_value(obj, S)
revive(v, S) == from_value(v, S)

-----------------------------------------------------------------------------
(* A Shard accepts a sequence of shapes; its handler for each of them answers
   with what it was told, the way "how" says. *)

accepted_schemas(shapes) == [i \in 1..Len(shapes) |-> schema_of(shapes[i])]

Message(payload, sender, reply_to, correlation) ==
    [payload |-> payload, sender |-> sender, reply_to |-> reply_to, correlation |-> correlation]
Send(target, m) == [kind |-> "send", target |-> target, msg |-> m]
Publish(m) == [kind |-> "publish", target |-> 0, msg |-> m]

Mail_reply(in, self, v) == Send(in.reply_to, Message(v, self, self, in.correlation))
Mail_send(target, self, v) == Send(target, Message(v, self, 0, 0))
Mail_publish(self, v) == Publish(Message(v, self, 0, 0))

(* Mutant: schemas are told apart by their content ids alone. *)
same_content(a, b) == content_id(a) = content_id(b)
same_identity(a, b) == a.name = b.name /\ a.version = b.version /\ content_id(a) = content_id(b)

dispatch_to(S, in) == same_identity(schema_of(S), in.payload.schema)

(* What became of a message: what the handler saw, and what it sent. *)
Outcome(status, obj, sent) == [status |-> status, obj |-> obj, sent |-> sent]
Dropped(status) == Outcome(status, <<>>, <<>>)

handle(shapes, in, self, how) ==
    LET answer(v) == CASE how = "reply" -> Mail_reply(in, self, v)
                       [] how = "send" -> Mail_send(in.sender, self, v)
                       [] how = "publish" -> Mail_publish(self, v)
        on(obj, S) == Outcome("handled", obj, <<answer(to_value(obj, S))>>)
        given(S) == IF readable_value(in.payload, S) THEN on(from_value(in.payload, S), S) ELSE Dropped("faulted")
        routed(i) == IF i = 0 THEN Dropped("threw") ELSE given(shapes[i])
    IN  routed(SelectInSeq(shapes, LAMBDA S : dispatch_to(S, in)))
=============================================================================
