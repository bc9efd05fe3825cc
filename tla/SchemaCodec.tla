---------------------------- MODULE SchemaCodec ----------------------------
(***************************************************************************)
(* Schemas described as values, so that they can cross the library boundary *)
(* (include/zen/kernel/schema_codec.hpp).  A type is a flat stream of       *)
(* tokens; a nested schema is a reference that the reader resolves in its   *)
(* own registry.                                                            *)
(***************************************************************************)
EXTENDS Gate

CONSTANT VersionBits   \* 32: versions are unsigned, their descriptions are signed integers

Kinds == <<"Int", "Float", "Text", "Bool", "Bytes", "Message", "List">>
KindNumber(k) == SelectInSeq(Kinds, LAMBDA x : x = k) - 1
Version(int) == int % 2^VersionBits

NoRef == [absent |-> TRUE]
make_type_token(k, ref) == [kind |-> KindNumber(k), ref |-> ref]

RECURSIVE encode_type(_)
encode_type(t) ==
    CASE t.kind = "Message" ->
            <<make_type_token("Message", [name |-> t.message.name, version |-> t.message.version])>>
      [] t.kind = "List" -> <<make_type_token("List", NoRef)>> \o encode_type(t.element)
      [] OTHER -> <<make_type_token(t.kind, NoRef)>>

encode_schema(s) ==
    [name |-> s.name, version |-> s.version,
     fields |-> [i \in 1..Len(s.fields) |->
                    [name |-> s.fields[i].name, required |-> s.fields[i].required,
                     type |-> encode_type(s.fields[i].type)]]]

-----------------------------------------------------------------------------
Throws == [ok |-> FALSE]
Decoded(val) == [ok |-> TRUE, val |-> val]

Resolves(ref, deps) ==
    \E s \in deps : ref # NoRef /\ s.name = ref.name /\ s.version = Version(ref.version)
Resolved(ref, deps) == CHOOSE s \in deps : s.name = ref.name /\ s.version = Version(ref.version)

(* Mutant: tokens after a complete type are ignored. *)
no_trailing_any(tokens) == TRUE
no_trailing(tokens) == tokens = <<>>

(* One type, and nothing after it. *)
RECURSIVE decode_type(_, _)
decode_type(tokens, deps) ==
    IF tokens = <<>> THEN Throws
    ELSE IF Head(tokens).kind \notin 0..6 THEN Throws
    ELSE LET kind == Kinds[Head(tokens).kind + 1]
             ref == Head(tokens).ref
         IN  CASE kind = "List" ->
                    LET element == decode_type(Tail(tokens), deps)
                    IN  IF element.ok THEN Decoded(type_list(element.val)) ELSE Throws
               [] kind # "List" /\ ~no_trailing(Tail(tokens)) -> Throws
               [] kind = "Message" /\ no_trailing(Tail(tokens)) ->
                    IF Resolves(ref, deps) THEN Decoded(type_message(Resolved(ref, deps))) ELSE Throws
               [] kind \in Primitive /\ no_trailing(Tail(tokens)) -> Decoded(type_of(kind))

decode_schema(desc, deps) ==
    LET types == [i \in 1..Len(desc.fields) |-> decode_type(desc.fields[i].type, deps)]
        fields == [i \in 1..Len(desc.fields) |-> Field(desc.fields[i].name, types[i].val, desc.fields[i].required)]
    IN  IF \E i \in 1..Len(desc.fields) : ~types[i].ok THEN Throws
        ELSE IF make_schema_throws(fields) THEN Throws
        ELSE Decoded(make_schema(desc.name, Version(desc.version), fields))
=============================================================================
