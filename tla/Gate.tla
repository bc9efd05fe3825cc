-------------------------------- MODULE Gate --------------------------------
(***************************************************************************)
(* Schemas, values and the one gate (src/schema.cpp, src/value.cpp,         *)
(* src/gate.cpp).  A value is a claim to a schema with a slot for each of   *)
(* its fields; nothing checks the slots until the gate does.                *)
(*                                                                         *)
(* A cell is a record with one field, named by its kind: [Int |-> 5].  The  *)
(* hash of content ids is a parameter, so that an instance may make schemas *)
(* collide.                                                                 *)
(***************************************************************************)
EXTENDS Integers, Sequences, SequencesExt

CONSTANT Hash(_)   \* 64 bits of a schema's normalized structure

(* FoldLeft, written to nest: folds within folds exhaust TLC's stack otherwise. *)
Fold(op(_, _), base, seq) ==
    LET upto[i \in 0..Len(seq)] == IF i = 0 THEN base ELSE op(upto[i - 1], seq[i])
    IN  upto[Len(seq)]

Primitive == {"Int", "Float", "Text", "Bool", "Bytes"}

type_of(k) == [kind |-> k]
type_message(s) == [kind |-> "Message", message |-> s]
type_list(t) == [kind |-> "List", element |-> t]
Field(name, type, required) == [name |-> name, type |-> type, required |-> required]

(* The constructor throws for an empty or a repeated field name. *)
make_schema_throws(fields) ==
    \/ \E i \in 1..Len(fields) : fields[i].name = ""
    \/ \E i, j \in 1..Len(fields) : i # j /\ fields[i].name = fields[j].name
make_schema(name, version, fields) == [name |-> name, version |-> version, fields |-> fields]

RECURSIVE content_id(_)
RECURSIVE hash_typeref(_)
hash_typeref(t) ==
    CASE t.kind = "Message" -> <<[kind |-> "Message"], content_id(t.message)>>
      [] t.kind = "List" -> <<[kind |-> "List"]>> \o hash_typeref(t.element)
      [] OTHER -> <<[kind |-> t.kind]>>
content_id(s) ==
    Hash([name |-> s.name, version |-> s.version,
          fields |-> [i \in 1..Len(s.fields) |->
                         [name |-> s.fields[i].name, required |-> s.fields[i].required,
                          type |-> hash_typeref(s.fields[i].type)]]])

-----------------------------------------------------------------------------
Absent == [Absent |-> TRUE]      \* an empty slot
Null == [Null |-> TRUE]          \* a Message cell without a value
KindOf(cell) == CHOOSE k \in DOMAIN cell : TRUE

Value(s, slots) == [schema |-> s, slots |-> slots]

IndexOf(s, name) == SelectInSeq(s.fields, LAMBDA f : f.name = name)
get(v, name) == IF IndexOf(v.schema, name) = 0 THEN Absent ELSE v.slots[IndexOf(v.schema, name)]

-----------------------------------------------------------------------------
(* The gate collects errors, or stops at the first one: whoever is called has
   found none before, so it need only return its own. *)
Error(kind, path) == [kind |-> kind, path |-> path]
Stopped(collect_all, errs) == ~collect_all /\ errs # <<>>
At(path, name) == Append(path, [field |-> name])
AtIndex(path, i) == Append(path, [index |-> i])

(* Mutant: only the first element of a list is looked at. *)
elements_first(list) == SubSeq(list, 1, IF list = <<>> THEN 0 ELSE 1)
elements(list) == list

RECURSIVE validate_cell(_, _, _, _)
validate_value(v, door, collect_all, base) ==
    Fold(LAMBDA errs, f :
             IF Stopped(collect_all, errs) THEN errs
             ELSE IF get(v, f.name) # Absent
             THEN errs \o validate_cell(get(v, f.name), f.type, collect_all, At(base, f.name))
             ELSE IF f.required THEN Append(errs, Error("MissingField", At(base, f.name))) ELSE errs,
         <<>>, door.fields)

validate_cell(c, t, collect_all, path) ==
    IF KindOf(c) # t.kind THEN <<Error("TypeMismatch", path)>>
    ELSE CASE t.kind \in Primitive -> <<>>
           [] t.kind = "Message" ->
                IF c.Message = Null THEN <<Error("NullMessage", path)>>
                ELSE IF content_id(c.Message.schema) # content_id(t.message)
                THEN <<Error("SchemaMismatch", path)>>
                ELSE validate_value(c.Message, t.message, collect_all, path)
           [] t.kind = "List" ->
                LET list == elements(c.List)
                IN  Fold(LAMBDA errs, i :
                             IF Stopped(collect_all, errs) THEN errs
                             ELSE errs \o validate_cell(list[i], t.element, collect_all, AtIndex(path, i)),
                         <<>>, [i \in 1..Len(list) |-> i])

validate_into(claimant, door, collect_all) ==
    IF content_id(claimant.schema) # content_id(door) THEN <<Error("SchemaMismatch", <<>>)>>
    ELSE validate_value(claimant, door, collect_all, <<>>)

accept(v) == [ok |-> TRUE, value |-> v, errors |-> <<>>]
reject(errs) == [ok |-> FALSE, value |-> Null, errors |-> errs]

admit(claimant, door, collect_all) ==
    LET verdict(errs) == IF errs = <<>> THEN accept(claimant) ELSE reject(errs)
    IN  verdict(validate_into(claimant, door, collect_all))

-----------------------------------------------------------------------------
(* What a door asks of a value: the reference the gate is compared with. *)
RECURSIVE Conforms(_, _)
RECURSIVE Inhabits(_, _)
Inhabits(c, t) ==
    /\ KindOf(c) = t.kind
    /\ t.kind = "Message" => c.Message # Null /\ Conforms(c.Message, t.message)
    /\ t.kind = "List" => \A i \in 1..Len(c.List) : Inhabits(c.List[i], t.element)
Conforms(v, s) ==
    /\ v.schema = s
    /\ \A i \in 1..Len(s.fields) :
          IF v.slots[i] = Absent THEN ~s.fields[i].required ELSE Inhabits(v.slots[i], s.fields[i].type)
=============================================================================
