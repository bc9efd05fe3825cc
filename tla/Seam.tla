-------------------------------- MODULE Seam --------------------------------
(***************************************************************************)
(* One Shard in three placements: compiled into the host, in a library      *)
(* behind the C ABI (include/zen/kernel/export.hpp, src/kernel/kernel.cpp), *)
(* and in a child process (src/isolation/).  A delivery is followed from    *)
(* the gate of the bus to the handler and from the handler's answer back to *)
(* the bus.  Only bytes and three numbers cross a seam.                     *)
(***************************************************************************)
EXTENDS Author, Codec

CONSTANTS
    Shapes,    \* the shapes the Shard accepts, in order
    State,     \* the shape of its state
    Self       \* the id it has on the bus

(* The door for a schema, Null for none. *)
Door(name, version) ==
    LET found(doors, i) == IF i = 0 THEN Null ELSE doors[i]
        among(doors) == found(doors, SelectInSeq(doors, LAMBDA s : s.name = name /\ s.version = version))
    IN  among(accepted_schemas(Shapes))

(* Whatever a Shard sends, the bus knows who it is. *)
Stamped(s) == [s EXCEPT !.msg.sender = Self]
Routed(outcome) == [outcome EXCEPT !.sent = [i \in 1..Len(@) |-> Stamped(@[i])]]

-----------------------------------------------------------------------------
(* Compiled in: mount() has told the Shard its id. *)
in_process(in, how) == Routed(handle(Shapes, in, Self, how))

-----------------------------------------------------------------------------
(* Inside the library: nobody has told it. *)
NoSelf == 0

(* HostApiBus: a send becomes bytes and numbers; the sender is not among them. *)
HostApiBus(s) ==
    [kind |-> s.kind, target |-> s.target, reply_to |-> s.msg.reply_to, correlation |-> s.msg.correlation,
     bytes |-> serialize(s.msg.payload)]

(* do_handle: the door by what the bytes claim, the gate, the author's handle. *)
do_handle(sender, reply_to, correlation, bytes, how) ==
    LET through(o) == [o EXCEPT !.sent = [i \in 1..Len(@) |-> HostApiBus(@[i])]]
        gated(a) ==
            IF ~a.ok THEN Dropped("refused")
            ELSE through(handle(Shapes, Message(a.value, sender, reply_to, correlation), NoSelf, how))
        at(door) == IF door = Null THEN Dropped("unknown_schema") ELSE gated(admit_native(bytes, door, FALSE))
    IN  at(Door(bytes.name, bytes.version))

(* Mutant: the host forgets the correlation of what a library sends. *)
Readmitted_uncorrelated(call, a) ==
    [kind |-> call.kind, target |-> call.target, msg |-> Message(a.value, Self, call.reply_to, 0)]
Readmitted(call, a) ==
    [kind |-> call.kind, target |-> call.target, msg |-> Message(a.value, Self, call.reply_to, call.correlation)]

(* zen_host_send, zen_host_publish, and the Emit frame in handle_child_frame:
   the schema is one the system knows, the bytes pass the gate, the sender is
   the Shard the call or the connection belongs to. *)
zen_host_send(call) ==
    LET gated(a) == IF a.ok THEN <<Readmitted(call, a)>> ELSE <<>>
        at(door) == IF door = Null THEN <<>> ELSE gated(admit_native(call.bytes, door, FALSE))
    IN  at(Door(call.bytes.name, call.bytes.version))

From_calls(outcome) == [outcome EXCEPT !.sent = FlattenSeq([i \in 1..Len(@) |-> zen_host_send(@[i])])]

(* HostAdapter::handle; the status of the library is contained. *)
in_library(in, how) ==
    From_calls(do_handle(in.sender, in.reply_to, in.correlation, serialize(in.payload), how))

-----------------------------------------------------------------------------
(* Frames of the isolation protocol: three numbers and the bytes after them. *)
ship_deliver(in) == [numbers |-> <<in.sender, in.reply_to, in.correlation>>, rest |-> serialize(in.payload)]

ship_emit(call) ==
    [kind |-> call.kind, numbers |-> <<call.target, call.reply_to, call.correlation>>, rest |-> call.bytes]
handle_child_frame(f) ==
    zen_host_send([kind |-> f.kind, target |-> f.numbers[1], reply_to |-> f.numbers[2],
                   correlation |-> f.numbers[3], bytes |-> f.rest])

(* The child shuttles bytes between its socket and the same library. *)
in_child(in, how) ==
    LET read(f) == do_handle(f.numbers[1], f.numbers[2], f.numbers[3], f.rest, how)
        written(o) == [o EXCEPT !.sent = FlattenSeq([i \in 1..Len(@) |-> handle_child_frame(ship_emit(@[i]))])]
    IN  written(read(ship_deliver(in)))

-----------------------------------------------------------------------------
(* deliver_one: the door by (name, version), the gate, then the Shard. *)
deliver(in, placement, how) ==
    LET handled(m) == CASE placement = "compiled" -> in_process(m, how)
                        [] placement = "library" -> in_library(m, how)
                        [] placement = "child" -> in_child(m, how)
        gated(a) == IF a.ok THEN handled([in EXCEPT !.payload = a.value]) ELSE Dropped("gate_refused")
        at(door) == IF door = Null THEN Dropped("not_accepted") ELSE gated(admit(in.payload, door, FALSE))
    IN  at(Door(in.payload.schema.name, in.payload.schema.version))

-----------------------------------------------------------------------------
(* The state of a Shard crosses the seams as bytes too. *)
state_schema == schema_of(State)

do_revive(bytes) ==
    LET gated(a) == IF a.ok THEN accept(revive(a.value, State)) ELSE a
    IN  gated(admit_native(bytes, state_schema, FALSE))
do_snapshot(obj) == serialize(snapshot(obj, State))

(* HostAdapter::admit_bytes, and the Snapshot frame in handle_child_frame. *)
admit_snapshot(bytes) == admit_native(bytes, state_schema, FALSE)

(* swap_state, then a snapshot: what the bus has for the Shard's state. *)
swap_state(bytes, placement) ==
    LET revived(r) == IF r.ok THEN admit_snapshot(do_snapshot(r.value)) ELSE r
        admitted(a) ==
            IF ~a.ok THEN a
            ELSE IF placement = "compiled" THEN accept(snapshot(revive(a.value, State), State))
            ELSE revived(do_revive(serialize(a.value)))
    IN  admitted(admit_native(bytes, state_schema, FALSE))
=============================================================================
