----------------------------- MODULE Switchboard -----------------------------
(***************************************************************************)
(* The message bus: zen::sb::Switchboard (src/switchboard/switchboard.cpp) *)
(* with the grants of grant.hpp and the registry and gate it calls.        *)
(*                                                                         *)
(* The bus is single-threaded, but its operations nest: pump() calls a     *)
(* Shard's handler or an observer, and that code may call any operation of *)
(* the bus before it returns.  pc says whose code is running:              *)
(*   idle    code outside the bus (the host program)                       *)
(*   loop    the body of pump(), between two deliveries                    *)
(*   handle  a Shard's handle(), called by deliver_one                     *)
(*   emit    the observers, called by emit() for the last delivery         *)
(* Every public operation may be called whenever pc # "loop".              *)
(***************************************************************************)
EXTENDS Integers, Sequences, FiniteSets

CONSTANTS
    Keys,          \* schema identities (name, version)
    Shapes,        \* schema contents (what content_id tells apart)
    Kinds,         \* the Shards the host may register: see Kind
    Payloads,      \* the message payloads and state candidates in play
    Claims,        \* the values a caller may put in Message::sender
    MaxShards,     \* bound on next_shard_id_ - 1
    MaxSeq,        \* bound on next_seq_ - 1
    HandlersThrow, \* may a handler or an observer throw out of pump()?
    Unset,         \* registry_ has no schema under this key
    Absent,        \* shards_ has no record under this id
    Root,          \* originator of a message the host sent itself
    NoEnvelope     \* no delivery is being handled

Ids == 1..MaxShards
Targets == 0..MaxShards       \* ShardId{} is 0 and never registered

Schema == [key : Keys, shape : Shapes]

(* A Value: the schema it carries, and whether its structure conforms. *)
Value == [key : Keys, shape : Shapes, ok : BOOLEAN]

SendRule == [any_shape : BOOLEAN, key : Keys, any_target : BOOLEAN, target : Ids]

(* What policy() may return; wf is whether the fixed grammar admits it. *)
Policy == [wf : BOOLEAN, max_reloads : Int, revive_from_last_good : BOOLEAN]

(* A Shard as the bus meets it: its accept-set in declaration order, the
   schema of its snapshot, whether the initial snapshot conforms, the grant
   the host gives it, and the policies its policy() may answer. *)
Kind == [accept : Seq(Schema), state : Schema, snap_ok : BOOLEAN,
         grant : SUBSET SendRule, policies : SUBSET Policy]

Reasons == {"NoSuchTarget", "TargetUnavailable", "CapabilityDenied",
            "NotAccepted", "GateRefused"}
Pending == "Pending"
Delivered == "Delivered"
Disposition == {Pending, Delivered} \cup Reasons

ASSUME ConstantsAssumption ==
    /\ Kinds \subseteq Kind
    /\ Payloads \subseteq Value
    /\ MaxShards \in Nat
    /\ MaxSeq \in Nat
    /\ Claims \subseteq Targets
    /\ HandlersThrow \in BOOLEAN
    /\ Unset \notin Shapes
    /\ Root \notin Kinds

ShardRecord == [kind : Kinds, last_known_good : Value, reloads_used : Nat, alive : BOOLEAN]

(* by is a history field: what is registered under the id the message is sent
   as, at the moment it is sent; Root if the host sent it itself. *)
Envelope == [target : Targets, sender : Targets, gated : BOOLEAN, payload : Payloads,
             seq : Nat, by : Kinds \cup {Absent, Root}]

ASSUME SentinelAssumption ==
    /\ Absent \notin ShardRecord
    /\ NoEnvelope \notin Envelope

VARIABLES
    registry,        \* registry_: the published schema of each key
    shards,          \* shards_
    next_shard_id,   \* next_shard_id_
    queue,           \* queue_
    journal,         \* journal_ without its unused slot 0; next_seq_ = Len(journal) + 1
    in_dispatch,     \* in_dispatch_
    stop_requested,  \* stop_requested_
    pc,              \* whose code is running
    cur              \* the envelope whose handler is running

vars == <<registry, shards, next_shard_id, queue, journal, in_dispatch,
          stop_requested, pc, cur>>
records == <<registry, shards, next_shard_id>>
traffic == <<queue, journal>>
dispatch == <<in_dispatch, stop_requested, pc, cur>>

Init ==
    /\ registry = [k \in Keys |-> Unset]
    /\ shards = [id \in Ids |-> Absent]
    /\ next_shard_id = 1
    /\ queue = <<>>
    /\ journal = <<>>
    /\ in_dispatch = FALSE
    /\ stop_requested = FALSE
    /\ pc = "idle"
    /\ cur = NoEnvelope

-----------------------------------------------------------------------------
(* Lookups, the gate and the grant. *)

find(id) == IF id \in Ids THEN shards[id] ELSE Absent

Registered(id) == find(id) # Absent

(* The door of kind k for a key: the first schema of that identity. *)
Doors(k, key) == {i \in DOMAIN k.accept : k.accept[i].key = key}
Accepts(k, key) == Doors(k, key) # {}
accept_match(k, key) ==
    k.accept[CHOOSE i \in Doors(k, key) : \A j \in Doors(k, key) : i <= j]

(* Mutant: the gate compares (name, version) and not the content. *)
admit_by_name(v, door) == v.key = door.key /\ v.ok

(* The one gate: the claimed identity is the door's, and the structure conforms. *)
admit(v, door) == v.key = door.key /\ v.shape = door.shape /\ v.ok

permits(grant, key, target) ==
    \E r \in grant : /\ r.any_shape \/ r.key = key
                     /\ r.any_target \/ r.target = target

(* Code other than the body of pump() is running, so operations can be called. *)
Callable == pc # "loop"

-----------------------------------------------------------------------------
(* Registration. *)

(* Mutant: a published schema is overwritten instead of conflicting. *)
NoConflict_overwrites(ss, n) ==
    \A i, j \in 1..n : ss[i].key = ss[j].key => ss[i].shape = ss[j].shape

(* register_schema succeeds on each of the first n schemas of ss. *)
NoConflict(ss, n) ==
    \A i \in 1..n :
        /\ registry[ss[i].key] \in {Unset, ss[i].shape}
        /\ \A j \in 1..n : ss[i].key = ss[j].key => ss[i].shape = ss[j].shape

Published(ss, n) ==
    [k \in Keys |->
        IF \E i \in 1..n : ss[i].key = k
        THEN ss[CHOOSE i \in 1..n : ss[i].key = k].shape
        ELSE registry[k]]

(* The accept schemas and then the state schema are published one by one;
   the first conflict throws and leaves the earlier ones published.  The
   record is made only if all are published and the snapshot conforms. *)
register_shard(k) ==
    LET ss == Append(k.accept, k.state)
    IN  /\ Callable
        /\ next_shard_id <= MaxShards
        /\ \E n \in 0..Len(ss) :
              /\ NoConflict(ss, n)
              /\ n < Len(ss) => ~NoConflict(ss, n + 1)
              /\ registry' = Published(ss, n)
              /\ IF n = Len(ss) /\ k.snap_ok
                 THEN /\ shards' = [shards EXCEPT ![next_shard_id] =
                              [kind |-> k,
                               last_known_good |-> [key |-> k.state.key,
                                                    shape |-> k.state.shape,
                                                    ok |-> TRUE],
                               reloads_used |-> 0,
                               alive |-> TRUE]]
                      /\ next_shard_id' = next_shard_id + 1
                 ELSE UNCHANGED <<shards, next_shard_id>>
        /\ UNCHANGED <<traffic, dispatch>>

(* The Shard whose handler is on the stack is not removed under it: the
   caller would own, and destroy, the object that is executing. *)
unregister_shard(id) ==
    /\ Callable
    /\ Registered(id)
    /\ pc = "handle" => cur.target # id
    /\ shards' = [shards EXCEPT ![id] = Absent]
    /\ UNCHANGED <<registry, next_shard_id, traffic, dispatch>>

-----------------------------------------------------------------------------
(* Sending.  Sends only enqueue; nothing is delivered before pump(). *)

Message(payload, sender) == [payload |-> payload, sender |-> sender]

enqueue_directed(target, msg, gated, by) ==
    /\ Len(journal) < MaxSeq
    /\ journal' = Append(journal, Pending)
    /\ queue' = Append(queue, [target |-> target, sender |-> msg.sender, gated |-> gated,
                               payload |-> msg.payload, seq |-> Len(journal) + 1, by |-> by])
    /\ UNCHANGED <<records, dispatch>>

(* The alive accepters of a key at this moment. *)
Accepters(key) ==
    {id \in Ids : Registered(id) /\ shards[id].alive /\ Accepts(shards[id].kind, key)}

(* The members of a finite set of ids in ascending (= registration) order. *)
Ascending(S) ==
    {rs \in [1..Cardinality(S) -> S] : \A i, j \in 1..Cardinality(S) : i < j => rs[i] < rs[j]}

fanout(msg, gated, by) ==
    \E rs \in Ascending(Accepters(msg.payload.key)) :
        /\ Len(journal) + Len(rs) <= MaxSeq
        /\ journal' = journal \o [i \in 1..Len(rs) |-> Pending]
        /\ queue' = queue \o [i \in 1..Len(rs) |->
              [target |-> rs[i], sender |-> msg.sender, gated |-> gated,
               payload |-> msg.payload, seq |-> Len(journal) + i, by |-> by]]
        /\ UNCHANGED <<records, dispatch>>

(* Host root authority: the sender field is whatever the host wrote, ungated. *)
send(target, msg) == Callable /\ enqueue_directed(target, msg, FALSE, Root)
publish(msg) == Callable /\ fanout(msg, FALSE, Root)

(* Mutant: the claimed sender is trusted if it names somebody. *)
stamp_trusting(msg, as_sender) ==
    IF msg.sender = 0 THEN [msg EXCEPT !.sender = as_sender] ELSE msg

(* A Shard's output: the sender is stamped over what the message claims. *)
stamp(msg, as_sender) == [msg EXCEPT !.sender = as_sender]

origin(id) == IF Registered(id) THEN shards[id].kind ELSE Absent

(* The id came from register_shard; its Shard may be gone by now. *)
send_as(as_sender, target, msg) ==
    /\ Callable
    /\ as_sender < next_shard_id
    /\ enqueue_directed(target, stamp(msg, as_sender), TRUE, origin(as_sender))

publish_as(as_sender, msg) ==
    /\ Callable
    /\ as_sender < next_shard_id
    /\ fanout(stamp(msg, as_sender), TRUE, origin(as_sender))

(* The ShardBus of the running handler, bound to the handling Shard's id. *)
ShardBus_send(target, msg) == pc = "handle" /\ send_as(cur.target, target, msg)
ShardBus_publish(msg) == pc = "handle" /\ publish_as(cur.target, msg)

-----------------------------------------------------------------------------
(* Lifecycle.  Revival is by state bytes; a candidate is the Value that
   parsing them claims to be (ok = FALSE covers bytes that do not parse). *)

kill(id) ==
    /\ Callable
    /\ Registered(id)
    /\ shards' = [shards EXCEPT ![id].alive = FALSE]
    /\ UNCHANGED <<registry, next_shard_id, traffic, dispatch>>

(* Mutant: one revival more than the allowance. *)
within_budget_inclusive(rec, p) == rec.reloads_used <= p.max_reloads

(* static_cast<int64>(reloads_used) >= max_reloads is the refusal. *)
within_budget(rec, p) == rec.reloads_used < p.max_reloads

(* One more revival is spent and the Shard is alive, in the given state. *)
revived(rec, state) ==
    [kind |-> rec.kind, last_known_good |-> state,
     reloads_used |-> rec.reloads_used + 1, alive |-> TRUE]

(* Mutant: the refused candidate becomes the next last-known-good. *)
fallen_back_on(rec, candidate) == revived(rec, candidate)

fallen_back(rec, candidate) == revived(rec, rec.last_known_good)

(* Crash revival.  A malformed policy, a spent budget, and a refused candidate
   without fallback return without touching the record. *)
reload(id, candidate) ==
    /\ Callable
    /\ Registered(id)
    /\ \E p \in shards[id].kind.policies :
          /\ p.wf
          /\ within_budget(shards[id], p)
          /\ \/ /\ admit(candidate, shards[id].kind.state)
                /\ shards' = [shards EXCEPT ![id] = revived(@, candidate)]
             \/ /\ ~admit(candidate, shards[id].kind.state)
                /\ p.revive_from_last_good
                /\ shards' = [shards EXCEPT ![id] = fallen_back(@, candidate)]
    /\ UNCHANGED <<registry, next_shard_id, traffic, dispatch>>

(* Intentional swap: no budget, no fallback. *)
swap_state(id, candidate) ==
    /\ Callable
    /\ Registered(id)
    /\ admit(candidate, shards[id].kind.state)
    /\ shards' = [shards EXCEPT ![id].last_known_good = candidate,
                                ![id].alive = TRUE]
    /\ UNCHANGED <<registry, next_shard_id, traffic, dispatch>>

-----------------------------------------------------------------------------
(* Dispatch. *)

stop ==
    /\ Callable
    /\ stop_requested' = TRUE
    /\ UNCHANGED <<records, traffic, in_dispatch, pc, cur>>

enter_loop(mark, stop_flag) ==
    /\ in_dispatch' = mark
    /\ stop_requested' = stop_flag
    /\ pc' = "loop"
    /\ UNCHANGED <<records, traffic, cur>>

(* Mutant: pump() keeps an old stop(). *)
pump_begin_keeps_stop == Callable /\ ~in_dispatch /\ enter_loop(TRUE, stop_requested)

(* pump() up to its loop; a nested call returns at once. *)
pump_begin == Callable /\ ~in_dispatch /\ enter_loop(TRUE, FALSE)

(* The checks of deliver_one, in its order. *)
fate(env) ==
    IF ~Registered(env.target) THEN "NoSuchTarget"
    ELSE IF ~shards[env.target].alive THEN "TargetUnavailable"
    ELSE IF env.gated /\ ~(/\ Registered(env.sender)
                           /\ permits(shards[env.sender].kind.grant, env.payload.key, env.target))
         THEN "CapabilityDenied"
    ELSE IF ~Accepts(shards[env.target].kind, env.payload.key) THEN "NotAccepted"
    ELSE IF ~admit(env.payload, accept_match(shards[env.target].kind, env.payload.key))
         THEN "GateRefused"
    ELSE Delivered

(* Mutant: an outcome is taken to settle every earlier ticket too. *)
record_cumulative(seq, disposition) ==
    journal' = [s \in 1..Len(journal) |-> IF s <= seq THEN disposition ELSE journal[s]]
record(seq, disposition) == journal' = [journal EXCEPT ![seq] = disposition]

Popped ==
    /\ pc = "loop"
    /\ queue # <<>>
    /\ ~stop_requested
    /\ queue' = Tail(queue)

deliver_refused ==
    /\ Popped
    /\ fate(Head(queue)) \in Reasons
    /\ record(Head(queue).seq, fate(Head(queue)))
    /\ pc' = "emit"
    /\ UNCHANGED <<records, in_dispatch, stop_requested, cur>>

deliver_begin ==
    /\ Popped
    /\ fate(Head(queue)) = Delivered
    /\ cur' = Head(queue)
    /\ pc' = "handle"
    /\ UNCHANGED <<records, journal, in_dispatch, stop_requested>>

(* handle() returns: the outcome is recorded only now. *)
deliver_end ==
    /\ pc = "handle"
    /\ record(cur.seq, Delivered)
    /\ cur' = NoEnvelope
    /\ pc' = "emit"
    /\ UNCHANGED <<records, queue, in_dispatch, stop_requested>>

emit_end ==
    /\ pc = "emit"
    /\ pc' = "loop"
    /\ UNCHANGED <<records, traffic, in_dispatch, stop_requested, cur>>

leave_loop(mark) ==
    /\ pc = "loop"
    /\ queue = <<>> \/ stop_requested
    /\ in_dispatch' = mark
    /\ pc' = "idle"
    /\ UNCHANGED <<records, traffic, stop_requested, cur>>

(* Mutant: a pump() ended by stop() leaves the dispatch mark set. *)
pump_end_after_stop == leave_loop(stop_requested)

pump_end == leave_loop(FALSE)

unwind(mark) ==
    /\ HandlersThrow
    /\ pc \in {"handle", "emit"}
    /\ in_dispatch' = mark
    /\ cur' = NoEnvelope
    /\ pc' = "idle"
    /\ UNCHANGED <<records, traffic, stop_requested>>

(* An exception leaves deliver_one and pump(): nothing on the way resets
   in_dispatch_, and a delivery still in its handler is never recorded. *)
throw == unwind(in_dispatch)

Messages == {Message(p, s) : p \in Payloads, s \in Claims}

(* The steps pump() takes by itself, and the return of what it calls. *)
Dispatch ==
    pump_begin \/ deliver_refused \/ deliver_begin \/ deliver_end \/ emit_end \/ pump_end

Next ==
    \/ \E k \in Kinds : register_shard(k)
    \/ \E id \in Ids : unregister_shard(id)
    \/ \E t \in Targets, m \in Messages : send(t, m)
    \/ \E m \in Messages : publish(m)
    \/ \E s \in Ids, t \in Targets, m \in Messages : send_as(s, t, m)
    \/ \E s \in Ids, m \in Messages : publish_as(s, m)
    \/ \E t \in Targets, m \in Messages : ShardBus_send(t, m)
    \/ \E m \in Messages : ShardBus_publish(m)
    \/ \E id \in Ids : kill(id)
    \/ \E id \in Ids, c \in Payloads : reload(id, c)
    \/ \E id \in Ids, c \in Payloads : swap_state(id, c)
    \/ stop
    \/ Dispatch
    \/ throw

Spec == Init /\ [][Next]_vars

(* The host keeps calling pump() (IsolationHost::step does, once per turn),
   handlers and observers return, and the loop itself never waits. *)
FairSpec == Spec /\ WF_vars(Dispatch)

-----------------------------------------------------------------------------
(* Properties. *)

TypeOK ==
    /\ registry \in [Keys -> Shapes \cup {Unset}]
    /\ shards \in [Ids -> ShardRecord \cup {Absent}]
    /\ next_shard_id \in 1..(MaxShards + 1)
    /\ queue \in Seq(Envelope)
    /\ journal \in Seq(Disposition)
    /\ Len(journal) <= MaxSeq
    /\ in_dispatch \in BOOLEAN
    /\ stop_requested \in BOOLEAN
    /\ pc \in {"idle", "loop", "handle", "emit"}
    /\ cur \in Envelope \cup {NoEnvelope}
    /\ pc = "handle" <=> cur # NoEnvelope
    /\ pc # "idle" => in_dispatch

(* The last delivery taken off the queue. *)
Frontier == Len(journal) - Len(queue)

(* FIFO, exactly once: the queue holds precisely the newest tickets, in ticket
   order and all Pending; everything before the last delivery taken off is
   decided; and the last one is undecided exactly while its handler runs (or
   for ever, if that handler threw).  No interleaving of sends, publishes,
   nested pumps, stops and lifecycle calls loses, repeats or reorders one. *)
DeliveryOrder ==
    /\ Frontier >= 0
    /\ \A i \in 1..Len(queue) : queue[i].seq = Frontier + i
    /\ \A s \in 1..Len(journal) : s > Frontier => journal[s] = Pending
    /\ \A s \in 1..(Frontier - 1) : journal[s] # Pending
    /\ pc = "handle" => cur.seq = Frontier /\ Frontier >= 1 /\ journal[Frontier] = Pending
    /\ (Frontier >= 1 /\ journal[Frontier] = Pending) => (pc = "handle" \/ (in_dispatch /\ pc = "idle"))

(* No Shard reaches past its grant: while a handler runs on a message some
   Shard originated, the grant that very registration was given permits this
   shape to this target - whatever sender the message claimed.  A message of a
   Shard that was removed, before or after it was sent, reaches no handler. *)
NoOverreach ==
    pc = "handle" /\ cur.by # Root =>
        cur.by \in Kinds /\ permits(cur.by.grant, cur.payload.key, cur.target)

(* A handler only runs for a registered Shard, on a payload that conforms, in
   the one meaning the whole system gives that (name, version). *)
GatedDelivery ==
    pc = "handle" =>
        /\ Registered(cur.target)
        /\ Accepts(shards[cur.target].kind, cur.payload.key)
        /\ cur.payload.ok
        /\ registry[cur.payload.key] = cur.payload.shape

(* All Shards agree on what a (name, version) means: each door and each state
   schema of a registered Shard is the published one, also after registrations
   that threw halfway through publishing. *)
DoorsAgree ==
    \A id \in Ids : Registered(id) =>
        /\ registry[shards[id].kind.state.key] = shards[id].kind.state.shape
        /\ \A i \in 1..Len(shards[id].kind.accept) :
              registry[shards[id].kind.accept[i].key] = shards[id].kind.accept[i].shape

(* What a crash revival may fall back to is always a state the Shard's own
   schema admits, so revive() never receives an ungated value. *)
LastKnownGoodConforms ==
    \A id \in Ids : Registered(id) =>
        admit(shards[id].last_known_good, shards[id].kind.state)

(* Crash revivals stay within an allowance the Shard's policy has declared,
   however kills, swaps and revivals of an already live Shard interleave. *)
ReloadBudget ==
    \A id \in Ids : Registered(id) /\ shards[id].reloads_used > 0 =>
        \E p \in shards[id].kind.policies : p.wf /\ shards[id].reloads_used <= p.max_reloads

(* in_dispatch_ is set only while a pump() is on the stack, so the only calls
   of pump() that do nothing are the reentrant ones (switchboard.hpp:146). *)
OnlyReentrantPumpsAreNoOps == in_dispatch => pc # "idle"

(* Every ticket gets its fate, although any handler or observer may call
   stop() and so end pump() early, any number of times. *)
EveryTicketResolves ==
    \A s \in 1..MaxSeq :
        (s <= Len(journal)) ~> (s <= Len(journal) /\ journal[s] # Pending)

(* The bus implements the ticket log: dispositions are written once, in order. *)
Log == INSTANCE DeliveryLog
    WITH log <- journal, Fates <- {Delivered} \cup Reasons, Pending <- Pending
ImplementsDeliveryLog == Log!Spec
=============================================================================
