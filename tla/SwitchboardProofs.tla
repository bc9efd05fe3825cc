-------------------------- MODULE SwitchboardProofs --------------------------
(***************************************************************************)
(* Theorems about the bus, for every set of Shard kinds, payloads and      *)
(* schemas and every bound: its tickets and their order, then authority,   *)
(* conformance, lifecycle and the dispatch mark.                           *)
(***************************************************************************)
EXTENDS Switchboard, FiniteSetTheorems, TLAPS

-----------------------------------------------------------------------------
(* Sequences. *)

LEMMA SeqLength ==
    ASSUME NEW S, NEW seq \in Seq(S)
    PROVE  Len(seq) \in Nat /\ seq \in [1..Len(seq) -> S]
OBVIOUS

LEMMA SeqElement == ASSUME NEW S, NEW seq \in Seq(S), NEW i \in 1..Len(seq) PROVE seq[i] \in S
OBVIOUS

LEMMA SeqEmpty == ASSUME NEW S PROVE <<>> \in Seq(S) /\ Len(<<>>) = 0
OBVIOUS

LEMMA SeqAppend ==
    ASSUME NEW S, NEW seq \in Seq(S), NEW e \in S
    PROVE  /\ Append(seq, e) \in Seq(S) /\ Len(Append(seq, e)) = Len(seq) + 1
           /\ \A i \in 1..Len(seq) : Append(seq, e)[i] = seq[i]
           /\ Append(seq, e)[Len(seq) + 1] = e
OBVIOUS

LEMMA SeqConcat ==
    ASSUME NEW S, NEW s \in Seq(S), NEW t \in Seq(S)
    PROVE  /\ s \o t \in Seq(S) /\ Len(s \o t) = Len(s) + Len(t)
           /\ \A i \in 1..(Len(s) + Len(t)) : (s \o t)[i] = IF i <= Len(s) THEN s[i] ELSE t[i - Len(s)]
OBVIOUS

LEMMA SeqSame ==
    ASSUME NEW S, NEW s \in Seq(S), NEW t \in Seq(S), Len(s) = Len(t), \A i \in 1..Len(s) : s[i] = t[i]
    PROVE  s = t
OBVIOUS

LEMMA SeqTail ==
    ASSUME NEW S, NEW seq \in Seq(S), seq # <<>>
    PROVE  /\ Head(seq) \in S /\ Tail(seq) \in Seq(S) /\ Len(Tail(seq)) = Len(seq) - 1
           /\ \A i \in 1..Len(Tail(seq)) : Tail(seq)[i] = seq[i + 1]
OBVIOUS

-----------------------------------------------------------------------------
(* What all six ways to send do to the queue and the journal. *)

(* n consecutive tickets are issued, all pending, and their envelopes are
   appended in ticket order; each carries the given sender, gating and origin. *)
Enqueued(n, sender, gated, by) ==
    /\ UNCHANGED <<records, dispatch>>
    /\ n \in Nat
    /\ journal' \in Seq(Disposition)
    /\ Len(journal') = Len(journal) + n
    /\ Len(journal') <= MaxSeq
    /\ \A s \in 1..Len(journal) : journal'[s] = journal[s]
    /\ \A s \in (Len(journal) + 1)..Len(journal') : journal'[s] = Pending
    /\ queue' \in Seq(Envelope)
    /\ Len(queue') = Len(queue) + n
    /\ \A i \in 1..Len(queue) : queue'[i] = queue[i]
    /\ \A i \in (Len(queue) + 1)..Len(queue') :
          /\ queue'[i].seq = Len(journal) + (i - Len(queue))
          /\ queue'[i].sender = sender
          /\ queue'[i].gated = gated
          /\ queue'[i].by = by

(* A directed send (switchboard.cpp:145) issues exactly one ticket. *)
LEMMA DirectedEnqueues ==
    ASSUME TypeOK, NEW t \in Targets, NEW p \in Payloads, NEW sender \in Targets,
           NEW gated \in BOOLEAN, NEW by \in Kinds \cup {Absent, Root},
           NEW msg, msg.sender = sender, msg.payload = p,
           enqueue_directed(t, msg, gated, by)
    PROVE  Enqueued(1, sender, gated, by)
<1> DEFINE env == [target |-> t, sender |-> sender, gated |-> gated, payload |-> p,
                   seq |-> Len(journal) + 1, by |-> by]
<1>1. journal \in Seq(Disposition) /\ queue \in Seq(Envelope)
    BY DEF TypeOK
<1>2. env \in Envelope
    BY <1>1 DEF Envelope
<1>3. Pending \in Disposition
    BY DEF Disposition
<1>4. journal' = Append(journal, Pending) /\ queue' = Append(queue, env)
    BY Zenon DEF enqueue_directed
<1>5. /\ journal' \in Seq(Disposition)
      /\ Len(journal') = Len(journal) + 1
      /\ \A s \in 1..Len(journal) : journal'[s] = journal[s]
      /\ journal'[Len(journal) + 1] = Pending
    BY <1>1, <1>3, <1>4, SeqAppend
<1>6. /\ queue' \in Seq(Envelope)
      /\ Len(queue') = Len(queue) + 1
      /\ \A i \in 1..Len(queue) : queue'[i] = queue[i]
      /\ queue'[Len(queue) + 1] = env
    BY <1>1, <1>2, <1>4, SeqAppend
<1>7. Len(journal') <= MaxSeq
    BY <1>1, <1>5, ConstantsAssumption DEF enqueue_directed
<1>8. UNCHANGED <<records, dispatch>>
    BY DEF enqueue_directed
<1> QED
    BY <1>1, <1>5, <1>6, <1>7, <1>8 DEF Enqueued

(* A fanout (switchboard.cpp:152) issues one ticket per alive accepter. *)
LEMMA FanoutEnqueues ==
    ASSUME TypeOK, NEW p \in Payloads, NEW sender \in Targets,
           NEW gated \in BOOLEAN, NEW by \in Kinds \cup {Absent, Root},
           NEW msg, msg.sender = sender, msg.payload = p,
           fanout(msg, gated, by)
    PROVE  \E n \in Nat : Enqueued(n, sender, gated, by)
<1> DEFINE A == Accepters(p.key)
           n == Cardinality(A)
<1>1. journal \in Seq(Disposition) /\ queue \in Seq(Envelope)
    BY DEF TypeOK
<1>2. IsFiniteSet(Ids) /\ A \subseteq Ids
    BY FS_Interval, ConstantsAssumption DEF Ids, Accepters
<1>3. n \in Nat
    BY Zenon, <1>2, FS_Subset, FS_CardinalityType
<1> HIDE DEF n, A
<1>4. PICK rs \in [1..n -> A] :
        /\ Len(journal) + Len(rs) <= MaxSeq
        /\ journal' = journal \o [i \in 1..Len(rs) |-> Pending]
        /\ queue' = queue \o [i \in 1..Len(rs) |->
              [target |-> rs[i], sender |-> msg.sender, gated |-> gated,
               payload |-> msg.payload, seq |-> Len(journal) + i, by |-> by]]
        /\ UNCHANGED <<records, dispatch>>
    BY Zenon DEF fanout, Ascending, n, A
<1>5. Len(rs) = n
    BY <1>3
<1> DEFINE js == [i \in 1..n |-> Pending]
           es == [i \in 1..n |-> [target |-> rs[i], sender |-> sender, gated |-> gated,
                                  payload |-> p, seq |-> Len(journal) + i, by |-> by]]
<1>6. \A i \in 1..n : rs[i] \in Targets
  <2>1. Ids \subseteq Targets
      BY ConstantsAssumption DEF Ids, Targets
  <2>2. \A i \in 1..n : rs[i] \in A
      OBVIOUS
  <2> QED
      BY <1>2, <2>1, <2>2
<1>7. \A i \in 1..n : es[i] \in Envelope
    BY <1>1, <1>3, <1>6 DEF Envelope
<1>8. js \in Seq(Disposition) /\ Len(js) = n
    BY <1>3 DEF Disposition
<1>9. es \in Seq(Envelope) /\ Len(es) = n
    BY <1>3, <1>7
<1>10. \A i \in 1..n : /\ es[i].seq = Len(journal) + i
                       /\ es[i].sender = sender
                       /\ es[i].gated = gated
                       /\ es[i].by = by
                       /\ js[i] = Pending
    OBVIOUS
<1>11. journal' = journal \o js /\ queue' = queue \o es
    BY <1>4, <1>5
<1> HIDE DEF js, es
<1>12. /\ journal' \in Seq(Disposition)
       /\ Len(journal') = Len(journal) + n
       /\ \A s \in 1..(Len(journal) + n) :
            journal'[s] = IF s <= Len(journal) THEN journal[s] ELSE js[s - Len(journal)]
    BY Zenon, <1>1, <1>8, <1>11, SeqConcat
<1>13. /\ queue' \in Seq(Envelope)
       /\ Len(queue') = Len(queue) + n
       /\ \A i \in 1..(Len(queue) + n) :
            queue'[i] = IF i <= Len(queue) THEN queue[i] ELSE es[i - Len(queue)]
    BY Zenon, <1>1, <1>9, <1>11, SeqConcat
<1>14. Enqueued(n, sender, gated, by)
    BY <1>1, <1>3, <1>4, <1>5, <1>10, <1>12, <1>13 DEF Enqueued
<1> QED
    BY Zenon, <1>3, <1>14

(* The actions that enqueue. *)
Sends ==
    \/ \E t \in Targets, m \in Messages : send(t, m)
    \/ \E m \in Messages : publish(m)
    \/ \E s \in Ids, t \in Targets, m \in Messages : send_as(s, t, m)
    \/ \E s \in Ids, m \in Messages : publish_as(s, m)
    \/ \E t \in Targets, m \in Messages : ShardBus_send(t, m)
    \/ \E m \in Messages : ShardBus_publish(m)

(* Whatever is enqueued is either the host's own and ungated, or it is gated
   and carries the id it was sent as (switchboard.cpp:185-193). *)
EnqueuedAs(n, sender, gated, by) ==
    /\ Enqueued(n, sender, gated, by)
    /\ pc # "loop"
    /\ \/ gated = FALSE /\ by = Root
       \/ gated = TRUE /\ sender < next_shard_id /\ by = origin(sender)

LEMMA OriginType ==
    ASSUME TypeOK, NEW id
    PROVE  origin(id) \in Kinds \cup {Absent, Root}
BY Zenon DEF TypeOK, origin, Registered, find, ShardRecord

LEMMA SendsEnqueue ==
    ASSUME TypeOK, Sends
    PROVE  \E n \in Nat, sender \in Targets, gated \in BOOLEAN,
              by \in Kinds \cup {Absent, Root} : EnqueuedAs(n, sender, gated, by)
<1>0. \A m \in Messages : m.payload \in Payloads /\ m.sender \in Targets
    BY ConstantsAssumption DEF Messages, Message
<1>a. \A m \in Messages : \A id \in Targets : /\ stamp(m, id).payload \in Payloads
                                              /\ stamp(m, id).sender = id
    BY <1>0 DEF stamp, Messages, Message
<1>b. Ids \subseteq Targets
    BY ConstantsAssumption DEF Ids, Targets
<1>1. CASE \E t \in Targets, m \in Messages : send(t, m)
  <2>1. PICK t \in Targets, m \in Messages : send(t, m)
      BY <1>1
  <2>2. Enqueued(1, m.sender, FALSE, Root)
      BY Zenon, <2>1, <1>0, DirectedEnqueues DEF send
  <2> QED
      BY Zenon, <2>1, <2>2, <1>0 DEF EnqueuedAs, send, Callable
<1>2. CASE \E m \in Messages : publish(m)
  <2>1. PICK m \in Messages : publish(m)
      BY <1>2
  <2>2. \E n \in Nat : Enqueued(n, m.sender, FALSE, Root)
      BY Zenon, <2>1, <1>0, FanoutEnqueues DEF publish
  <2> QED
      BY Zenon, <2>1, <2>2, <1>0 DEF EnqueuedAs, publish, Callable
<1>3. ASSUME NEW s \in Targets, NEW t \in Targets, NEW m \in Messages, send_as(s, t, m)
      PROVE  EnqueuedAs(1, s, TRUE, origin(s))
  <2>1. Enqueued(1, s, TRUE, origin(s))
      BY Zenon, <1>3, <1>a, OriginType, DirectedEnqueues DEF send_as
  <2> QED
      BY Zenon, <2>1, <1>3 DEF EnqueuedAs, send_as, Callable
<1>4. ASSUME NEW s \in Targets, NEW m \in Messages, publish_as(s, m)
      PROVE  \E n \in Nat : EnqueuedAs(n, s, TRUE, origin(s))
  <2>1. \E n \in Nat : Enqueued(n, s, TRUE, origin(s))
      BY Zenon, <1>4, <1>a, OriginType, FanoutEnqueues DEF publish_as
  <2> QED
      BY Zenon, <2>1, <1>4 DEF EnqueuedAs, publish_as, Callable
<1>5. pc = "handle" => cur.target \in Targets
    BY DEF TypeOK, Envelope
<1>6. CASE \/ \E s \in Ids, t \in Targets, m \in Messages : send_as(s, t, m)
           \/ \E t \in Targets, m \in Messages : ShardBus_send(t, m)
  <2>1. PICK s \in Targets, t \in Targets, m \in Messages : send_as(s, t, m)
      BY <1>6, <1>5, <1>b DEF ShardBus_send
  <2> QED
      BY Zenon, <2>1, <1>3, OriginType
<1>7. CASE \/ \E s \in Ids, m \in Messages : publish_as(s, m)
           \/ \E m \in Messages : ShardBus_publish(m)
  <2>1. PICK s \in Targets, m \in Messages : publish_as(s, m)
      BY <1>7, <1>5, <1>b DEF ShardBus_publish
  <2> QED
      BY Zenon, <2>1, <1>4, OriginType
<1> QED
    BY Zenon, <1>1, <1>2, <1>6, <1>7 DEF Sends

-----------------------------------------------------------------------------
(* Type correctness. *)

(* The schemas of a Shard in the order register_shard publishes them. *)
LEMMA SchemasOfKind ==
    ASSUME NEW k \in Kinds
    PROVE  /\ Append(k.accept, k.state) \in Seq(Schema)
           /\ Len(Append(k.accept, k.state)) = Len(k.accept) + 1
           /\ \A i \in 1..Len(k.accept) : Append(k.accept, k.state)[i] = k.accept[i]
           /\ Append(k.accept, k.state)[Len(k.accept) + 1] = k.state
           /\ k.accept \in Seq(Schema)
           /\ k.state \in Schema
<1>1. k.accept \in Seq(Schema) /\ k.state \in Schema
    BY Zenon, ConstantsAssumption DEF Kind
<1> QED
    BY <1>1, SeqAppend

(* record() writes a disposition over an existing slot or does nothing. *)
LEMMA RecordType ==
    ASSUME TypeOK, NEW seq, NEW d \in Disposition, record(seq, d)
    PROVE  /\ journal' \in Seq(Disposition)
           /\ Len(journal') = Len(journal)
           /\ \A s \in 1..Len(journal) : journal'[s] = IF s = seq THEN d ELSE journal[s]
<1>1. journal \in Seq(Disposition)
    BY Zenon DEF TypeOK
<1>2. journal' \in [1..Len(journal) -> Disposition]
    BY Zenon, <1>1, SeqLength DEF record
<1>3. Len(journal) \in Nat
    BY <1>1
<1> QED
    BY <1>1, <1>2, <1>3 DEF record

(* deliver_one always reaches a verdict. *)
LEMMA FateType ==
    ASSUME NEW env
    PROVE  fate(env) \in Reasons \cup {Delivered}
BY DEF fate, Reasons

LEMMA PoppedType ==
    ASSUME TypeOK, Popped
    PROVE  /\ Head(queue) \in Envelope
           /\ Head(queue) = queue[1]
           /\ Len(queue) \in Nat \ {0}
           /\ queue' \in Seq(Envelope)
           /\ Len(queue') = Len(queue) - 1
           /\ \A i \in 1..Len(queue') : queue'[i] = queue[i + 1]
<1>1. queue \in Seq(Envelope) /\ queue # <<>> /\ queue' = Tail(queue)
    BY DEF TypeOK, Popped
<1>2. Len(queue) \in Nat \ {0} /\ Head(queue) = queue[1]
    BY <1>1
<1> QED
    BY <1>1, <1>2, SeqTail

LEMMA RegisterType ==
    ASSUME TypeOK, NEW k \in Kinds, register_shard(k)
    PROVE  TypeOK'
<1> DEFINE ss == Append(k.accept, k.state)
<1>1. ss \in Seq(Schema) /\ Len(ss) \in Nat
    BY SchemasOfKind
<1> HIDE DEF ss
<1>2. PICK n \in 0..Len(ss) :
        /\ registry' = Published(ss, n)
        /\ IF n = Len(ss) /\ k.snap_ok
           THEN /\ shards' = [shards EXCEPT ![next_shard_id] =
                        [kind |-> k,
                         last_known_good |-> [key |-> k.state.key, shape |-> k.state.shape,
                                              ok |-> TRUE],
                         reloads_used |-> 0, alive |-> TRUE]]
                /\ next_shard_id' = next_shard_id + 1
           ELSE UNCHANGED <<shards, next_shard_id>>
    BY Zenon DEF register_shard, ss
<1>3. UNCHANGED <<traffic, dispatch>> /\ next_shard_id <= MaxShards
    BY Zenon DEF register_shard
<1>4. registry' \in [Keys -> Shapes \cup {Unset}]
  <2>1. ASSUME NEW key \in Keys, \E i \in 1..n : ss[i].key = key
        PROVE  ss[CHOOSE i \in 1..n : ss[i].key = key].shape \in Shapes
    <3>1. (CHOOSE i \in 1..n : ss[i].key = key) \in 1..n
        BY Zenon, <2>1
    <3>2. \A i \in 1..n : ss[i] \in Schema
        BY <1>1, SeqElement
    <3> QED
        BY Zenon, <3>1, <3>2 DEF Schema
  <2>2. \A key \in Keys : registry[key] \in Shapes \cup {Unset}
      BY Zenon DEF TypeOK
  <2> QED
      BY Zenon, <1>2, <2>1, <2>2 DEF Published
<1>5. shards' \in [Ids -> ShardRecord \cup {Absent}]
  <2>1. [kind |-> k,
         last_known_good |-> [key |-> k.state.key, shape |-> k.state.shape, ok |-> TRUE],
         reloads_used |-> 0, alive |-> TRUE] \in ShardRecord
      BY SchemasOfKind DEF ShardRecord, Value, Schema
  <2> QED
      BY Zenon, <1>2, <2>1 DEF TypeOK
<1>6. next_shard_id' \in 1..(MaxShards + 1)
    BY <1>2, <1>3, ConstantsAssumption DEF TypeOK
<1> QED
    BY <1>3, <1>4, <1>5, <1>6 DEF TypeOK, traffic, dispatch

(* Both ways to revive produce a record. *)
LEMMA RevivedType ==
    ASSUME NEW rec \in ShardRecord, NEW c \in Value
    PROVE  revived(rec, c) \in ShardRecord /\ fallen_back(rec, c) \in ShardRecord
BY DEF revived, fallen_back, ShardRecord

LEMMA LifecycleType ==
    ASSUME TypeOK, NEW id \in Ids, NEW c \in Payloads, reload(id, c) \/ swap_state(id, c)
    PROVE  TypeOK'
<1>1. c \in Value
    BY ConstantsAssumption
<1>2. shards[id] \in ShardRecord
    BY DEF TypeOK, Registered, find, reload, swap_state
<1>3. shards' \in [Ids -> ShardRecord \cup {Absent}]
  <2>1. CASE reload(id, c)
      BY Zenon, <2>1, <1>1, <1>2, RevivedType DEF reload, TypeOK
  <2>2. CASE swap_state(id, c)
      BY Zenon, <2>2, <1>1, <1>2 DEF swap_state, TypeOK, ShardRecord
  <2> QED
      BY Zenon, <2>1, <2>2
<1>4. UNCHANGED <<registry, next_shard_id, traffic, dispatch>>
    BY DEF reload, swap_state
<1> QED
    BY <1>3, <1>4 DEF TypeOK, traffic, dispatch

(* The type invariant of the bus holds in every reachable state. *)
THEOREM TypeCorrect == Spec => []TypeOK
<1>1. Init => TypeOK
  <2> SUFFICES ASSUME Init PROVE TypeOK
      OBVIOUS
  <2>1. queue \in Seq(Envelope) /\ journal \in Seq(Disposition) /\ Len(journal) = 0
      BY SeqEmpty DEF Init
  <2>2. next_shard_id \in 1..(MaxShards + 1) /\ 0 <= MaxSeq
      BY ConstantsAssumption DEF Init
  <2> QED
      BY Zenon, <2>1, <2>2 DEF Init, TypeOK
<1>2. TypeOK /\ [Next]_vars => TypeOK'
  <2> SUFFICES ASSUME TypeOK, [Next]_vars
               PROVE  TypeOK'
      OBVIOUS
  <2>1. CASE \E k \in Kinds : register_shard(k)
      BY Zenon, <2>1, RegisterType
  <2>2. CASE Sends
    <3>1. PICK n \in Nat, sender \in Targets, gated \in BOOLEAN,
               by \in Kinds \cup {Absent, Root} : Enqueued(n, sender, gated, by)
        BY Zenon, <2>2, SendsEnqueue DEF EnqueuedAs
    <3> QED
        BY Zenon, <3>1 DEF TypeOK, Enqueued, records, dispatch
  <2>3. CASE \E id \in Ids : unregister_shard(id) \/ kill(id)
    <3>1. PICK id \in Ids : unregister_shard(id) \/ kill(id)
        BY <2>3
    <3>2. shards' \in [Ids -> ShardRecord \cup {Absent}]
        BY <3>1 DEF unregister_shard, kill, TypeOK, Registered, find, ShardRecord
    <3> QED
        BY <3>1, <3>2 DEF unregister_shard, kill, TypeOK, traffic, dispatch
  <2>4. CASE \E id \in Ids, c \in Payloads : reload(id, c) \/ swap_state(id, c)
      BY <2>4, LifecycleType
  <2>5. CASE stop
      BY <2>5 DEF stop, TypeOK, records, traffic
  <2>6. CASE pump_begin
      BY Zenon, <2>6 DEF pump_begin, enter_loop, Callable, TypeOK, records, traffic
  <2>7. CASE deliver_refused
    <3>1. fate(Head(queue)) \in Disposition
        BY Zenon, <2>7 DEF deliver_refused, Disposition
    <3>2. journal' \in Seq(Disposition) /\ Len(journal') = Len(journal)
        BY Zenon, <2>7, <3>1, RecordType DEF deliver_refused
    <3>3. queue' \in Seq(Envelope)
        BY Zenon, <2>7, PoppedType DEF deliver_refused
    <3> QED
        BY <2>7, <3>2, <3>3 DEF deliver_refused, Popped, TypeOK, records
  <2>8. CASE deliver_begin
    <3>1. Head(queue) \in Envelope /\ queue' \in Seq(Envelope)
        BY Zenon, <2>8, PoppedType DEF deliver_begin
    <3> QED
        BY Zenon, <2>8, <3>1, SentinelAssumption DEF deliver_begin, Popped, TypeOK, records
  <2>9. CASE deliver_end
    <3>1. journal' \in Seq(Disposition) /\ Len(journal') = Len(journal)
        BY Zenon, <2>9, RecordType DEF deliver_end, Disposition
    <3> QED
        BY Zenon, <2>9, <3>1 DEF deliver_end, TypeOK, records
  <2>10. CASE emit_end
      BY Zenon, <2>10 DEF emit_end, TypeOK, records, traffic
  <2>11. CASE pump_end
      BY Zenon, <2>11 DEF pump_end, leave_loop, TypeOK, records, traffic
  <2>12. CASE throw
      BY <2>12 DEF throw, unwind, TypeOK, records, traffic
  <2>13. CASE UNCHANGED vars
      BY <2>13 DEF vars, TypeOK
  <2> QED
      BY Zenon, <2>1, <2>2, <2>3, <2>4, <2>5, <2>6, <2>7, <2>8, <2>9, <2>10, <2>11, <2>12, <2>13
      DEF Next, Dispatch, Sends
<1> QED
    BY <1>1, <1>2, PTL DEF Spec

-----------------------------------------------------------------------------
(* Delivery order. *)

(* Sending moves neither the frontier nor anything at or before it. *)
LEMMA SendsKeepOrder ==
    ASSUME TypeOK, DeliveryOrder, Sends
    PROVE  DeliveryOrder'
<1>1. PICK n \in Nat, sender \in Targets, gated \in BOOLEAN,
           by \in Kinds \cup {Absent, Root} : Enqueued(n, sender, gated, by)
    BY Zenon, SendsEnqueue DEF EnqueuedAs
<1>2. /\ Len(journal) \in Nat /\ Len(queue) \in Nat
      /\ Len(journal') = Len(journal) + n
      /\ Len(queue') = Len(queue) + n
      /\ pc' = pc /\ cur' = cur /\ in_dispatch' = in_dispatch
    BY <1>1 DEF Enqueued, TypeOK, dispatch
<1>3. Frontier' = Frontier /\ Frontier \in 0..Len(journal)
    BY <1>2 DEF Frontier, DeliveryOrder
<1>4. \A s \in 1..Frontier : journal'[s] = journal[s]
    BY <1>1, <1>2, <1>3 DEF Enqueued
<1>5. \A i \in 1..Len(queue') : queue'[i].seq = Frontier + i
  <2>1. \A i \in 1..Len(queue) : queue'[i].seq = Frontier + i
      BY Zenon, <1>1 DEF Enqueued, DeliveryOrder
  <2>2. \A i \in (Len(queue) + 1)..Len(queue') : queue'[i].seq = Frontier + i
      BY <1>1, <1>2 DEF Enqueued, Frontier
  <2> QED
      BY <1>2, <2>1, <2>2
<1>6. \A s \in 1..Len(journal') : s > Frontier => journal'[s] = Pending
  <2>1. \A s \in 1..Len(journal) : s > Frontier => journal'[s] = Pending
      BY Zenon, <1>1 DEF Enqueued, DeliveryOrder
  <2>2. \A s \in (Len(journal) + 1)..Len(journal') : journal'[s] = Pending
      BY Zenon, <1>1 DEF Enqueued
  <2> QED
      BY <1>2, <2>1, <2>2
<1> QED
    BY <1>2, <1>3, <1>4, <1>5, <1>6 DEF DeliveryOrder

(* Taking the next delivery off the queue: the frontier advances by one, to
   the ticket of the envelope taken. *)
LEMMA PoppedOrder ==
    ASSUME TypeOK, DeliveryOrder, Popped
    PROVE  /\ Head(queue).seq = Frontier + 1
           /\ Frontier + 1 \in 1..Len(journal)
           /\ Len(journal) \in Nat
           /\ Len(journal) - Len(queue') = Frontier + 1
           /\ \A i \in 1..Len(queue') : queue'[i].seq = Frontier + 1 + i
           /\ \A s \in 1..Frontier : journal[s] # Pending
<1>1. Len(journal) \in Nat
    BY DEF TypeOK
<1>2. /\ Head(queue) = queue[1]
      /\ Len(queue) \in Nat \ {0}
      /\ Len(queue') = Len(queue) - 1
      /\ \A i \in 1..Len(queue') : queue'[i] = queue[i + 1]
    BY Zenon, PoppedType
<1>3. Frontier \in Nat /\ pc = "loop"
    BY <1>1, <1>2 DEF DeliveryOrder, Frontier, Popped
<1>4. \A s \in 1..Frontier : journal[s] # Pending
    BY <1>3 DEF DeliveryOrder
<1>5. \A i \in 1..Len(queue') : queue'[i].seq = Frontier + 1 + i
    BY <1>2, <1>3 DEF DeliveryOrder
<1>6. Head(queue).seq = Frontier + 1
    BY <1>2, <1>3 DEF DeliveryOrder
<1> QED
    BY <1>1, <1>2, <1>3, <1>4, <1>5, <1>6 DEF Frontier

(* DeliveryOrder is inductive, given the types. *)
LEMMA OrderStep ==
    ASSUME TypeOK, TypeOK', DeliveryOrder, [Next]_vars
    PROVE  DeliveryOrder'
<1>0. Len(journal) \in Nat /\ Len(queue) \in Nat /\ Frontier \in 0..Len(journal)
    BY DEF TypeOK, Frontier, DeliveryOrder
<1>1. CASE Sends
    BY <1>1, SendsKeepOrder
<1>2. CASE UNCHANGED <<traffic, dispatch>>
    BY <1>2 DEF traffic, dispatch, DeliveryOrder, Frontier
<1>3. CASE stop
    BY <1>3 DEF stop, traffic, DeliveryOrder, Frontier
<1>4. CASE pump_begin
    BY Zenon, <1>4 DEF pump_begin, enter_loop, Callable, traffic, DeliveryOrder, Frontier, TypeOK
<1>5. CASE deliver_refused
  <2>1. /\ Popped
        /\ pc' = "emit"
        /\ fate(Head(queue)) \in Disposition \ {Pending}
        /\ record(Head(queue).seq, fate(Head(queue)))
      BY Zenon, <1>5 DEF deliver_refused, Disposition, Reasons, Pending, Delivered
  <2>2. /\ Len(journal') = Len(journal)
        /\ \A s \in 1..Len(journal) :
              journal'[s] = IF s = Frontier + 1 THEN fate(Head(queue)) ELSE journal[s]
      BY <2>1, RecordType, PoppedOrder
  <2>3. Frontier' = Frontier + 1
      BY Zenon, <2>1, <2>2, PoppedOrder DEF Frontier
  <2>4. \A s \in 1..Len(journal') : s > Frontier + 1 => journal'[s] = Pending
      BY <1>0, <2>2 DEF DeliveryOrder
  <2>5. \A s \in 1..(Frontier + 1) : journal'[s] # Pending
      BY <1>0, <2>1, <2>2, PoppedOrder
  <2> QED
      BY <1>0, <2>1, <2>3, <2>4, <2>5, PoppedOrder DEF DeliveryOrder
<1>6. CASE deliver_begin
  <2>1. Popped /\ pc' = "handle" /\ cur' = Head(queue) /\ journal' = journal
      BY Zenon, <1>6 DEF deliver_begin
  <2>2. Frontier' = Frontier + 1
      BY Zenon, <2>1, PoppedOrder DEF Frontier
  <2>3. journal[Frontier + 1] = Pending
      BY <1>0, <2>1, PoppedOrder DEF DeliveryOrder
  <2>4. \A s \in 1..Len(journal) : s > Frontier + 1 => journal[s] = Pending
      BY <1>0 DEF DeliveryOrder
  <2> QED
      BY <1>0, <2>1, <2>2, <2>3, <2>4, PoppedOrder DEF DeliveryOrder
<1>7. CASE deliver_end
  <2>1. /\ pc = "handle" /\ pc' = "emit" /\ queue' = queue
        /\ record(cur.seq, Delivered)
        /\ cur.seq = Frontier /\ Frontier >= 1
      BY Zenon, <1>7 DEF deliver_end, DeliveryOrder
  <2>2. /\ Len(journal') = Len(journal)
        /\ \A s \in 1..Len(journal) :
              journal'[s] = IF s = Frontier THEN Delivered ELSE journal[s]
      BY <2>1, RecordType DEF Disposition
  <2>3. Frontier' = Frontier
      BY Zenon, <2>1, <2>2 DEF Frontier
  <2>4. Delivered # Pending
      BY Zenon DEF Delivered, Pending
  <2> QED
      BY <1>0, <2>1, <2>2, <2>3, <2>4 DEF DeliveryOrder
<1>8. CASE emit_end
    BY Zenon, <1>8 DEF emit_end, traffic, DeliveryOrder, Frontier
<1>9. CASE pump_end
    BY Zenon, <1>9 DEF pump_end, leave_loop, traffic, DeliveryOrder, Frontier
<1>10. CASE throw
    BY Zenon, <1>10 DEF throw, unwind, traffic, DeliveryOrder, Frontier, TypeOK
<1> QED
    BY Zenon, <1>1, <1>2, <1>3, <1>4, <1>5, <1>6, <1>7, <1>8, <1>9, <1>10
    DEF Next, Dispatch, Sends, register_shard, unregister_shard, kill, reload, swap_state,
        vars, traffic, dispatch

(* First in, first out, exactly once, for any number of Shards and tickets and
   however handlers, observers and exceptions interleave (switchboard.cpp:209-301). *)
THEOREM OrderCorrect == Spec => []DeliveryOrder
<1>1. Init => DeliveryOrder
    BY DEF Init, DeliveryOrder, Frontier
<1>2. TypeOK /\ TypeOK' /\ DeliveryOrder /\ [Next]_vars => DeliveryOrder'
    BY Zenon, OrderStep
<1> QED
    BY <1>1, <1>2, TypeCorrect, PTL DEF Spec

-----------------------------------------------------------------------------
(* The bus implements the ticket log. *)

(* A step of the bus resolves the oldest pending ticket, issues tickets, or
   leaves the log alone. *)
LEMMA LogStep ==
    ASSUME TypeOK, DeliveryOrder, [Next]_vars
    PROVE  [Log!Next]_journal
<1>0. /\ journal \in Seq(Disposition)
      /\ Len(journal) \in Nat
      /\ DOMAIN journal = 1..Len(journal)
      /\ Frontier \in 0..Len(journal)
    BY SeqLength DEF TypeOK, Frontier, DeliveryOrder
<1>1. CASE Sends
  <2>1. PICK n \in Nat, sender \in Targets, gated \in BOOLEAN,
             by \in Kinds \cup {Absent, Root} : Enqueued(n, sender, gated, by)
      BY Zenon, <1>1, SendsEnqueue DEF EnqueuedAs
  <2>2. CASE n = 0
    <3>1. /\ journal' \in Seq(Disposition)
          /\ Len(journal') = Len(journal)
          /\ \A s \in 1..Len(journal) : journal'[s] = journal[s]
        BY <2>1, <2>2, <1>0 DEF Enqueued
    <3>2. journal' = journal
        BY Zenon, <3>1, <1>0, SeqSame
    <3> QED
        BY <3>2
  <2>3. CASE n # 0
    <3>1. Log!Issue
        BY <2>1, <2>3, <1>0 DEF Enqueued, Log!Issue, Pending
    <3> QED
        BY Zenon, <3>1 DEF Log!Next
  <2> QED
      BY <2>2, <2>3
<1>2. CASE deliver_refused
  <2>1. /\ fate(Head(queue)) \in {Delivered} \cup Reasons
        /\ journal' = [journal EXCEPT ![Frontier + 1] = fate(Head(queue))]
        /\ Frontier + 1 \in 1..Len(journal)
        /\ \A s \in 1..Frontier : journal[s] # Pending
      BY Zenon, <1>2, PoppedOrder DEF deliver_refused, record
  <2>2. journal[Frontier + 1] = Pending
      BY <1>0, <2>1 DEF DeliveryOrder
  <2>3. ASSUME NEW f, f = fate(Head(queue)), NEW t, t = Frontier + 1
        PROVE  Log!Resolve
    <3>1. t \in DOMAIN journal /\ f \in {Delivered} \cup Reasons
        BY <1>0, <2>1, <2>3
    <3>2. \A u \in 1..(t - 1) : journal[u] # Pending
        BY <1>0, <2>1, <2>3
    <3>3. journal[t] = Pending /\ journal' = [journal EXCEPT ![t] = f]
        BY <2>1, <2>2, <2>3
    <3> QED
        BY <3>1, <3>2, <3>3, Zenon DEF Log!Resolve
  <2> QED
      BY Zenon, <2>3 DEF Log!Next
<1>3. CASE deliver_end
  <2>1. /\ journal' = [journal EXCEPT ![Frontier] = Delivered]
        /\ Frontier >= 1
        /\ journal[Frontier] = Pending
        /\ \A s \in 1..(Frontier - 1) : journal[s] # Pending
      BY Zenon, <1>3 DEF deliver_end, record, DeliveryOrder
  <2>2. Frontier \in DOMAIN journal /\ Delivered \in {Delivered} \cup Reasons
      BY <1>0, <2>1
  <2>3. Log!Resolve
      BY <2>1, <2>2, Zenon DEF Log!Resolve
  <2> QED
      BY <2>3 DEF Log!Next
<1>4. CASE journal' = journal
    BY <1>4
<1> QED
    BY Zenon, <1>1, <1>2, <1>3, <1>4
    DEF Next, Dispatch, Sends, register_shard, unregister_shard, kill, reload, swap_state,
        stop, pump_begin, enter_loop, deliver_begin, emit_end, pump_end, leave_loop,
        throw, unwind, vars, traffic

(* What the holder of a Ticket may rely on: its disposition is Pending until it
   is decided, it is decided once, and never before an earlier ticket's
   (switchboard.hpp:146-152). *)
THEOREM RefinesDeliveryLog == Spec => ImplementsDeliveryLog
<1>1. Init => Log!Init
    BY DEF Init, Log!Init
<1>2. TypeOK /\ DeliveryOrder /\ [Next]_vars => [Log!Next]_journal
    BY LogStep
<1> QED
    BY <1>1, <1>2, TypeCorrect, OrderCorrect, PTL DEF Spec, ImplementsDeliveryLog, Log!Spec


-----------------------------------------------------------------------------
(* Ids. *)

(* next_shard_id_ is past every registered id, so no id is issued twice. *)
IssuedIds == \A id \in Ids : id >= next_shard_id => shards[id] = Absent

(* What any step does to an id already issued: it stays what it is, or its
   Shard is removed for good. *)
KindsKept ==
    /\ next_shard_id' >= next_shard_id
    /\ \A id \in Ids : id < next_shard_id =>
          \/ shards'[id] = Absent
          \/ /\ shards[id] # Absent
             /\ shards'[id] # Absent
             /\ shards'[id].kind = shards[id].kind

LEMMA RecordIsNotAbsent ==
    ASSUME NEW rec \in ShardRecord
    PROVE  rec # Absent
BY SentinelAssumption

(* A registration that succeeds takes the next id; one that throws takes none. *)
LEMMA RegisterTakesNextId ==
    ASSUME TypeOK, NEW k \in Kinds, register_shard(k)
    PROVE  \/ UNCHANGED <<shards, next_shard_id>>
           \/ /\ next_shard_id \in Ids
              /\ next_shard_id' = next_shard_id + 1
              /\ shards'[next_shard_id].kind = k
              /\ shards'[next_shard_id].last_known_good =
                    [key |-> k.state.key, shape |-> k.state.shape, ok |-> TRUE]
              /\ shards'[next_shard_id].reloads_used = 0
              /\ \A id \in Ids : id # next_shard_id => shards'[id] = shards[id]
<1>1. CASE UNCHANGED <<shards, next_shard_id>>
    BY Zenon, <1>1
<1>2. CASE ~UNCHANGED <<shards, next_shard_id>>
  <2>1. /\ next_shard_id' = next_shard_id + 1
        /\ next_shard_id <= MaxShards
        /\ shards' = [shards EXCEPT ![next_shard_id] =
                        [kind |-> k,
                         last_known_good |-> [key |-> k.state.key, shape |-> k.state.shape,
                                              ok |-> TRUE],
                         reloads_used |-> 0, alive |-> TRUE]]
      BY Zenon, <1>2 DEF register_shard
  <2>2. next_shard_id \in Ids
      BY <2>1, ConstantsAssumption DEF TypeOK, Ids
  <2> QED
      BY Zenon, <2>1, <2>2 DEF TypeOK
<1> QED
    BY <1>1, <1>2

(* The lifecycle calls on one Shard. *)
Lifecycle(id) == kill(id) \/ \E c \in Payloads : reload(id, c) \/ swap_state(id, c)

(* The lifecycle calls change one existing record and never its kind. *)
LEMMA LifecycleKeepsKind ==
    ASSUME TypeOK, NEW id \in Ids, Lifecycle(id)
    PROVE  /\ shards[id] \in ShardRecord
           /\ shards'[id] \in ShardRecord
           /\ shards'[id].kind = shards[id].kind
           /\ \A other \in Ids : other # id => shards'[other] = shards[other]
           /\ UNCHANGED <<registry, next_shard_id, traffic, dispatch>>
<1>1. shards[id] \in ShardRecord /\ shards \in [Ids -> ShardRecord \cup {Absent}]
    BY Zenon DEF TypeOK, Registered, find, Lifecycle, kill, reload, swap_state
<1>2. CASE kill(id)
    BY Zenon, <1>1, <1>2 DEF kill, ShardRecord
<1>3. ASSUME NEW c \in Payloads, reload(id, c)
      PROVE  /\ shards'[id] \in ShardRecord
             /\ shards'[id].kind = shards[id].kind
             /\ \A other \in Ids : other # id => shards'[other] = shards[other]
  <2>1. /\ revived(shards[id], c).kind = shards[id].kind
        /\ fallen_back(shards[id], c).kind = shards[id].kind
      BY Zenon DEF revived, fallen_back
  <2>2. c \in Value
      BY Zenon, ConstantsAssumption
  <2> QED
      BY Zenon, <1>1, <1>3, <2>1, <2>2, RevivedType DEF reload
<1>4. ASSUME NEW c \in Payloads, swap_state(id, c)
      PROVE  /\ shards'[id] \in ShardRecord
             /\ shards'[id].kind = shards[id].kind
             /\ \A other \in Ids : other # id => shards'[other] = shards[other]
    BY Zenon, <1>1, <1>4, ConstantsAssumption DEF swap_state, ShardRecord
<1>5. UNCHANGED <<registry, next_shard_id, traffic, dispatch>>
    BY Zenon DEF Lifecycle, kill, reload, swap_state
<1> QED
    BY Zenon, <1>1, <1>2, <1>3, <1>4, <1>5 DEF Lifecycle

(* Every other step leaves the records alone. *)
LEMMA RecordsCases ==
    ASSUME [Next]_vars
    PROVE  \/ UNCHANGED records
           \/ \E k \in Kinds : register_shard(k)
           \/ \E id \in Ids : unregister_shard(id)
           \/ \E id \in Ids : Lifecycle(id)
BY Zenon DEF Next, Dispatch, Lifecycle, records, vars, send, publish, send_as, publish_as,
       ShardBus_send, ShardBus_publish, enqueue_directed, fanout, stop, pump_begin, enter_loop,
       deliver_refused, deliver_begin, deliver_end, emit_end, pump_end, leave_loop, throw, unwind

LEMMA RecordsStep ==
    ASSUME TypeOK, IssuedIds, [Next]_vars
    PROVE  IssuedIds' /\ KindsKept
<1>0. next_shard_id \in Nat /\ \A id \in Ids : id \in Nat
    BY DEF TypeOK, Ids
<1>1. CASE UNCHANGED <<shards, next_shard_id>>
    BY <1>0, <1>1 DEF IssuedIds, KindsKept
<1>2. CASE \E k \in Kinds : register_shard(k)
  <2>1. PICK k \in Kinds : register_shard(k)
      BY <1>2
  <2>2. CASE next_shard_id' = next_shard_id + 1
    <3>1. \A id \in Ids : id # next_shard_id => shards'[id] = shards[id]
        BY Zenon, <2>1, <2>2, <1>0, RegisterTakesNextId
    <3>2. IssuedIds'
        BY <1>0, <2>2, <3>1 DEF IssuedIds
    <3>3. KindsKept
        BY <1>0, <2>2, <3>1 DEF KindsKept
    <3> QED
        BY <3>2, <3>3
  <2> QED
      BY Zenon, <1>1, <2>1, <2>2, RegisterTakesNextId
<1>3. CASE \E id \in Ids : unregister_shard(id)
    BY <1>0, <1>3 DEF unregister_shard, IssuedIds, KindsKept, TypeOK
<1>4. CASE \E id \in Ids : Lifecycle(id)
  <2>1. PICK id \in Ids : Lifecycle(id)
      BY Zenon, <1>4
  <2>2. /\ shards[id] # Absent /\ shards'[id] # Absent
        /\ shards'[id].kind = shards[id].kind
        /\ \A other \in Ids : other # id => shards'[other] = shards[other]
        /\ next_shard_id' = next_shard_id
      BY Zenon, <2>1, LifecycleKeepsKind, RecordIsNotAbsent
  <2>3. IssuedIds'
      BY Zenon, <1>0, <2>2 DEF IssuedIds
  <2>4. KindsKept
      BY <1>0, <2>2 DEF KindsKept
  <2> QED
      BY Zenon, <2>3, <2>4
<1> QED
    BY <1>1, <1>2, <1>3, <1>4, RecordsCases DEF records

-----------------------------------------------------------------------------
(* Authority. *)

(* An envelope a Shard originated is gated, carries an issued id, and names
   its originator as long as that one is registered. *)
Provenance(env) ==
    env.by # Root =>
        /\ env.gated
        /\ env.sender < next_shard_id
        /\ Registered(env.sender) => shards[env.sender].kind = env.by

QueueProvenance == \A i \in 1..Len(queue) : Provenance(queue[i])

AuthorityInv == IssuedIds /\ QueueProvenance /\ NoOverreach

(* What deliver_one has established when it calls the handler. *)
LEMMA FateDelivered ==
    ASSUME NEW env, fate(env) = Delivered
    PROVE  /\ Registered(env.target)
           /\ env.gated => /\ Registered(env.sender)
                           /\ permits(shards[env.sender].kind.grant, env.payload.key, env.target)
           /\ Accepts(shards[env.target].kind, env.payload.key)
           /\ admit(env.payload, accept_match(shards[env.target].kind, env.payload.key))
BY Zenon DEF fate, Delivered

(* Provenance outlives every step: an issued id never changes its Shard. *)
LEMMA ProvenanceKept ==
    ASSUME TypeOK, TypeOK', KindsKept, NEW env \in Envelope, Provenance(env)
    PROVE  Provenance(env)'
<1>1. /\ next_shard_id \in Nat /\ next_shard_id' \in Nat
      /\ next_shard_id' >= next_shard_id
      /\ env.sender \in Nat
    BY DEF TypeOK, KindsKept, Envelope, Targets
<1>2. \A id \in Ids : id < next_shard_id /\ shards'[id] # Absent =>
        shards[id] # Absent /\ shards'[id].kind = shards[id].kind
    BY Zenon DEF KindsKept
<1> QED
    BY <1>1, <1>2 DEF Provenance, Registered, find

(* The steps that take no envelope and add none. *)
LEMMA QueueCases ==
    ASSUME TypeOK, [Next]_vars
    PROVE  \/ Sends
           \/ Popped /\ (deliver_refused \/ deliver_begin)
           \/ queue' = queue /\ (pc' # "handle" \/ UNCHANGED <<pc, cur>>)
BY Zenon DEF Next, Dispatch, Sends, TypeOK, vars, traffic, dispatch, register_shard, unregister_shard, kill,
       reload, swap_state, stop, pump_begin, enter_loop, deliver_refused, deliver_begin,
       deliver_end, emit_end, pump_end, leave_loop, throw, unwind

(* ... also that of an envelope that moved up in the queue. *)
LEMMA ProvenanceOf ==
    ASSUME TypeOK, TypeOK', KindsKept, NEW i, NEW j,
           queue[j] \in Envelope, Provenance(queue[j]), queue'[i] = queue[j]
    PROVE  Provenance(queue[i])'
<1>1. ASSUME NEW CONSTANT e, e = queue[j]
      PROVE  Provenance(queue[i])'
    BY <1>1, ProvenanceKept DEF Provenance, Registered, find
<1> QED
    BY <1>1

LEMMA QueueProvenanceStep ==
    ASSUME TypeOK, TypeOK', IssuedIds, QueueProvenance, [Next]_vars
    PROVE  QueueProvenance'
<1>1. KindsKept
    BY Zenon, RecordsStep
<1>2. \A i \in 1..Len(queue) : queue[i] \in Envelope
    BY Zenon, SeqElement DEF TypeOK
<1>3. \A i \in 1..Len(queue) : Provenance(queue[i])
    BY Zenon DEF QueueProvenance
<1>4. CASE Sends
  <2>1. PICK n \in Nat, sender \in Targets, gated \in BOOLEAN,
             by \in Kinds \cup {Absent, Root} : EnqueuedAs(n, sender, gated, by)
      BY Zenon, <1>4, SendsEnqueue
  <2>2. /\ UNCHANGED <<shards, next_shard_id>>
        /\ Len(queue) \in Nat
        /\ Len(queue') = Len(queue) + n
        /\ \A i \in 1..Len(queue) : queue'[i] = queue[i]
        /\ \A i \in (Len(queue) + 1)..Len(queue') :
              queue'[i].sender = sender /\ queue'[i].gated = gated /\ queue'[i].by = by
      BY <2>1 DEF EnqueuedAs, Enqueued, records, TypeOK
  <2>3. by # Root => gated /\ sender < next_shard_id /\ (Registered(sender) => shards[sender].kind = by)
      BY Zenon, <2>1 DEF EnqueuedAs, origin
  <2>4. ASSUME NEW i \in 1..Len(queue')
        PROVE  Provenance(queue'[i])
    <3>1. CASE i \in 1..Len(queue)
        BY Zenon, <3>1, <1>3, <2>2
    <3>2. CASE i \in (Len(queue) + 1)..Len(queue')
        BY Zenon, <3>2, <2>2, <2>3 DEF Provenance
    <3> QED
        BY <2>2, <3>1, <3>2
  <2> QED
      BY Zenon, <2>2, <2>4 DEF QueueProvenance, Provenance, Registered, find
<1>5. CASE Popped
  <2>1. /\ Len(queue) \in Nat
        /\ Len(queue') = Len(queue) - 1
        /\ \A i \in 1..Len(queue') : queue'[i] = queue[i + 1]
      BY Zenon, <1>5, PoppedType
  <2>2. ASSUME NEW i \in 1..Len(queue')
        PROVE  Provenance(queue[i])'
    <3>1. i + 1 \in 1..Len(queue) /\ queue'[i] = queue[i + 1]
        BY <2>1
    <3> QED
        BY Zenon, <1>1, <1>2, <1>3, <3>1, ProvenanceOf
  <2> QED
      BY Zenon, <2>2 DEF QueueProvenance
<1>6. CASE queue' = queue
    BY Zenon, <1>1, <1>2, <1>3, <1>6, ProvenanceOf DEF QueueProvenance
<1> QED
    BY <1>4, <1>5, <1>6, QueueCases

LEMMA NoOverreachStep ==
    ASSUME TypeOK, TypeOK', QueueProvenance, NoOverreach, [Next]_vars
    PROVE  NoOverreach'
<1>1. CASE deliver_begin
  <2>1. /\ cur' = Head(queue)
        /\ fate(Head(queue)) = Delivered
        /\ Head(queue) \in Envelope
        /\ Provenance(Head(queue))
      BY <1>1, PoppedType DEF deliver_begin, QueueProvenance
  <2>2. ASSUME cur'.by # Root
        PROVE  cur'.by \in Kinds /\ permits(cur'.by.grant, cur'.payload.key, cur'.target)
    <3>1. /\ Registered(cur'.sender)
          /\ shards[cur'.sender].kind = cur'.by
          /\ permits(shards[cur'.sender].kind.grant, cur'.payload.key, cur'.target)
        BY Zenon, <2>1, <2>2, FateDelivered DEF Provenance
    <3>2. shards[cur'.sender] \in ShardRecord
        BY Zenon, <3>1 DEF Registered, find, TypeOK
    <3> QED
        BY Zenon, <3>1, <3>2 DEF ShardRecord
  <2> QED
      BY Zenon, <2>2 DEF NoOverreach, permits
<1>2. CASE pc' # "handle" \/ UNCHANGED <<pc, cur>>
    BY Zenon, <1>2 DEF NoOverreach, permits
<1>3. CASE Sends
  <2>1. UNCHANGED <<pc, cur>>
      BY Zenon, <1>3, SendsEnqueue DEF EnqueuedAs, Enqueued, dispatch
  <2> QED
      BY Zenon, <1>2, <2>1
<1>4. CASE deliver_refused
    BY <1>2, <1>4 DEF deliver_refused
<1> QED
    BY Zenon, <1>1, <1>2, <1>3, <1>4, QueueCases

(* No Shard, however it is written and whatever the others do, gets a message
   past the grant it was registered with (switchboard.cpp:185-193, 240-252). *)
THEOREM AuthorityCorrect == Spec => []NoOverreach
<1>1. Init => AuthorityInv
    BY DEF Init, AuthorityInv, IssuedIds, QueueProvenance, NoOverreach
<1>2. TypeOK /\ TypeOK' /\ AuthorityInv /\ [Next]_vars => AuthorityInv'
    BY RecordsStep, QueueProvenanceStep, NoOverreachStep DEF AuthorityInv
<1>3. AuthorityInv => NoOverreach
    BY DEF AuthorityInv
<1> QED
    BY <1>1, <1>2, <1>3, TypeCorrect, PTL DEF Spec

-----------------------------------------------------------------------------
(* Conformance. *)

(* Publishing the first n schemas of a Shard keeps what is published, and
   publishes each of them. *)
LEMMA PublishedExtends ==
    ASSUME TypeOK, NEW ss \in Seq(Schema), NEW n \in 0..Len(ss), NoConflict(ss, n)
    PROVE  /\ \A key \in Keys : registry[key] # Unset => Published(ss, n)[key] = registry[key]
           /\ \A i \in 1..n : Published(ss, n)[ss[i].key] = ss[i].shape
<1>1. \A i \in 1..n : ss[i] \in Schema
    BY SeqElement
<1>2. ASSUME NEW i \in 1..n
      PROVE  Published(ss, n)[ss[i].key] = ss[i].shape
  <2> DEFINE j == CHOOSE j \in 1..n : ss[j].key = ss[i].key
  <2>1. j \in 1..n /\ ss[j].key = ss[i].key
      BY Zenon, <1>2
  <2>2. ss[j].shape = ss[i].shape
      BY Zenon, <2>1 DEF NoConflict
  <2>3. ss[i].key \in Keys
      BY Zenon, <1>1 DEF Schema
  <2> QED
      BY Zenon, <2>2, <2>3 DEF Published
<1>3. ASSUME NEW key \in Keys, registry[key] # Unset
      PROVE  Published(ss, n)[key] = registry[key]
  <2>1. CASE \E i \in 1..n : ss[i].key = key
    <3>1. PICK i \in 1..n : ss[i].key = key
        BY Zenon, <2>1
    <3>2. registry[key] = ss[i].shape
        BY Zenon, <3>1, <1>3 DEF NoConflict
    <3> QED
        BY Zenon, <3>1, <3>2, <1>2
  <2>2. CASE ~\E i \in 1..n : ss[i].key = key
      BY Zenon, <2>2 DEF Published
  <2> QED
      BY Zenon, <2>1, <2>2
<1> QED
    BY <1>2, <1>3

(* A published schema is never changed or withdrawn. *)
LEMMA RegistryGrows ==
    ASSUME TypeOK, [Next]_vars, NEW key \in Keys, registry[key] # Unset
    PROVE  registry'[key] = registry[key]
<1>1. ASSUME NEW k \in Kinds, register_shard(k)
      PROVE  registry'[key] = registry[key]
  <2> DEFINE ss == Append(k.accept, k.state)
  <2>1. ss \in Seq(Schema)
      BY Zenon, SchemasOfKind
  <2>2. PICK n \in 0..Len(ss) : NoConflict(ss, n) /\ registry' = Published(ss, n)
      BY Zenon, <1>1 DEF register_shard
  <2> HIDE DEF ss
  <2> QED
      BY Zenon, <2>1, <2>2, PublishedExtends
<1> QED
    BY Zenon, <1>1, RecordsCases, LifecycleKeepsKind DEF records, unregister_shard

(* The schemas of kind k are the published ones. *)
Agrees(k) ==
    /\ registry[k.state.key] = k.state.shape
    /\ \A i \in 1..Len(k.accept) : registry[k.accept[i].key] = k.accept[i].shape

LEMMA AgreesKept ==
    ASSUME TypeOK, [Next]_vars, NEW k \in Kinds, Agrees(k)
    PROVE  Agrees(k)'
<1>1. k.state \in Schema /\ \A i \in 1..Len(k.accept) : k.accept[i] \in Schema
    BY Zenon, SchemasOfKind, SeqElement
<1>2. \A key \in Keys : registry[key] \in Shapes => registry'[key] = registry[key]
    BY Zenon, RegistryGrows, ConstantsAssumption
<1> QED
    BY Zenon, <1>1, <1>2 DEF Agrees, Schema

(* A registration that succeeds has published all its schemas. *)
LEMMA RegisteredAgrees ==
    ASSUME TypeOK, NEW k \in Kinds, register_shard(k), ~UNCHANGED <<shards, next_shard_id>>
    PROVE  Agrees(k)'
<1> DEFINE ss == Append(k.accept, k.state)
<1>1. /\ ss \in Seq(Schema)
      /\ Len(ss) = Len(k.accept) + 1
      /\ Len(k.accept) \in Nat
      /\ \A i \in 1..Len(k.accept) : ss[i] = k.accept[i]
      /\ ss[Len(k.accept) + 1] = k.state
    BY SchemasOfKind
<1>2. NoConflict(ss, Len(ss)) /\ registry' = Published(ss, Len(ss))
    BY Zenon DEF register_shard
<1> HIDE DEF ss
<1>3. \A i \in 1..Len(ss) : registry'[ss[i].key] = ss[i].shape
    BY <1>1, <1>2, PublishedExtends
<1> QED
    BY <1>1, <1>3 DEF Agrees

LEMMA DoorsAgreeStep ==
    ASSUME TypeOK, TypeOK', IssuedIds, DoorsAgree, [Next]_vars
    PROVE  DoorsAgree'
<1> SUFFICES ASSUME NEW id \in Ids, shards'[id] # Absent
             PROVE  Agrees(shards[id].kind)'
    BY Zenon DEF DoorsAgree, Agrees, Registered, find
<1>1. next_shard_id \in Nat /\ id \in Nat
    BY DEF TypeOK, Ids
<1>2. CASE id < next_shard_id
  <2>1. shards[id] # Absent /\ shards'[id].kind = shards[id].kind
      BY Zenon, <1>2, RecordsStep DEF KindsKept
  <2>2. shards[id].kind \in Kinds /\ Agrees(shards[id].kind)
      BY Zenon, <2>1 DEF TypeOK, ShardRecord, DoorsAgree, Agrees, Registered, find
  <2>3. ASSUME NEW CONSTANT k, k = shards[id].kind
        PROVE  Agrees(shards[id].kind)'
      BY Zenon, <2>1, <2>2, <2>3, AgreesKept DEF Agrees
  <2> QED
      BY Zenon, <2>3
<1>3. CASE ~(id < next_shard_id)
  <2>1. shards[id] = Absent
      BY <1>1, <1>3 DEF IssuedIds
  <2>2. PICK k \in Kinds : register_shard(k)
      BY Zenon, <2>1, RecordsCases, LifecycleKeepsKind, RecordIsNotAbsent
      DEF records, unregister_shard, TypeOK
  <2>3. /\ ~UNCHANGED <<shards, next_shard_id>>
        /\ id = next_shard_id
        /\ shards'[id].kind = k
      BY Zenon, <2>1, <2>2, RegisterTakesNextId
  <2> QED
      BY Zenon, <2>2, <2>3, RegisteredAgrees DEF Agrees
<1> QED
    BY Zenon, <1>2, <1>3

DoorsInv == IssuedIds /\ DoorsAgree

LEMMA DoorsInvariant == Spec => []DoorsInv
<1>1. Init => DoorsInv
    BY DEF Init, DoorsInv, IssuedIds, DoorsAgree, Registered, find
<1>2. TypeOK /\ TypeOK' /\ DoorsInv /\ [Next]_vars => DoorsInv'
    BY RecordsStep, DoorsAgreeStep DEF DoorsInv
<1> QED
    BY <1>1, <1>2, TypeCorrect, PTL DEF Spec

(* All Shards registered together agree on every schema they declare, also
   past registrations that threw halfway (switchboard.cpp:99-114). *)
THEOREM DoorsCorrect == Spec => []DoorsAgree
<1>1. DoorsInv => DoorsAgree
    BY DEF DoorsInv
<1> QED
    BY <1>1, DoorsInvariant, PTL

(* The Shard whose handler runs stays registered, as the same Shard. *)
LEMMA HandledShardStays ==
    ASSUME TypeOK, IssuedIds, [Next]_vars, pc = "handle", Registered(cur.target)
    PROVE  /\ Registered(cur.target) /\ cur.target \in Ids
           /\ shards'[cur.target] # Absent
           /\ shards'[cur.target].kind = shards[cur.target].kind
<1>1. cur.target \in Ids /\ shards[cur.target] # Absent
    BY Zenon DEF Registered, find
<1>2. next_shard_id \in Nat /\ cur.target \in Nat
    BY <1>1 DEF TypeOK, Ids
<1>3. cur.target < next_shard_id
    BY <1>1, <1>2 DEF IssuedIds
<1>4. shards'[cur.target] # Absent
  <2>1. CASE UNCHANGED records
      BY Zenon, <1>1, <2>1 DEF records
  <2>2. CASE \E k \in Kinds : register_shard(k)
    <3>1. PICK k \in Kinds : register_shard(k)
        BY Zenon, <2>2
    <3>a. cur.target # next_shard_id
        BY <1>2, <1>3
    <3>b. \/ shards' = shards
          \/ \A id \in Ids : id # next_shard_id => shards'[id] = shards[id]
        BY Zenon, <3>1, RegisterTakesNextId
    <3>2. shards'[cur.target] = shards[cur.target]
        BY <1>1, <3>a, <3>b
    <3> QED
        BY Zenon, <1>1, <3>2
  <2>3. CASE \E id \in Ids : unregister_shard(id)
      BY <1>1, <2>3 DEF unregister_shard, TypeOK
  <2>4. CASE \E id \in Ids : Lifecycle(id)
      BY <1>1, <2>4, LifecycleKeepsKind, RecordIsNotAbsent
  <2> QED
      BY Zenon, <2>1, <2>2, <2>3, <2>4, RecordsCases
<1> QED
    BY <1>1, <1>3, <1>4, RecordsStep DEF KindsKept

INSTANCE WellFoundedInduction

(* A set of naturals has a least element. *)
LEMMA LeastElement ==
    ASSUME NEW D, D \subseteq Nat, D # {}
    PROVE  \E i \in D : \A j \in D : i <= j
<1> DEFINE R == OpToRel(<, Nat)
<1>1. IsWellFoundedOn(R, Nat)
    BY NatLessThanWellFounded
<1>2. \A i, j \in Nat : j < i => <<j, i>> \in R
    BY Zenon DEF OpToRel
<1> HIDE DEF R
<1>3. PICK i \in D : \A j \in D : ~(<<j, i>> \in R)
    BY Zenon, <1>1, WFMin
<1>4. \A j \in D : i \in Nat /\ j \in Nat /\ ~(j < i)
    BY Zenon, <1>2, <1>3
<1> QED
    BY <1>4

(* The door accept_match finds is one of the accept-set, under that key. *)
LEMMA AcceptMatch ==
    ASSUME NEW k \in Kinds, NEW key, Accepts(k, key)
    PROVE  \E i \in 1..Len(k.accept) :
              accept_match(k, key) = k.accept[i] /\ k.accept[i].key = key
<1>1. k.accept \in Seq(Schema)
    BY Zenon, SchemasOfKind
<1>2. Doors(k, key) \subseteq Nat /\ Doors(k, key) # {}
    BY <1>1 DEF Doors, Accepts
<1>3. \E i \in Doors(k, key) : \A j \in Doors(k, key) : i <= j
    BY Zenon, <1>2, LeastElement
<1> DEFINE first == CHOOSE i \in Doors(k, key) : \A j \in Doors(k, key) : i <= j
<1>4. first \in Doors(k, key) /\ accept_match(k, key) = k.accept[first]
    BY Zenon, <1>3 DEF accept_match
<1> HIDE DEF first
<1>5. first \in 1..Len(k.accept) /\ k.accept[first].key = key
    BY <1>1, <1>4 DEF Doors
<1> QED
    BY <1>4, <1>5

LEMMA GatedDeliveryStep ==
    ASSUME TypeOK, TypeOK', DoorsInv, GatedDelivery, [Next]_vars
    PROVE  GatedDelivery'
<1>0. IssuedIds /\ DoorsAgree /\ GatedDelivery
    BY Zenon DEF DoorsInv
<1>1. CASE deliver_begin
  <2> DEFINE env == Head(queue)
             k == shards[env.target].kind
             door == accept_match(k, env.payload.key)
  <2>1. /\ env \in Envelope /\ cur' = env
        /\ UNCHANGED records
        /\ fate(env) = Delivered
      BY Zenon, <1>1, PoppedType DEF deliver_begin
  <2>2. /\ Registered(env.target)
        /\ Accepts(k, env.payload.key)
        /\ admit(env.payload, door)
      BY Zenon, <2>1, FateDelivered
  <2>3. env.target \in Ids /\ k \in Kinds
      BY Zenon, <2>2 DEF Registered, find, TypeOK, ShardRecord
  <2>4. PICK i \in 1..Len(k.accept) : door = k.accept[i] /\ k.accept[i].key = env.payload.key
      BY Zenon, <2>2, <2>3, AcceptMatch
  <2>5. registry[k.accept[i].key] = k.accept[i].shape
      BY Zenon, <1>0, <2>2, <2>3 DEF DoorsAgree
  <2>6. env.payload.ok /\ registry[env.payload.key] = env.payload.shape
      BY Zenon, <2>2, <2>4, <2>5 DEF admit
  <2> HIDE DEF env
  <2> QED
      BY Zenon, <2>1, <2>2, <2>6 DEF GatedDelivery, records, Registered, find, Accepts, Doors
<1>2. CASE pc' # "handle"
    BY Zenon, <1>2 DEF GatedDelivery
<1>3. CASE pc = "handle" /\ UNCHANGED <<pc, cur>>
  <2>1. /\ Registered(cur.target)
        /\ Accepts(shards[cur.target].kind, cur.payload.key)
        /\ cur.payload.ok
        /\ registry[cur.payload.key] = cur.payload.shape
      BY Zenon, <1>0, <1>3 DEF GatedDelivery
  <2>2. /\ cur.target \in Ids
        /\ shards'[cur.target] # Absent
        /\ shards'[cur.target].kind = shards[cur.target].kind
      BY Zenon, <1>0, <1>3, <2>1, HandledShardStays
  <2>3. cur.payload.key \in Keys /\ cur.payload.shape # Unset
      BY Zenon, <1>3, ConstantsAssumption DEF TypeOK, Envelope, Value
  <2>4. registry'[cur.payload.key] = registry[cur.payload.key]
      BY Zenon, <2>1, <2>3, RegistryGrows
  <2> QED
      BY Zenon, <1>3, <2>1, <2>2, <2>4 DEF GatedDelivery, Registered, find, Accepts, Doors
<1>4. CASE Sends
  <2>1. UNCHANGED <<pc, cur>>
      BY <1>4, SendsEnqueue DEF EnqueuedAs, Enqueued, dispatch
  <2> QED
      BY <1>2, <1>3, <2>1
<1>5. CASE deliver_refused
    BY Zenon, <1>2, <1>5 DEF deliver_refused
<1> QED
    BY Zenon, <1>1, <1>2, <1>3, <1>4, <1>5, QueueCases

(* A handler only ever runs on a value that conforms, in the one meaning the
   system gives its schema (shard.hpp: a Shard never sees an unvalidated
   message; switchboard.cpp:254-282). *)
THEOREM GateCorrect == Spec => []GatedDelivery
<1>1. Init => GatedDelivery
    BY Zenon DEF Init, GatedDelivery
<1>2. TypeOK /\ TypeOK' /\ DoorsInv /\ GatedDelivery /\ [Next]_vars => GatedDelivery'
    BY Zenon, GatedDeliveryStep
<1> QED
    BY <1>1, <1>2, TypeCorrect, DoorsInvariant, PTL DEF Spec

-----------------------------------------------------------------------------
(* Lifecycle. *)

(* The state to fall back to conforms, and the revivals spent were allowed. *)
SoundRecord(rec) ==
    /\ admit(rec.last_known_good, rec.kind.state)
    /\ rec.reloads_used > 0 =>
          \E p \in rec.kind.policies : p.wf /\ rec.reloads_used <= p.max_reloads

LifecycleInv == \A id \in Ids : shards[id] # Absent => SoundRecord(shards[id])

(* A revival the policy allows keeps within the allowance of that policy. *)
LEMMA RevivedSound ==
    ASSUME NEW rec \in ShardRecord, NEW state, admit(state, rec.kind.state),
           NEW p \in rec.kind.policies, p.wf, within_budget(rec, p)
    PROVE  SoundRecord(revived(rec, state))
<1>1. rec.reloads_used \in Nat /\ p.max_reloads \in Int
    BY Zenon, ConstantsAssumption DEF ShardRecord, Kind, Policy
<1>2. rec.reloads_used + 1 <= p.max_reloads
    BY <1>1 DEF within_budget
<1>3. /\ revived(rec, state).kind = rec.kind
      /\ revived(rec, state).last_known_good = state
      /\ revived(rec, state).reloads_used = rec.reloads_used + 1
    BY Zenon DEF revived
<1> QED
    BY Zenon, <1>2, <1>3 DEF SoundRecord

LEMMA LifecycleSound ==
    ASSUME TypeOK, LifecycleInv, NEW id \in Ids, Lifecycle(id)
    PROVE  SoundRecord(shards'[id])
<1>1. shards[id] \in ShardRecord /\ SoundRecord(shards[id])
    BY Zenon, LifecycleKeepsKind, RecordIsNotAbsent DEF LifecycleInv
<1>2. CASE kill(id)
  <2>1. /\ shards'[id].kind = shards[id].kind
        /\ shards'[id].last_known_good = shards[id].last_known_good
        /\ shards'[id].reloads_used = shards[id].reloads_used
      BY Zenon, <1>1, <1>2 DEF kill, TypeOK, ShardRecord
  <2> QED
      BY Zenon, <1>1, <2>1 DEF SoundRecord
<1>3. ASSUME NEW c \in Payloads, reload(id, c)
      PROVE  SoundRecord(shards'[id])
  <2>1. PICK p \in shards[id].kind.policies :
          /\ p.wf
          /\ within_budget(shards[id], p)
          /\ \/ /\ admit(c, shards[id].kind.state)
                /\ shards' = [shards EXCEPT ![id] = revived(@, c)]
             \/ shards' = [shards EXCEPT ![id] = fallen_back(@, c)]
      BY Zenon, <1>3 DEF reload
  <2>2. \/ shards'[id] = revived(shards[id], c) /\ admit(c, shards[id].kind.state)
        \/ shards'[id] = revived(shards[id], shards[id].last_known_good)
      BY Zenon, <2>1 DEF TypeOK, fallen_back
  <2>3. admit(shards[id].last_known_good, shards[id].kind.state)
      BY Zenon, <1>1 DEF SoundRecord
  <2> QED
      BY <1>1, <2>1, <2>2, <2>3, RevivedSound
<1>4. ASSUME NEW c \in Payloads, swap_state(id, c)
      PROVE  SoundRecord(shards'[id])
  <2>1. /\ shards'[id].kind = shards[id].kind
        /\ shards'[id].last_known_good = c
        /\ shards'[id].reloads_used = shards[id].reloads_used
        /\ admit(c, shards[id].kind.state)
      BY Zenon, <1>1, <1>4 DEF swap_state, TypeOK, ShardRecord
  <2> QED
      BY Zenon, <1>1, <2>1 DEF SoundRecord
<1> QED
    BY Zenon, <1>2, <1>3, <1>4 DEF Lifecycle

LEMMA LifecycleInvStep ==
    ASSUME TypeOK, LifecycleInv, [Next]_vars
    PROVE  LifecycleInv'
<1> SUFFICES ASSUME NEW id \in Ids, shards'[id] # Absent
             PROVE  SoundRecord(shards'[id])
    BY Zenon DEF LifecycleInv, SoundRecord, admit
<1>1. CASE shards'[id] = shards[id]
    BY Zenon, <1>1 DEF LifecycleInv
<1>2. CASE shards'[id] # shards[id]
  <2>1. CASE \E k \in Kinds : register_shard(k)
    <3>1. PICK k \in Kinds : register_shard(k)
        BY Zenon, <2>1
    <3>2. /\ shards'[id].kind = k
          /\ shards'[id].last_known_good = [key |-> k.state.key, shape |-> k.state.shape, ok |-> TRUE]
          /\ shards'[id].reloads_used = 0
        BY Zenon, <1>2, <3>1, RegisterTakesNextId
    <3> QED
        BY <3>2 DEF SoundRecord, admit
  <2>2. CASE \E other \in Ids : unregister_shard(other)
      BY Zenon, <1>2, <2>2 DEF unregister_shard, TypeOK
  <2>3. CASE \E other \in Ids : Lifecycle(other)
      BY Zenon, <1>2, <2>3, LifecycleKeepsKind, LifecycleSound
  <2> QED
      BY Zenon, <1>2, <2>1, <2>2, <2>3, RecordsCases DEF records
<1> QED
    BY Zenon, <1>1, <1>2

LEMMA LifecycleInvariant == Spec => []LifecycleInv
<1>1. Init => LifecycleInv
    BY Zenon DEF Init, LifecycleInv
<1>2. TypeOK /\ LifecycleInv /\ [Next]_vars => LifecycleInv'
    BY Zenon, LifecycleInvStep
<1> QED
    BY <1>1, <1>2, TypeCorrect, PTL DEF Spec

(* Whatever revival falls back to has passed the gate (switchboard.cpp:111-120,
   387, 399, 450). *)
THEOREM LastKnownGoodCorrect == Spec => []LastKnownGoodConforms
<1>1. LifecycleInv => LastKnownGoodConforms
    BY Zenon DEF LifecycleInv, LastKnownGoodConforms, SoundRecord, Registered, find
<1> QED
    BY <1>1, LifecycleInvariant, PTL

(* Crash revivals are bounded by the Shard's own policy (switchboard.cpp:365-368). *)
THEOREM ReloadBudgetCorrect == Spec => []ReloadBudget
<1>1. LifecycleInv => ReloadBudget
    BY Zenon DEF LifecycleInv, ReloadBudget, SoundRecord, Registered, find
<1> QED
    BY <1>1, LifecycleInvariant, PTL

-----------------------------------------------------------------------------
(* The dispatch mark. *)

(* As long as nothing throws out of pump(), in_dispatch_ is set only while a
   pump() is on the stack, so that a pump() that does nothing is a reentrant one
   (switchboard.cpp, pump; the contract of switchboard.hpp:146). *)
THEOREM DispatchMarkCorrect == ASSUME ~HandlersThrow PROVE Spec => []OnlyReentrantPumpsAreNoOps
<1>1. Init => OnlyReentrantPumpsAreNoOps
    BY DEF Init, OnlyReentrantPumpsAreNoOps
<1>2. OnlyReentrantPumpsAreNoOps /\ [Next]_vars => OnlyReentrantPumpsAreNoOps'
  <2> SUFFICES ASSUME OnlyReentrantPumpsAreNoOps, [Next]_vars PROVE OnlyReentrantPumpsAreNoOps'
      BY Zenon
  <2>1. CASE UNCHANGED <<in_dispatch, pc>>
      BY Zenon, <2>1 DEF OnlyReentrantPumpsAreNoOps
  <2>2. CASE Dispatch
      BY Zenon, <2>2 DEF OnlyReentrantPumpsAreNoOps, Dispatch, pump_begin, enter_loop, deliver_refused, deliver_begin,
                  deliver_end, emit_end, pump_end, leave_loop
  <2>3. ~throw
      BY DEF throw, unwind
  <2> QED
      BY <2>1, <2>2, <2>3 DEF Next, vars, dispatch, register_shard, unregister_shard, send, publish, send_as,
         publish_as, ShardBus_send, ShardBus_publish, enqueue_directed, fanout, kill, reload, swap_state, stop
<1> QED
    BY <1>1, <1>2, PTL DEF Spec
=============================================================================
