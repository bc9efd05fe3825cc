---------------------------- MODULE MCSwitchboard ----------------------------
(* Small instances of the bus for TLC. *)
EXTENDS Switchboard

CONSTANTS ping, pong, store, a, b

S(k, s) == [key |-> k, shape |-> s]
V(k, s, ok) == [key |-> k, shape |-> s, ok |-> ok]
ToAny(k) == [any_shape |-> FALSE, key |-> k, any_target |-> TRUE, target |-> 1]
AnyTo(t) == [any_shape |-> TRUE, key |-> ping, any_target |-> FALSE, target |-> t]
Lock(n, lkg) == [wf |-> TRUE, max_reloads |-> n, revive_from_last_good |-> lkg]
BadLock == [wf |-> FALSE, max_reloads |-> 9, revive_from_last_good |-> TRUE]

(* Answers ping, may send pong anywhere; may come back once, even as its
   last-known-good. *)
Ponger == [accept |-> <<S(ping, a)>>, state |-> S(store, a), snap_ok |-> TRUE,
           grant |-> {ToAny(pong)}, policies |-> {Lock(1, TRUE), BadLock}]
(* Takes both, may send anything, but only to Shard 1; never falls back. *)
Pinger == [accept |-> <<S(pong, a), S(ping, a)>>, state |-> S(store, a), snap_ok |-> TRUE,
           grant |-> {AnyTo(1)}, policies |-> {Lock(1, FALSE), Lock(-1, TRUE)}]
(* Publishes its pong door and then disagrees with Ponger about ping. *)
Stranger == [accept |-> <<S(pong, b), S(ping, b)>>, state |-> S(store, a), snap_ok |-> TRUE,
             grant |-> {}, policies |-> {}]
(* Its first snapshot does not conform. *)
Broken == [accept |-> <<S(pong, a)>>, state |-> S(store, b), snap_ok |-> FALSE,
           grant |-> {}, policies |-> {}]

RoutingKinds == {Ponger, Pinger, Stranger, Broken}
RoutingPayloads == {V(ping, a, TRUE), V(pong, a, TRUE), V(pong, b, TRUE)}
LifecycleKinds == {Ponger, Pinger}
LifecyclePayloads == {V(ping, a, TRUE), V(store, a, TRUE), V(store, a, FALSE)}
LiveKinds == {Ponger}
LivePayloads == {V(ping, a, TRUE), V(pong, a, TRUE)}
=============================================================================
