------------------------------ MODULE Registry ------------------------------
(***************************************************************************)
(* zen::Registry (src/registry.cpp): a schema map that threads share by    *)
(* copy-on-write.  current_ points to an immutable map; a registration     *)
(* copies it under the exclusive lock and swaps the pointer, a lookup       *)
(* copies the pointer under the shared lock and searches without a lock.   *)
(*                                                                         *)
(* Maps live on a heap and pointers are its indices, so that a map changed *)
(* in place would be seen by everybody who holds its pointer.              *)
(***************************************************************************)
EXTENDS Naturals, FiniteSets

CONSTANTS
    Threads,
    Keys,        \* (name, version)
    Shapes,      \* schema contents, as content_id tells them apart
    Unset,       \* no schema under this key
    NoArg,       \* the argument of a thread that is not in a call
    MaxMaps      \* bound on maps ever made

Maps == 1..MaxMaps
Map == [Keys -> Shapes \cup {Unset}]
Arg == [key : Keys, shape : Shapes]
Results == {"pending", "inserted", "existing", "conflict"} \cup Shapes \cup {Unset}

ASSUME ConstantsAssumption ==
    /\ Unset \notin Shapes
    /\ MaxMaps \in Nat \ {0}
    /\ NoArg \notin Arg
    /\ {"pending", "inserted", "existing", "conflict"} \cap (Shapes \cup {Unset}) = {}

VARIABLES
    heap,      \* the maps, by pointer
    made,      \* how many have been made
    current,   \* current_
    writer,    \* the thread with the exclusive lock, or {}
    readers,   \* the threads with the shared lock
    pc,        \* where each thread is
    arg,       \* the key and the shape of its call
    ptr,       \* its local pointer: snap in lookup, next in register_schema
    res        \* what its call will return

vars == <<heap, made, current, writer, readers, pc, arg, ptr, res>>
Labels == {"idle", "reg_lock", "reg_check", "reg_copy", "reg_insert", "reg_swap", "reg_unlock",
           "look_lock", "look_copy", "look_unlock", "look_find", "return"}

Init ==
    /\ heap = [m \in Maps |-> [k \in Keys |-> Unset]]
    /\ made = 1
    /\ current = 1
    /\ writer = {}
    /\ readers = {}
    /\ pc = [t \in Threads |-> "idle"]
    /\ arg = [t \in Threads |-> NoArg]
    /\ ptr = [t \in Threads |-> 0]
    /\ res = [t \in Threads |-> "pending"]

Goto(t, from, to) == pc[t] = from /\ pc' = [pc EXCEPT ![t] = to]

(* A thread calls register_schema or lookup (contains and size are lookups of
   the same snapshot). *)
call(t) ==
    /\ Goto(t, "idle", "reg_lock") \/ Goto(t, "idle", "look_lock")
    /\ \E k \in Keys, s \in Shapes : arg' = [arg EXCEPT ![t] = [key |-> k, shape |-> s]]
    /\ UNCHANGED <<heap, made, current, writer, readers, ptr, res>>

return(t) ==
    /\ Goto(t, "return", "idle")
    /\ arg' = [arg EXCEPT ![t] = NoArg]
    /\ ptr' = [ptr EXCEPT ![t] = 0]
    /\ res' = [res EXCEPT ![t] = "pending"]
    /\ UNCHANGED <<heap, made, current, writer, readers>>

-----------------------------------------------------------------------------
(* register_schema. *)

exclusive == writer = {} /\ readers = {}

reg_lock(t) ==
    /\ Goto(t, "reg_lock", "reg_check")
    /\ exclusive
    /\ writer' = writer \cup {t}
    /\ UNCHANGED <<heap, made, current, readers, arg, ptr, res>>

present(existing, shape) == existing # Unset

(* Mutant: other content under the same key is accepted silently. *)
verdict_accepting(existing, shape) == "existing"
verdict(existing, shape) == IF existing = shape THEN "existing" ELSE "conflict"

(* Identical content is a no-op, other content throws; both leave the lock. *)
reg_check(t) ==
    /\ \/ /\ Goto(t, "reg_check", "reg_copy")
          /\ ~present(heap[current][arg[t].key], arg[t].shape)
          /\ UNCHANGED res
       \/ /\ Goto(t, "reg_check", "reg_unlock")
          /\ present(heap[current][arg[t].key], arg[t].shape)
          /\ res' = [res EXCEPT ![t] = verdict(heap[current][arg[t].key], arg[t].shape)]
    /\ UNCHANGED <<heap, made, current, writer, readers, arg, ptr>>

(* Mutant: the published map itself is extended. *)
target_in_place(fresh) == current
target(fresh) == fresh

reg_copy(t) ==
    /\ Goto(t, "reg_copy", "reg_insert")
    /\ made < MaxMaps
    /\ made' = made + 1
    /\ heap' = [heap EXCEPT ![made + 1] = heap[current]]
    /\ ptr' = [ptr EXCEPT ![t] = target(made + 1)]
    /\ UNCHANGED <<current, writer, readers, arg, res>>

reg_insert(t) ==
    /\ Goto(t, "reg_insert", "reg_swap")
    /\ heap' = [heap EXCEPT ![ptr[t]][arg[t].key] = arg[t].shape]
    /\ UNCHANGED <<made, current, writer, readers, arg, ptr, res>>

reg_swap(t) ==
    /\ Goto(t, "reg_swap", "reg_unlock")
    /\ current' = ptr[t]
    /\ res' = [res EXCEPT ![t] = "inserted"]
    /\ UNCHANGED <<heap, made, writer, readers, arg, ptr>>

reg_unlock(t) ==
    /\ Goto(t, "reg_unlock", "return")
    /\ writer' = writer \ {t}
    /\ UNCHANGED <<heap, made, current, readers, arg, ptr, res>>

-----------------------------------------------------------------------------
(* lookup. *)

look_lock(t) ==
    /\ Goto(t, "look_lock", "look_copy")
    /\ writer = {}
    /\ readers' = readers \cup {t}
    /\ UNCHANGED <<heap, made, current, writer, arg, ptr, res>>

look_copy(t) ==
    /\ Goto(t, "look_copy", "look_unlock")
    /\ ptr' = [ptr EXCEPT ![t] = current]
    /\ UNCHANGED <<heap, made, current, writer, readers, arg, res>>

look_unlock(t) ==
    /\ Goto(t, "look_unlock", "look_find")
    /\ readers' = readers \ {t}
    /\ UNCHANGED <<heap, made, current, writer, arg, ptr, res>>

look_find(t) ==
    /\ Goto(t, "look_find", "return")
    /\ res' = [res EXCEPT ![t] = heap[ptr[t]][arg[t].key]]
    /\ UNCHANGED <<heap, made, current, writer, readers, arg, ptr>>

-----------------------------------------------------------------------------
Register(t) ==
    reg_lock(t) \/ reg_check(t) \/ reg_copy(t) \/ reg_insert(t) \/ reg_swap(t) \/ reg_unlock(t)
Lookup(t) == look_lock(t) \/ look_copy(t) \/ look_unlock(t) \/ look_find(t)

Next == \E t \in Threads : call(t) \/ Register(t) \/ Lookup(t) \/ return(t)

Spec == Init /\ [][Next]_vars

-----------------------------------------------------------------------------
Writing == {"reg_check", "reg_copy", "reg_insert", "reg_swap", "reg_unlock"}
Reading == {"look_copy", "look_unlock"}
Holding == {"look_unlock", "look_find"}   \* the thread has a snapshot
Building == {"reg_insert", "reg_swap"}    \* the thread has a map of its own

(* Every variable holds what the code can hold. *)
TypeOK ==
    /\ heap \in [Maps -> Map]
    /\ made \in Maps
    /\ current \in Maps
    /\ writer \in SUBSET Threads
    /\ readers \in SUBSET Threads
    /\ pc \in [Threads -> Labels]
    /\ arg \in [Threads -> Arg \cup {NoArg}]
    /\ \A t \in Threads : pc[t] # "idle" => arg[t] \in Arg
    /\ ptr \in [Threads -> Maps \cup {0}]
    /\ res \in [Threads -> Results]

(* current_ is never copied by one thread while another stores to it. *)
NoPointerRace ==
    \A t, u \in Threads : ~(pc[t] = "look_copy" /\ pc[u] = "reg_swap")

(* A map somebody may be searching, the current one or a reader's snapshot, is
   never changed: register_schema inserts into a copy. *)
SnapshotsAreFrozen ==
    [][\A m \in Maps :
          (m = current \/ \E t \in Threads : pc[t] \in Holding /\ ptr[t] = m) => heap'[m] = heap[m]]_vars

(* A published schema stays published with the same content, for ever. *)
PublishedIsImmutable ==
    [][\A k \in Keys : heap[current][k] # Unset => heap'[current'][k] = heap[current][k]]_vars

(* The call of a thread as AtomicRegistry sees it.  A registration takes
   effect when the pointer is swapped, or when it finds the key taken; a
   lookup when it copies the pointer. *)
Result(t) == IF pc[t] \in Holding THEN heap[ptr[t]][arg[t].key] ELSE res[t]
IsRegistration(t) ==
    pc[t] \in Writing \cup {"reg_lock"} \/ (pc[t] = "return" /\ res[t] \in {"inserted", "existing", "conflict"})
abstract_calls ==
    [t \in Threads |->
        IF pc[t] = "idle" THEN [op |-> "none"]
        ELSE [op |-> IF IsRegistration(t) THEN "register_schema" ELSE "lookup",
              key |-> arg[t].key, shape |-> arg[t].shape, res |-> Result(t)]]

Atomic == INSTANCE AtomicRegistry WITH published <- heap[current], calls <- abstract_calls

(* The registry is linearizable: it implements AtomicRegistry. *)
ImplementsAtomicRegistry == Atomic!Spec
=============================================================================
