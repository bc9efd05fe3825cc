--------------------------- MODULE AtomicRegistry ---------------------------
(***************************************************************************)
(* What zen::Registry promises the threads that share it: each call takes   *)
(* effect at one instant between its start and its return, a published     *)
(* schema is immutable, and a lookup returns what is published under its   *)
(* key at its instant.                                                     *)
(***************************************************************************)
CONSTANTS Threads, Keys, Shapes, Unset

VARIABLES
    published,  \* the shape published under each key
    calls        \* each thread's call: its operation, argument and result

None == [op |-> "none"]
Begun(op, key, shape) == [op |-> op, key |-> key, shape |-> shape, res |-> "pending"]

Init ==
    /\ published = [k \in Keys |-> Unset]
    /\ calls = [t \in Threads |-> None]

Begin(t) ==
    /\ calls[t] = None
    /\ \E k \in Keys, s \in Shapes, op \in {"register_schema", "lookup"} :
          calls' = [calls EXCEPT ![t] = Begun(op, k, s)]
    /\ UNCHANGED published

(* The first registration of a key publishes it, one that agrees is a no-op,
   any other is a conflict. *)
Register(t) ==
    /\ calls[t].op = "register_schema"
    /\ calls[t].res = "pending"
    /\ LET k == calls[t].key
           s == calls[t].shape
       IN  \/ /\ published[k] = Unset
              /\ published' = [published EXCEPT ![k] = s]
              /\ calls' = [calls EXCEPT ![t].res = "inserted"]
           \/ /\ published[k] # Unset
              /\ calls' = [calls EXCEPT ![t].res = IF published[k] = s THEN "existing" ELSE "conflict"]
              /\ UNCHANGED published

Lookup(t) ==
    /\ calls[t].op = "lookup"
    /\ calls[t].res = "pending"
    /\ calls' = [calls EXCEPT ![t].res = published[calls[t].key]]
    /\ UNCHANGED published

Return(t) ==
    /\ calls[t] # None
    /\ calls[t].res # "pending"
    /\ calls' = [calls EXCEPT ![t] = None]
    /\ UNCHANGED published

Next == \E t \in Threads : Begin(t) \/ Register(t) \/ Lookup(t) \/ Return(t)

Spec == Init /\ [][Next]_<<published, calls>>
=============================================================================
