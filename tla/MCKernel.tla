------------------------------ MODULE MCKernel ------------------------------
(* Small instances of Kernel for TLC. *)
EXTENDS Kernel

CONSTANTS ping, count1, count2, a, b, first, rebuilt, newer, other

S(k, s) == [key |-> k, shape |-> s]

(* first and rebuilt have the same manifest, newer has a new version of the
   state, other means something else by ping. *)
TheFiles == {first, rebuilt, newer, other}
TheManifest ==
    [f \in TheFiles |->
        [accept |-> <<S(ping, IF f = other THEN b ELSE a)>>,
         state |-> S(IF f = newer THEN count2 ELSE count1, a)]]

(* A native Shard has published another schema under the key of newer's state. *)
TheNative == [k \in {ping, count1, count2} |-> IF k = count2 THEN b ELSE Unset]
=============================================================================
