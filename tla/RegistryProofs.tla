--------------------------- MODULE RegistryProofs ---------------------------
(***************************************************************************)
(* The registry for any number of threads, keys and contents.              *)
(***************************************************************************)
EXTENDS Registry, TLAPS

(* The lock: who holds it and who thinks it does; a writer is alone. *)
Locking ==
    /\ \A t \in Threads : pc[t] \in Writing <=> t \in writer
    /\ \A t \in Threads : pc[t] \in Reading <=> t \in readers
    /\ \A t, u \in writer : t = u
    /\ writer = {} \/ readers = {}

(* The pointers: snapshots are of maps published so far, and the map a writer
   builds is newer than all of them. *)
Pointers ==
    /\ current <= made
    /\ \A t \in Threads : pc[t] \in Holding => ptr[t] \in 1..current
    /\ \A t \in Threads : pc[t] \in Building => ptr[t] = made /\ current < made

(* The contents: a writer past its check extends the current map by a key
   that is not in it. *)
Contents ==
    \A t \in Threads :
        /\ pc[t] \in Building \cup {"reg_copy"} => heap[current][arg[t].key] = Unset
        /\ pc[t] = "reg_insert" => heap[ptr[t]] = heap[current]
        /\ pc[t] = "reg_swap" => heap[ptr[t]] = [heap[current] EXCEPT ![arg[t].key] = arg[t].shape]

Inv == TypeOK /\ Locking /\ Pointers /\ Contents

LEMMA InitInv == Init => Inv
<1> SUFFICES ASSUME Init PROVE Inv
    OBVIOUS
<1>1. TypeOK
    BY ConstantsAssumption DEF Init, TypeOK, Maps, Map, Labels, Results
<1>2. Locking /\ Pointers /\ Contents
    BY DEF Init, Locking, Pointers, Contents, Writing, Reading, Holding, Building
<1> QED BY <1>1, <1>2 DEF Inv

LEMMA TypeStep == ASSUME Inv, [Next]_vars PROVE TypeOK'
<1> USE ConstantsAssumption DEF Inv, TypeOK, Maps, Labels, Goto
<1>1. ASSUME NEW t \in Threads, call(t) PROVE TypeOK'
    BY <1>1 DEF call, Arg
<1>2. ASSUME NEW t \in Threads, return(t) PROVE TypeOK'
    BY <1>2 DEF return, Results
<1>3. ASSUME NEW t \in Threads, reg_lock(t) PROVE TypeOK'
    BY <1>3 DEF reg_lock
<1>4. ASSUME NEW t \in Threads, reg_check(t) PROVE TypeOK'
    BY <1>4 DEF reg_check, verdict, Results
<1>5. ASSUME NEW t \in Threads, reg_copy(t) PROVE TypeOK'
    BY <1>5 DEF reg_copy, target
<1>6. ASSUME NEW t \in Threads, reg_insert(t) PROVE TypeOK'
  <2>1. ptr[t] \in Maps /\ arg[t] \in Arg
      BY <1>6 DEF reg_insert, Pointers, Building
  <2>2. [heap[ptr[t]] EXCEPT ![arg[t].key] = arg[t].shape] \in Map
      BY <2>1 DEF Map, Arg
  <2>3. heap' = [heap EXCEPT ![ptr[t]] = [heap[ptr[t]] EXCEPT ![arg[t].key] = arg[t].shape]]
      BY <1>6 DEF reg_insert
  <2>4. heap' \in [Maps -> Map]
      BY <2>1, <2>2, <2>3
  <2> QED BY <1>6, <2>4 DEF reg_insert
<1>7. ASSUME NEW t \in Threads, reg_swap(t) PROVE TypeOK'
    BY <1>7 DEF reg_swap, Pointers, Building, Results
<1>8. ASSUME NEW t \in Threads, reg_unlock(t) PROVE TypeOK'
    BY <1>8 DEF reg_unlock
<1>9. ASSUME NEW t \in Threads, look_lock(t) PROVE TypeOK'
    BY <1>9 DEF look_lock
<1>10. ASSUME NEW t \in Threads, look_copy(t) PROVE TypeOK'
    BY <1>10 DEF look_copy
<1>11. ASSUME NEW t \in Threads, look_unlock(t) PROVE TypeOK'
    BY <1>11 DEF look_unlock
<1>12. ASSUME NEW t \in Threads, look_find(t) PROVE TypeOK'
  <2>1. ptr[t] \in Maps /\ arg[t] \in Arg
      BY <1>12 DEF look_find, Pointers, Holding
  <2>2. heap[ptr[t]][arg[t].key] \in Results
      BY <2>1 DEF Map, Arg, Results
  <2> QED BY <1>12, <2>2 DEF look_find
<1>13. CASE UNCHANGED vars
    BY <1>13 DEF vars
<1> QED
    BY <1>1, <1>2, <1>3, <1>4, <1>5, <1>6, <1>7, <1>8, <1>9, <1>10, <1>11, <1>12, <1>13
    DEF Next, Register, Lookup

LEMMA LockingStep == ASSUME Inv, [Next]_vars PROVE Locking'
<1> USE DEF Inv, TypeOK, Locking, Goto, Writing, Reading
<1>1. ASSUME NEW t \in Threads, call(t) PROVE Locking'
    BY <1>1 DEF call
<1>2. ASSUME NEW t \in Threads, return(t) PROVE Locking'
    BY <1>2 DEF return
<1>3. ASSUME NEW t \in Threads, reg_lock(t) PROVE Locking'
    BY <1>3 DEF reg_lock, exclusive
<1>4. ASSUME NEW t \in Threads, reg_check(t) PROVE Locking'
    BY <1>4 DEF reg_check
<1>5. ASSUME NEW t \in Threads, reg_copy(t) PROVE Locking'
    BY <1>5 DEF reg_copy
<1>6. ASSUME NEW t \in Threads, reg_insert(t) PROVE Locking'
    BY <1>6 DEF reg_insert
<1>7. ASSUME NEW t \in Threads, reg_swap(t) PROVE Locking'
    BY <1>7 DEF reg_swap
<1>8. ASSUME NEW t \in Threads, reg_unlock(t) PROVE Locking'
    BY <1>8 DEF reg_unlock
<1>9. ASSUME NEW t \in Threads, look_lock(t) PROVE Locking'
    BY <1>9 DEF look_lock
<1>10. ASSUME NEW t \in Threads, look_copy(t) PROVE Locking'
    BY <1>10 DEF look_copy
<1>11. ASSUME NEW t \in Threads, look_unlock(t) PROVE Locking'
    BY <1>11 DEF look_unlock
<1>12. ASSUME NEW t \in Threads, look_find(t) PROVE Locking'
    BY <1>12 DEF look_find
<1>13. CASE UNCHANGED vars
    BY <1>13 DEF vars
<1> QED
    BY <1>1, <1>2, <1>3, <1>4, <1>5, <1>6, <1>7, <1>8, <1>9, <1>10, <1>11, <1>12, <1>13
    DEF Next, Register, Lookup

LEMMA PointersStep == ASSUME Inv, [Next]_vars PROVE Pointers'
<1> USE ConstantsAssumption DEF Inv, TypeOK, Maps, Locking, Pointers, Goto, Writing, Holding, Building
<1>1. ASSUME NEW t \in Threads, call(t) PROVE Pointers'
    BY <1>1 DEF call
<1>2. ASSUME NEW t \in Threads, return(t) PROVE Pointers'
    BY <1>2 DEF return
<1>3. ASSUME NEW t \in Threads, reg_lock(t) PROVE Pointers'
    BY <1>3 DEF reg_lock
<1>4. ASSUME NEW t \in Threads, reg_check(t) PROVE Pointers'
    BY <1>4 DEF reg_check
<1>5. ASSUME NEW t \in Threads, reg_copy(t) PROVE Pointers'
    BY <1>5 DEF reg_copy, target
<1>6. ASSUME NEW t \in Threads, reg_insert(t) PROVE Pointers'
    BY <1>6 DEF reg_insert
<1>7. ASSUME NEW t \in Threads, reg_swap(t) PROVE Pointers'
    BY <1>7 DEF reg_swap
<1>8. ASSUME NEW t \in Threads, reg_unlock(t) PROVE Pointers'
    BY <1>8 DEF reg_unlock
<1>9. ASSUME NEW t \in Threads, look_lock(t) PROVE Pointers'
    BY <1>9 DEF look_lock
<1>10. ASSUME NEW t \in Threads, look_copy(t) PROVE Pointers'
    BY <1>10 DEF look_copy
<1>11. ASSUME NEW t \in Threads, look_unlock(t) PROVE Pointers'
    BY <1>11 DEF look_unlock
<1>12. ASSUME NEW t \in Threads, look_find(t) PROVE Pointers'
    BY <1>12 DEF look_find
<1>13. CASE UNCHANGED vars
    BY <1>13 DEF vars
<1> QED
    BY <1>1, <1>2, <1>3, <1>4, <1>5, <1>6, <1>7, <1>8, <1>9, <1>10, <1>11, <1>12, <1>13
    DEF Next, Register, Lookup

LEMMA ContentsStep == ASSUME Inv, [Next]_vars PROVE Contents'
<1> USE DEF Inv, TypeOK, Maps, Locking, Pointers, Contents, Goto, Writing, Holding, Building
<1>1. ASSUME NEW t \in Threads, call(t) PROVE Contents'
  <2>1. \A u \in Threads : pc'[u] \in Building \cup {"reg_copy"} => u # t /\ pc'[u] = pc[u]
      BY <1>1 DEF call
  <2>2. \A u \in Threads : u # t => arg'[u] = arg[u]
      BY <1>1 DEF call
  <2> QED BY <1>1, <2>1, <2>2 DEF call
<1>2. ASSUME NEW t \in Threads, return(t) PROVE Contents'
    BY <1>2 DEF return
<1>3. ASSUME NEW t \in Threads, reg_lock(t) PROVE Contents'
    BY <1>3 DEF reg_lock
<1>4. ASSUME NEW t \in Threads, reg_check(t) PROVE Contents'
    BY <1>4 DEF reg_check, present
<1>5. ASSUME NEW t \in Threads, reg_copy(t) PROVE Contents'
  <2>1. /\ pc' = [pc EXCEPT ![t] = "reg_insert"] /\ pc[t] = "reg_copy"
        /\ ptr'[t] = made + 1 /\ made + 1 \in Maps /\ current # made + 1
        /\ UNCHANGED <<current, arg>>
      BY <1>5, ConstantsAssumption DEF reg_copy, target
  <2>2. heap'[current] = heap[current] /\ heap'[made + 1] = heap[current]
      BY <1>5, <2>1 DEF reg_copy
  <2>3. \A u \in Threads : pc[u] \in Building \cup {"reg_copy"} => u = t
      BY <2>1
  <2> QED BY <2>1, <2>2, <2>3
<1>6. ASSUME NEW t \in Threads, reg_insert(t) PROVE Contents'
    BY <1>6 DEF reg_insert, Map, Arg
<1>7. ASSUME NEW t \in Threads, reg_swap(t) PROVE Contents'
    BY <1>7 DEF reg_swap
<1>8. ASSUME NEW t \in Threads, reg_unlock(t) PROVE Contents'
    BY <1>8 DEF reg_unlock
<1>9. ASSUME NEW t \in Threads, look_lock(t) PROVE Contents'
    BY <1>9 DEF look_lock
<1>10. ASSUME NEW t \in Threads, look_copy(t) PROVE Contents'
    BY <1>10 DEF look_copy
<1>11. ASSUME NEW t \in Threads, look_unlock(t) PROVE Contents'
    BY <1>11 DEF look_unlock
<1>12. ASSUME NEW t \in Threads, look_find(t) PROVE Contents'
    BY <1>12 DEF look_find
<1>13. CASE UNCHANGED vars
    BY <1>13 DEF vars
<1> QED
    BY <1>1, <1>2, <1>3, <1>4, <1>5, <1>6, <1>7, <1>8, <1>9, <1>10, <1>11, <1>12, <1>13
    DEF Next, Register, Lookup

LEMMA Inductive == Spec => []Inv
<1>1. Inv /\ [Next]_vars => Inv'
    BY TypeStep, LockingStep, PointersStep, ContentsStep DEF Inv
<1> QED BY InitInv, <1>1, PTL DEF Spec

(* The type invariant, for any number of threads. *)
THEOREM TypeCorrect == Spec => []TypeOK
<1>1. Inv => TypeOK
    BY DEF Inv
<1> QED BY Inductive, <1>1, PTL

(* The shared_mutex keeps the copy of current_ in lookup apart from the store
   in register_schema. *)
THEOREM RaceFree == Spec => []NoPointerRace
<1>1. Inv => NoPointerRace
    BY DEF Inv, Locking, NoPointerRace, Writing, Reading
<1> QED BY Inductive, <1>1, PTL

LEMMA FrozenStep ==
    ASSUME Inv, [Next]_vars, NEW m \in Maps,
           m = current \/ \E t \in Threads : pc[t] \in Holding /\ ptr[t] = m
    PROVE  heap'[m] = heap[m]
<1>1. m <= current /\ current <= made /\ made \in Nat /\ current \in Nat /\ m \in Nat
    BY DEF Inv, TypeOK, Pointers, Maps
<1>2. ASSUME NEW t \in Threads, reg_copy(t) PROVE heap'[m] = heap[m]
    BY <1>1, <1>2 DEF reg_copy, Inv, TypeOK, Maps
<1>3. ASSUME NEW t \in Threads, reg_insert(t) PROVE heap'[m] = heap[m]
  <2>1. ptr[t] = made /\ current < made
      BY <1>3 DEF reg_insert, Goto, Inv, Pointers, Building
  <2> QED BY <1>1, <1>3, <2>1 DEF reg_insert, Inv, TypeOK, Maps
<1>4. (\A t \in Threads : ~reg_copy(t) /\ ~reg_insert(t)) => heap' = heap
    BY DEF Next, Register, Lookup, call, return, reg_lock, reg_check, reg_swap, reg_unlock,
           look_lock, look_copy, look_unlock, look_find, vars
<1> QED BY <1>2, <1>3, <1>4

(* Copy-on-write: no map that can be read is written. *)
THEOREM FrozenCorrect == Spec => SnapshotsAreFrozen
<1>1. ASSUME Inv, [Next]_vars
      PROVE [\A m \in Maps :
               (m = current \/ \E t \in Threads : pc[t] \in Holding /\ ptr[t] = m)
                  => heap'[m] = heap[m]]_vars
    BY <1>1, FrozenStep
<1> QED BY Inductive, <1>1, PTL DEF Spec, SnapshotsAreFrozen

LEMMA SwapPublishes ==
    ASSUME Inv, NEW t \in Threads, reg_swap(t)
    PROVE  /\ heap[current][arg[t].key] = Unset
           /\ heap'[current'] = [heap[current] EXCEPT ![arg[t].key] = arg[t].shape]
<1>1. heap[ptr[t]] = [heap[current] EXCEPT ![arg[t].key] = arg[t].shape]
      /\ heap[current][arg[t].key] = Unset
    BY DEF reg_swap, Goto, Inv, Contents, Building
<1> QED BY <1>1 DEF reg_swap

LEMMA OthersPublishNothing ==
    ASSUME Inv, [Next]_vars, \A t \in Threads : ~reg_swap(t)
    PROVE  heap'[current'] = heap[current]
<1>1. current' = current
    BY DEF Next, Register, Lookup, call, return, reg_lock, reg_check, reg_copy, reg_insert,
           reg_unlock, look_lock, look_copy, look_unlock, look_find, vars
<1> QED BY <1>1, FrozenStep DEF Inv, TypeOK

(* A schema, once published, is never replaced or withdrawn. *)
THEOREM ImmutableCorrect == Spec => PublishedIsImmutable
<1>1. ASSUME Inv, [Next]_vars, NEW k \in Keys, heap[current][k] # Unset
      PROVE heap'[current'][k] = heap[current][k]
  <2>1. ASSUME NEW t \in Threads, reg_swap(t) PROVE heap'[current'][k] = heap[current][k]
      BY <1>1, <2>1, SwapPublishes DEF Inv, TypeOK, Map
  <2> QED BY <1>1, <2>1, OthersPublishNothing
<1>2. Inv /\ [Next]_vars =>
        [\A k \in Keys : heap[current][k] # Unset => heap'[current'][k] = heap[current][k]]_vars
    BY <1>1
<1> QED BY Inductive, <1>2, PTL DEF Spec, PublishedIsImmutable

-----------------------------------------------------------------------------
(* The refinement. *)

Verdicts == {"inserted", "existing", "conflict"}

(* What a thread has decided to return, place by place. *)
Answers ==
    \A t \in Threads :
        /\ pc[t] \notin {"reg_unlock", "return"} => res[t] = "pending"
        /\ pc[t] = "reg_unlock" => res[t] \in Verdicts
        /\ pc[t] = "return" => res[t] \in Verdicts \cup Shapes \cup {Unset}

LEMMA AnswersStep == ASSUME Inv, Answers, [Next]_vars PROVE Answers'
<1> USE DEF Inv, TypeOK, Answers, Goto, Verdicts
<1>1. ASSUME NEW t \in Threads, call(t) PROVE Answers'
    BY <1>1 DEF call
<1>2. ASSUME NEW t \in Threads, return(t) PROVE Answers'
    BY <1>2 DEF return
<1>3. ASSUME NEW t \in Threads, reg_lock(t) PROVE Answers'
    BY <1>3 DEF reg_lock
<1>4. ASSUME NEW t \in Threads, reg_check(t) PROVE Answers'
    BY <1>4 DEF reg_check, verdict
<1>5. ASSUME NEW t \in Threads, reg_copy(t) PROVE Answers'
    BY <1>5 DEF reg_copy
<1>6. ASSUME NEW t \in Threads, reg_insert(t) PROVE Answers'
    BY <1>6 DEF reg_insert
<1>7. ASSUME NEW t \in Threads, reg_swap(t) PROVE Answers'
    BY <1>7 DEF reg_swap
<1>8. ASSUME NEW t \in Threads, reg_unlock(t) PROVE Answers'
    BY <1>8 DEF reg_unlock
<1>9. ASSUME NEW t \in Threads, look_lock(t) PROVE Answers'
    BY <1>9 DEF look_lock
<1>10. ASSUME NEW t \in Threads, look_copy(t) PROVE Answers'
    BY <1>10 DEF look_copy
<1>11. ASSUME NEW t \in Threads, look_unlock(t) PROVE Answers'
    BY <1>11 DEF look_unlock
<1>12. ASSUME NEW t \in Threads, look_find(t) PROVE Answers'
  <2>1. heap[ptr[t]][arg[t].key] \in Shapes \cup {Unset}
      BY <1>12 DEF look_find, Pointers, Holding, Map, Maps, Arg
  <2> QED BY <1>12, <2>1 DEF look_find
<1>13. CASE UNCHANGED vars
    BY <1>13 DEF vars
<1> QED
    BY <1>1, <1>2, <1>3, <1>4, <1>5, <1>6, <1>7, <1>8, <1>9, <1>10, <1>11, <1>12, <1>13
    DEF Next, Register, Lookup

Step(t) == call(t) \/ Register(t) \/ Lookup(t) \/ return(t)

(* A step of one thread is invisible in the calls of the others. *)
LEMMA OthersKept ==
    ASSUME Inv, NEW t \in Threads, Step(t)
    PROVE  abstract_calls' = [abstract_calls EXCEPT ![t] = abstract_calls'[t]]
<1>1. ASSUME NEW u \in Threads, u # t
      PROVE  pc'[u] = pc[u] /\ arg'[u] = arg[u] /\ res'[u] = res[u] /\ ptr'[u] = ptr[u]
    BY <1>1 DEF Inv, TypeOK, Step, Register, Lookup, Goto, call, return, reg_lock, reg_check,
       reg_copy, reg_insert, reg_swap, reg_unlock, look_lock, look_copy, look_unlock, look_find
<1>2. ASSUME NEW u \in Threads, u # t PROVE Result(u)' = Result(u)
  <2>1. CASE pc[u] \in Holding
    <3>1. ptr[u] \in Maps
        BY <2>1 DEF Inv, TypeOK, Pointers, Maps
    <3>2. heap'[ptr[u]] = heap[ptr[u]]
        BY <2>1, <3>1, FrozenStep DEF Next, Step
    <3> QED BY <1>1, <1>2, <2>1, <3>2 DEF Result
  <2>2. CASE pc[u] \notin Holding
      BY <1>1, <1>2, <2>2 DEF Result
  <2> QED BY <2>1, <2>2
<1>3. ASSUME NEW u \in Threads, u # t PROVE abstract_calls'[u] = abstract_calls[u]
    BY <1>1, <1>2, <1>3 DEF abstract_calls, IsRegistration
<1> QED BY <1>3 DEF abstract_calls

(* The call of a thread that is in one, field by field. *)
LEMMA CallInProgress ==
    ASSUME NEW t \in Threads, pc[t] # "idle"
    PROVE  /\ abstract_calls[t] # Atomic!None
           /\ IsRegistration(t) => abstract_calls[t].op = "register_schema"
           /\ ~IsRegistration(t) => abstract_calls[t].op = "lookup"
           /\ abstract_calls[t].key = arg[t].key
           /\ abstract_calls[t].shape = arg[t].shape
           /\ abstract_calls[t].res = Result(t)
<1> DEFINE op == IF IsRegistration(t) THEN "register_schema" ELSE "lookup"
<1>1. abstract_calls[t] = [op |-> op, key |-> arg[t].key, shape |-> arg[t].shape, res |-> Result(t)]
    BY DEF abstract_calls
<1>2. op # "none" /\ (IsRegistration(t) => op = "register_schema") /\ (~IsRegistration(t) => op = "lookup")
    OBVIOUS
<1> HIDE DEF op
<1>3. abstract_calls[t].op = op /\ Atomic!None.op = "none"
    BY <1>1 DEF Atomic!None
<1> QED BY <1>1, <1>2, <1>3

(* The step of a thread that changes nothing of its call but the result. *)
LEMMA ResultStep ==
    ASSUME Inv, NEW t \in Threads, Step(t), pc[t] # "idle", pc'[t] # "idle",
           arg'[t] = arg[t], IsRegistration(t)' = IsRegistration(t)
    PROVE  abstract_calls' = [abstract_calls EXCEPT ![t].res = Result(t)']
<1>1. abstract_calls'[t] = [abstract_calls[t] EXCEPT !.res = Result(t)']
    BY DEF abstract_calls
<1> QED BY <1>1, OthersKept

LEMMA SilentStep ==
    ASSUME Inv, NEW t \in Threads, Step(t), pc[t] # "idle", pc'[t] # "idle",
           arg'[t] = arg[t], IsRegistration(t)' = IsRegistration(t), Result(t)' = Result(t)
    PROVE  abstract_calls' = abstract_calls
<1>1. abstract_calls'[t] = abstract_calls[t]
    BY DEF abstract_calls
<1> QED BY <1>1, OthersKept DEF abstract_calls

LEMMA AtomicStep ==
    ASSUME Inv, Answers, Answers', [Next]_vars
    PROVE  [Atomic!Next]_<<heap[current], abstract_calls>>
<1> DEFINE Stutters == heap'[current'] = heap[current] /\ abstract_calls' = abstract_calls
<1> USE DEF Goto, Writing, Holding
<1>0. \A t \in Threads : Step(t) => pc[t] \in Labels /\ pc' = [pc EXCEPT ![t] = pc'[t]]
    BY DEF Inv, TypeOK, Step, Register, Lookup, call, return, reg_lock, reg_check, reg_copy,
       reg_insert, reg_swap, reg_unlock, look_lock, look_copy, look_unlock, look_find
<1>n. \A t \in Threads : Step(t) /\ pc[t] # "reg_swap" => heap'[current'] = heap[current]
  <2>1. ASSUME NEW t \in Threads, Step(t), pc[t] # "reg_swap", NEW u \in Threads PROVE ~reg_swap(u)
      BY <2>1 DEF Step, Register, Lookup, call, return, reg_lock, reg_check, reg_copy, reg_insert,
         reg_swap, reg_unlock, look_lock, look_copy, look_unlock, look_find, Inv, TypeOK
  <2> QED BY <2>1, OthersPublishNothing
<1>1. ASSUME NEW t \in Threads, call(t) PROVE Atomic!Begin(t)
  <2>1. PICK k \in Keys, s \in Shapes : arg' = [arg EXCEPT ![t] = [key |-> k, shape |-> s]]
      BY <1>1 DEF call
  <2>2. pc[t] = "idle" /\ pc'[t] \in {"reg_lock", "look_lock"} /\ res'[t] = "pending"
      BY <1>1 DEF call, Inv, TypeOK, Answers
  <2>3. abstract_calls[t] = Atomic!None
      BY <2>2 DEF abstract_calls, Atomic!None
  <2>4. Result(t)' = "pending"
      BY <2>2 DEF Result
  <2>5. arg'[t] = [key |-> k, shape |-> s]
      BY <2>1 DEF Inv, TypeOK
  <2>6. PICK op \in {"register_schema", "lookup"} :
          abstract_calls'[t] = Atomic!Begun(op, k, s)
      BY <2>2, <2>4, <2>5 DEF abstract_calls, Atomic!Begun
  <2>7. abstract_calls' = [abstract_calls EXCEPT ![t] = Atomic!Begun(op, k, s)]
      BY <1>1, <2>6, OthersKept DEF Step
  <2>8. heap'[current'] = heap[current]
      BY <1>1 DEF call
  <2> QED BY <2>3, <2>7, <2>8 DEF Atomic!Begin
<1>2. ASSUME NEW t \in Threads, return(t) PROVE Atomic!Return(t)
  <2>1. pc[t] = "return" /\ pc'[t] = "idle" /\ res[t] # "pending"
      BY <1>2, ConstantsAssumption DEF return, Inv, TypeOK, Answers, Verdicts
  <2>2. abstract_calls[t] # Atomic!None /\ abstract_calls[t].res # "pending"
      BY <2>1, CallInProgress DEF Result
  <2>3. abstract_calls'[t] = Atomic!None
      BY <2>1 DEF abstract_calls, Atomic!None
  <2>4. abstract_calls' = [abstract_calls EXCEPT ![t] = Atomic!None]
      BY <1>2, <2>3, OthersKept DEF Step
  <2>5. heap'[current'] = heap[current]
      BY <1>2 DEF return
  <2> QED BY <2>2, <2>4, <2>5 DEF Atomic!Return
<1>3. ASSUME NEW t \in Threads,
             reg_lock(t) \/ reg_copy(t) \/ reg_insert(t) \/ look_lock(t)
      PROVE  Stutters
  <2>1. /\ Step(t) /\ pc[t] # "idle" /\ pc'[t] # "idle" /\ arg'[t] = arg[t] /\ pc[t] # "reg_swap"
        /\ res'[t] = res[t]
      BY <1>3 DEF Step, Register, Lookup, reg_lock, reg_copy, reg_insert, look_lock, Inv, TypeOK
  <2>2. IsRegistration(t)' = IsRegistration(t)
      BY <1>3 DEF IsRegistration, reg_lock, reg_copy, reg_insert, look_lock, Inv, TypeOK
  <2>3. Result(t)' = Result(t)
      BY <1>3, <2>1 DEF Result, reg_lock, reg_copy, reg_insert, look_lock, Inv, TypeOK
  <2> QED BY <1>n, <2>1, <2>2, <2>3, SilentStep
<1>4. ASSUME NEW t \in Threads, reg_unlock(t) \/ look_unlock(t) \/ look_find(t) PROVE Stutters
  <2>1. /\ Step(t) /\ pc[t] # "idle" /\ pc'[t] # "idle" /\ arg'[t] = arg[t] /\ pc[t] # "reg_swap"
        /\ heap' = heap /\ ptr' = ptr
      BY <1>4 DEF Step, Register, Lookup, reg_unlock, look_unlock, look_find, Inv, TypeOK
  <2>2. Result(t)' = Result(t)
      BY <1>4, <2>1 DEF Result, reg_unlock, look_unlock, look_find, Inv, TypeOK
  <2>3. CASE reg_unlock(t)
    <3>1. IsRegistration(t) /\ IsRegistration(t)'
        BY <2>3 DEF IsRegistration, reg_unlock, Inv, TypeOK, Answers, Verdicts
    <3> QED BY <1>n, <2>1, <2>2, <3>1, SilentStep
  <2>4. CASE look_unlock(t) \/ look_find(t)
    <3>1. ptr[t] \in Maps /\ arg[t] \in Arg
        BY <2>4 DEF look_unlock, look_find, Inv, TypeOK, Pointers, Maps
    <3>2. Result(t) \in Shapes \cup {Unset}
        BY <2>4, <3>1 DEF Result, look_unlock, look_find, Inv, TypeOK, Map, Arg
    <3>3. pc[t] \in Holding /\ pc'[t] \in {"look_find", "return"} /\ (pc'[t] = "return" => res'[t] = Result(t))
        BY <2>4 DEF look_unlock, look_find, Inv, TypeOK, Result
    <3>4. IsRegistration(t)' = IsRegistration(t)
        BY <3>2, <3>3, ConstantsAssumption DEF IsRegistration
    <3> QED BY <1>n, <2>1, <2>2, <3>4, SilentStep
  <2> QED BY <1>4, <2>3, <2>4
<1>5. ASSUME NEW t \in Threads, look_copy(t) PROVE Atomic!Lookup(t)
  <2>1. /\ Step(t) /\ pc[t] = "look_copy" /\ pc'[t] = "look_unlock" /\ arg' = arg
        /\ heap' = heap /\ current' = current /\ ptr'[t] = current /\ res[t] = "pending"
      BY <1>5 DEF Step, Lookup, look_copy, Inv, TypeOK, Answers
  <2>2. ~IsRegistration(t) /\ IsRegistration(t)' = IsRegistration(t)
      BY <2>1 DEF IsRegistration
  <2>3. Result(t)' = heap[current][arg[t].key] /\ Result(t) = "pending"
      BY <2>1 DEF Result
  <2>4. /\ abstract_calls[t].op = "lookup" /\ abstract_calls[t].res = "pending"
        /\ abstract_calls[t].key = arg[t].key
      BY <2>1, <2>2, <2>3, CallInProgress
  <2>5. abstract_calls' = [abstract_calls EXCEPT ![t].res = heap[current][arg[t].key]]
      BY <2>1, <2>2, <2>3, ResultStep
  <2> QED BY <2>1, <2>4, <2>5 DEF Atomic!Lookup
<1>6. ASSUME NEW t \in Threads, reg_swap(t) PROVE Atomic!Register(t)
  <2>1. /\ Step(t) /\ pc[t] = "reg_swap" /\ pc'[t] = "reg_unlock" /\ arg' = arg
        /\ res[t] = "pending" /\ res'[t] = "inserted"
      BY <1>6 DEF Step, Register, reg_swap, Inv, TypeOK, Answers
  <2>2. IsRegistration(t) /\ IsRegistration(t)'
      BY <2>1 DEF IsRegistration
  <2>3. Result(t)' = "inserted" /\ Result(t) = "pending"
      BY <2>1 DEF Result
  <2>4. /\ abstract_calls[t].op = "register_schema" /\ abstract_calls[t].res = "pending"
        /\ abstract_calls[t].key = arg[t].key /\ abstract_calls[t].shape = arg[t].shape
      BY <2>1, <2>2, <2>3, CallInProgress
  <2>5. abstract_calls' = [abstract_calls EXCEPT ![t].res = "inserted"]
      BY <2>1, <2>2, <2>3, ResultStep
  <2> QED BY <1>6, <2>4, <2>5, SwapPublishes DEF Atomic!Register
<1>7. ASSUME NEW t \in Threads, reg_check(t) PROVE Stutters \/ Atomic!Register(t)
  <2>1. /\ Step(t) /\ pc[t] = "reg_check" /\ arg' = arg /\ heap' = heap /\ current' = current
        /\ res[t] = "pending"
      BY <1>7 DEF Step, Register, reg_check, Inv, TypeOK, Answers
  <2>2. pc'[t] \in {"reg_copy", "reg_unlock"}
      BY <1>7 DEF reg_check, Inv, TypeOK
  <2>3. IsRegistration(t) /\ IsRegistration(t)'
      BY <2>1, <2>2 DEF IsRegistration
  <2>4. Result(t) = res[t] /\ Result(t)' = res'[t]
      BY <2>1, <2>2 DEF Result
  <2>5. CASE pc'[t] = "reg_copy"
    <3>1. res' = res
        BY <1>7, <2>1, <2>5 DEF reg_check, Inv, TypeOK
    <3> QED BY <2>1, <2>2, <2>3, <2>4, <3>1, SilentStep
  <2>6. CASE pc'[t] = "reg_unlock"
    <3>1. /\ heap[current][arg[t].key] # Unset
          /\ res'[t] = IF heap[current][arg[t].key] = arg[t].shape THEN "existing" ELSE "conflict"
        BY <1>7, <2>1, <2>6 DEF reg_check, present, verdict, Inv, TypeOK
    <3>2. /\ abstract_calls[t].op = "register_schema" /\ abstract_calls[t].res = "pending"
          /\ abstract_calls[t].key = arg[t].key /\ abstract_calls[t].shape = arg[t].shape
        BY <2>1, <2>3, <2>4, CallInProgress
    <3>3. abstract_calls' = [abstract_calls EXCEPT ![t].res = res'[t]]
        BY <2>1, <2>2, <2>3, <2>4, ResultStep
    <3> QED BY <2>1, <3>1, <3>2, <3>3 DEF Atomic!Register
  <2> QED BY <2>2, <2>5, <2>6
<1>8. ASSUME UNCHANGED vars PROVE Stutters
    BY <1>8 DEF vars, abstract_calls, IsRegistration, Result
<1> QED
    BY <1>1, <1>2, <1>3, <1>4, <1>5, <1>6, <1>7, <1>8 DEF Next, Register, Lookup, Atomic!Next

(* The registry is linearizable: register_schema takes effect at its pointer
   swap or its failed check, lookup at its pointer copy. *)
THEOREM RefinesAtomicRegistry == Spec => ImplementsAtomicRegistry
<1>1. Init => Atomic!Init
    BY ConstantsAssumption DEF Init, Atomic!Init, Atomic!None, abstract_calls, Maps
<1>2. Init => Answers
    BY DEF Init, Answers
<1>3. Inv /\ Answers /\ [Next]_vars => Answers'
    BY AnswersStep
<1>4. Inv /\ Answers /\ Answers' /\ [Next]_vars
        => [Atomic!Next]_<<heap[current], abstract_calls>>
    BY AtomicStep
<1> QED BY Inductive, <1>1, <1>2, <1>3, <1>4, PTL DEF Spec, ImplementsAtomicRegistry, Atomic!Spec
=============================================================================
