---------------------------- MODULE KernelProofs ----------------------------
(***************************************************************************)
(* The kernel for any number of names, files, Shards, instances and nested *)
(* calls, and for libraries whose revive may throw.  First the inductive   *)
(* invariant, what it says of the stack of calls and of the counts of open *)
(* libraries, and its preservation by the steps that begin, move on and    *)
(* end a call; then the other steps, and the theorems.                     *)
(***************************************************************************)
EXTENDS Kernel, TLAPS

(* The stages of load and reload_from before the new library is described;
   the stages at which a call owns an instance. *)
Early == {"open", "abi", "create", "describe"}
Carrying == {"describe", "register", "compare", "rebind", "destroy"}

(* What a call has to clean up, and which call it is, follows from its stage. *)
Fits(fr) ==
    /\ fr.lib = None <=> fr.at = "open"
    /\ fr.inst = None <=> fr.at \notin Carrying
    /\ fr.at = "register" => fr.op = "load"
    /\ fr.at \in {"compare", "rebind", "revive", "observers"} => fr.op = "reload_from"
    /\ fr.at \in Early => fr.op # "unload"

(* The calls in progress: all but the innermost wait for their observers. *)
Stacked == \A d \in Frames : Fits(stack[d]) /\ (d < Depth => stack[d].at = "observers")

(* What load and reload_from found out at their start still holds when they
   use it: no other host code has run. *)
Loading ==
    stack # <<>> /\ Top.op = "load" /\ Top.at \in Early \cup {"register"} => libs[Top.name] = None
Reloading ==
    stack # <<>> /\ Top.op = "reload_from" /\ Top.at \in Early \cup {"compare", "rebind", "revive"} =>
        libs[Top.name] # None /\ adapters[libs[Top.name].id] # None

(* A Shard id is in one record; the adapter on the bus under it belongs to an
   instance of the library of that record. *)
Recorded ==
    /\ \A n \in Names : libs[n] # None => libs[n].id < next_id
    /\ \A m, n \in Names : libs[m] # None /\ libs[n] # None /\ libs[m].id = libs[n].id => m = n
    /\ \A id \in ShardIds : adapters[id] # None => \E n \in Names : libs[n] # None /\ libs[n].id = id
    /\ \A n \in Names : libs[n] # None /\ adapters[libs[n].id] # None =>
            insts[adapters[libs[n].id].inst].lib = libs[n].lib

(* Adapters and the innermost call own the live instances, each its own. *)
Owned ==
    /\ \A id \in ShardIds : adapters[id] # None => insts[adapters[id].inst] # None
    /\ \A i, j \in ShardIds : adapters[i] # None /\ adapters[j] # None /\ adapters[i].inst = adapters[j].inst => i = j
    /\ stack # <<>> /\ Top.inst # None =>
        /\ insts[Top.inst] # None /\ insts[Top.inst].lib = Top.lib
        /\ \A id \in ShardIds : adapters[id] # None => adapters[id].inst # Top.inst
    /\ \A i \in Insts : insts[i] # None =>
        \/ \E id \in ShardIds : adapters[id] # None /\ adapters[id].inst = i
        \/ stack # <<>> /\ Top.inst = i

(* The state of an instance is at most what its Shard has handled, and all of
   it when no revive has thrown. *)
Swapping(id) == stack # <<>> /\ Top.at = "revive" /\ libs[Top.name].id = id
States ==
    /\ \A id \in ShardIds : id >= next_id => handled[id] = 0
    /\ \A id \in ShardIds : adapters[id] # None =>
        /\ insts[adapters[id].inst].state <= handled[id]
        /\ ~ReviveThrows /\ ~Swapping(id) => insts[adapters[id].inst].state = handled[id]
    /\ stack # <<>> /\ Top.inst # None /\ Top.at # "destroy" => insts[Top.inst].state = 0
    /\ stack # <<>> /\ Top.op = "reload_from" /\ Top.at \in Early \cup {"compare", "rebind", "revive"} =>
        /\ Top.snapshot <= handled[libs[Top.name].id]
        /\ ~ReviveThrows => Top.snapshot = handled[libs[Top.name].id]

(* A library is open at least once for each of its handles; more often only
   after a revive has thrown. *)
Spare(f) == opens[f] - (Cardinality(Records(f)) + Cardinality(Handles(f)))
Opened == \A f \in Files : Spare(f) >= 0 /\ (~ReviveThrows => Spare(f) = 0)

Inv == TypeOK /\ Stacked /\ Loading /\ Reloading /\ Recorded /\ Owned /\ States /\ Opened /\ ~fault
-----------------------------------------------------------------------------
(* The stack. *)

(* Frames are frames, and the innermost is one of them. *)
LEMMA FrameType ==
    ASSUME stack \in Seq(Frame)
    PROVE  /\ Depth \in Nat /\ (stack # <<>> <=> Depth > 0) /\ Frames = 1..Depth
           /\ \A d \in Frames : stack[d] \in Frame
           /\ stack # <<>> => Depth \in Frames /\ Top \in Frame
BY DEF Depth, Frames, Top

(* A call begins. *)
LEMMA Pushed ==
    ASSUME stack \in Seq(Frame), NEW fr \in Frame, stack' = Append(stack, fr)
    PROVE  /\ stack' \in Seq(Frame) /\ stack' # <<>> /\ Top' = fr
           /\ Depth' = Depth + 1 /\ Frames' = Frames \cup {Depth + 1} /\ Depth + 1 \notin Frames
           /\ \A d \in Frames : stack'[d] = stack[d]
           /\ stack'[Depth + 1] = fr
BY DEF Depth, Frames, Top

(* The innermost call goes to another stage. *)
LEMMA Moved ==
    ASSUME stack \in Seq(Frame), stack # <<>>, NEW fr \in Frame, Becomes(fr)
    PROVE  /\ stack' \in Seq(Frame) /\ stack' # <<>> /\ Top' = fr
           /\ Depth' = Depth /\ Frames' = Frames /\ Depth \in Frames
           /\ \A d \in Frames : stack'[d] = IF d = Depth THEN fr ELSE stack[d]
BY DEF Depth, Frames, Top, Becomes

(* The innermost calls, down to the one at d, are over. *)
LEMMA Popped ==
    ASSUME stack \in Seq(Frame), NEW d \in 0..Depth, stack' = SubSeq(stack, 1, d)
    PROVE  /\ stack' \in Seq(Frame) /\ Depth' = d /\ Frames' = 1..d
           /\ stack' # <<>> <=> d > 0
           /\ \A e \in 1..d : stack'[e] = stack[e]
           /\ d > 0 => Top' = stack[d] /\ d \in Frames
<1>1. Depth \in Nat
    BY DEF Depth
<1>2. stack' \in Seq(Frame) /\ Len(stack') = d /\ \A e \in 1..d : stack'[e] = stack[e]
    BY <1>1 DEF Depth
<1> QED BY <1>1, <1>2 DEF Depth, Frames, Top

LEMMA StackedPushed ==
    ASSUME Stacked, stack \in Seq(Frame), stack # <<>> => Top.at = "observers",
           NEW fr \in Frame, stack' = Append(stack, fr), Fits(fr)
    PROVE  Stacked'
<1>1. /\ Depth' = Depth + 1 /\ Frames' = Frames \cup {Depth + 1} /\ Depth \in Nat /\ Frames = 1..Depth
      /\ (\A d \in Frames : stack'[d] = stack[d]) /\ stack'[Depth + 1] = fr
    BY Zenon, Pushed, FrameType
<1>2. ASSUME NEW d \in Frames PROVE Fits(stack'[d]) /\ stack'[d].at = "observers"
  <2>0. d \in 1..Depth /\ Depth \in Nat /\ stack # <<>>
      BY FrameType
  <2>1. CASE d = Depth
      BY Zenon, <2>0, <2>1, <1>1 DEF Stacked, Top
  <2>2. CASE d < Depth
      BY Zenon, <2>2, <1>1 DEF Stacked
  <2>3. d = Depth \/ d < Depth
      BY <2>0
  <2> QED BY Zenon, <2>1, <2>2, <2>3
<1>3. Fits(stack'[Depth + 1]) /\ ~(Depth + 1 < Depth')
    BY <1>1
<1> QED BY Zenon, <1>1, <1>2, <1>3 DEF Stacked

LEMMA StackedMoved ==
    ASSUME Stacked, stack \in Seq(Frame), stack # <<>>, NEW fr \in Frame, Becomes(fr), Fits(fr)
    PROVE  Stacked'
<1>1. /\ Depth' = Depth /\ Frames' = Frames /\ Depth \in Nat
      /\ \A d \in Frames : stack'[d] = IF d = Depth THEN fr ELSE stack[d]
    BY Zenon, Moved, FrameType
<1>2. ASSUME NEW d \in Frames PROVE Fits(stack'[d]) /\ (d < Depth' => stack'[d].at = "observers")
  <2>1. CASE d = Depth
      BY <2>1, <1>1
  <2>2. CASE d # Depth
      BY Zenon, <2>2, <1>1 DEF Stacked
  <2> QED BY Zenon, <2>1, <2>2
<1> QED BY Zenon, <1>1, <1>2 DEF Stacked

(* The call that goes on when others are over goes on with its observers. *)
LEMMA StackedPopped ==
    ASSUME Stacked, stack \in Seq(Frame), stack # <<>>, NEW d \in 0..(Depth - 1), stack' = SubSeq(stack, 1, d)
    PROVE  /\ Stacked' /\ stack' \in Seq(Frame)
           /\ stack' # <<>> => Top'.at = "observers" /\ Top'.op = "reload_from" /\ Top'.inst = None
<1>1. Depth \in Nat /\ Depth > 0 /\ Frames = 1..Depth /\ d \in 0..Depth /\ d < Depth
    BY FrameType
<1>2. /\ stack' \in Seq(Frame) /\ Depth' = d /\ Frames' = 1..d /\ (stack' # <<>> <=> d > 0)
      /\ (\A e \in 1..d : stack'[e] = stack[e]) /\ (d > 0 => Top' = stack[d] /\ d \in Frames)
    BY Zenon, <1>1, Popped
<1>3. \A e \in 1..d : e \in Frames /\ (e < d => e < Depth)
    BY <1>1
<1>4. Stacked'
    BY Zenon, <1>2, <1>3 DEF Stacked
<1>5. d > 0 => Fits(stack[d]) /\ stack[d].at = "observers"
    BY Zenon, <1>1, <1>2 DEF Stacked
<1> QED BY Zenon, <1>2, <1>4, <1>5 DEF Fits, Carrying

-----------------------------------------------------------------------------
(* Counting handles. *)

In(x, A) == IF x \in A THEN 1 ELSE 0
Same(f, g) == IF f = g THEN 1 ELSE 0

(* What the proofs use of finite sets and their counts; FiniteSetTheorems has
   it, and is cited once, where the theorems are drawn together. *)
CountRules ==
    /\ IsFiniteSet({}) /\ Cardinality({}) = 0
    /\ \A n \in Nat : IsFiniteSet(1..n)
    /\ \A A : IsFiniteSet(A) => Cardinality(A) \in Nat /\ (Cardinality(A) = 0 => A = {})
    /\ \A A, B : IsFiniteSet(A) /\ B \in SUBSET A => IsFiniteSet(B) /\ Cardinality(B) <= Cardinality(A)
    /\ \A A, x : IsFiniteSet(A) => IsFiniteSet(A \ {x}) /\ Cardinality(A) = Cardinality(A \ {x}) + In(x, A)

(* Two finite sets that differ in one element. *)
LEMMA CountChange ==
    ASSUME CountRules, NEW A, NEW B, IsFiniteSet(A), IsFiniteSet(B), NEW x, A \ {x} = B \ {x}
    PROVE  /\ Cardinality(A) \in Nat /\ Cardinality(B) \in Nat
           /\ Cardinality(B) = Cardinality(A) - In(x, A) + In(x, B)
<1>1. /\ Cardinality(A) \in Nat /\ Cardinality(A \ {x}) \in Nat
      /\ Cardinality(A) = Cardinality(A \ {x}) + In(x, A)
    BY Zenon DEF CountRules
<1>2. /\ Cardinality(B) \in Nat /\ Cardinality(B \ {x}) \in Nat
      /\ Cardinality(B) = Cardinality(B \ {x}) + In(x, B)
    BY Zenon DEF CountRules
<1>3. In(x, A) \in Int /\ In(x, B) \in Int /\ Cardinality(A \ {x}) = Cardinality(B \ {x})
    BY DEF In
<1> QED BY <1>1, <1>2, <1>3

LEMMA RecordsFinite ==
    ASSUME CountRules, NEW f
    PROVE  IsFiniteSet(Records(f)) /\ IsFiniteSet(Records(f)') /\ Cardinality(Records(f)) \in Nat
<1>1. Records(f) \in SUBSET Names /\ Records(f)' \in SUBSET Names
    BY Zenon DEF Records
<1> QED BY Zenon, <1>1, ConstantsAssumption DEF CountRules

LEMMA HandlesFinite ==
    ASSUME CountRules, stack \in Seq(Frame), NEW f
    PROVE  IsFiniteSet(Handles(f)) /\ Cardinality(Handles(f)) \in Nat
<1>1. Depth \in Nat /\ Handles(f) \in SUBSET (1..Depth)
    BY DEF Depth, Frames, Handles
<1>2. IsFiniteSet(1..Depth)
    BY Zenon, <1>1 DEF CountRules
<1> QED BY Zenon, <1>1, <1>2 DEF CountRules

LEMMA HandlesFinitePrime == ASSUME CountRules, stack' \in Seq(Frame), NEW f PROVE IsFiniteSet(Handles(f)')
<1>1. Depth' \in Nat /\ Handles(f)' \in SUBSET (1..Depth')
    BY DEF Depth, Frames, Handles
<1>2. IsFiniteSet(1..Depth')
    BY Zenon, <1>1 DEF CountRules
<1> QED BY Zenon, <1>1, <1>2 DEF CountRules

(* The record of one name changes. *)
LEMMA RecordsChange ==
    ASSUME CountRules, TypeOK, NEW n \in Names, NEW v, libs' = [libs EXCEPT ![n] = v], NEW f
    PROVE  /\ Cardinality(Records(f)) \in Nat /\ Cardinality(Records(f)') \in Nat
           /\ Cardinality(Records(f)') = Cardinality(Records(f)) - In(n, Records(f)) + In(n, Records(f)')
<1>1. Records(f)' \ {n} = Records(f) \ {n}
    BY Zenon DEF Records, TypeOK
<1>2. IsFiniteSet(Records(f)) /\ IsFiniteSet(Records(f)')
    BY Zenon, RecordsFinite
<1> QED BY Zenon, <1>1, <1>2, CountChange

(* A name gets a record. *)
LEMMA RecordsAdded ==
    ASSUME CountRules, TypeOK, NEW n \in Names, NEW lib, NEW v, v # None, v.lib = lib, libs[n] = None,
           libs' = [libs EXCEPT ![n] = v], NEW f
    PROVE  /\ Cardinality(Records(f)) \in Nat /\ Cardinality(Records(f)') \in Nat
           /\ Cardinality(Records(f)') = Cardinality(Records(f)) + Same(lib, f)
<1>1. /\ Cardinality(Records(f)) \in Nat /\ Cardinality(Records(f)') \in Nat
      /\ Cardinality(Records(f)') = Cardinality(Records(f)) - In(n, Records(f)) + In(n, Records(f)')
    BY Zenon, RecordsChange
<1>2. In(n, Records(f)) = 0 /\ In(n, Records(f)') = Same(lib, f) /\ Same(lib, f) \in Nat
    BY Zenon DEF Records, TypeOK, In, Same
<1> QED BY <1>1, <1>2

(* The record of a name is for another library now. *)
LEMMA RecordsReplaced ==
    ASSUME CountRules, TypeOK, NEW n \in Names, NEW v, v # None, libs[n] # None, libs' = [libs EXCEPT ![n] = v], NEW f
    PROVE  /\ Cardinality(Records(f)) \in Nat /\ Cardinality(Records(f)') \in Nat
           /\ Cardinality(Records(f)') = Cardinality(Records(f)) - Same(libs[n].lib, f) + Same(v.lib, f)
<1>1. /\ Cardinality(Records(f)) \in Nat /\ Cardinality(Records(f)') \in Nat
      /\ Cardinality(Records(f)') = Cardinality(Records(f)) - In(n, Records(f)) + In(n, Records(f)')
    BY Zenon, RecordsChange
<1>2. In(n, Records(f)) = Same(libs[n].lib, f) /\ In(n, Records(f)') = Same(v.lib, f)
    BY Zenon DEF Records, TypeOK, In, Same
<1> QED BY Zenon, <1>1, <1>2

(* The record of a name is erased. *)
LEMMA RecordsErased ==
    ASSUME CountRules, TypeOK, NEW n \in Names, NEW old, libs[n] # None, libs[n].lib = old,
           libs' = [libs EXCEPT ![n] = None], NEW f
    PROVE  /\ Cardinality(Records(f)) \in Nat /\ Cardinality(Records(f)') \in Nat
           /\ Cardinality(Records(f)') = Cardinality(Records(f)) - Same(old, f)
<1>1. /\ Cardinality(Records(f)) \in Nat /\ Cardinality(Records(f)') \in Nat
      /\ Cardinality(Records(f)') = Cardinality(Records(f)) - In(n, Records(f)) + In(n, Records(f)')
    BY Zenon, RecordsChange
<1>2. In(n, Records(f)) = Same(old, f) /\ In(n, Records(f)') = 0 /\ Same(old, f) \in Nat
    BY Zenon DEF Records, TypeOK, In, Same
<1> QED BY <1>1, <1>2

(* A call begins with a handle of fr.lib. *)
LEMMA HandlesPushed ==
    ASSUME CountRules, stack \in Seq(Frame), NEW fr \in Frame, stack' = Append(stack, fr), NEW f
    PROVE  /\ Cardinality(Handles(f)) \in Nat /\ Cardinality(Handles(f)') \in Nat
           /\ Cardinality(Handles(f)') = Cardinality(Handles(f)) + Same(fr.lib, f)
<1>1. PICK x : x = Depth + 1
    OBVIOUS
<1>2. /\ stack' \in Seq(Frame) /\ Frames' = Frames \cup {x} /\ x \notin Frames
      /\ (\A d \in Frames : stack'[d] = stack[d]) /\ stack'[x] = fr
    BY Zenon, <1>1, Pushed
<1>3. Handles(f)' \ {x} = Handles(f) \ {x} /\ x \notin Handles(f) /\ (x \in Handles(f)') = (fr.lib = f)
  <2>1. Handles(f)' \ {x} = Handles(f) \ {x} /\ x \notin Handles(f)
      BY Zenon, <1>2 DEF Handles
  <2>2. Handles(f)' = {d \in Frames \cup {x} : stack'[d].lib = f}
      BY Zenon, <1>2 DEF Handles
  <2>3. x \in Handles(f)' <=> stack'[x].lib = f
      BY Zenon, <2>2
  <2>4. (x \in Handles(f)') = (fr.lib = f)
      BY <1>2, <2>3
  <2> QED BY Zenon, <2>1, <2>4
<1>4. IsFiniteSet(Handles(f)) /\ IsFiniteSet(Handles(f)')
    BY Zenon, <1>2, HandlesFinite, HandlesFinitePrime
<1> DEFINE A == Handles(f)  B == Handles(f)'
<1> HIDE DEF A, B
<1>5. /\ Cardinality(A) \in Nat /\ Cardinality(B) \in Nat
      /\ Cardinality(B) = Cardinality(A) - In(x, A) + In(x, B)
    BY Zenon, <1>3, <1>4, CountChange DEF A, B
<1> QED BY <1>3, <1>5 DEF A, B, In, Same

(* The innermost call changes its handle for the one of fr. *)
LEMMA HandlesMoved ==
    ASSUME CountRules, stack \in Seq(Frame), stack # <<>>, NEW fr \in Frame, Becomes(fr), NEW f
    PROVE  /\ Cardinality(Handles(f)) \in Nat /\ Cardinality(Handles(f)') \in Nat
           /\ Cardinality(Handles(f)') = Cardinality(Handles(f)) - Same(Top.lib, f) + Same(fr.lib, f)
<1>1. PICK x : x = Depth
    OBVIOUS
<1>2. /\ stack' \in Seq(Frame) /\ Frames' = Frames /\ x \in Frames /\ Top = stack[x]
      /\ \A d \in Frames : stack'[d] = IF d = x THEN fr ELSE stack[d]
    BY Zenon, <1>1, Moved DEF Top
<1>3. Handles(f)' \ {x} = Handles(f) \ {x} /\ (x \in Handles(f)) = (Top.lib = f) /\ (x \in Handles(f)') = (fr.lib = f)
    BY <1>2 DEF Handles
<1>4. IsFiniteSet(Handles(f)) /\ IsFiniteSet(Handles(f)')
    BY Zenon, <1>2, HandlesFinite, HandlesFinitePrime
<1> DEFINE A == Handles(f)  B == Handles(f)'
<1> HIDE DEF A, B
<1>5. /\ Cardinality(A) \in Nat /\ Cardinality(B) \in Nat
      /\ Cardinality(B) = Cardinality(A) - In(x, A) + In(x, B)
    BY Zenon, <1>3, <1>4, CountChange DEF A, B
<1> QED BY Zenon, <1>3, <1>5 DEF A, B, In, Same

(* The innermost call returns with its handle. *)
LEMMA HandlesPopped ==
    ASSUME CountRules, stack \in Seq(Frame), stack # <<>>, Return, NEW f
    PROVE  /\ Cardinality(Handles(f)) \in Nat /\ Cardinality(Handles(f)') \in Nat
           /\ Cardinality(Handles(f)') = Cardinality(Handles(f)) - Same(Top.lib, f)
<1>1. PICK x : x = Depth
    OBVIOUS
<1>2. x \in Nat /\ x - 1 \in 0..x /\ x \in Frames /\ Top = stack[x] /\ Frames = 1..x
    BY <1>1, FrameType DEF Top
<1>3. stack' \in Seq(Frame) /\ Frames' = 1..(x - 1) /\ \A e \in 1..(x - 1) : stack'[e] = stack[e]
    BY Zenon, <1>1, <1>2, Popped DEF Return
<1>4. Handles(f)' \ {x} = Handles(f) \ {x} /\ (x \in Handles(f)) = (Top.lib = f) /\ x \notin Handles(f)'
    BY <1>2, <1>3 DEF Handles
<1>5. IsFiniteSet(Handles(f)) /\ IsFiniteSet(Handles(f)')
    BY Zenon, <1>3, HandlesFinite, HandlesFinitePrime
<1> DEFINE A == Handles(f)  B == Handles(f)'
<1> HIDE DEF A, B
<1>6. /\ Cardinality(A) \in Nat /\ Cardinality(B) \in Nat
      /\ Cardinality(B) = Cardinality(A) - In(x, A) + In(x, B)
    BY Zenon, <1>4, <1>5, CountChange DEF A, B
<1> QED BY <1>4, <1>6 DEF A, B, In, Same

(* An exception leaves several calls; their handles are lost. *)
LEMMA HandlesLost ==
    ASSUME CountRules, stack \in Seq(Frame), NEW d \in 0..Depth, stack' = SubSeq(stack, 1, d), NEW f
    PROVE  /\ Cardinality(Handles(f)) \in Nat /\ Cardinality(Handles(f)') \in Nat
           /\ Cardinality(Handles(f)') <= Cardinality(Handles(f))
<1>1. Frames' = 1..d /\ (\A e \in 1..d : stack'[e] = stack[e]) /\ Frames = 1..Depth /\ Depth \in Nat
    BY Zenon, Popped, FrameType
<1>2. Handles(f)' \in SUBSET Handles(f)
    BY <1>1 DEF Handles
<1>3. IsFiniteSet(Handles(f)) /\ IsFiniteSet(Handles(f)')
    BY Zenon, <1>2, HandlesFinite DEF CountRules
<1> DEFINE A == Handles(f)  B == Handles(f)'
<1> HIDE DEF A, B
<1>4. Cardinality(A) \in Nat /\ Cardinality(B) \in Nat /\ Cardinality(B) <= Cardinality(A)
    BY Zenon, <1>2, <1>3 DEF CountRules, A, B
<1> QED BY Zenon, <1>4 DEF A, B

-----------------------------------------------------------------------------
(* Calls land in open libraries. *)

LEMMA TopOpen == ASSUME CountRules, Inv, stack # <<>>, Top.lib # None PROVE Top.lib \in Files /\ opens[Top.lib] > 0
<1>1. Depth \in Frames /\ Top \in Frame /\ Top = stack[Depth] /\ stack \in Seq(Frame)
    BY Zenon, FrameType DEF Inv, TypeOK, Top
<1>2. Top.lib \in Files
    BY Zenon, <1>1 DEF Frame
<1>3. PICK f \in Files : f = Top.lib
    BY Zenon, <1>2
<1>4. Depth \in Handles(f)
    BY Zenon, <1>1, <1>3 DEF Handles
<1>5. IsFiniteSet(Handles(f)) /\ Cardinality(Handles(f)) \in Nat /\ Cardinality(Handles(f)) # 0
    BY Zenon, <1>1, <1>4, HandlesFinite DEF CountRules
<1>6. Cardinality(Records(f)) \in Nat
    BY Zenon, RecordsFinite DEF CountRules
<1>7. opens[f] \in Nat /\ opens[f] - (Cardinality(Records(f)) + Cardinality(Handles(f))) >= 0
    BY Zenon DEF Inv, TypeOK, Opened, Spare
<1>8. opens[f] > 0
    BY <1>5, <1>6, <1>7
<1> QED BY Zenon, <1>2, <1>3, <1>8

LEMMA RecordOpen == ASSUME CountRules, Inv, NEW n \in Names, libs[n] # None PROVE libs[n].lib \in Files /\ opens[libs[n].lib] > 0
<1>1. libs[n] \in [lib : Files, id : ShardIds]
    BY Zenon DEF Inv, TypeOK
<1>2. PICK f \in Files : f = libs[n].lib
    BY Zenon, <1>1
<1>3. n \in Records(f)
    BY Zenon, <1>2 DEF Records
<1>4. IsFiniteSet(Records(f)) /\ Cardinality(Records(f)) \in Nat /\ Cardinality(Records(f)) # 0
    BY Zenon, <1>3, RecordsFinite DEF CountRules
<1>5. Cardinality(Handles(f)) \in Nat
    BY Zenon, HandlesFinite DEF CountRules, Inv, TypeOK
<1>6. opens[f] \in Nat /\ opens[f] - (Cardinality(Records(f)) + Cardinality(Handles(f))) >= 0
    BY Zenon DEF Inv, TypeOK, Opened, Spare
<1>7. opens[f] > 0
    BY <1>4, <1>5, <1>6
<1> QED BY Zenon, <1>2, <1>7

(* The thunks of an adapter on the bus are there to be called. *)
LEMMA AdapterCall == ASSUME CountRules, Inv, NEW id \in ShardIds, adapters[id] # None, Call(adapters[id].inst) PROVE fault' = FALSE
<1>1. PICK n \in Names : libs[n] # None /\ libs[n].id = id
    BY Zenon DEF Inv, Recorded
<1>2. insts[adapters[id].inst] # None /\ insts[adapters[id].inst].lib = libs[n].lib
    BY Zenon, <1>1 DEF Inv, Recorded, Owned
<1>3. opens[libs[n].lib] \in Nat /\ opens[libs[n].lib] > 0
    BY Zenon, <1>1, RecordOpen DEF Inv, TypeOK
<1>4. opens[insts[adapters[id].inst].lib] # 0
    BY <1>2, <1>3
<1> QED BY Zenon, <1>2, <1>4 DEF Inv, Call

(* So are those of the instance a call in progress owns. *)
LEMMA TopCall == ASSUME CountRules, Inv, stack # <<>>, Top.inst # None, Call(Top.inst) PROVE fault' = FALSE
<1>1. insts[Top.inst] # None /\ insts[Top.inst].lib = Top.lib
    BY Zenon DEF Inv, Owned
<1>2. Depth \in Frames /\ Top = stack[Depth] /\ Top \in Frame
    BY Zenon, FrameType DEF Inv, TypeOK, Top
<1>3. Top.lib # None
    BY Zenon, <1>2 DEF Inv, Stacked, Fits, Carrying
<1>4. opens[Top.lib] \in Nat /\ opens[Top.lib] > 0
    BY Zenon, <1>3, TopOpen DEF Inv, TypeOK
<1>5. opens[insts[Top.inst].lib] # 0
    BY <1>1, <1>4
<1> QED BY Zenon, <1>1, <1>5 DEF Inv, Call

LEMMA LibraryCall == ASSUME CountRules, Inv, stack # <<>>, Top.lib # None, CallLibrary(Top.lib) PROVE fault' = FALSE
<1>1. opens[Top.lib] # 0
    BY TopOpen
<1> QED BY Zenon, <1>1 DEF Inv, CallLibrary

-----------------------------------------------------------------------------
(* The innermost call, and what the invariant says of it. *)
LEMMA TopFacts ==
    ASSUME Inv, stack # <<>>
    PROVE  /\ Top \in Frame /\ Depth \in Frames /\ stack[Depth] = Top /\ stack \in Seq(Frame)
           /\ Fits(Top)
<1>1. Top \in Frame /\ Depth \in Frames /\ stack[Depth] = Top /\ stack \in Seq(Frame)
    BY Zenon, FrameType DEF Inv, TypeOK, Top
<1> QED BY Zenon, <1>1 DEF Inv, Stacked

(* How a call may go on without touching anything but registries. *)
Onward ==
    {<<"abi", "close">>, <<"abi", "create">>, <<"create", "close">>, <<"describe", "destroy">>,
     <<"describe", "register">>, <<"describe", "compare">>, <<"register", "destroy">>,
     <<"compare", "rebind">>, <<"compare", "destroy">>, <<"observers", "close">>}

LEMMA GotoStep ==
    ASSUME CountRules, Inv, stack # <<>>, NEW stage, <<Top.at, stage>> \in Onward, Goto(stage),
           stage = "register" => Top.op = "load", stage = "compare" => Top.op = "reload_from",
           UNCHANGED <<libs, adapters, next_id, handled, opens, insts, closing>>,
           registry' \in [Keys -> Shapes \cup {Unset}], bus_reg' \in [Keys -> Shapes \cup {Unset}],
           fault' = FALSE
    PROVE  Inv'
<1> USE DEF Inv
<1>1. PICK fr \in Frame : fr = [Top EXCEPT !.at = stage]
    BY Zenon, TopFacts DEF Onward, Frame, Stages
<1>2. /\ Becomes(fr) /\ fr.op = Top.op /\ fr.name = Top.name /\ fr.lib = Top.lib /\ fr.inst = Top.inst
      /\ fr.snapshot = Top.snapshot /\ fr.at = stage /\ fr.file = Top.file
    BY Zenon, <1>1, TopFacts DEF Goto, Frame
<1>3. /\ stack' \in Seq(Frame) /\ stack' # <<>> /\ Top' = fr /\ Depth' = Depth /\ Frames' = Frames
      /\ \A d \in Frames : stack'[d] = IF d = Depth THEN fr ELSE stack[d]
    BY Zenon, <1>2, Moved, TopFacts
<1>4. /\ Top.at # "open" /\ stage # "open" /\ (Top.at \in Carrying <=> stage \in Carrying)
      /\ Top.at # "revive" /\ stage # "revive" /\ Top.at # "destroy" /\ stage # "observers"
      /\ stage \in Early \cup {"register"} => Top.at \in Early \cup {"register"}
      /\ stage \in Early \cup {"compare", "rebind"} => Top.at \in Early \cup {"compare", "rebind"}
      /\ stage = "rebind" => Top.at = "compare"
      /\ stage \in Early => Top.at \in Early
    BY Zenon DEF Onward, Carrying, Early
<1>5. TypeOK'
    BY Zenon, <1>3 DEF TypeOK
<1>6. Stacked'
  <2>1. Fits(fr)
      BY Zenon, <1>2, <1>4, TopFacts DEF Fits
  <2> QED BY Zenon, <1>2, <2>1, TopFacts, StackedMoved
<1>7. Loading' /\ Reloading'
    BY Zenon, <1>2, <1>3, <1>4 DEF Loading, Reloading
<1>8. Recorded'
    BY Zenon DEF Recorded
<1>9. Owned'
    BY Zenon, <1>2, <1>3 DEF Owned
<1>10. States'
  <2>1. \A id \in ShardIds : ~Swapping(id) /\ ~Swapping(id)'
      BY Zenon, <1>2, <1>3, <1>4 DEF Swapping
  <2>2. stack' # <<>> /\ Top'.inst # None /\ Top'.at # "destroy" => insts'[Top'.inst].state = 0
      BY Zenon, <1>2, <1>3, <1>4 DEF States
  <2>3. stack' # <<>> /\ Top'.op = "reload_from" /\ Top'.at \in Early \cup {"compare", "rebind", "revive"} =>
            /\ Top'.snapshot <= handled'[libs'[Top'.name].id]
            /\ ~ReviveThrows => Top'.snapshot = handled'[libs'[Top'.name].id]
      BY Zenon, <1>2, <1>3, <1>4 DEF States
  <2> QED BY Zenon, <2>1, <2>2, <2>3 DEF States
<1>11. Opened'
  <2>1. \A f \in Files : Handles(f)' = Handles(f) /\ Records(f)' = Records(f)
      BY <1>2, <1>3, TopFacts DEF Handles, Records
  <2> QED BY Zenon, <2>1 DEF Opened, Spare
<1> QED BY Zenon, <1>5, <1>6, <1>7, <1>8, <1>9, <1>10, <1>11

Registries == [Keys -> Shapes \cup {Unset}]

(* Publishing the first schemas of a list keeps a registry a registry. *)
LEMMA PublishedType ==
    ASSUME NEW reg \in Registries, NEW ss \in Seq(Schema), NEW n \in 0..Len(ss)
    PROVE  Published(reg, ss, n) \in Registries
<1> SUFFICES ASSUME NEW k \in Keys
             PROVE  (IF \E i \in 1..n : ss[i].key = k THEN ss[CHOOSE i \in 1..n : ss[i].key = k].shape ELSE reg[k])
                    \in Shapes \cup {Unset}
    BY Zenon DEF Published, Registries
<1>1. CASE \E i \in 1..n : ss[i].key = k
  <2>1. PICK j \in 1..n : j = (CHOOSE i \in 1..n : ss[i].key = k)
      BY Zenon, <1>1
  <2>2. ss[j] \in Schema
      OBVIOUS
  <2> QED BY Zenon, <1>1, <2>1, <2>2 DEF Schema
<1>2. CASE ~\E i \in 1..n : ss[i].key = k
    BY Zenon, <1>2 DEF Registries
<1> QED BY Zenon, <1>1, <1>2

LEMMA SchemasType ==
    ASSUME NEW f \in Files
    PROVE  /\ SchemasOf(f) \in Seq(Schema) /\ Manifest[f].accept \in Seq(Schema) /\ Manifest[f].state \in Schema
           /\ Len(SchemasOf(f)) = Len(Manifest[f].accept) + 1
<1>1. Manifest[f].accept \in Seq(Schema) /\ Manifest[f].state \in Schema
    BY Zenon, ConstantsAssumption
<1> QED BY <1>1 DEF SchemasOf

-----------------------------------------------------------------------------
(* One lemma per action. *)

LEMMA InitInv == ASSUME CountRules PROVE Init => Inv
<1> SUFFICES ASSUME Init PROVE Inv
    OBVIOUS
<1>1. TypeOK
  <2>1. closing \in BOOLEAN /\ fault \in BOOLEAN
      BY Zenon DEF Init
  <2>2. next_id \in 1..(MaxShards + 1) /\ 0 \in 0..MaxHandled /\ stack \in Seq(Frame)
      BY ConstantsAssumption DEF Init
  <2>3. bus_reg \in [Keys -> Shapes \cup {Unset}]
      BY Zenon, ConstantsAssumption DEF Init
  <2> QED BY Zenon, <2>1, <2>2, <2>3 DEF Init, TypeOK
<1>2. Depth = 0 /\ Frames = {} /\ stack = <<>>
    BY DEF Init, Depth, Frames
<1>3. Stacked /\ Loading /\ Reloading
    BY Zenon, <1>2 DEF Stacked, Loading, Reloading
<1>4. Recorded /\ Owned /\ States
  <2>1. Recorded
      BY Zenon DEF Init, Recorded
  <2>2. Owned
      BY Zenon, <1>2 DEF Init, Owned
  <2>3. States
      BY Zenon, <1>2 DEF Init, States
  <2> QED BY Zenon, <2>1, <2>2, <2>3
<1>5. Opened
  <2>1. \A f \in Files : Records(f) = {} /\ Handles(f) = {} /\ opens[f] = 0
      BY Zenon, <1>2 DEF Init, Records, Handles
  <2>2. Cardinality({}) = 0
      BY Zenon DEF CountRules
  <2> QED BY <2>1, <2>2 DEF Opened, Spare
<1>6. ~fault
    BY Zenon DEF Init
<1> QED BY Zenon, <1>1, <1>3, <1>4, <1>5, <1>6 DEF Inv

LEMMA FetchAbiStep == ASSUME CountRules, Inv, fetch_abi PROVE Inv'
<1>1. stack # <<>> /\ Top.at = "abi" /\ Top.lib # None
    BY Zenon, TopFacts DEF fetch_abi, At, Fits
<1>2. fault' = FALSE
    BY Zenon, <1>1, LibraryCall DEF fetch_abi
<1>3. PICK stage \in {"close", "create"} : Goto(stage)
    BY Zenon DEF fetch_abi
<1>4. <<Top.at, stage>> \in Onward
    BY Zenon, <1>1 DEF Onward
<1>5. UNCHANGED <<libs, registry, adapters, bus_reg, next_id, handled, opens, insts, closing>>
    BY Zenon DEF fetch_abi, bus
<1> QED BY Zenon, <1>1, <1>2, <1>3, <1>4, <1>5, GotoStep DEF Inv, TypeOK

LEMMA ReconstructStep == ASSUME CountRules, Inv, reconstruct PROVE Inv'
<1>1. stack # <<>> /\ Top.at = "describe" /\ Top.inst # None /\ Top.lib \in Files /\ Top.op \in {"load", "reload_from"}
    BY Zenon, TopFacts DEF reconstruct, At, Fits, Carrying, Early, Frame
<1>2. fault' = FALSE
    BY Zenon, <1>1, TopCall DEF reconstruct
<1>3. UNCHANGED <<libs, adapters, bus_reg, next_id, handled, opens, insts, closing>>
    BY Zenon DEF reconstruct, bus
<1>4. registry \in Registries /\ bus_reg \in Registries
    BY Zenon DEF Inv, TypeOK, Registries
<1>5. PICK stage \in {"destroy", "register", "compare"} :
        /\ Goto(stage) /\ registry' \in Registries
        /\ (stage = "register" => Top.op = "load") /\ (stage = "compare" => Top.op = "reload_from")
  <2>1. CASE Goto("destroy") /\ UNCHANGED registry
      BY Zenon, <2>1, <1>4
  <2>2. ASSUME NEW n \in 0..Len(SchemasOf(Top.lib)), registry' = Published(registry, SchemasOf(Top.lib), n),
               Goto(IF n < Len(SchemasOf(Top.lib)) THEN "destroy"
                    ELSE IF Top.op = "load" THEN "register" ELSE "compare")
        PROVE  \E stage \in {"destroy", "register", "compare"} :
                  /\ Goto(stage) /\ registry' \in Registries
                  /\ (stage = "register" => Top.op = "load") /\ (stage = "compare" => Top.op = "reload_from")
    <3>1. registry' \in Registries
        BY Zenon, <1>1, <1>4, <2>2, SchemasType, PublishedType
    <3> QED BY Zenon, <1>1, <2>2, <3>1
  <2> QED BY Zenon, <2>1, <2>2 DEF reconstruct
<1>6. <<Top.at, stage>> \in Onward
    BY Zenon, <1>1 DEF Onward
<1> QED BY Zenon, <1>1, <1>2, <1>3, <1>4, <1>5, <1>6, GotoStep DEF Registries

LEMMA CompareStep == ASSUME CountRules, Inv, compare PROVE Inv'
<1>1. stack # <<>> /\ Top.at = "compare"
    BY Zenon DEF compare, At
<1>2. PICK stage \in {"rebind", "destroy"} : Goto(stage)
    BY Zenon DEF compare
<1>3. <<Top.at, stage>> \in Onward /\ fault' = FALSE
    BY <1>1 DEF Onward, compare, Inv
<1>4. UNCHANGED <<libs, registry, adapters, bus_reg, next_id, handled, opens, insts, closing>>
    BY Zenon DEF compare, bus
<1> QED BY Zenon, <1>1, <1>2, <1>3, <1>4, GotoStep DEF Inv, TypeOK

LEMMA ObserversDoneStep == ASSUME CountRules, Inv, observers_done PROVE Inv'
<1>1. stack # <<>> /\ Top.at = "observers" /\ Goto("close") /\ fault' = FALSE
    BY DEF observers_done, At, Inv
<1>2. <<Top.at, "close">> \in Onward
    BY Zenon, <1>1 DEF Onward
<1>3. UNCHANGED <<libs, registry, adapters, bus_reg, next_id, handled, opens, insts, closing>>
    BY Zenon DEF observers_done, bus
<1> QED BY Zenon, <1>1, <1>2, <1>3, GotoStep DEF Inv, TypeOK

(* Host code runs when no call owns an instance. *)
LEMMA HostFacts ==
    ASSUME Inv, HostRuns
    PROVE  /\ stack # <<>> => Top.at = "observers" /\ Top.inst = None
           /\ \A id \in ShardIds : ~Swapping(id)
BY Zenon, TopFacts DEF HostRuns, Fits, Carrying, Swapping

(* A call that has acquired nothing begins. *)
LEMMA PushStep ==
    ASSUME CountRules, Inv, HostRuns, NEW fr \in Frame, stack' = Append(stack, fr),
           fr.at = "open", fr.lib = None, fr.inst = None, fr.op # "unload",
           fr.op = "load" => libs[fr.name] = None,
           fr.op = "reload_from" =>
                /\ libs[fr.name] # None /\ adapters[libs[fr.name].id] # None
                /\ fr.snapshot <= handled[libs[fr.name].id]
                /\ ~ReviveThrows => fr.snapshot = handled[libs[fr.name].id],
           UNCHANGED <<libs, registry, adapters, bus_reg, next_id, handled, opens, insts, closing>>,
           fault' = FALSE
    PROVE  Inv'
<1> USE DEF Inv
<1>1. stack \in Seq(Frame) /\ stack' \in Seq(Frame) /\ stack' # <<>> /\ Top' = fr
    BY Zenon, Pushed DEF TypeOK
<1>2. TypeOK'
    BY Zenon, <1>1 DEF TypeOK
<1>3. Stacked'
  <2>1. Fits(fr)
      BY Zenon DEF Fits, Carrying, Early
  <2> QED BY Zenon, <1>1, <2>1, StackedPushed DEF HostRuns
<1>4. Loading' /\ Reloading'
    BY Zenon, <1>1 DEF Loading, Reloading
<1>5. Recorded'
    BY Zenon DEF Recorded
<1>6. Owned'
    BY Zenon, <1>1, HostFacts, ConstantsAssumption DEF Owned
<1>7. States'
  <2>1. \A id \in ShardIds : ~Swapping(id) /\ ~Swapping(id)'
      BY Zenon, <1>1, HostFacts DEF Swapping
  <2> QED BY Zenon, <1>1, <2>1 DEF States
<1>8. Opened'
  <2> SUFFICES ASSUME NEW f \in Files PROVE Spare(f)' = Spare(f)
      BY Zenon DEF Opened
  <2>1. Records(f)' = Records(f)
      BY Zenon DEF Records
  <2>2. Same(fr.lib, f) = 0
      BY Zenon, ConstantsAssumption DEF Same
  <2>3. Cardinality(Handles(f)') = Cardinality(Handles(f))
      BY <1>1, <2>2, HandlesPushed
  <2> QED BY Zenon, <2>1, <2>3 DEF Spare
<1> QED BY Zenon, <1>2, <1>3, <1>4, <1>5, <1>6, <1>7, <1>8

LEMMA LoadStep == ASSUME CountRules, Inv, NEW n \in Names, NEW f \in Files, load(n, f) PROVE Inv'
<1> DEFINE fr == [op |-> "load", name |-> n, file |-> f, at |-> "open", lib |-> None, inst |-> None, snapshot |-> 0]
<1>1. fr \in Frame
    BY ConstantsAssumption DEF Frame, Stages
<1>2. HostRuns /\ stack' = Append(stack, fr) /\ libs[n] = None
    BY Zenon DEF load, Callable, Begin
<1>3. UNCHANGED <<libs, registry, adapters, bus_reg, next_id, handled, opens, insts, closing>> /\ fault' = FALSE
    BY DEF load, bus, Inv
<1> QED BY Zenon, <1>1, <1>2, <1>3, PushStep

LEMMA ReloadFromStep == ASSUME CountRules, Inv, NEW n \in Names, NEW f \in Files, reload_from(n, f) PROVE Inv'
<1>1. libs[n] # None /\ libs[n].id \in ShardIds /\ adapters[libs[n].id] # None
    BY Zenon DEF reload_from, Inv, TypeOK
<1>2. PICK id \in ShardIds : id = libs[n].id
    BY Zenon, <1>1
<1>3. PICK i \in Insts : i = adapters[id].inst
    BY Zenon, <1>1, <1>2 DEF Inv, TypeOK
<1>4. HostRuns
    BY Zenon DEF reload_from, Callable
<1>5. PICK st \in 0..MaxHandled :
        /\ insts[i] # None /\ st = insts[i].state /\ st <= handled[id]
        /\ ~ReviveThrows => st = handled[id]
  <2>1. insts[i] # None
      BY Zenon, <1>1, <1>2, <1>3 DEF Inv, Owned
  <2>2. ~Swapping(id)
      BY Zenon, <1>4, HostFacts
  <2>3. insts[i].state <= handled[id] /\ (~ReviveThrows => insts[i].state = handled[id])
      BY Zenon, <1>1, <1>2, <1>3, <2>2 DEF Inv, States
  <2>4. insts[i].state \in 0..MaxHandled
      BY Zenon, <2>1 DEF Inv, TypeOK
  <2> QED BY Zenon, <2>1, <2>3, <2>4
<1> DEFINE fr == [op |-> "reload_from", name |-> n, file |-> f, at |-> "open", lib |-> None, inst |-> None,
                  snapshot |-> st]
<1>6. fr \in Frame
    BY Zenon DEF Frame, Stages
<1>7. stack' = Append(stack, fr) /\ Call(adapters[id].inst)
    BY Zenon, <1>2, <1>3, <1>5 DEF reload_from, Callable, Begin
<1>8. UNCHANGED <<libs, registry, adapters, bus_reg, next_id, handled, opens, insts, closing>>
    BY Zenon DEF reload_from, bus
<1>9. fault' = FALSE
    BY Zenon, <1>1, <1>2, <1>7, AdapterCall
<1> HIDE DEF fr
<1>10. /\ fr.at = "open" /\ fr.lib = None /\ fr.inst = None /\ fr.op = "reload_from" /\ fr.name = n
      /\ fr.snapshot = st
    BY Zenon DEF fr
<1> QED BY ZenonT(30), <1>1, <1>2, <1>4, <1>5, <1>6, <1>7, <1>8, <1>9, <1>10, PushStep

(* A call that owns no instance returns, closing the library it has open. *)
LEMMA ReturnStep ==
    ASSUME CountRules, Inv, stack # <<>>, Top.inst = None, Top.at # "revive", Return,
           opens' = IF Top.lib = None THEN opens ELSE lib_close(Top.lib),
           UNCHANGED <<libs, registry, adapters, bus_reg, next_id, handled, insts, closing, fault>>
    PROVE  Inv'
<1> USE DEF Inv
<1>1. stack \in Seq(Frame) /\ Depth - 1 \in 0..(Depth - 1)
    BY FrameType DEF TypeOK
<1>2. /\ Stacked' /\ stack' \in Seq(Frame)
      /\ stack' # <<>> => Top'.at = "observers" /\ Top'.op = "reload_from" /\ Top'.inst = None
    BY Zenon, <1>1, StackedPopped DEF Return
<1>3. opens' \in [Files -> Nat]
    BY TopOpen DEF TypeOK, lib_close
<1>4. TypeOK'
    BY Zenon, <1>2, <1>3 DEF TypeOK
<1>5. Loading' /\ Reloading'
    BY Zenon, <1>2 DEF Loading, Reloading, Early
<1>6. Recorded'
    BY Zenon DEF Recorded
<1>7. Owned'
    BY Zenon, <1>2, ConstantsAssumption DEF Owned
<1>8. States'
  <2>1. \A id \in ShardIds : ~Swapping(id) /\ ~Swapping(id)'
      BY Zenon, <1>2 DEF Swapping
  <2> QED BY Zenon, <1>2, <2>1 DEF States, Early
<1>9. Opened'
  <2> SUFFICES ASSUME NEW f \in Files PROVE Spare(f)' = Spare(f)
      BY Zenon DEF Opened
  <2>1. Records(f)' = Records(f) /\ Cardinality(Records(f)) \in Nat
      BY Zenon, RecordsFinite DEF Records
  <2>2. /\ Cardinality(Handles(f)) \in Nat /\ Cardinality(Handles(f)') \in Nat
        /\ Cardinality(Handles(f)') = Cardinality(Handles(f)) - Same(Top.lib, f)
      BY Zenon, <1>1, HandlesPopped
  <2>3. opens[f] \in Nat /\ opens'[f] = opens[f] - Same(Top.lib, f)
      BY ConstantsAssumption, TopOpen DEF TypeOK, lib_close, Same
  <2>4. Same(Top.lib, f) \in Nat
      BY Zenon DEF Same
  <2> QED BY <2>1, <2>2, <2>3, <2>4 DEF Spare
<1> QED BY Zenon, <1>2, <1>4, <1>5, <1>6, <1>7, <1>8, <1>9

LEMMA CloseStep == ASSUME CountRules, Inv, close PROVE Inv'
<1>1. stack # <<>> /\ Top.at = "close" /\ Top.lib # None /\ Top.inst = None
    BY Zenon, TopFacts DEF close, At, Fits, Carrying
<1>2. UNCHANGED <<libs, registry, adapters, bus_reg, next_id, handled, insts, closing, fault>>
    BY Zenon DEF close, bus
<1> QED BY Zenon, <1>1, <1>2, ReturnStep DEF close

-----------------------------------------------------------------------------
(* Preservation by the steps of load and unload, by the hand-over of a Shard
   to a new library (rebind, revive), and by the host's deliveries and
   unregistrations. *)

LEMMA LibOpenStep == ASSUME CountRules, Inv, lib_open PROVE Inv'
<1> USE DEF Inv
<1>1. /\ stack # <<>> /\ Top.at = "open" /\ Top.lib = None /\ Top.inst = None /\ Top \in Frame /\ stack \in Seq(Frame)
      /\ Top.op # "unload" /\ Top.file \in Files
    BY Zenon, TopFacts DEF lib_open, At, Fits, Carrying, Early, Frame
<1>2. UNCHANGED <<libs, registry, adapters, bus_reg, next_id, handled, insts, closing, fault>>
    BY Zenon DEF lib_open, bus
<1>3. CASE Return /\ UNCHANGED opens
    BY Zenon, <1>1, <1>2, <1>3, ReturnStep
<1>4. CASE /\ opens' = [opens EXCEPT ![Top.file] = @ + 1]
           /\ Becomes([Top EXCEPT !.lib = Top.file, !.at = "abi"])
  <2>1. PICK fr \in Frame : fr = [Top EXCEPT !.lib = Top.file, !.at = "abi"]
      BY Zenon, <1>1 DEF Frame, Stages
  <2>2. /\ Becomes(fr) /\ fr.op = Top.op /\ fr.name = Top.name /\ fr.lib = Top.file /\ fr.inst = None
        /\ fr.snapshot = Top.snapshot /\ fr.at = "abi"
      BY Zenon, <1>1, <1>4, <2>1 DEF Frame
  <2>3. stack' \in Seq(Frame) /\ stack' # <<>> /\ Top' = fr
      BY Zenon, <1>1, <2>2, Moved
  <2>4. opens' \in [Files -> Nat]
      BY <1>1, <1>4 DEF TypeOK
  <2>5. TypeOK'
      BY Zenon, <1>2, <2>3, <2>4 DEF TypeOK
  <2>6. Stacked'
    <3>1. Fits(fr)
        BY Zenon, <1>1, <2>2, ConstantsAssumption DEF Fits, Carrying, Early
    <3> QED BY Zenon, <1>1, <2>2, <3>1, StackedMoved
  <2>7. Loading' /\ Reloading'
      BY Zenon, <1>1, <1>2, <2>2, <2>3 DEF Loading, Reloading, Early
  <2>8. Recorded'
      BY Zenon, <1>2 DEF Recorded
  <2>9. Owned'
      BY Zenon, <1>1, <1>2, <2>2, <2>3 DEF Owned
  <2>10. States'
    <3>1. \A id \in ShardIds : ~Swapping(id) /\ ~Swapping(id)'
        BY Zenon, <1>1, <2>2, <2>3 DEF Swapping
    <3> QED BY Zenon, <1>1, <1>2, <2>2, <2>3, <3>1 DEF States, Early
  <2>11. Opened'
    <3> SUFFICES ASSUME NEW f \in Files PROVE Spare(f)' = Spare(f)
        BY Zenon DEF Opened
    <3>1. Records(f)' = Records(f) /\ Cardinality(Records(f)) \in Nat
        BY Zenon, <1>2, RecordsFinite DEF Records
    <3>2. /\ Cardinality(Handles(f)) \in Nat /\ Cardinality(Handles(f)') \in Nat
          /\ Cardinality(Handles(f)') = Cardinality(Handles(f)) - Same(Top.lib, f) + Same(fr.lib, f)
        BY Zenon, <1>1, <2>2, HandlesMoved
    <3>3. Same(Top.lib, f) = 0 /\ Same(fr.lib, f) \in Nat
        BY Zenon, <1>1, ConstantsAssumption DEF Same
    <3>4. opens[f] \in Nat /\ opens'[f] = opens[f] + Same(fr.lib, f)
        BY <1>1, <1>4, <2>2 DEF TypeOK, Same
    <3> QED BY <3>1, <3>2, <3>3, <3>4 DEF Spare
  <2> QED BY Zenon, <1>2, <2>5, <2>6, <2>7, <2>8, <2>9, <2>10, <2>11
<1> QED BY Zenon, <1>3, <1>4 DEF lib_open

LEMMA CreateStep == ASSUME CountRules, Inv, create PROVE Inv'
<1> USE DEF Inv
<1>1. /\ stack # <<>> /\ Top.at = "create" /\ Top.lib # None /\ Top.inst = None /\ Top \in Frame
      /\ stack \in Seq(Frame) /\ Top.op # "unload" /\ Top.lib \in Files
    BY Zenon, TopFacts DEF create, At, Fits, Carrying, Early, Frame
<1>2. fault' = FALSE
    BY Zenon, <1>1, LibraryCall DEF create
<1>3. UNCHANGED <<libs, registry, adapters, bus_reg, next_id, handled, opens, closing>>
    BY Zenon DEF create, bus
<1>4. CASE Goto("close") /\ UNCHANGED insts
  <2>1. <<Top.at, "close">> \in Onward
      BY Zenon, <1>1 DEF Onward
  <2> QED BY Zenon, <1>1, <1>2, <1>3, <1>4, <2>1, GotoStep DEF TypeOK
<1>5. CASE /\ Free # {}
           /\ insts' = [insts EXCEPT ![NewInst] = [lib |-> Top.lib, state |-> 0]]
           /\ Becomes([Top EXCEPT !.inst = NewInst, !.at = "describe"])
  <2>1. PICK new \in Insts : new = NewInst /\ insts[new] = None
      BY Zenon, <1>5 DEF Free, NewInst
  <2>2. PICK fr \in Frame : fr = [Top EXCEPT !.inst = new, !.at = "describe"]
      BY Zenon, <1>1 DEF Frame, Stages
  <2>3. /\ Becomes(fr) /\ fr.op = Top.op /\ fr.name = Top.name /\ fr.lib = Top.lib /\ fr.inst = new
        /\ fr.snapshot = Top.snapshot /\ fr.at = "describe" /\ new # None
      BY Zenon, <1>1, <1>5, <2>1, <2>2, ConstantsAssumption DEF Frame
  <2>4. stack' \in Seq(Frame) /\ stack' # <<>> /\ Top' = fr
      BY Zenon, <1>1, <2>3, Moved
  <2>5. /\ [lib |-> Top.lib, state |-> 0] \in [lib : Files, state : 0..MaxHandled]
        /\ [lib |-> Top.lib, state |-> 0] # None
      BY <1>1, ConstantsAssumption
  <2>6. \A i \in Insts : insts'[i] = IF i = new THEN [lib |-> Top.lib, state |-> 0] ELSE insts[i]
      BY Zenon, <1>5, <2>1 DEF TypeOK
  <2>7. TypeOK'
    <3>1. insts' \in [Insts -> [lib : Files, state : 0..MaxHandled] \cup {None}]
        BY Zenon, <1>5, <2>1, <2>5 DEF TypeOK
    <3> QED BY Zenon, <1>2, <1>3, <2>4, <3>1 DEF TypeOK
  <2>8. Stacked'
    <3>1. Fits(fr)
        BY Zenon, <1>1, <2>3 DEF Fits, Carrying, Early
    <3> QED BY Zenon, <1>1, <2>3, <3>1, StackedMoved
  <2>9. Loading' /\ Reloading'
      BY Zenon, <1>1, <1>3, <2>3, <2>4 DEF Loading, Reloading, Early
  <2>10. \A id \in ShardIds : adapters[id] # None =>
            adapters[id].inst \in Insts /\ adapters[id].inst # new /\ insts'[adapters[id].inst] = insts[adapters[id].inst]
    <3>1. \A id \in ShardIds : adapters[id] # None => adapters[id].inst \in Insts
        BY Zenon DEF TypeOK
    <3> QED BY Zenon, <3>1, <2>1, <2>6 DEF Owned
  <2>11. Recorded'
    <3>1. \A n \in Names : libs[n] # None => libs[n].id \in ShardIds
        BY Zenon DEF TypeOK
    <3> QED BY Zenon, <1>3, <2>10, <3>1 DEF Recorded
  <2>12. Owned'
    <3>1. Top'.inst = new /\ insts'[new] # None /\ insts'[new].lib = Top'.lib
        BY <2>3, <2>4, <2>5, <2>6
    <3>2. \A i \in Insts : insts'[i] # None =>
            (\E id \in ShardIds : adapters[id] # None /\ adapters[id].inst = i) \/ i = new
        BY <1>1, <2>6, ConstantsAssumption DEF Owned
    <3> QED BY <1>3, <2>4, <2>10, <3>1, <3>2 DEF Owned
  <2>13. States'
    <3>1. \A id \in ShardIds : ~Swapping(id) /\ ~Swapping(id)'
        BY Zenon, <1>1, <2>3, <2>4 DEF Swapping
    <3>2. insts'[new].state = 0
        BY <2>6
    <3> QED BY Zenon, <1>1, <1>3, <2>3, <2>4, <2>10, <3>1, <3>2 DEF States, Early
  <2>14. Opened'
    <3>1. \A f \in Files : Records(f)' = Records(f)
        BY Zenon, <1>3 DEF Records
    <3>2. ASSUME NEW f \in Files PROVE Cardinality(Handles(f)') = Cardinality(Handles(f))
      <4>1. /\ Cardinality(Handles(f)) \in Nat
            /\ Cardinality(Handles(f)') = Cardinality(Handles(f)) - Same(Top.lib, f) + Same(fr.lib, f)
          BY Zenon, <1>1, <2>3, HandlesMoved
      <4>2. Same(Top.lib, f) \in Nat /\ Same(fr.lib, f) = Same(Top.lib, f)
          BY Zenon, <2>3 DEF Same
      <4> QED BY <4>1, <4>2
    <3> QED BY Zenon, <1>3, <3>1, <3>2 DEF Opened, Spare
  <2> QED BY Zenon, <1>2, <2>7, <2>8, <2>9, <2>11, <2>12, <2>13, <2>14
<1> QED BY Zenon, <1>4, <1>5 DEF create

LEMMA DestroyStep == ASSUME CountRules, Inv, destroy PROVE Inv'
<1> USE DEF Inv
<1>1. /\ stack # <<>> /\ Top.at = "destroy" /\ Top.lib # None /\ Top.inst # None /\ Top.inst \in Insts
      /\ Top \in Frame /\ stack \in Seq(Frame)
    BY Zenon, TopFacts DEF destroy, At, Fits, Carrying, Frame
<1>2. fault' = FALSE
    BY Zenon, <1>1, TopCall DEF destroy
<1>3. /\ UNCHANGED <<libs, registry, adapters, bus_reg, next_id, handled, opens, closing>>
      /\ insts' = [insts EXCEPT ![Top.inst] = None]
    BY Zenon DEF destroy, bus
<1>4. PICK fr \in Frame : fr = [Top EXCEPT !.inst = None, !.at = "close"]
    BY Zenon, <1>1 DEF Frame, Stages
<1>5. Becomes(fr) /\ fr.lib = Top.lib /\ fr.inst = None /\ fr.at = "close" /\ fr.op = Top.op
    BY Zenon, <1>1, <1>4 DEF Frame, destroy
<1>6. stack' \in Seq(Frame) /\ stack' # <<>> /\ Top' = fr
    BY Zenon, <1>1, <1>5, Moved
<1>7. TypeOK'
    BY Zenon, <1>1, <1>2, <1>3, <1>6 DEF TypeOK
<1>8. Stacked'
  <2>1. Fits(fr)
      BY Zenon, <1>1, <1>5 DEF Fits, Carrying, Early
  <2> QED BY Zenon, <1>1, <1>5, <2>1, StackedMoved
<1>9. Loading' /\ Reloading'
    BY Zenon, <1>5, <1>6 DEF Loading, Reloading, Early
<1>10. \A i \in Insts : insts'[i] = IF i = Top.inst THEN None ELSE insts[i]
    BY Zenon, <1>1, <1>3 DEF TypeOK
<1>11. \A id \in ShardIds : adapters[id] # None =>
          adapters[id].inst \in Insts /\ insts'[adapters[id].inst] = insts[adapters[id].inst]
  <2>1. \A id \in ShardIds : adapters[id] # None => adapters[id].inst \in Insts
      BY Zenon DEF TypeOK
  <2> QED BY Zenon, <1>1, <1>10, <2>1 DEF Owned
<1>12. Recorded'
  <2>1. \A n \in Names : libs[n] # None => libs[n].id \in ShardIds
      BY Zenon DEF TypeOK
  <2> QED BY <1>3, <1>11, <2>1 DEF Recorded
<1>13. Owned'
    BY <1>1, <1>3, <1>5, <1>6, <1>10, <1>11 DEF Owned
<1>14. States'
  <2>1. \A id \in ShardIds : ~Swapping(id) /\ ~Swapping(id)'
      BY Zenon, <1>1, <1>5, <1>6 DEF Swapping
  <2> QED BY <1>3, <1>5, <1>6, <1>11, <2>1 DEF States, Early
<1>15. Opened'
  <2>1. \A f \in Files : Records(f)' = Records(f)
      BY Zenon, <1>3 DEF Records
  <2>2. ASSUME NEW f \in Files PROVE Cardinality(Handles(f)') = Cardinality(Handles(f))
    <3>1. /\ Cardinality(Handles(f)) \in Nat
          /\ Cardinality(Handles(f)') = Cardinality(Handles(f)) - Same(Top.lib, f) + Same(fr.lib, f)
        BY Zenon, <1>1, <1>5, HandlesMoved
    <3>2. Same(Top.lib, f) \in Nat /\ Same(fr.lib, f) = Same(Top.lib, f)
        BY Zenon, <1>5 DEF Same
    <3> QED BY <3>1, <3>2
  <2> QED BY Zenon, <1>3, <2>1, <2>2 DEF Opened, Spare
<1> QED BY Zenon, <1>2, <1>7, <1>8, <1>9, <1>12, <1>13, <1>14, <1>15

LEMMA RegisterStep == ASSUME CountRules, Inv, register PROVE Inv'
<1> USE DEF Inv
<1>1. /\ stack # <<>> /\ Top.at = "register" /\ Top.inst # None /\ Top.inst \in Insts /\ Top.lib \in Files
      /\ Top.op = "load" /\ Top.name \in Names /\ Top \in Frame /\ stack \in Seq(Frame)
    BY Zenon, TopFacts DEF register, At, Fits, Carrying, Frame
<1>2. fault' = FALSE
    BY Zenon, <1>1, TopCall DEF register
<1>3. UNCHANGED <<registry, handled, opens, insts, closing>>
    BY Zenon DEF register
<1> DEFINE ss == SchemasOf(Top.lib)
<1>4. bus_reg \in Registries /\ ss \in Seq(Schema) /\ Len(ss) = Len(Manifest[Top.lib].accept) + 1
      /\ Len(Manifest[Top.lib].accept) \in Nat /\ Manifest[Top.lib].state \in Schema
    BY <1>1, SchemasType DEF TypeOK, Registries
<1>5. CASE /\ Goto("destroy")
           /\ \E n \in 0..Len(ss) :
                 bus_reg' = Published(bus_reg, ss, IF n < Len(ss) THEN n ELSE Len(Manifest[Top.lib].accept))
           /\ UNCHANGED <<libs, adapters, next_id>>
  <2>1. PICK n \in 0..Len(ss) : bus_reg' = Published(bus_reg, ss, n)
      BY <1>4, <1>5
  <2>2. bus_reg' \in Registries
      BY Zenon, <1>4, <2>1, PublishedType
  <2>3. <<Top.at, "destroy">> \in Onward
      BY Zenon, <1>1 DEF Onward
  <2> QED BY Zenon, <1>1, <1>2, <1>3, <1>5, <2>2, <2>3, GotoStep DEF TypeOK, Registries
<1>6. ASSUME next_id <= MaxShards, bus_reg' = Published(bus_reg, ss, Len(ss)),
             adapters' = [adapters EXCEPT ![next_id] = [inst |-> Top.inst, state_schema |-> Manifest[Top.lib].state]],
             libs' = [libs EXCEPT ![Top.name] = [lib |-> Top.lib, id |-> next_id]],
             next_id' = next_id + 1, Return
      PROVE  Inv'
  <2>1. PICK id \in ShardIds : id = next_id
      BY <1>6, ConstantsAssumption DEF TypeOK, ShardIds
  <2>2. /\ Stacked' /\ stack' \in Seq(Frame)
        /\ stack' # <<>> => Top'.at = "observers" /\ Top'.op = "reload_from" /\ Top'.inst = None
    <3>1. Depth - 1 \in 0..(Depth - 1)
        BY <1>1, FrameType
    <3> QED BY Zenon, <1>1, <1>6, <3>1, StackedPopped DEF Return
  <2>3. PICK adapter \in [inst : Insts, state_schema : Schema] :
            adapter = [inst |-> Top.inst, state_schema |-> Manifest[Top.lib].state]
      BY Zenon, <1>1, <1>4
  <2>4. adapter # None /\ adapter.inst = Top.inst
      BY Zenon, <2>3, ConstantsAssumption
  <2>5. PICK rec \in [lib : Files, id : ShardIds] : rec = [lib |-> Top.lib, id |-> id]
      BY Zenon, <1>1
  <2>6. rec # None /\ rec.lib = Top.lib /\ rec.id = id
      BY Zenon, <2>5, ConstantsAssumption
  <2>7. \A j \in ShardIds : adapters'[j] = IF j = id THEN adapter ELSE adapters[j]
      BY Zenon, <1>6, <2>1, <2>3 DEF TypeOK
  <2>8. \A m \in Names : libs'[m] = IF m = Top.name THEN rec ELSE libs[m]
      BY Zenon, <1>1, <1>6, <2>1, <2>5 DEF TypeOK
  <2>9. libs[Top.name] = None
      BY Zenon, <1>1 DEF Loading
  <2>10. adapters[id] = None /\ \A m \in Names : libs[m] # None => libs[m].id \in ShardIds /\ libs[m].id # id
    <3>1. \A m \in Names : libs[m] # None => libs[m].id \in ShardIds /\ libs[m].id < id
        BY Zenon, <2>1 DEF Recorded, TypeOK
    <3>2. \A m \in Names : libs[m] # None => libs[m].id # id
        BY <2>1, <3>1 DEF TypeOK, ShardIds
    <3> QED BY Zenon, <3>1, <3>2 DEF Recorded
  <2>11. TypeOK'
    <3>1. bus_reg' \in Registries
        BY <1>4, <1>6, PublishedType
    <3>2. next_id' \in 1..(MaxShards + 1)
        BY <1>6, ConstantsAssumption DEF TypeOK
    <3>3. adapters' \in [ShardIds -> [inst : Insts, state_schema : Schema] \cup {None}]
        BY <1>6, <2>1, <2>3 DEF TypeOK
    <3>4. libs' \in [Names -> [lib : Files, id : ShardIds] \cup {None}]
        BY ZenonT(30), <1>6, <2>1, <2>5 DEF TypeOK
    <3> QED BY ZenonT(30), <1>2, <1>3, <2>2, <3>1, <3>2, <3>3, <3>4 DEF TypeOK, Registries
  <2>12. Loading' /\ Reloading'
      BY Zenon, <2>2 DEF Loading, Reloading, Early
  <2>13. Recorded'
    <3>1. \A m \in Names : libs'[m] # None => libs'[m].id < next_id'
        BY <1>6, <2>1, <2>6, <2>8, <2>10 DEF Recorded, TypeOK, ShardIds
    <3>2. \A m, n \in Names : libs'[m] # None /\ libs'[n] # None /\ libs'[m].id = libs'[n].id => m = n
        BY <2>6, <2>8, <2>10 DEF Recorded
    <3>3. \A j \in ShardIds : adapters'[j] # None => \E n \in Names : libs'[n] # None /\ libs'[n].id = j
      <4> SUFFICES ASSUME NEW j \in ShardIds, adapters'[j] # None
                   PROVE  \E n \in Names : libs'[n] # None /\ libs'[n].id = j
          OBVIOUS
      <4>1. CASE j = id
          BY Zenon, <1>1, <2>6, <2>8, <4>1
      <4>2. CASE j # id
        <5>1. PICK n \in Names : libs[n] # None /\ libs[n].id = j
            BY Zenon, <2>7, <4>2 DEF Recorded
        <5> QED BY Zenon, <2>8, <2>9, <5>1
      <4> QED BY Zenon, <4>1, <4>2
    <3>4. \A n \in Names : libs'[n] # None /\ adapters'[libs'[n].id] # None =>
              insts'[adapters'[libs'[n].id].inst].lib = libs'[n].lib
      <4> SUFFICES ASSUME NEW n \in Names, libs'[n] # None, adapters'[libs'[n].id] # None
                   PROVE  insts'[adapters'[libs'[n].id].inst].lib = libs'[n].lib
          OBVIOUS
      <4>1. CASE n = Top.name
          BY Zenon, <1>1, <1>3, <2>4, <2>6, <2>7, <2>8, <4>1 DEF Owned
      <4>2. CASE n # Top.name
          BY <1>3, <2>7, <2>8, <2>10, <4>2 DEF Recorded
      <4> QED BY Zenon, <4>1, <4>2
    <3> QED BY Zenon, <3>1, <3>2, <3>3, <3>4 DEF Recorded
  <2>14. Owned'
    <3>1. insts[Top.inst] # None /\ \A j \in ShardIds : adapters[j] # None => adapters[j].inst # Top.inst
        BY Zenon, <1>1 DEF Owned
    <3>2. \A j \in ShardIds : adapters'[j] # None => insts'[adapters'[j].inst] # None
        BY Zenon, <1>3, <2>4, <2>7, <3>1 DEF Owned
    <3>3. \A i, j \in ShardIds : adapters'[i] # None /\ adapters'[j] # None /\ adapters'[i].inst = adapters'[j].inst => i = j
        BY <2>4, <2>7, <3>1 DEF Owned
    <3>4. \A i \in Insts : insts'[i] # None => \E j \in ShardIds : adapters'[j] # None /\ adapters'[j].inst = i
      <4> SUFFICES ASSUME NEW i \in Insts, insts[i] # None
                   PROVE  \E j \in ShardIds : adapters'[j] # None /\ adapters'[j].inst = i
          BY Zenon, <1>3
      <4>1. CASE Top.inst = i
          BY Zenon, <2>4, <2>7, <4>1
      <4>2. CASE Top.inst # i
        <5>1. PICK j \in ShardIds : adapters[j] # None /\ adapters[j].inst = i
            BY Zenon, <4>2 DEF Owned
        <5> QED BY Zenon, <2>7, <2>10, <5>1
      <4> QED BY Zenon, <4>1, <4>2
    <3> QED BY Zenon, <2>2, <3>2, <3>3, <3>4 DEF Owned
  <2>15. States'
    <3>1. \A j \in ShardIds : ~Swapping(j) /\ ~Swapping(j)'
        BY Zenon, <1>1, <2>2 DEF Swapping
    <3>2. insts[Top.inst].state = 0 /\ handled[id] = 0
        BY <1>1, <2>1 DEF States, TypeOK, ShardIds
    <3>3. \A j \in ShardIds : j >= next_id' => handled'[j] = 0
      <4>1. \A j \in ShardIds : j >= id + 1 => j >= id
          BY <2>1 DEF ShardIds
      <4> QED BY Zenon, <1>3, <1>6, <2>1, <4>1 DEF States
    <3>4. ASSUME NEW j \in ShardIds, adapters'[j] # None
          PROVE  insts'[adapters'[j].inst].state <= handled'[j] /\ (~ReviveThrows => insts'[adapters'[j].inst].state = handled'[j])
      <4>1. CASE j = id
          BY <1>3, <2>4, <2>7, <3>2, <4>1
      <4>2. CASE j # id
          BY Zenon, <1>3, <2>7, <3>1, <3>4, <4>2 DEF States
      <4> QED BY Zenon, <4>1, <4>2
    <3> QED BY Zenon, <2>2, <3>1, <3>3, <3>4 DEF States, Early
  <2>16. Opened'
    <3> SUFFICES ASSUME NEW f \in Files PROVE Spare(f)' = Spare(f)
        BY Zenon DEF Opened
    <3>1. /\ Cardinality(Records(f)) \in Nat /\ Cardinality(Records(f)') \in Nat
          /\ Cardinality(Records(f)') = Cardinality(Records(f)) + Same(Top.lib, f)
      <4>1. PICK n \in Names : n = Top.name
          BY Zenon, <1>1
      <4>2. libs' = [libs EXCEPT ![n] = rec] /\ libs[n] = None
          BY Zenon, <1>6, <2>1, <2>5, <2>9, <4>1
      <4>3. PICK lib \in Files : lib = Top.lib
          BY Zenon, <1>1
      <4> QED BY Zenon, <2>6, <4>2, <4>3, RecordsAdded
    <3>3. /\ Cardinality(Handles(f)) \in Nat /\ Cardinality(Handles(f)') \in Nat
          /\ Cardinality(Handles(f)') = Cardinality(Handles(f)) - Same(Top.lib, f)
        BY Zenon, <1>1, <1>6, HandlesPopped
    <3>4. Same(Top.lib, f) \in Nat /\ opens'[f] = opens[f] /\ opens[f] \in Nat
        BY Zenon, <1>3 DEF Same, TypeOK
    <3> QED BY <3>1, <3>3, <3>4 DEF Spare
  <2> QED BY Zenon, <1>2, <2>2, <2>11, <2>12, <2>13, <2>14, <2>15, <2>16
<1> QED BY Zenon, <1>5, <1>6 DEF register

LEMMA UnloadStep == ASSUME CountRules, Inv, NEW n \in Names, unload(n) PROVE Inv'
<1> USE DEF Inv
<1>1. HostRuns /\ libs[n] # None
    BY Zenon DEF unload, Callable, HostRuns, is_loaded
<1>2. PICK id \in ShardIds, lib \in Files : id = libs[n].id /\ lib = libs[n].lib
    BY <1>1 DEF TypeOK
<1>3. /\ libs' = [libs EXCEPT ![n] = None] /\ adapters' = [adapters EXCEPT ![id] = None]
      /\ UNCHANGED <<registry, bus_reg, next_id, handled, opens, insts, closing, fault>>
    BY Zenon, <1>2 DEF unload
<1>4. PICK fr \in Frame :
        /\ stack' = Append(stack, fr) /\ fr.op = "unload" /\ fr.lib = lib
        /\ IF adapters[id] = None THEN fr.at = "close" /\ fr.inst = None
           ELSE fr.at = "destroy" /\ fr.inst = adapters[id].inst
  <2>1. CASE adapters[id] = None
    <3> DEFINE fr == [op |-> "unload", name |-> n, file |-> lib, at |-> "close", lib |-> lib, inst |-> None, snapshot |-> 0]
    <3>1. fr \in Frame
        BY ConstantsAssumption DEF Frame, Stages
    <3>2. stack' = Append(stack, fr)
        BY Zenon, <2>1, <1>2 DEF unload, Begin
    <3> QED BY Zenon, <2>1, <3>1, <3>2
  <2>2. CASE adapters[id] # None
    <3> DEFINE fr == [op |-> "unload", name |-> n, file |-> lib, at |-> "destroy", lib |-> lib,
                      inst |-> adapters[id].inst, snapshot |-> 0]
    <3>1. adapters[id].inst \in Insts
        BY Zenon, <2>2 DEF TypeOK
    <3>2. fr \in Frame
        BY <3>1, ConstantsAssumption DEF Frame, Stages
    <3>3. stack' = Append(stack, fr)
        BY Zenon, <2>2, <1>2 DEF unload, Begin
    <3> QED BY Zenon, <2>2, <3>2, <3>3
  <2> QED BY Zenon, <2>1, <2>2
<1>5. stack \in Seq(Frame) /\ stack' \in Seq(Frame) /\ stack' # <<>> /\ Top' = fr
    BY Zenon, <1>4, Pushed DEF TypeOK
<1>6. adapters[id] # None => adapters[id].inst \in Insts /\ adapters[id].inst # None
    BY Zenon, ConstantsAssumption DEF TypeOK
<1>7. TypeOK'
    BY Zenon, <1>3, <1>5 DEF TypeOK
<1>8. Stacked'
  <2>1. Fits(fr)
      BY Zenon, <1>4, <1>6, ConstantsAssumption DEF Fits, Carrying, Early
  <2> QED BY Zenon, <1>1, <1>4, <1>5, <2>1, StackedPushed DEF HostRuns
<1>9. Loading' /\ Reloading'
    BY Zenon, <1>4, <1>5 DEF Loading, Reloading
<1>10. Recorded'
  <2>1. \A m \in Names : libs'[m] # None => libs'[m] = libs[m] /\ m # n /\ libs[m].id # id /\ libs[m].id \in ShardIds
      BY <1>1, <1>2, <1>3 DEF Recorded, TypeOK
  <2>2. \A j \in ShardIds : adapters'[j] # None => adapters'[j] = adapters[j] /\ j # id
      BY Zenon, <1>3 DEF TypeOK
  <2>3. \A m \in Names : m # n => libs'[m] = libs[m]
      BY Zenon, <1>3 DEF TypeOK
  <2> QED BY <1>2, <1>3, <2>1, <2>2, <2>3 DEF Recorded
<1>11. Owned'
  <2>1. \A j \in ShardIds : adapters'[j] = IF j = id THEN None ELSE adapters[j]
      BY Zenon, <1>3 DEF TypeOK
  <2>2. adapters[id] # None => insts[adapters[id].inst].lib = lib
      BY Zenon, <1>1, <1>2 DEF Recorded
  <2>3. \A j \in ShardIds : adapters'[j] # None => insts'[adapters'[j].inst] # None
      BY <1>3, <2>1 DEF Owned
  <2>4. \A i, j \in ShardIds : adapters'[i] # None /\ adapters'[j] # None /\ adapters'[i].inst = adapters'[j].inst => i = j
      BY <2>1 DEF Owned
  <2>5. Top'.inst # None =>
            /\ insts'[Top'.inst] # None /\ insts'[Top'.inst].lib = Top'.lib
            /\ \A j \in ShardIds : adapters'[j] # None => adapters'[j].inst # Top'.inst
      BY <1>3, <1>4, <1>5, <2>1, <2>2 DEF Owned
  <2>6. \A i \in Insts : insts'[i] # None =>
            \/ \E j \in ShardIds : adapters'[j] # None /\ adapters'[j].inst = i
            \/ stack' # <<>> /\ Top'.inst = i
    <3> SUFFICES ASSUME NEW i \in Insts, insts[i] # None
                 PROVE  \/ \E j \in ShardIds : adapters'[j] # None /\ adapters'[j].inst = i
                        \/ stack' # <<>> /\ Top'.inst = i
        BY Zenon, <1>3
    <3>1. PICK j \in ShardIds : adapters[j] # None /\ adapters[j].inst = i
        BY <1>1, HostFacts, ConstantsAssumption DEF Owned
    <3>2. CASE j = id
        BY Zenon, <3>1, <3>2, <1>4, <1>5
    <3>3. CASE j # id
        BY Zenon, <3>1, <3>3, <2>1
    <3> QED BY Zenon, <3>2, <3>3
  <2> QED BY Zenon, <2>3, <2>4, <2>5, <2>6 DEF Owned
<1>12. States'
  <2>1. \A j \in ShardIds : ~Swapping(j) /\ ~Swapping(j)'
      BY Zenon, <1>1, <1>4, <1>5, HostFacts DEF Swapping
  <2>2. \A j \in ShardIds : adapters'[j] # None => adapters'[j] = adapters[j]
      BY Zenon, <1>3 DEF TypeOK
  <2> QED BY Zenon, <1>3, <1>4, <1>5, <2>1, <2>2 DEF States
<1>13. Opened'
  <2> SUFFICES ASSUME NEW f \in Files PROVE Spare(f)' = Spare(f)
      BY Zenon DEF Opened
  <2>1. /\ Cardinality(Records(f)) \in Nat /\ Cardinality(Records(f)') \in Nat
        /\ Cardinality(Records(f)') = Cardinality(Records(f)) - Same(lib, f)
      BY Zenon, <1>1, <1>2, <1>3, RecordsErased
  <2>2. /\ Cardinality(Handles(f)) \in Nat /\ Cardinality(Handles(f)') \in Nat
        /\ Cardinality(Handles(f)') = Cardinality(Handles(f)) + Same(lib, f)
      BY Zenon, <1>4, <1>5, HandlesPushed
  <2>3. Same(lib, f) \in Nat /\ opens'[f] = opens[f] /\ opens[f] \in Nat
      BY Zenon, <1>3 DEF Same, TypeOK
  <2> QED BY <2>1, <2>2, <2>3 DEF Spare
<1> QED BY Zenon, <1>3, <1>7, <1>8, <1>9, <1>10, <1>11, <1>12, <1>13

LEMMA RebindStep == ASSUME CountRules, Inv, rebind PROVE Inv'
<1> USE DEF Inv
<1>1. /\ stack # <<>> /\ Top.at = "rebind" /\ Top.inst # None /\ Top.inst \in Insts /\ Top.lib \in Files
      /\ Top.op = "reload_from" /\ Top \in Frame /\ stack \in Seq(Frame)
    BY Zenon, TopFacts DEF rebind, At, Fits, Carrying, Frame
<1>2. PICK n \in Names, new \in Insts, lib \in Files : n = Top.name /\ new = Top.inst /\ lib = Top.lib
    BY Zenon, <1>1 DEF Frame
<1>3. libs[n] # None /\ adapters[libs[n].id] # None
    BY Zenon, <1>1, <1>2 DEF Reloading
<1>4. PICK id \in ShardIds, old_lib \in Files : id = libs[n].id /\ old_lib = libs[n].lib /\ adapters[id] # None
    BY Zenon, <1>3 DEF TypeOK
<1>5. PICK old \in Insts : old = adapters[id].inst
    BY Zenon, <1>4 DEF TypeOK
<1>6. /\ Call(adapters[id].inst)
      /\ insts' = [insts EXCEPT ![old] = None]
      /\ adapters' = [adapters EXCEPT ![id].inst = new]
      /\ libs' = [libs EXCEPT ![n].lib = lib]
      /\ Becomes([Top EXCEPT !.lib = old_lib, !.inst = None, !.at = "revive"])
      /\ UNCHANGED <<registry, bus_reg, next_id, handled, opens, closing>>
    BY Zenon, <1>2, <1>4, <1>5 DEF rebind
<1>7. fault' = FALSE
    BY Zenon, <1>4, <1>6, AdapterCall
<1>8. PICK fr \in Frame : fr = [Top EXCEPT !.lib = old_lib, !.inst = None, !.at = "revive"]
    BY Zenon, <1>1 DEF Frame, Stages
<1>9. /\ Becomes(fr) /\ fr.op = "reload_from" /\ fr.name = n /\ fr.lib = old_lib /\ fr.inst = None
      /\ fr.snapshot = Top.snapshot /\ fr.at = "revive"
    BY Zenon, <1>1, <1>2, <1>6, <1>8 DEF Frame
<1>10. stack' \in Seq(Frame) /\ stack' # <<>> /\ Top' = fr
    BY Zenon, <1>1, <1>9, Moved
<1>11. PICK adapter \in [inst : Insts, state_schema : Schema] :
            adapter # None /\ adapter.inst = new /\ adapters' = [adapters EXCEPT ![id] = adapter]
  <2>1. adapters[id] \in [inst : Insts, state_schema : Schema]
      BY Zenon, <1>4 DEF TypeOK
  <2>2. [adapters[id] EXCEPT !.inst = new] \in [inst : Insts, state_schema : Schema]
      BY Zenon, <2>1
  <2>3. adapters' = [adapters EXCEPT ![id] = [adapters[id] EXCEPT !.inst = new]]
      BY Zenon, <1>6 DEF TypeOK
  <2> QED BY Zenon, <2>1, <2>2, <2>3, ConstantsAssumption
<1>12. PICK rec \in [lib : Files, id : ShardIds] :
            rec # None /\ rec.lib = lib /\ rec.id = id /\ libs' = [libs EXCEPT ![n] = rec]
  <2>1. libs[n] \in [lib : Files, id : ShardIds]
      BY Zenon, <1>3 DEF TypeOK
  <2>2. [libs[n] EXCEPT !.lib = lib] \in [lib : Files, id : ShardIds]
      BY Zenon, <2>1
  <2>3. libs' = [libs EXCEPT ![n] = [libs[n] EXCEPT !.lib = lib]]
      BY Zenon, <1>6 DEF TypeOK
  <2> QED BY Zenon, <1>4, <2>1, <2>2, <2>3, ConstantsAssumption
<1>13. /\ \A j \in ShardIds : adapters'[j] = IF j = id THEN adapter ELSE adapters[j]
       /\ \A m \in Names : libs'[m] = IF m = n THEN rec ELSE libs[m]
       /\ \A i \in Insts : insts'[i] = IF i = old THEN None ELSE insts[i]
    BY ZenonT(30), <1>6, <1>11, <1>12 DEF TypeOK
<1>14. /\ old # new /\ insts[new] # None /\ insts[new].lib = lib /\ insts[new].state = 0
       /\ \A j \in ShardIds : adapters[j] # None => adapters[j].inst \in Insts /\ adapters[j].inst # new
       /\ \A j \in ShardIds : adapters[j] # None /\ j # id => adapters[j].inst # old
  <2>1. \A j \in ShardIds : adapters[j] # None => adapters[j].inst \in Insts
      BY Zenon DEF TypeOK
  <2> QED BY Zenon, <1>1, <1>2, <1>4, <1>5, <2>1 DEF Owned, States
<1>15. TypeOK'
  <2>1. adapters' \in [ShardIds -> [inst : Insts, state_schema : Schema] \cup {None}]
      BY Zenon, <1>11 DEF TypeOK
  <2>2. libs' \in [Names -> [lib : Files, id : ShardIds] \cup {None}]
      BY Zenon, <1>12 DEF TypeOK
  <2>3. insts' \in [Insts -> [lib : Files, state : 0..MaxHandled] \cup {None}]
      BY Zenon, <1>6 DEF TypeOK
  <2> QED BY Zenon, <1>6, <1>7, <1>10, <2>1, <2>2, <2>3 DEF TypeOK
<1>16. Stacked'
  <2>1. Fits(fr)
      BY Zenon, <1>9, ConstantsAssumption DEF Fits, Carrying, Early
  <2> QED BY Zenon, <1>1, <1>9, <2>1, StackedMoved
<1>17. Loading' /\ Reloading'
    BY <1>9, <1>10, <1>11, <1>12, <1>13 DEF Loading, Reloading
<1>18. Recorded'
  <2>1. \A m \in Names : (libs'[m] # None <=> libs[m] # None) /\ (libs[m] # None => libs'[m].id = libs[m].id)
      BY Zenon, <1>3, <1>4, <1>12, <1>13
  <2>2. \A j \in ShardIds : adapters'[j] # None => adapters[j] # None
      BY Zenon, <1>4, <1>13
  <2>3. \A m \in Names : libs'[m] # None /\ adapters'[libs'[m].id] # None =>
            insts'[adapters'[libs'[m].id].inst].lib = libs'[m].lib
    <3> SUFFICES ASSUME NEW m \in Names, libs'[m] # None, adapters'[libs'[m].id] # None
                 PROVE  insts'[adapters'[libs'[m].id].inst].lib = libs'[m].lib
        OBVIOUS
    <3>1. CASE m = n
        BY <1>11, <1>12, <1>13, <1>14, <3>1
    <3>2. CASE m # n
      <4>1. libs'[m] = libs[m] /\ libs[m].id \in ShardIds /\ libs[m].id # id
          BY <1>3, <1>4, <1>13, <3>2 DEF Recorded, TypeOK
      <4> QED BY <1>13, <1>14, <4>1 DEF Recorded
    <3> QED BY Zenon, <3>1, <3>2
  <2>4. \A m \in Names : libs'[m] # None => libs'[m].id < next_id'
      BY <1>6, <2>1 DEF Recorded
  <2>5. \A l, m \in Names : libs'[l] # None /\ libs'[m] # None /\ libs'[l].id = libs'[m].id => l = m
      BY <2>1 DEF Recorded
  <2>6. \A j \in ShardIds : adapters'[j] # None => \E m \in Names : libs'[m] # None /\ libs'[m].id = j
      BY <2>1, <2>2 DEF Recorded
  <2> QED BY Zenon, <2>3, <2>4, <2>5, <2>6 DEF Recorded
<1>19. Owned'
  <2>1. \A j \in ShardIds : adapters'[j] # None => insts'[adapters'[j].inst] # None
      BY <1>11, <1>13, <1>14 DEF Owned
  <2>2. \A i, j \in ShardIds : adapters'[i] # None /\ adapters'[j] # None /\ adapters'[i].inst = adapters'[j].inst => i = j
      BY <1>11, <1>13, <1>14 DEF Owned
  <2>3. \A i \in Insts : insts'[i] # None => \E j \in ShardIds : adapters'[j] # None /\ adapters'[j].inst = i
    <3> SUFFICES ASSUME NEW i \in Insts, insts[i] # None, i # old
                 PROVE  \E j \in ShardIds : adapters'[j] # None /\ adapters'[j].inst = i
        BY Zenon, <1>13
    <3>1. CASE i = new
        BY <1>11, <1>13, <3>1
    <3>2. CASE i # new
      <4>1. PICK j \in ShardIds : adapters[j] # None /\ adapters[j].inst = i
          BY Zenon, <1>2, <3>2 DEF Owned
      <4> QED BY Zenon, <1>5, <1>13, <4>1
    <3> QED BY Zenon, <3>1, <3>2
  <2> QED BY Zenon, <1>9, <1>10, <2>1, <2>2, <2>3 DEF Owned
<1>20. States'
  <2>1. (\A j \in ShardIds : ~Swapping(j)) /\ \A j \in ShardIds : j # id => ~Swapping(j)'
      BY Zenon, <1>1, <1>9, <1>10, <1>12, <1>13 DEF Swapping
  <2>2. Swapping(id)'
      BY Zenon, <1>9, <1>10, <1>12, <1>13 DEF Swapping
  <2>3. ASSUME NEW j \in ShardIds, adapters'[j] # None
        PROVE  /\ insts'[adapters'[j].inst].state <= handled'[j]
               /\ ~ReviveThrows /\ ~Swapping(j)' => insts'[adapters'[j].inst].state = handled'[j]
    <3>1. CASE j = id
      <4>1. insts'[adapters'[j].inst].state = 0 /\ handled'[j] = handled[id] /\ handled[id] \in Nat
          BY <1>6, <1>11, <1>13, <1>14, <3>1 DEF TypeOK
      <4> QED BY <2>2, <3>1, <4>1
    <3>2. CASE j # id
        BY <1>6, <1>13, <1>14, <2>1, <2>3, <3>2 DEF States
    <3> QED BY Zenon, <3>1, <3>2
  <2>4. /\ Top'.snapshot <= handled'[libs'[Top'.name].id]
        /\ ~ReviveThrows => Top'.snapshot = handled'[libs'[Top'.name].id]
    <3>1. Top.snapshot <= handled[id] /\ (~ReviveThrows => Top.snapshot = handled[id])
        BY Zenon, <1>1, <1>2, <1>4 DEF States
    <3>2. Top'.snapshot = Top.snapshot /\ libs'[Top'.name].id = id /\ handled' = handled
        BY Zenon, <1>6, <1>9, <1>10, <1>12, <1>13
    <3> QED BY Zenon, <3>1, <3>2
  <2> QED BY Zenon, <1>6, <1>9, <1>10, <2>3, <2>4 DEF States
<1>21. Opened'
  <2> SUFFICES ASSUME NEW f \in Files PROVE Spare(f)' = Spare(f)
      BY Zenon DEF Opened
  <2>1. /\ Cardinality(Records(f)) \in Nat /\ Cardinality(Records(f)') \in Nat
        /\ Cardinality(Records(f)') = Cardinality(Records(f)) - Same(old_lib, f) + Same(lib, f)
    <3>1. TypeOK /\ rec # None /\ rec.lib = lib /\ libs[n] # None /\ libs[n].lib = old_lib /\ libs' = [libs EXCEPT ![n] = rec]
        BY Zenon, <1>3, <1>4, <1>12
    <3>2. /\ Cardinality(Records(f)) \in Nat /\ Cardinality(Records(f)') \in Nat
          /\ Cardinality(Records(f)') = Cardinality(Records(f)) - Same(libs[n].lib, f) + Same(rec.lib, f)
        BY Zenon, <3>1, RecordsReplaced
    <3> QED BY Zenon, <3>1, <3>2
  <2>2. /\ Cardinality(Handles(f)) \in Nat /\ Cardinality(Handles(f)') \in Nat
        /\ Cardinality(Handles(f)') = Cardinality(Handles(f)) - Same(lib, f) + Same(old_lib, f)
      BY Zenon, <1>1, <1>2, <1>9, HandlesMoved
  <2>3. Same(lib, f) \in Nat /\ Same(old_lib, f) \in Nat /\ opens'[f] = opens[f] /\ opens[f] \in Nat
      BY Zenon, <1>6 DEF Same, TypeOK
  <2> QED BY <2>1, <2>2, <2>3 DEF Spare
<1> QED BY Zenon, <1>7, <1>15, <1>16, <1>17, <1>18, <1>19, <1>20, <1>21

(* The state of the instance of Shard id changes; nothing else does to the
   instances. *)
LEMMA StateChange ==
    ASSUME Inv, NEW id \in ShardIds, adapters[id] # None, NEW s \in 0..MaxHandled,
           insts' = [insts EXCEPT ![adapters[id].inst].state = s]
    PROVE  /\ insts' \in [Insts -> [lib : Files, state : 0..MaxHandled] \cup {None}]
           /\ \A i \in Insts : (insts'[i] # None <=> insts[i] # None) /\ (insts[i] # None => insts'[i].lib = insts[i].lib)
           /\ insts'[adapters[id].inst].state = s
           /\ \A j \in ShardIds : adapters[j] # None =>
                adapters[j].inst \in Insts /\ (j # id => insts'[adapters[j].inst] = insts[adapters[j].inst])
<1>1. PICK own \in Insts : own = adapters[id].inst /\ insts[own] # None
    BY DEF Inv, TypeOK, Owned
<1>2. insts[own] \in [lib : Files, state : 0..MaxHandled]
    BY Zenon, <1>1 DEF Inv, TypeOK
<1>3. PICK inst \in [lib : Files, state : 0..MaxHandled] :
        inst.lib = insts[own].lib /\ inst.state = s /\ insts' = [insts EXCEPT ![own] = inst]
  <2>1. [insts[own] EXCEPT !.state = s] \in [lib : Files, state : 0..MaxHandled]
      BY Zenon, <1>2
  <2>2. insts' = [insts EXCEPT ![own] = [insts[own] EXCEPT !.state = s]]
      BY Zenon, <1>1 DEF Inv, TypeOK
  <2> QED BY Zenon, <1>2, <2>1, <2>2
<1>4. inst # None
    BY Zenon, ConstantsAssumption
<1>5. insts' \in [Insts -> [lib : Files, state : 0..MaxHandled] \cup {None}]
    BY Zenon, <1>3 DEF Inv, TypeOK
<1>6. \A i \in Insts : insts'[i] = IF i = own THEN inst ELSE insts[i]
    BY Zenon, <1>3 DEF Inv, TypeOK
<1>7. \A j \in ShardIds : adapters[j] # None => adapters[j].inst \in Insts /\ (j # id => adapters[j].inst # own)
  <2>1. \A j \in ShardIds : adapters[j] # None => adapters[j].inst \in Insts
      BY Zenon DEF Inv, TypeOK
  <2> QED BY Zenon, <1>1, <2>1 DEF Inv, Owned
<1> QED BY Zenon, <1>1, <1>3, <1>4, <1>5, <1>6, <1>7

(* What such a change leaves as it was. *)
LEMMA StateChangeOwners ==
    ASSUME Inv, NEW id \in ShardIds, adapters[id] # None, NEW s \in 0..MaxHandled,
           insts' = [insts EXCEPT ![adapters[id].inst].state = s],
           UNCHANGED <<libs, adapters, next_id>>,
           stack' # <<>> => Top'.inst = None, stack # <<>> => Top.inst = None
    PROVE  Recorded' /\ Owned'
<1>1. /\ \A i \in Insts : (insts'[i] # None <=> insts[i] # None) /\ (insts[i] # None => insts'[i].lib = insts[i].lib)
      /\ \A j \in ShardIds : adapters[j] # None => adapters[j].inst \in Insts
    BY Zenon, StateChange
<1>2. \A n \in Names : libs[n] # None => libs[n].id \in ShardIds
    BY Zenon DEF Inv, TypeOK
<1>3. Recorded'
    BY <1>1, <1>2 DEF Inv, Recorded, Owned
<1>4. Owned'
    BY <1>1, ConstantsAssumption DEF Inv, Owned
<1> QED BY Zenon, <1>3, <1>4

LEMMA HandleStep == ASSUME CountRules, Inv, NEW id \in ShardIds, handle(id) PROVE Inv'
<1> USE DEF Inv
<1>1. /\ HostRuns /\ adapters[id] # None /\ handled[id] < MaxHandled /\ Call(adapters[id].inst)
      /\ handled' = [handled EXCEPT ![id] = @ + 1]
      /\ UNCHANGED <<libs, registry, adapters, bus_reg, next_id, opens, stack, closing>>
    BY Zenon DEF handle
<1>2. fault' = FALSE
    BY Zenon, <1>1, AdapterCall
<1>3. PICK old \in Nat : /\ old = insts[adapters[id].inst].state /\ old + 1 \in 0..MaxHandled /\ old <= handled[id]
                         /\ ~ReviveThrows => old = handled[id]
  <2>1. insts[adapters[id].inst] # None /\ adapters[id].inst \in Insts
      BY <1>1 DEF Owned, TypeOK
  <2>2. insts[adapters[id].inst].state \in Nat /\ handled[id] \in Nat
      BY <2>1 DEF TypeOK
  <2>3. /\ insts[adapters[id].inst].state <= handled[id]
        /\ ~ReviveThrows => insts[adapters[id].inst].state = handled[id]
      BY Zenon, <1>1, HostFacts DEF States
  <2> QED BY <1>1, <2>2, <2>3, ConstantsAssumption
<1>4. insts' = [insts EXCEPT ![adapters[id].inst].state = old + 1]
    BY Zenon, <1>3 DEF handle
<1>5. Depth' = Depth /\ Frames' = Frames /\ Top' = Top
    BY Zenon, <1>1 DEF Depth, Frames, Top
<1>6. TypeOK'
  <2>1. handled' \in [ShardIds -> 0..MaxHandled]
      BY <1>1, ConstantsAssumption DEF TypeOK
  <2>2. insts' \in [Insts -> [lib : Files, state : 0..MaxHandled] \cup {None}]
      BY Zenon, <1>1, <1>3, <1>4, StateChange
  <2> QED BY Zenon, <1>1, <1>2, <2>1, <2>2 DEF TypeOK
<1>7. Stacked' /\ Loading' /\ Reloading'
    BY Zenon, <1>1, <1>5 DEF Stacked, Loading, Reloading
<1>8. stack # <<>> => Top.inst = None /\ Top.at = "observers"
    BY Zenon, <1>1, HostFacts
<1>9. Recorded' /\ Owned'
    BY ZenonT(30), <1>1, <1>3, <1>4, <1>5, <1>8, StateChangeOwners
<1>10. States'
  <2>1. \A j \in ShardIds : ~Swapping(j) /\ ~Swapping(j)'
      BY Zenon, <1>1, <1>5, <1>8 DEF Swapping
  <2>2. \A j \in ShardIds : handled'[j] = IF j = id THEN handled[id] + 1 ELSE handled[j]
      BY Zenon, <1>1 DEF TypeOK
  <2>3. \A j \in ShardIds : j >= next_id' => handled'[j] = 0
    <3>1. PICK n \in Names : libs[n] # None /\ libs[n].id = id
        BY Zenon, <1>1 DEF Recorded
    <3>2. ~(id >= next_id)
        BY <3>1 DEF Recorded, TypeOK, ShardIds
    <3> QED BY Zenon, <1>1, <2>2, <3>2 DEF States
  <2>4. ASSUME NEW j \in ShardIds, adapters'[j] # None
        PROVE  /\ insts'[adapters'[j].inst].state <= handled'[j]
               /\ ~ReviveThrows => insts'[adapters'[j].inst].state = handled'[j]
    <3>1. CASE j = id
      <4>1. insts'[adapters'[j].inst].state = old + 1 /\ handled'[j] = handled[id] + 1 /\ handled[id] \in Nat
          BY <1>1, <1>3, <1>4, <2>2, <3>1, StateChange DEF TypeOK
      <4> QED BY <1>3, <4>1
    <3>2. CASE j # id
      <4>1. adapters[j] # None /\ insts'[adapters'[j].inst] = insts[adapters[j].inst] /\ handled'[j] = handled[j]
        <5>1. adapters' = adapters /\ adapters[j] # None
            BY Zenon, <1>1, <2>4
        <5>2. \A k \in ShardIds : adapters[k] # None /\ k # id => insts'[adapters[k].inst] = insts[adapters[k].inst]
            BY ZenonT(30), <1>1, <1>3, <1>4, StateChange
        <5> QED BY Zenon, <2>2, <3>2, <5>1, <5>2
      <4> QED BY Zenon, <2>1, <4>1 DEF States
    <3> QED BY Zenon, <3>1, <3>2
  <2> QED BY Zenon, <1>1, <1>5, <1>8, <2>3, <2>4 DEF States, Early
<1>11. Opened'
    BY Zenon, <1>1, <1>5 DEF Opened, Spare, Records, Handles
<1> QED BY Zenon, <1>2, <1>6, <1>7, <1>9, <1>10, <1>11

LEMMA HostUnregisterStep == ASSUME CountRules, Inv, NEW id \in ShardIds, host_unregister(id) PROVE Inv'
<1> USE DEF Inv
<1>1. /\ HostRuns /\ adapters[id] # None /\ Call(adapters[id].inst)
      /\ insts' = [insts EXCEPT ![adapters[id].inst] = None]
      /\ adapters' = [adapters EXCEPT ![id] = None]
      /\ UNCHANGED <<libs, registry, bus_reg, next_id, handled, opens, stack, closing>>
    BY Zenon DEF host_unregister
<1>2. fault' = FALSE
    BY Zenon, <1>1, AdapterCall
<1>3. PICK own \in Insts : own = adapters[id].inst
    BY Zenon, <1>1 DEF TypeOK
<1>4. Depth' = Depth /\ Frames' = Frames /\ Top' = Top /\ (stack # <<>> => Top.inst = None /\ Top.at = "observers")
    BY Zenon, <1>1, HostFacts DEF Depth, Frames, Top
<1>5. TypeOK'
    BY Zenon, <1>1, <1>2 DEF TypeOK
<1>6. Stacked' /\ Loading' /\ Reloading'
    BY Zenon, <1>1, <1>4 DEF Stacked, Loading, Reloading, Early
<1>7. /\ \A j \in ShardIds : adapters'[j] = IF j = id THEN None ELSE adapters[j]
      /\ \A i \in Insts : insts'[i] = IF i = own THEN None ELSE insts[i]
    BY Zenon, <1>1, <1>3 DEF TypeOK
<1>8. \A j \in ShardIds : adapters'[j] # None =>
         adapters'[j] = adapters[j] /\ adapters[j].inst \in Insts /\ insts'[adapters[j].inst] = insts[adapters[j].inst]
  <2>1. \A j \in ShardIds : adapters[j] # None => adapters[j].inst \in Insts
      BY Zenon DEF TypeOK
  <2> QED BY <1>1, <1>3, <1>7, <2>1 DEF Owned
<1>9. Recorded'
  <2>1. \A n \in Names : libs[n] # None => libs[n].id \in ShardIds
      BY Zenon DEF TypeOK
  <2> QED BY <1>1, <1>8, <2>1 DEF Recorded
<1>10. Owned'
  <2>1. \A i \in Insts : insts'[i] # None => \E j \in ShardIds : adapters'[j] # None /\ adapters'[j].inst = i
    <3> SUFFICES ASSUME NEW i \in Insts, insts[i] # None, i # own
                 PROVE  \E j \in ShardIds : adapters'[j] # None /\ adapters'[j].inst = i
        BY Zenon, <1>7
    <3>1. PICK j \in ShardIds : adapters[j] # None /\ adapters[j].inst = i
        BY <1>4, ConstantsAssumption DEF Owned
    <3> QED BY Zenon, <1>3, <1>7, <3>1
  <2> QED BY <1>1, <1>4, <1>8, <2>1 DEF Owned
<1>11. States'
  <2>1. \A j \in ShardIds : ~Swapping(j) /\ ~Swapping(j)'
      BY Zenon, <1>1, <1>4 DEF Swapping
  <2> QED BY <1>1, <1>4, <1>8, <2>1 DEF States, Early
<1>12. Opened'
    BY Zenon, <1>1, <1>4 DEF Opened, Spare, Records, Handles
<1> QED BY Zenon, <1>2, <1>5, <1>6, <1>9, <1>10, <1>11, <1>12

LEMMA SwapStateStep == ASSUME CountRules, Inv, swap_state PROVE Inv'
<1> USE DEF Inv
<1>1. /\ stack # <<>> /\ Top.at = "revive" /\ Top.inst = None /\ Top.lib # None /\ Top.op = "reload_from"
      /\ Top.name \in Names /\ Top.snapshot \in 0..MaxHandled /\ Top \in Frame /\ stack \in Seq(Frame)
    BY Zenon, TopFacts DEF swap_state, At, Fits, Carrying, Frame
<1>2. PICK id \in ShardIds : id = libs[Top.name].id /\ adapters[id] # None
    BY Zenon, <1>1 DEF Reloading, TypeOK
<1>3. /\ Call(adapters[id].inst)
      /\ UNCHANGED <<libs, registry, adapters, bus_reg, next_id, handled, opens, closing>>
    BY Zenon, <1>2 DEF swap_state, Adapter, bus
<1>4. fault' = FALSE
    BY ZenonT(30), <1>2, <1>3, AdapterCall
<1>5. \A j \in ShardIds : j # id => ~Swapping(j)
    BY Zenon, <1>2 DEF Swapping
<1>6. CASE insts' = [insts EXCEPT ![adapters[id].inst].state = Top.snapshot] /\ Goto("observers")
  <2>1. PICK fr \in Frame : fr = [Top EXCEPT !.at = "observers"]
      BY Zenon, <1>1 DEF Frame, Stages
  <2>2. Becomes(fr) /\ fr.op = "reload_from" /\ fr.lib = Top.lib /\ fr.inst = None /\ fr.at = "observers"
      BY Zenon, <1>1, <1>6, <2>1 DEF Frame, Goto
  <2>3. stack' \in Seq(Frame) /\ stack' # <<>> /\ Top' = fr
      BY Zenon, <1>1, <2>2, Moved
  <2>4. PICK s \in 0..MaxHandled : s = Top.snapshot /\ insts' = [insts EXCEPT ![adapters[id].inst].state = s]
      BY Zenon, <1>1, <1>6
  <2>5. TypeOK'
    <3>1. insts' \in [Insts -> [lib : Files, state : 0..MaxHandled] \cup {None}]
        BY Zenon, <1>2, <2>4, StateChange
    <3> QED BY Zenon, <1>3, <1>4, <2>3, <3>1 DEF TypeOK
  <2>6. Stacked'
    <3>1. Fits(fr)
        BY Zenon, <1>1, <2>2 DEF Fits, Carrying, Early
    <3> QED BY Zenon, <1>1, <2>2, <3>1, StackedMoved
  <2>7. Loading' /\ Reloading'
      BY <2>2, <2>3 DEF Loading, Reloading, Early
  <2>8. Recorded' /\ Owned'
      BY ZenonT(30), <1>1, <1>2, <1>3, <2>2, <2>3, <2>4, StateChangeOwners
  <2>9. States'
    <3>1. s <= handled[id] /\ (~ReviveThrows => s = handled[id])
        BY Zenon, <1>1, <1>2, <2>4 DEF States
    <3>2. ASSUME NEW j \in ShardIds, adapters'[j] # None
          PROVE  /\ insts'[adapters'[j].inst].state <= handled'[j]
                 /\ ~ReviveThrows => insts'[adapters'[j].inst].state = handled'[j]
      <4>1. adapters' = adapters /\ handled' = handled /\ adapters[j] # None
          BY Zenon, <1>3, <3>2
      <4>2. CASE j = id
        <5>1. insts'[adapters[id].inst].state = s
            BY ZenonT(30), <1>2, <2>4, StateChange
        <5> QED BY Zenon, <3>1, <4>1, <4>2, <5>1
      <4>3. CASE j # id
        <5>1. insts'[adapters[j].inst] = insts[adapters[j].inst]
          <6>1. PICK own \in Insts : own = adapters[id].inst
              BY Zenon, <1>2 DEF TypeOK
          <6>2. adapters[j].inst \in Insts /\ adapters[j].inst # own
              BY <1>2, <4>1, <4>3, <6>1 DEF Owned, TypeOK
          <6> QED BY Zenon, <2>4, <6>1, <6>2 DEF TypeOK
        <5> QED BY Zenon, <1>5, <4>1, <4>3, <5>1 DEF States
      <4> QED BY Zenon, <4>2, <4>3
    <3> QED BY Zenon, <1>3, <2>2, <2>3, <3>2 DEF States, Early
  <2>10. Opened'
    <3>1. \A f \in Files : Records(f)' = Records(f)
        BY Zenon, <1>3 DEF Records
    <3>2. ASSUME NEW f \in Files PROVE Cardinality(Handles(f)') = Cardinality(Handles(f))
      <4>1. /\ Cardinality(Handles(f)) \in Nat
            /\ Cardinality(Handles(f)') = Cardinality(Handles(f)) - Same(Top.lib, f) + Same(fr.lib, f)
          BY Zenon, <1>1, <2>2, HandlesMoved
      <4>2. Same(Top.lib, f) \in Nat /\ Same(fr.lib, f) = Same(Top.lib, f)
          BY Zenon, <2>2 DEF Same
      <4> QED BY <4>1, <4>2
    <3> QED BY Zenon, <1>3, <3>1, <3>2 DEF Opened, Spare
  <2> QED BY Zenon, <1>4, <2>5, <2>6, <2>7, <2>8, <2>9, <2>10
<1>7. ASSUME ReviveThrows, NEW d \in 0..(Depth - 1), stack' = SubSeq(stack, 1, d), UNCHANGED insts
      PROVE  Inv'
  <2>1. /\ Stacked' /\ stack' \in Seq(Frame)
        /\ stack' # <<>> => Top'.at = "observers" /\ Top'.op = "reload_from" /\ Top'.inst = None
      BY Zenon, <1>1, <1>7, StackedPopped
  <2>2. TypeOK'
      BY Zenon, <1>3, <1>4, <1>7, <2>1 DEF TypeOK
  <2>3. Loading' /\ Reloading'
      BY Zenon, <2>1 DEF Loading, Reloading, Early
  <2>4. Recorded' /\ Owned'
    <3>1. Recorded'
        BY Zenon, <1>3, <1>7 DEF Recorded
    <3>2. \A i \in Insts : insts[i] # None => \E j \in ShardIds : adapters[j] # None /\ adapters[j].inst = i
        BY Zenon, <1>1, ConstantsAssumption DEF Owned
    <3>3. Owned'
        BY Zenon, <1>3, <1>7, <2>1, <3>2 DEF Owned
    <3> QED BY Zenon, <3>1, <3>3
  <2>5. States'
      BY Zenon, <1>3, <1>7, <2>1 DEF States, Early
  <2>6. Opened'
    <3> SUFFICES ASSUME NEW f \in Files PROVE Spare(f)' >= 0
        BY Zenon, <1>7 DEF Opened
    <3>1. Records(f)' = Records(f) /\ Cardinality(Records(f)) \in Nat
        BY Zenon, <1>3, RecordsFinite DEF Records
    <3>2. d \in 0..Depth
        BY <1>1, FrameType
    <3>3. /\ Cardinality(Handles(f)) \in Nat /\ Cardinality(Handles(f)') \in Nat
          /\ Cardinality(Handles(f)') <= Cardinality(Handles(f))
        BY Zenon, <1>1, <1>7, <3>2, HandlesLost
    <3>4. opens[f] \in Nat /\ opens'[f] = opens[f] /\ opens[f] - (Cardinality(Records(f)) + Cardinality(Handles(f))) >= 0
        BY Zenon, <1>3 DEF TypeOK, Opened, Spare
    <3> QED BY <3>1, <3>3, <3>4 DEF Spare
  <2> QED BY Zenon, <1>4, <2>1, <2>2, <2>3, <2>4, <2>5, <2>6
<1> QED BY Zenon, <1>2, <1>6, <1>7 DEF swap_state, Adapter, revived

-----------------------------------------------------------------------------

-----------------------------------------------------------------------------
(* The end of the kernel, and the theorems. *)

LEMMA DestroyKernelStep == ASSUME CountRules, Inv, destroy_kernel PROVE Inv'
<1>1. UNCHANGED <<libs, registry, adapters, bus_reg, next_id, handled, opens, insts, stack, fault>> /\ closing' = TRUE
    BY Zenon DEF destroy_kernel, bus
<1>2. Depth' = Depth /\ Frames' = Frames /\ Top' = Top
    BY Zenon, <1>1 DEF Depth, Frames, Top
<1>3. TypeOK'
    BY Zenon, <1>1 DEF Inv, TypeOK
<1>4. Stacked' /\ Loading' /\ Reloading' /\ Recorded' /\ Owned'
    BY Zenon, <1>1, <1>2 DEF Inv, Stacked, Loading, Reloading, Recorded, Owned
<1>5. States' /\ Opened'
    BY Zenon, <1>1, <1>2 DEF Inv, States, Swapping, Opened, Spare, Records, Handles
<1> QED BY Zenon, <1>1, <1>3, <1>4, <1>5 DEF Inv

LEMMA NextInv == ASSUME CountRules PROVE Inv /\ [Next]_vars => Inv'
<1> SUFFICES ASSUME Inv, [Next]_vars PROVE Inv'
    OBVIOUS
<1>1. CASE Stage
    BY Zenon, <1>1, LibOpenStep, FetchAbiStep, CreateStep, ReconstructStep, RegisterStep, CompareStep, RebindStep,
       SwapStateStep, ObserversDoneStep, DestroyStep, CloseStep DEF Stage
<1>2. CASE UNCHANGED vars
  <2>1. UNCHANGED <<libs, registry, adapters, bus_reg, next_id, opens, insts, stack, closing, handled, fault>>
      BY <1>2 DEF vars
  <2>2. Depth' = Depth /\ Frames' = Frames /\ Top' = Top
      BY Zenon, <2>1 DEF Depth, Frames, Top
  <2>3. TypeOK' /\ Stacked' /\ Loading' /\ Reloading' /\ Recorded' /\ Owned'
      BY Zenon, <2>1, <2>2 DEF Inv, TypeOK, Stacked, Loading, Reloading, Recorded, Owned
  <2>4. States' /\ Opened'
      BY Zenon, <2>1, <2>2 DEF Inv, States, Swapping, Opened, Spare, Records, Handles
  <2> QED BY Zenon, <2>1, <2>3, <2>4 DEF Inv
<1> QED BY <1>1, <1>2, LoadStep, ReloadFromStep, UnloadStep, DestroyKernelStep, HandleStep, HostUnregisterStep DEF Next

INSTANCE FiniteSetTheorems

(* The facts of finite sets the steps assume. *)
LEMMA Counts == CountRules
<1>1. IsFiniteSet({}) /\ Cardinality({}) = 0
    BY Zenon, FS_EmptySet
<1>2. \A n \in Nat : IsFiniteSet(1..n)
    BY FS_Interval
<1>3. \A A : IsFiniteSet(A) => Cardinality(A) \in Nat /\ (Cardinality(A) = 0 => A = {})
    BY Zenon, FS_CardinalityType, FS_EmptySet
<1>4. \A A, B : IsFiniteSet(A) /\ B \in SUBSET A => IsFiniteSet(B) /\ Cardinality(B) <= Cardinality(A)
    BY Zenon, FS_Subset
<1>5. ASSUME NEW A, NEW x, IsFiniteSet(A)
      PROVE  IsFiniteSet(A \ {x}) /\ Cardinality(A) = Cardinality(A \ {x}) + In(x, A)
  <2>1. Cardinality(A) \in Nat /\ IsFiniteSet(A \ {x})
      BY Zenon, <1>5, FS_RemoveElement, FS_CardinalityType
  <2>2. Cardinality(A \ {x}) = IF x \in A THEN Cardinality(A) - 1 ELSE Cardinality(A)
      BY Zenon, <1>5, FS_RemoveElement
  <2> QED BY <2>1, <2>2 DEF In
<1> QED BY Zenon, <1>1, <1>2, <1>3, <1>4, <1>5 DEF CountRules

(* The strengthened invariant of the kernel holds in every behaviour. *)
THEOREM Invariant == Spec => []Inv
<1> QED BY Counts, InitInv, NextInv, PTL DEF Spec

(* Every variable of the kernel has its type: no library is closed more often
   than it was opened. *)
THEOREM TypeCorrect == Spec => []TypeOK
<1>1. Inv => TypeOK
    BY Zenon DEF Inv
<1> QED BY <1>1, Invariant, PTL

(* No call lands in a closed library or a destroyed instance, even where a
   library's revive throws through reload_from. *)
THEOREM CallsCorrect == Spec => []NoCallIntoClosedLibrary
<1>1. Inv => NoCallIntoClosedLibrary
    BY Zenon DEF Inv, NoCallIntoClosedLibrary
<1> QED BY <1>1, Invariant, PTL

(* Unless a revive throws, load, reload_from and unload close every library as
   often as they open it, whichever stage fails. *)
THEOREM LibrariesCorrect == ~ReviveThrows => (Spec => []LibrariesAccountedFor)
<1> SUFFICES ASSUME ~ReviveThrows PROVE Spec => []LibrariesAccountedFor
    OBVIOUS
<1>1. Inv => LibrariesAccountedFor
  <2> SUFFICES ASSUME Inv, NEW f \in Files
               PROVE  opens[f] = Cardinality(Records(f)) + Cardinality(Handles(f))
      BY Zenon DEF LibrariesAccountedFor
  <2>1. opens[f] \in Nat /\ opens[f] - (Cardinality(Records(f)) + Cardinality(Handles(f))) = 0
      BY Zenon DEF Inv, TypeOK, Opened, Spare
  <2>2. Cardinality(Records(f)) \in Nat /\ Cardinality(Handles(f)) \in Nat
      BY Zenon, Counts, RecordsFinite, HandlesFinite DEF Inv, TypeOK
  <2> QED BY <2>1, <2>2
<1> QED BY <1>1, Invariant, PTL

(* Every live instance has one owner, which will destroy it, and no owner has
   an instance that was destroyed. *)
THEOREM InstancesCorrect == Spec => []InstancesAccountedFor
<1>1. Inv => InstancesAccountedFor
  <2> SUFFICES ASSUME Inv, NEW i \in Insts
               PROVE  IF insts[i] = None THEN Owners(i) = {} ELSE \E owner \in Owners(i) : Owners(i) = {owner}
      BY Zenon DEF InstancesAccountedFor
  <2>1. i # None
      BY Zenon, ConstantsAssumption
  <2>2. \A d \in Frames : stack[d].inst = i => stack # <<>> /\ d = Depth /\ Top.inst = i
    <3> SUFFICES ASSUME NEW d \in Frames, stack[d].inst = i PROVE stack # <<>> /\ d = Depth /\ Top.inst = i
        OBVIOUS
    <3>1. Depth \in Nat /\ d \in 1..Depth /\ stack # <<>>
        BY FrameType DEF Inv, TypeOK
    <3>2. ~(d < Depth)
        BY Zenon, <2>1 DEF Inv, Stacked, Fits, Carrying
    <3>3. d = Depth
        BY <3>1, <3>2
    <3> QED BY Zenon, <3>1, <3>3 DEF Top
  <2>3. CASE insts[i] = None
      BY <2>1, <2>2, <2>3 DEF Inv, Owned, Owners
  <2>4. CASE \E id \in ShardIds : adapters[id] # None /\ adapters[id].inst = i
    <3>1. PICK id \in ShardIds : adapters[id] # None /\ adapters[id].inst = i
        BY Zenon, <2>4
    <3>2. \A j \in ShardIds : adapters[j] # None /\ adapters[j].inst = i => j = id
        BY Zenon, <3>1 DEF Inv, Owned
    <3>3. \A d \in Frames : stack[d].inst # i
        BY Zenon, <2>1, <2>2, <3>1 DEF Inv, Owned
    <3>4. Owners(i) = {<<"adapter", id>>} /\ insts[i] # None
        BY <3>1, <3>2, <3>3 DEF Owners, Inv, Owned
    <3> QED BY Zenon, <3>4
  <2>5. CASE insts[i] # None /\ ~\E id \in ShardIds : adapters[id] # None /\ adapters[id].inst = i
    <3>1. stack # <<>> /\ Top.inst = i /\ Depth \in Frames /\ stack[Depth].inst = i
        BY Zenon, <2>5, FrameType DEF Inv, Owned, TypeOK, Top
    <3>2. Owners(i) = {<<"call", Depth>>}
        BY Zenon, <2>2, <2>5, <3>1 DEF Owners
    <3> QED BY Zenon, <2>5, <3>2
  <2> QED BY Zenon, <2>3, <2>4, <2>5
<1> QED BY <1>1, Invariant, PTL

(* Unless a revive throws, a Shard keeps the state of every message it has
   handled through any reload of its library. *)
THEOREM StateCorrect == ~ReviveThrows => (Spec => []StateSurvives)
<1> SUFFICES ASSUME ~ReviveThrows PROVE Spec => []StateSurvives
    OBVIOUS
<1>1. Inv => StateSurvives
  <2> SUFFICES ASSUME Inv, NEW id \in ShardIds, adapters[id] # None,
                      ~\E d \in Frames : stack[d].at = "revive" /\ libs[stack[d].name].id = id
               PROVE  insts[adapters[id].inst].state = handled[id]
      BY Zenon DEF StateSurvives
  <2>1. ~Swapping(id)
      BY Zenon, FrameType DEF Swapping, Top, Inv, TypeOK
  <2> QED BY Zenon, <2>1 DEF Inv, States
<1> QED BY <1>1, Invariant, PTL
=============================================================================
