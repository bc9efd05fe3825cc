------------------------------- MODULE Kernel -------------------------------
(***************************************************************************)
(* zen::kernel::Kernel (src/kernel/kernel.cpp): Shards that live in dynamic *)
(* libraries.  load, reload_from and unload go through their stages one by  *)
(* one, because each stage may fail and because the order in which an      *)
(* instance is destroyed and its library closed is what matters.           *)
(*                                                                         *)
(* The calls in progress form a stack: the observers of swap_state, called *)
(* in the middle of reload_from, may use the kernel and the bus again.      *)
(* A library is known by its file, and dlopen counts how often it is open.  *)
(* A Shard's state is the number of messages it has handled.               *)
(***************************************************************************)
EXTENDS Integers, Sequences, FiniteSets

CONSTANTS
    Names,         \* names of loaded libraries
    Files,         \* library files
    Manifest,      \* what each file describes: [accept : Seq(Schema), state : Schema]
    Keys, Shapes,  \* a schema is a (name, version) and its content
    Native,        \* schemas native Shards have published on the bus
    Unset,         \* no schema under this key
    None,          \* no library, instance, adapter or record
    MaxInsts,      \* bound on instances at a time
    MaxShards,     \* bound on Shards ever registered
    MaxDepth,      \* bound on calls nested in observers
    MaxHandled,    \* bound on messages per Shard
    ReviveThrows   \* whether a library's revive may fail

Schema == [key : Keys, shape : Shapes]
Insts == 1..MaxInsts
ShardIds == 1..MaxShards
SchemasOf(f) == Append(Manifest[f].accept, Manifest[f].state)

ASSUME ConstantsAssumption ==
    /\ IsFiniteSet(Names)
    /\ Manifest \in [Files -> [accept : Seq(Schema), state : Schema]]
    /\ Native \in [Keys -> Shapes \cup {Unset}]
    /\ Unset \notin Shapes
    /\ None \notin Files \cup Insts
    /\ None \notin [lib : Files, id : ShardIds]
    /\ None \notin [inst : Insts, state_schema : Schema]
    /\ None \notin [lib : Files, state : 0..MaxHandled]
    /\ MaxInsts \in Nat /\ MaxShards \in Nat /\ MaxDepth \in Nat /\ MaxHandled \in Nat
    /\ ReviveThrows \in BOOLEAN

VARIABLES
    libs,      \* libs_: the library and the Shard of each loaded name
    registry,  \* registry_ of the kernel
    adapters,  \* the HostAdapter of each Shard on the bus: its instance and state schema
    bus_reg,   \* the registry of the bus
    next_id,   \* the next Shard id of the bus
    opens,     \* how often each library is open
    insts,     \* the live instances: their library and state
    stack,     \* calls in progress, the innermost last
    closing,   \* ~Kernel has begun
    handled,   \* history: messages each Shard has handled
    fault      \* history: a call has landed in a closed library or a dead instance

vars == <<libs, registry, adapters, bus_reg, next_id, opens, insts, stack, closing, handled, fault>>
bus == <<adapters, bus_reg, next_id, handled>>

(* lib is the handle the call has to close, inst the instance it has to destroy. *)
Stages == {"open", "abi", "create", "describe", "register", "compare", "rebind", "revive",
           "observers", "destroy", "close"}
Frame == [op : {"load", "reload_from", "unload"}, name : Names, file : Files, at : Stages,
          lib : Files \cup {None}, inst : Insts \cup {None}, snapshot : 0..MaxHandled]

Depth == Len(stack)
Top == stack[Depth]
Return == stack' = SubSeq(stack, 1, Depth - 1)
Becomes(frame) == stack' = [stack EXCEPT ![Depth] = frame]
Goto(stage) == Becomes([Top EXCEPT !.at = stage])
At(stage) == stack # <<>> /\ Top.at = stage

(* Host code runs between calls, and as an observer within one. *)
HostRuns == stack # <<>> => Top.at = "observers"
Callable == HostRuns /\ ~closing /\ Depth < MaxDepth

(* A thunk of instance i is called, or the descriptor of library f. *)
Call(i) == fault' = (fault \/ insts[i] = None \/ opens[insts[i].lib] = 0)
CallLibrary(f) == fault' = (fault \/ opens[f] = 0)

Init ==
    /\ libs = [n \in Names |-> None]
    /\ registry = [k \in Keys |-> Unset]
    /\ adapters = [id \in ShardIds |-> None]
    /\ bus_reg = Native
    /\ next_id = 1
    /\ opens = [f \in Files |-> 0]
    /\ insts = [i \in Insts |-> None]
    /\ stack = <<>>
    /\ closing = FALSE
    /\ handled = [id \in ShardIds |-> 0]
    /\ fault = FALSE

-----------------------------------------------------------------------------
(* The calls. *)

Begin(op, n, f, stage, lib, inst, snapshot) ==
    stack' = Append(stack, [op |-> op, name |-> n, file |-> f, at |-> stage, lib |-> lib,
                            inst |-> inst, snapshot |-> snapshot])

load(n, f) ==
    /\ Callable
    /\ libs[n] = None
    /\ Begin("load", n, f, "open", None, None, 0)
    /\ UNCHANGED <<libs, registry, bus, opens, insts, closing, fault>>

(* snapshot_bytes throws when the Shard is no longer on the bus, or when its
   library fails; both are clean refusals and leave everything alone. *)
reload_from(n, f) ==
    /\ Callable
    /\ libs[n] # None
    /\ adapters[libs[n].id] # None
    /\ LET i == adapters[libs[n].id].inst
       IN  /\ Call(i)
           /\ Begin("reload_from", n, f, "open", None, None, insts[i].state)
    /\ UNCHANGED <<libs, registry, bus, opens, insts, closing>>

(* Mutant: a Shard that is gone from the bus is not unloaded. *)
is_loaded_on_bus(n) == libs[n] # None /\ adapters[libs[n].id] # None

is_loaded(n) == libs[n] # None

(* The record is erased and the Shard taken off the bus, where it may be gone
   already. *)
unload(n) ==
    /\ Callable \/ (closing /\ stack = <<>>)
    /\ is_loaded(n)
    /\ LET adapter == adapters[libs[n].id]
           lib == libs[n].lib
       IN  IF adapter = None
           THEN Begin("unload", n, lib, "close", lib, None, 0)
           ELSE Begin("unload", n, lib, "destroy", lib, adapter.inst, 0)
    /\ libs' = [libs EXCEPT ![n] = None]
    /\ adapters' = [adapters EXCEPT ![libs[n].id] = None]
    /\ UNCHANGED <<registry, bus_reg, next_id, handled, opens, insts, closing, fault>>

(* ~Kernel unloads what is loaded; no call is in progress then. *)
destroy_kernel ==
    /\ stack = <<>>
    /\ ~closing
    /\ closing' = TRUE
    /\ UNCHANGED <<libs, registry, bus, opens, insts, stack, fault>>

-----------------------------------------------------------------------------
(* The stages load and reload_from share. *)

lib_open ==
    /\ At("open")
    /\ \/ Return /\ UNCHANGED opens
       \/ /\ opens' = [opens EXCEPT ![Top.file] = @ + 1]
          /\ Becomes([Top EXCEPT !.lib = Top.file, !.at = "abi"])
    /\ UNCHANGED <<libs, registry, bus, insts, closing, fault>>

fetch_abi ==
    /\ At("abi")
    /\ CallLibrary(Top.lib)
    /\ Goto("close") \/ Goto("create")
    /\ UNCHANGED <<libs, registry, bus, opens, insts, closing>>

Free == {i \in Insts : insts[i] = None}
NewInst == CHOOSE i \in Insts : insts[i] = None

create ==
    /\ At("create")
    /\ CallLibrary(Top.lib)
    /\ \/ Goto("close") /\ UNCHANGED insts
       \/ /\ Free # {}
          /\ insts' = [insts EXCEPT ![NewInst] = [lib |-> Top.lib, state |-> 0]]
          /\ Becomes([Top EXCEPT !.inst = NewInst, !.at = "describe"])
    /\ UNCHANGED <<libs, registry, bus, opens, closing>>

(* register_schema succeeds on each of the first n schemas of ss. *)
NoConflict(reg, ss, n) ==
    \A i \in 1..n :
        /\ reg[ss[i].key] \in {Unset, ss[i].shape}
        /\ \A j \in 1..n : ss[i].key = ss[j].key => ss[i].shape = ss[j].shape

Published(reg, ss, n) ==
    [k \in Keys |->
        IF \E i \in 1..n : ss[i].key = k
        THEN ss[CHOOSE i \in 1..n : ss[i].key = k].shape
        ELSE reg[k]]

(* n schemas of ss are published before the first conflict. *)
Agreed(reg, ss, n) ==
    /\ NoConflict(reg, ss, n)
    /\ n < Len(ss) => ~NoConflict(reg, ss, n + 1)

(* The manifest is refused, or its schemas are published one by one up to the
   first conflict. *)
reconstruct ==
    /\ At("describe")
    /\ Call(Top.inst)
    /\ \/ Goto("destroy") /\ UNCHANGED registry
       \/ LET ss == SchemasOf(Top.lib)
          IN  \E n \in 0..Len(ss) :
                /\ Agreed(registry, ss, n)
                /\ registry' = Published(registry, ss, n)
                /\ Goto(IF n < Len(ss) THEN "destroy"
                        ELSE IF Top.op = "load" THEN "register" ELSE "compare")
    /\ UNCHANGED <<libs, bus, opens, insts, closing>>

(* Mutant: the instance is not destroyed when a later stage fails. *)
destroy_forgotten ==
    /\ At("destroy")
    /\ Becomes([Top EXCEPT !.inst = None, !.at = "close"])
    /\ UNCHANGED <<libs, registry, bus, opens, insts, closing, fault>>

destroy ==
    /\ At("destroy")
    /\ Call(Top.inst)
    /\ insts' = [insts EXCEPT ![Top.inst] = None]
    /\ Becomes([Top EXCEPT !.inst = None, !.at = "close"])
    /\ UNCHANGED <<libs, registry, bus, opens, closing>>

(* Mutant: the library stays open. *)
lib_close_never(f) == opens
lib_close(f) == [opens EXCEPT ![f] = @ - 1]

close ==
    /\ At("close")
    /\ opens' = lib_close(Top.lib)
    /\ Return
    /\ UNCHANGED <<libs, registry, bus, insts, closing, fault>>

-----------------------------------------------------------------------------
(* The end of load: register_shard on the bus.  The accepted schemas are
   published, the first snapshot is taken, the state schema is published; if
   one of these throws, the adapter takes the instance with it. *)
register ==
    /\ At("register")
    /\ Call(Top.inst)
    /\ LET accept == Manifest[Top.lib].accept
           ss == SchemasOf(Top.lib)
       IN  \/ /\ Goto("destroy")
              /\ \E n \in 0..Len(ss) :
                    /\ Agreed(bus_reg, ss, n)
                    /\ bus_reg' = Published(bus_reg, ss, IF n < Len(ss) THEN n ELSE Len(accept))
              /\ UNCHANGED <<libs, adapters, next_id>>
           \/ /\ Agreed(bus_reg, ss, Len(ss))
              /\ next_id <= MaxShards
              /\ bus_reg' = Published(bus_reg, ss, Len(ss))
              /\ adapters' = [adapters EXCEPT ![next_id] =
                                [inst |-> Top.inst, state_schema |-> Manifest[Top.lib].state]]
              /\ libs' = [libs EXCEPT ![Top.name] = [lib |-> Top.lib, id |-> next_id]]
              /\ next_id' = next_id + 1
              /\ Return
    /\ UNCHANGED <<registry, handled, opens, insts, closing>>

-----------------------------------------------------------------------------
(* The end of reload_from. *)

Adapter == adapters[libs[Top.name].id]

same_state(new, old) == new = old

compare ==
    /\ At("compare")
    /\ Goto(IF same_state(Manifest[Top.lib].state, Adapter.state_schema) THEN "rebind" ELSE "destroy")
    /\ UNCHANGED <<libs, registry, bus, opens, insts, closing, fault>>

(* Mutant: the old library is closed before its instance is destroyed. *)
rebind_closed ==
    LET id == libs[Top.name].id
        old_lib == libs[Top.name].lib
    IN  /\ At("rebind")
        /\ opens' = lib_close(old_lib)
        /\ fault' = (fault \/ opens'[old_lib] = 0)
        /\ insts' = [insts EXCEPT ![adapters[id].inst] = None]
        /\ adapters' = [adapters EXCEPT ![id].inst = Top.inst]
        /\ libs' = [libs EXCEPT ![Top.name].lib = Top.lib]
        /\ Becomes([Top EXCEPT !.lib = None, !.inst = None, !.at = "revive"])
        /\ UNCHANGED <<registry, bus_reg, next_id, handled, closing>>

(* The old instance is destroyed and the adapter and the record get the new
   one; the call is left with the old library. *)
rebind ==
    LET id == libs[Top.name].id
        old_lib == libs[Top.name].lib
    IN  /\ At("rebind")
        /\ Call(adapters[id].inst)
        /\ insts' = [insts EXCEPT ![adapters[id].inst] = None]
        /\ adapters' = [adapters EXCEPT ![id].inst = Top.inst]
        /\ libs' = [libs EXCEPT ![Top.name].lib = Top.lib]
        /\ Becomes([Top EXCEPT !.lib = old_lib, !.inst = None, !.at = "revive"])
        /\ UNCHANGED <<registry, bus_reg, next_id, handled, opens, closing>>

(* Mutant: the new instance keeps its initial state. *)
revived_fresh(snapshot) == 0
revived(snapshot) == snapshot

(* swap_state: the snapshot was admitted under the same schema, so the gate
   passes it; the library's own revive may still fail, and the exception leaves
   reload_from and as many of the calls around it as do not catch it. *)
swap_state ==
    /\ At("revive")
    /\ Call(Adapter.inst)
    /\ \/ /\ insts' = [insts EXCEPT ![Adapter.inst].state = revived(Top.snapshot)]
          /\ Goto("observers")
       \/ /\ ReviveThrows
          /\ \E d \in 0..(Depth - 1) : stack' = SubSeq(stack, 1, d)
          /\ UNCHANGED insts
    /\ UNCHANGED <<libs, registry, bus, opens, closing>>

observers_done ==
    /\ At("observers")
    /\ Goto("close")
    /\ UNCHANGED <<libs, registry, bus, opens, insts, closing, fault>>

-----------------------------------------------------------------------------
(* The bus delivers a message to the Shard. *)
handle(id) ==
    /\ HostRuns
    /\ adapters[id] # None
    /\ handled[id] < MaxHandled
    /\ Call(adapters[id].inst)
    /\ insts' = [insts EXCEPT ![adapters[id].inst].state = @ + 1]
    /\ handled' = [handled EXCEPT ![id] = @ + 1]
    /\ UNCHANGED <<libs, registry, adapters, bus_reg, next_id, opens, stack, closing>>

(* The host takes the Shard off the bus behind the kernel's back and drops it. *)
host_unregister(id) ==
    /\ HostRuns
    /\ adapters[id] # None
    /\ Call(adapters[id].inst)
    /\ insts' = [insts EXCEPT ![adapters[id].inst] = None]
    /\ adapters' = [adapters EXCEPT ![id] = None]
    /\ UNCHANGED <<libs, registry, bus_reg, next_id, handled, opens, stack, closing>>

Stage ==
    \/ lib_open \/ fetch_abi \/ create \/ reconstruct \/ register \/ compare \/ rebind
    \/ swap_state \/ observers_done \/ destroy \/ close

Next ==
    \/ \E n \in Names, f \in Files : load(n, f) \/ reload_from(n, f)
    \/ \E n \in Names : unload(n)
    \/ destroy_kernel
    \/ Stage
    \/ \E id \in ShardIds : handle(id) \/ host_unregister(id)

Spec == Init /\ [][Next]_vars

(* A call that has begun goes on, and so does ~Kernel. *)
FairSpec ==
    /\ Spec
    /\ WF_vars(Stage)
    /\ WF_vars(closing /\ \E n \in Names : unload(n))

-----------------------------------------------------------------------------
(* Every variable holds what the code can hold. *)
TypeOK ==
    /\ libs \in [Names -> [lib : Files, id : ShardIds] \cup {None}]
    /\ registry \in [Keys -> Shapes \cup {Unset}]
    /\ adapters \in [ShardIds -> [inst : Insts, state_schema : Schema] \cup {None}]
    /\ bus_reg \in [Keys -> Shapes \cup {Unset}]
    /\ next_id \in 1..(MaxShards + 1)
    /\ opens \in [Files -> Nat]
    /\ insts \in [Insts -> [lib : Files, state : 0..MaxHandled] \cup {None}]
    /\ stack \in Seq(Frame)
    /\ closing \in BOOLEAN
    /\ handled \in [ShardIds -> 0..MaxHandled]
    /\ fault \in BOOLEAN

(* "no call ever lands in a closed library", nor in an instance that was
   destroyed, whatever the observers of a reload do. *)
NoCallIntoClosedLibrary == ~fault

Frames == 1..Depth

(* The records and the calls in progress that have a handle of library f. *)
Records(f) == {n \in Names : libs[n] # None /\ libs[n].lib = f}
Handles(f) == {d \in Frames : stack[d].lib = f}

(* A library is open once for every record and every call in progress that has
   its handle: none is leaked, none closed twice, by whatever stage failed. *)
LibrariesAccountedFor ==
    \A f \in Files : opens[f] = Cardinality(Records(f)) + Cardinality(Handles(f))

Owners(i) ==
    {<<"adapter", id>> : id \in {id \in ShardIds : adapters[id] # None /\ adapters[id].inst = i}}
    \cup {<<"call", d>> : d \in {d \in Frames : stack[d].inst = i}}

(* Every live instance has exactly one owner, an adapter on the bus or a call
   in progress, and no owner has a dead one. *)
InstancesAccountedFor ==
    \A i \in Insts :
        IF insts[i] = None THEN Owners(i) = {} ELSE \E owner \in Owners(i) : Owners(i) = {owner}

(* The state of a Shard survives reloads of its library, completed or refused:
   outside the swap itself its instance has every message the Shard handled. *)
StateSurvives ==
    \A id \in ShardIds :
        (adapters[id] # None /\ ~\E d \in Frames : stack[d].at = "revive" /\ libs[stack[d].name].id = id)
            => insts[adapters[id].inst].state = handled[id]

(* ~Kernel ends with every library closed. *)
DestructorClosesEverything ==
    closing ~> (stack = <<>> /\ \A f \in Files : opens[f] = 0)
=============================================================================
