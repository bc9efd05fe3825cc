------------------------------ MODULE Isolation ------------------------------
(***************************************************************************)
(* Out-of-process hosting: IsolationHost (src/isolation/host.cpp), its     *)
(* proxies, the child processes (src/isolation/shard_host_main.cpp) and    *)
(* the sockets between them.                                               *)
(*                                                                         *)
(* The host is one thread; step() is its loop body.  The children run by   *)
(* themselves between any two of the host's system calls: pc marks the     *)
(* places in step() where that matters.  Of the bus only what the host     *)
(* uses of it is here: the queue of deliveries to proxies, and each        *)
(* proxy's alive flag and reload count.                                    *)
(*                                                                         *)
(* A Shard's state is the set of messages it has handled, so a snapshot    *)
(* tells which handled messages it contains.                               *)
(***************************************************************************)
EXTENDS Integers, Sequences, FiniteSets

CONSTANTS
    N,            \* links are named 1..N, the order step() visits them in
    Msgs,         \* messages the host program sends, each at most once
    MaxReloads,   \* the Shards' own policy: max_reloads
    MaxBacklog,   \* frames an outbox may hold (kMaxBacklog, in bytes)
    SockBuf,      \* frames a socket buffers in each direction
    MaxPids,      \* processes that can exist at a time
    MaxSpawns,    \* bound on children ever started for one link
    MaxMounts,    \* bound on mounts ever made under one name
    RespawnFails, \* may a respawn fail?
    HostSwaps,    \* does the host program call swap_state on a proxy?
    ReviveFails,  \* may a Shard's own revive fail in the child?
    Nothing       \* no link, no channel

Names == 1..N
Pids == 1..MaxPids
State == SUBSET Msgs

ASSUME ConstantsAssumption ==
    /\ N \in Nat \ {0}
    /\ IsFiniteSet(Msgs)
    /\ MaxReloads \in Nat
    /\ MaxBacklog \in Nat
    /\ SockBuf \in Nat \ {0}
    /\ MaxPids \in Nat
    /\ MaxSpawns \in Nat
    /\ MaxMounts \in Nat
    /\ RespawnFails \in BOOLEAN
    /\ HostSwaps \in BOOLEAN
    /\ ReviveFails \in BOOLEAN

(* Deliver and Emit carry one message, Revive and Snapshot a state. *)
Frame == [op : {"Deliver", "Revive", "Emit", "Snapshot"}, v : State]

Channel == [outbox : Seq(Frame), failed : BOOLEAN, eof : BOOLEAN]

Link == [channel : Channel \cup {Nothing}, pid : 0..MaxPids, snapshot : State,
         dead : BOOLEAN, death_signaled : BOOLEAN, quarantined : BOOLEAN,
         alive : BOOLEAN, reloads_used : Nat,   \* the proxy's record on the bus
         spawned : Nat, died : Nat]             \* history: handshakes made, Died events

(* A process and its end of the socket.  todo is what it has still to write
   for the frame it is handling. *)
Process == [st : {"none", "running", "exited"}, state : State,
            inbuf : Seq(Frame), outbuf : Seq(Frame), todo : Seq(Frame), reset : BOOLEAN]

(* A delivery to a proxy: its name, and which of the mounts under that name. *)
Delivery == [to : Names, mount : Nat, m : Msgs]

ASSUME NothingAssumption == Nothing \notin Channel /\ Nothing \notin Link

VARIABLES
    links,    \* links_
    procs,    \* the process table, by pid
    queue,    \* the bus's queue, deliveries to proxies only
    sent,     \* the messages the host program has sent
    handled,  \* history: how often each message was handled by some child
    emitted,  \* history: how often its output was put on the bus
    mounts,   \* history: mounts made under each name
    pc        \* where step() is: <<phase, link>>

vars == <<links, procs, queue, sent, handled, emitted, mounts, pc>>

NoProcess == [st |-> "none", state |-> {}, inbuf |-> <<>>, outbuf |-> <<>>, todo |-> <<>>,
           reset |-> FALSE]

Init ==
    /\ links = [l \in Names |-> Nothing]
    /\ procs = [p \in Pids |-> NoProcess]
    /\ queue = <<>>
    /\ sent = {}
    /\ handled = [m \in Msgs |-> 0]
    /\ emitted = [m \in Msgs |-> 0]
    /\ mounts = [l \in Names |-> 0]
    /\ pc = <<"idle", 0>>

Mounted(l) == links[l] # Nothing
Idle == pc[1] = "idle"

-----------------------------------------------------------------------------
(* The channel, host side. *)

OpenChannel == [outbox |-> <<>>, failed |-> FALSE, eof |-> FALSE]

done(ch) == ch.failed \/ ch.eof

Channel_queue(ch, frame) ==
    IF ch.failed THEN ch
    ELSE [ch EXCEPT !.outbox = Append(@, frame), !.failed = Len(ch.outbox) + 1 > MaxBacklog]

-----------------------------------------------------------------------------
(* Processes. *)

Free(pid) == procs[pid].st = "none"

(* A process ends: its end of the socket closes.  What it wrote stays
   readable; input it had not read makes the host's next read fail. *)
Ended(pr) == [pr EXCEPT !.st = "exited", !.reset = (pr.inbuf # <<>>), !.inbuf = <<>>, !.todo = <<>>]

(* teardown_child: close the channel, wait for the child or kill it, reap it. *)
TornDown(link) == [link EXCEPT !.channel = Nothing, !.pid = 0]
Reaped(ps, pid) == IF pid = 0 THEN ps ELSE [ps EXCEPT ![pid] = NoProcess]

(* spawn_and_handshake: no child at all; one that never completes the
   handshake, which the caller tears down; or one that said Hello. *)
SpawnOutcomes == {"no_child", "no_hello", "hello"}
RespawnOutcomes == IF RespawnFails THEN SpawnOutcomes ELSE {"hello"}

Spawned_caching(link, pid, outcome) ==
    IF outcome = "no_child" THEN link
    ELSE [link EXCEPT !.channel = OpenChannel, !.pid = pid, !.snapshot = {},
                      !.spawned = IF outcome = "hello" THEN @ + 1 ELSE @]
Spawned(link, pid, outcome) ==
    IF outcome = "no_child" THEN link
    ELSE [link EXCEPT !.channel = OpenChannel, !.pid = pid,
                      !.spawned = IF outcome = "hello" THEN @ + 1 ELSE @]
Forked(ps, pid, outcome) ==
    IF outcome = "no_child" THEN ps
    ELSE [ps EXCEPT ![pid] = [NoProcess EXCEPT !.st = "running"]]

(* respawn_and_revive, once the old child is gone: the new child's first
   frame is the state it revives from. *)
respawn_and_revive(link, pid, outcome, state) ==
    LET fresh == Spawned(link, pid, outcome) IN
    IF outcome = "hello"
    THEN [fresh EXCEPT !.channel = Channel_queue(@, [op |-> "Revive", v |-> state])]
    ELSE TornDown(fresh)
Respawned_leaking(ps, pid, outcome) == Forked(ps, pid, outcome)
Respawned(ps, pid, outcome) ==
    IF outcome = "hello" THEN Forked(ps, pid, outcome)
    ELSE Reaped(Forked(ps, pid, outcome), IF outcome = "no_child" THEN 0 ELSE pid)

-----------------------------------------------------------------------------
(* The host program, between steps. *)

NewLink == [channel |-> Nothing, pid |-> 0, snapshot |-> {}, dead |-> FALSE,
            death_signaled |-> FALSE, quarantined |-> FALSE, alive |-> TRUE,
            reloads_used |-> 0, spawned |-> 0, died |-> 0]

(* A mount refused at any stage, a refused registration included, leaves
   neither link nor process. *)
mount(l) ==
    /\ Idle
    /\ ~Mounted(l)
    /\ mounts[l] < MaxMounts
    /\ \E pid \in Pids, outcome \in SpawnOutcomes, registered \in BOOLEAN :
          LET link == Spawned(NewLink, pid, outcome)
              ps == Forked(procs, pid, outcome)
          IN  /\ Free(pid)
              /\ IF outcome = "hello" /\ registered
                 THEN links' = [links EXCEPT ![l] = link] /\ procs' = ps
                 ELSE links' = links /\ procs' = Reaped(ps, link.pid)
    /\ mounts' = [mounts EXCEPT ![l] = @ + 1]
    /\ UNCHANGED <<queue, sent, handled, emitted, pc>>

(* What is still queued for the proxy stays queued. *)
unmount(l) ==
    /\ Idle
    /\ Mounted(l)
    /\ procs' = Reaped(procs, links[l].pid)
    /\ links' = [links EXCEPT ![l] = Nothing]
    /\ UNCHANGED <<queue, sent, handled, emitted, mounts, pc>>

send(l, m) ==
    /\ Idle
    /\ Mounted(l)
    /\ m \notin sent
    /\ sent' = sent \cup {m}
    /\ queue' = Append(queue, [to |-> l, mount |-> mounts[l], m |-> m])
    /\ UNCHANGED <<links, procs, handled, emitted, mounts, pc>>

(* Switchboard::swap_state on a proxy: any admissible state, no budget. *)
swap_state(l) ==
    /\ HostSwaps
    /\ Idle
    /\ Mounted(l)
    /\ links[l].spawned < MaxSpawns
    /\ \E pid \in Pids, outcome \in RespawnOutcomes, state \in State :
          LET torn == TornDown(links[l])
              ps == Reaped(procs, links[l].pid)
          IN  /\ ps[pid].st = "none"
              /\ links' = [links EXCEPT ![l] =
                             [respawn_and_revive(torn, pid, outcome, state) EXCEPT !.alive = TRUE]]
              /\ procs' = Respawned(ps, pid, outcome)
    /\ UNCHANGED <<queue, sent, handled, emitted, mounts, pc>>

-----------------------------------------------------------------------------
(* IsolationHost::step. *)

step ==
    /\ Idle
    /\ pc' = <<"flush", 1>>
    /\ UNCHANGED <<links, procs, queue, sent, handled, emitted, mounts>>

(* The links the two loops visit one after the other. *)
AfterDrain(l) == IF l < N THEN <<"flush", l + 1>> ELSE <<"pump", 0>>
AfterSupervise(l) == IF l < N THEN <<"supervise", l + 1>> ELSE <<"idle", 0>>

HasChannel(l) == Mounted(l) /\ links[l].channel # Nothing

(* What the socket takes of an outbox, and what stays queued. *)
Accepted(outbox, inbuf) ==
    LET room == SockBuf - Len(inbuf)
    IN  SubSeq(outbox, 1, IF room < Len(outbox) THEN room ELSE Len(outbox))
Unsent_all(outbox, taken) == outbox
Unsent(outbox, taken) == SubSeq(outbox, Len(taken) + 1, Len(outbox))

(* A full socket ends the loop, it does not hold it up. *)
AfterFlush_retrying(l) ==
    IF HasChannel(l) /\ ~links[l].channel.failed /\ links[l].channel.outbox # <<>>
    THEN <<"flush", l>> ELSE <<"poll", l>>
AfterFlush(l) == <<"poll", l>>

(* Non-blocking; a peer that is gone fails the channel. *)
flush(l) ==
    /\ pc = <<"flush", l>>
    /\ IF ~HasChannel(l) \/ links[l].channel.failed \/ links[l].channel.outbox = <<>>
       THEN UNCHANGED <<links, procs>>
       ELSE LET outbox == links[l].channel.outbox
                pid == links[l].pid
                taken == Accepted(outbox, procs[pid].inbuf)
            IN  IF procs[pid].st = "exited"
                THEN /\ links' = [links EXCEPT ![l].channel.failed = TRUE]
                     /\ UNCHANGED procs
                ELSE /\ links' = [links EXCEPT ![l].channel.outbox = Unsent(outbox, taken)]
                     /\ procs' = [procs EXCEPT ![pid].inbuf = @ \o taken]
    /\ pc' = AfterFlush(l)
    /\ UNCHANGED <<queue, sent, handled, emitted, mounts>>

(* The state in the last Snapshot among the frames the gate passes, if there
   is one. *)
Refreshed(snapshot, frames, good) ==
    LET Passed(i) == frames[i].op = "Snapshot" /\ frames[i] \in good
        last == {i \in 1..Len(frames) : Passed(i) /\ \A j \in (i + 1)..Len(frames) : ~Passed(j)}
    IN  IF last = {} THEN snapshot ELSE frames[CHOOSE i \in last : TRUE].v

(* How often m is among them. *)
EmitsOf(m, frames, good) ==
    Cardinality({i \in 1..Len(frames) : frames[i] = [op |-> "Emit", v |-> {m}] /\ frames[i] \in good})

(* poll, then handle_child_frame on every frame it appended.  The gate may
   refuse any Emit or Snapshot.  A read error returns before the frames
   already read are parsed. *)
poll(l) ==
    /\ pc = <<"poll", l>>
    /\ IF ~HasChannel(l) \/ links[l].channel.failed
       THEN UNCHANGED <<links, procs, emitted>>
       ELSE LET pid == links[l].pid
                pr == procs[pid]
            IN  /\ procs' = [procs EXCEPT ![pid].outbuf = <<>>]
                /\ IF pr.st = "exited" /\ pr.reset
                   THEN /\ links' = [links EXCEPT ![l].channel.failed = TRUE]
                        /\ UNCHANGED emitted
                   ELSE \E good \in SUBSET {pr.outbuf[i] : i \in 1..Len(pr.outbuf)} :
                          /\ links' = [links EXCEPT ![l].channel.eof = (pr.st = "exited"),
                                                    ![l].snapshot = Refreshed(@, pr.outbuf, good)]
                          /\ emitted' = [m \in Msgs |-> emitted[m] + EmitsOf(m, pr.outbuf, good)]
    /\ pc' = AfterDrain(l)
    /\ UNCHANGED <<queue, sent, handled, mounts>>

(* One delivery of the pump.  A proxy unmounted since is not found, for its id
   is never used again; a dead one refuses; a live one ships the message and
   returns, and drops it when it has no channel. *)
ship_deliver ==
    /\ pc[1] = "pump"
    /\ queue # <<>>
    /\ LET d == Head(queue) IN
       links' = IF HasChannel(d.to) /\ d.mount = mounts[d.to] /\ links[d.to].alive
                THEN [links EXCEPT ![d.to].channel =
                        Channel_queue(@, [op |-> "Deliver", v |-> {d.m}])]
                ELSE links
    /\ queue' = Tail(queue)
    /\ UNCHANGED <<procs, sent, handled, emitted, mounts, pc>>

pumped ==
    /\ pc[1] = "pump"
    /\ queue = <<>>
    /\ pc' = <<"supervise", 1>>
    /\ UNCHANGED <<links, procs, queue, sent, handled, emitted, mounts>>

DeadNow(link) == link.channel = Nothing \/ done(link.channel)

(* Switchboard::kill, once per death. *)
Signalled(link) ==
    IF DeadNow(link) /\ ~link.death_signaled
    THEN [link EXCEPT !.dead = TRUE, !.death_signaled = TRUE, !.alive = FALSE, !.died = @ + 1]
    ELSE link

(* recover: Switchboard::reload within the Shard's budget, else quarantine.
   reload marks the proxy alive whatever its revive came to. *)
Reloaded_still_signaled(link, pid, outcome) ==
    LET new == [respawn_and_revive(link, pid, outcome, link.snapshot) EXCEPT
                  !.alive = TRUE, !.reloads_used = @ + 1]
    IN  IF new.channel # Nothing
        THEN [new EXCEPT !.dead = FALSE]
        ELSE [new EXCEPT !.dead = TRUE, !.quarantined = TRUE]
Reloaded(link, pid, outcome) ==
    LET new == [respawn_and_revive(link, pid, outcome, link.snapshot) EXCEPT
                  !.alive = TRUE, !.reloads_used = @ + 1]
    IN  IF new.channel # Nothing
        THEN [new EXCEPT !.dead = FALSE, !.death_signaled = FALSE]
        ELSE [new EXCEPT !.dead = TRUE, !.quarantined = TRUE]
Quarantined_announced(link) == [link EXCEPT !.dead = TRUE, !.quarantined = TRUE, !.died = @ + 1]
Quarantined(link) == [link EXCEPT !.dead = TRUE, !.quarantined = TRUE]

recover(l, link) ==
    LET torn == TornDown(link)
        ps == Reaped(procs, link.pid)
    IN  IF link.reloads_used >= MaxReloads
        THEN links' = [links EXCEPT ![l] = Quarantined(torn)] /\ procs' = ps
        ELSE \E pid \in Pids, outcome \in RespawnOutcomes :
                /\ ps[pid].st = "none"
                /\ links' = [links EXCEPT ![l] = Reloaded(torn, pid, outcome)]
                /\ procs' = Respawned(ps, pid, outcome)

Skipped(l) == ~Mounted(l) \/ links[l].quarantined

supervise(l) ==
    /\ pc = <<"supervise", l>>
    /\ IF Skipped(l)
       THEN UNCHANGED <<links, procs>>
       ELSE LET link == Signalled(links[l])
            IN  IF link.dead THEN recover(l, link)
                ELSE UNCHANGED <<links, procs>>
    /\ pc' = AfterSupervise(l)
    /\ UNCHANGED <<queue, sent, handled, emitted, mounts>>
-----------------------------------------------------------------------------
(* The child: shard_host_main.cpp. *)

(* Read one frame and handle it.  What handling writes, the output and then a
   snapshot, is written frame by frame by child_write.  A revive that fails is
   ignored and the snapshot is that of the state the child already has. *)
child_read(p) ==
    /\ procs[p].st = "running"
    /\ procs[p].todo = <<>>
    /\ procs[p].inbuf # <<>>
    /\ LET frame == Head(procs[p].inbuf)
           Become(state, todo) ==
               procs' = [procs EXCEPT ![p].inbuf = Tail(@), ![p].state = state, ![p].todo = todo]
       IN  \/ /\ frame.op = "Deliver"
              /\ LET state == procs[p].state \cup frame.v IN
                 Become(state, << [op |-> "Emit", v |-> frame.v], [op |-> "Snapshot", v |-> state] >>)
              /\ handled' = [m \in Msgs |-> IF m \in frame.v THEN handled[m] + 1 ELSE handled[m]]
           \/ /\ frame.op = "Revive"
              /\ Become(frame.v, << [op |-> "Snapshot", v |-> frame.v] >>)
              /\ UNCHANGED handled
           \/ /\ frame.op = "Revive"
              /\ ReviveFails
              /\ Become(procs[p].state, << [op |-> "Snapshot", v |-> procs[p].state] >>)
              /\ UNCHANGED handled
    /\ UNCHANGED <<links, queue, sent, emitted, mounts, pc>>

(* write_all blocks while the socket is full. *)
child_write(p) ==
    /\ procs[p].st = "running"
    /\ procs[p].todo # <<>>
    /\ Len(procs[p].outbuf) < SockBuf
    /\ procs' = [procs EXCEPT ![p].outbuf = Append(@, Head(procs[p].todo)), ![p].todo = Tail(@)]
    /\ UNCHANGED <<links, queue, sent, handled, emitted, mounts, pc>>

(* A crash, a kill from outside, or a voluntary exit, at any point. *)
child_exit(p) ==
    /\ procs[p].st = "running"
    /\ procs' = [procs EXCEPT ![p] = Ended(@)]
    /\ UNCHANGED <<links, queue, sent, handled, emitted, mounts, pc>>

-----------------------------------------------------------------------------
HostStep ==
    \/ step
    \/ \E l \in Names : flush(l) \/ poll(l) \/ supervise(l)
    \/ ship_deliver
    \/ pumped

HostProgram ==
    \E l \in Names :
        \/ mount(l)
        \/ unmount(l)
        \/ swap_state(l)
        \/ \E m \in Msgs : send(l, m)

Child == \E p \in Pids : child_read(p) \/ child_write(p) \/ child_exit(p)

Next == HostStep \/ HostProgram \/ Child

Spec == Init /\ [][Next]_vars

(* run_until calls step again and again, so the host's loop is fair.  Nothing
   is assumed of the children, which may hang, nor of the host program. *)
FairSpec == Spec /\ WF_vars(HostStep)

-----------------------------------------------------------------------------
Phases == {<<"idle", 0>>, <<"pump", 0>>} \cup ({"flush", "poll", "supervise"} \X Names)

(* Every variable holds what the code can hold; outbox and sockets are
   within their limits. *)
TypeOK ==
    /\ links \in [Names -> Link \cup {Nothing}]
    /\ procs \in [Pids -> Process]
    /\ \A p \in Pids : Len(procs[p].inbuf) <= SockBuf /\ Len(procs[p].outbuf) <= SockBuf
    /\ queue \in Seq(Delivery)
    /\ sent \in SUBSET Msgs
    /\ handled \in [Msgs -> Nat]
    /\ emitted \in [Msgs -> Nat]
    /\ mounts \in [Names -> Nat]
    /\ pc \in Phases

(* No child process is left behind: every process that exists, a zombie
   included, is the child of exactly one mounted link that has a channel to
   it.  teardown_child is reached on every path that drops a child. *)
NoOrphans ==
    \A p \in Pids : procs[p].st # "none" =>
        /\ \E l \in Names : HasChannel(l) /\ links[l].pid = p
        /\ \A l, k \in Names :
              Mounted(l) /\ Mounted(k) /\ links[l].pid = p /\ links[k].pid = p => l = k

(* Recovery never replays: however often a child dies and is respawned, a
   message is handled at most once, and its output reaches the bus at most as
   often as it was handled. *)
AtMostOnce == \A m \in Msgs : emitted[m] <= handled[m] /\ handled[m] <= 1

(* A Shard's host-owned snapshot never loses a message it already contains:
   a respawned child revives from the snapshot before it says anything about
   its own, empty, state. *)
SnapshotNeverRegresses ==
    [][\A l \in Names :
          Mounted(l) /\ links'[l] # Nothing => links[l].snapshot \subseteq links'[l].snapshot]_vars

(* Died is announced once per death: between steps, every child the link ever
   had, except one not yet known to be dead, has been announced. *)
DiedOncePerDeath ==
    Idle => \A l \in Names : Mounted(l) =>
        links[l].died + (IF HasChannel(l) THEN 1 ELSE 0) = links[l].spawned

(* "when the budget is exhausted, revive is never called and the Shard stays
   dead": a quarantined Shard is dead on the bus. *)
QuarantinedIsDead ==
    \A l \in Names : Mounted(l) /\ links[l].quarantined => ~links[l].alive

ChildDead(l) == Mounted(l) /\ links[l].pid # 0 /\ procs[links[l].pid].st = "exited"

(* The death of a child is always dealt with: the Shard gets another child,
   is quarantined, or is unmounted. *)
DeathIsHandled == \A l \in Names : ChildDead(l) ~> ~ChildDead(l)

(* A child that hangs, floods or will not read never holds the host up:
   every step() returns. *)
StepReturns == []<>Idle
=============================================================================
