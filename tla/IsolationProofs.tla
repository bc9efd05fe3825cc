--------------------------- MODULE IsolationProofs ---------------------------
(***************************************************************************)
(* What out-of-process hosting promises, for any number of links, messages *)
(* and processes, and for children that may exit at any point.             *)
(*                                                                         *)
(* No child is lost and no death is unannounced.  The invariant, Inv, ties  *)
(* every process to the link that started it.                               *)
(*                                                                         *)
(* No message is handled twice and no output emitted twice.  What is on its *)
(* way is seen as a box of frames: the queue of the bus, the outboxes of    *)
(* the links and the buffers of the processes.  The invariant, Fates, says  *)
(* of each message in how many places it can still be.                      *)
(*                                                                         *)
(* No snapshot loses a message.  The invariant, Recall, relates a link's    *)
(* snapshot to its child's state and to the frames between them.            *)
(***************************************************************************)
EXTENDS Isolation, TLAPS

(* The child of a link, 0 for none. *)
PidOf(l) == IF Mounted(l) THEN links[l].pid ELSE 0

(* Every process that exists is the child of a link; a link's child exists
   and is no other link's. *)
Attached ==
    /\ \A p \in Pids : procs[p].st # "none" => \E l \in Names : PidOf(l) = p
    /\ \A l, k \in Names : PidOf(l) # 0 /\ PidOf(l) = PidOf(k) => l = k
    /\ \A l \in Names : PidOf(l) # 0 => procs[PidOf(l)].st # "none"

(* A link has a channel when it has a child. *)
Paired == \A l \in Names : Mounted(l) => (links[l].channel = Nothing <=> links[l].pid = 0)

(* A link the host program has not swapped is without a child only in
   quarantine, and outside it no death is pending. *)
Accounted(link) ==
    /\ link.died + (IF link.channel = Nothing THEN 0 ELSE 1) = link.spawned
    /\ link.quarantined <=> link.channel = Nothing
    /\ ~link.quarantined => ~link.dead /\ ~link.death_signaled
Deaths == ~HostSwaps => \A l \in Names : Mounted(l) => Accounted(links[l])

Inv == TypeOK /\ Attached /\ Paired /\ Deaths
-----------------------------------------------------------------------------
(* Links. *)

LEMMA QueueType == ASSUME NEW ch \in Channel, NEW fr \in Frame PROVE Channel_queue(ch, fr) \in Channel
<1>1. Append(ch.outbox, fr) \in Seq(Frame) /\ (Len(ch.outbox) + 1 > MaxBacklog) \in BOOLEAN
    BY DEF Channel
<1> QED BY Zenon, <1>1 DEF Channel_queue, Channel

LEMMA OpenType == OpenChannel \in Channel /\ OpenChannel # Nothing
<1>1. OpenChannel \in Channel
    BY DEF OpenChannel, Channel
<1> QED BY Zenon, <1>1, NothingAssumption

(* What a respawn makes of a link whose child is gone. *)
Revived(link, new, pid, outcome) ==
    /\ new \in Link
    /\ new.pid = IF outcome = "hello" THEN pid ELSE 0
    /\ new.channel = Nothing <=> outcome # "hello"
    /\ new.spawned = IF outcome = "hello" THEN link.spawned + 1 ELSE link.spawned
    /\ new.died = link.died /\ new.dead = link.dead /\ new.death_signaled = link.death_signaled
    /\ new.quarantined = link.quarantined /\ new.reloads_used = link.reloads_used

LEMMA RespawnedLink ==
    ASSUME NEW link \in Link, link.channel = Nothing, link.pid = 0, NEW pid \in Pids,
           NEW outcome \in SpawnOutcomes, NEW state \in State
    PROVE  Revived(link, respawn_and_revive(link, pid, outcome, state), pid, outcome)
<1>1. PICK ch \in Channel : ch = Channel_queue(OpenChannel, [op |-> "Revive", v |-> state]) /\ ch # Nothing
  <2>1. [op |-> "Revive", v |-> state] \in Frame
      BY Zenon DEF Frame
  <2> QED BY Zenon, <2>1, QueueType, OpenType, NothingAssumption
<1>2. PICK new : new = respawn_and_revive(link, pid, outcome, state)
    OBVIOUS
<1>3. pid \in 0..MaxPids /\ link.spawned + 1 \in Nat /\ 0 \in 0..MaxPids
    BY ConstantsAssumption DEF Pids, Link
<1>4. CASE outcome = "hello"
  <2>1. new = [link EXCEPT !.channel = ch, !.pid = pid, !.spawned = @ + 1]
      BY Zenon, <1>1, <1>2, <1>4 DEF respawn_and_revive, Spawned, Link
  <2>2. Revived(link, new, pid, outcome)
      BY Zenon, <1>1, <1>3, <1>4, <2>1 DEF Link, Revived
  <2> QED BY Zenon, <1>2, <2>2
<1>5. CASE outcome \in {"no_hello", "no_child"}
  <2>1. new = [link EXCEPT !.channel = Nothing, !.pid = 0]
      BY Zenon, <1>2, <1>5 DEF respawn_and_revive, Spawned, TornDown, Link
  <2>2. Revived(link, new, pid, outcome)
      BY Zenon, <1>3, <1>5, <2>1 DEF Link, Revived
  <2> QED BY <1>2, <2>2
<1> QED BY Zenon, <1>4, <1>5 DEF SpawnOutcomes

(* A link whose child is torn down. *)
LEMMA TornType ==
    ASSUME NEW link \in Link
    PROVE  /\ TornDown(link) \in Link /\ TornDown(link).channel = Nothing /\ TornDown(link).pid = 0
           /\ TornDown(link).spawned = link.spawned /\ TornDown(link).died = link.died
           /\ TornDown(link).dead = link.dead /\ TornDown(link).death_signaled = link.death_signaled
           /\ TornDown(link).quarantined = link.quarantined /\ TornDown(link).snapshot = link.snapshot
           /\ TornDown(link).reloads_used = link.reloads_used
<1>1. 0 \in 0..MaxPids
    BY ConstantsAssumption
<1> QED BY Zenon, <1>1 DEF TornDown, Link

-----------------------------------------------------------------------------
(* Processes. *)

(* A process table within the limits of the sockets. *)
Table(ps) ==
    /\ ps \in [Pids -> Process]
    /\ \A p \in Pids : Len(ps[p].inbuf) <= SockBuf /\ Len(ps[p].outbuf) <= SockBuf

LEMMA NoProcessType == NoProcess \in Process /\ Len(NoProcess.inbuf) <= SockBuf /\ Len(NoProcess.outbuf) <= SockBuf
<1>1. NoProcess \in Process
    BY DEF NoProcess, Process, State
<1>2. Len(NoProcess.inbuf) = 0 /\ Len(NoProcess.outbuf) = 0
    BY Zenon DEF NoProcess
<1> QED BY <1>1, <1>2, ConstantsAssumption

LEMMA ReapedTable ==
    ASSUME NEW ps, Table(ps), NEW pid \in 0..MaxPids
    PROVE  Table(Reaped(ps, pid)) /\ \A p \in Pids : Reaped(ps, pid)[p] = IF p = pid THEN NoProcess ELSE ps[p]
<1>1. 0 \notin Pids /\ (pid # 0 => pid \in Pids)
    BY ConstantsAssumption DEF Pids
<1>2. \A p \in Pids : Reaped(ps, pid)[p] = IF p = pid THEN NoProcess ELSE ps[p]
    BY Zenon, <1>1 DEF Reaped, Table
<1>3. Reaped(ps, pid) \in [Pids -> Process]
    BY Zenon, <1>1, NoProcessType DEF Reaped, Table
<1> QED BY Zenon, <1>2, <1>3, NoProcessType DEF Table

(* A child just started. *)
LEMMA ChildType ==
    \E child \in Process : /\ child = [NoProcess EXCEPT !.st = "running"] /\ child.st = "running"
                           /\ Len(child.inbuf) <= SockBuf /\ Len(child.outbuf) <= SockBuf
<1>1. [NoProcess EXCEPT !.st = "running"] \in Process
    BY Zenon, NoProcessType DEF Process
<1>2. /\ [NoProcess EXCEPT !.st = "running"].st = "running"
      /\ [NoProcess EXCEPT !.st = "running"].inbuf = NoProcess.inbuf
      /\ [NoProcess EXCEPT !.st = "running"].outbuf = NoProcess.outbuf
    BY Zenon DEF NoProcess
<1> QED BY Zenon, <1>1, <1>2, NoProcessType

LEMMA RespawnedTable ==
    ASSUME NEW ps, Table(ps), NEW pid \in Pids, ps[pid].st = "none", NEW outcome \in SpawnOutcomes
    PROVE  /\ Table(Respawned(ps, pid, outcome))
           /\ \A p \in Pids : p # pid => Respawned(ps, pid, outcome)[p] = ps[p]
           /\ Respawned(ps, pid, outcome)[pid].st = IF outcome = "hello" THEN "running" ELSE "none"
<1>1. PICK child \in Process : /\ child = [NoProcess EXCEPT !.st = "running"] /\ child.st = "running"
                               /\ Len(child.inbuf) <= SockBuf /\ Len(child.outbuf) <= SockBuf
    BY Zenon, ChildType
<1>2. pid # 0 /\ pid \in 0..MaxPids
    BY ConstantsAssumption DEF Pids
<1>3. PICK fork : fork = [ps EXCEPT ![pid] = child]
    BY Zenon
<1>4. Table(fork) /\ fork[pid] = child /\ \A p \in Pids : p # pid => fork[p] = ps[p]
    BY Zenon, <1>1, <1>3 DEF Table
<1>5. CASE outcome = "hello"
    BY Zenon, <1>1, <1>3, <1>4, <1>5 DEF Respawned, Forked
<1>6. CASE outcome = "no_hello"
  <2>1. Respawned(ps, pid, outcome) = Reaped(fork, pid)
      BY Zenon, <1>1, <1>3, <1>6 DEF Respawned, Forked
  <2>2. NoProcess.st = "none"
      BY Zenon DEF NoProcess
  <2> QED BY <1>2, <1>4, <1>6, <2>1, <2>2, ReapedTable
<1>7. CASE outcome = "no_child"
    BY Zenon, <1>7 DEF Respawned, Forked, Reaped
<1> QED BY Zenon, <1>5, <1>6, <1>7 DEF SpawnOutcomes

-----------------------------------------------------------------------------
(* Links and processes together. *)

(* A step that gives no link another child and starts or reaps no process. *)
LEMMA AttachedKept ==
    ASSUME Attached, \A l \in Names : PidOf(l)' = PidOf(l), \A l \in Names : PidOf(l) \in Pids \cup {0},
           \A p \in Pids : procs'[p].st = "none" <=> procs[p].st = "none"
    PROVE  Attached'
BY DEF Attached

(* Link l has child old, then new: old is reaped and new was free. *)
LEMMA AttachedMoved ==
    ASSUME Attached, NEW l \in Names, NEW old, NEW new \in Pids \cup {0}, PidOf(l) = old, PidOf(l)' = new,
           \A k \in Names : k # l => PidOf(k)' = PidOf(k),
           \A p \in Pids : procs'[p].st # "none" <=> p = new \/ (p # old /\ procs[p].st # "none"),
           \A p \in Pids : p = new => p = old \/ procs[p].st = "none",
           \A k \in Names : PidOf(k) \in Pids \cup {0}
    PROVE  Attached'
<1>1. \A k \in Names : k # l => PidOf(k) # new \/ new = 0
    BY Zenon DEF Attached
<1>2. \A p \in Pids : procs'[p].st # "none" => \E k \in Names : PidOf(k)' = p
  <2> SUFFICES ASSUME NEW p \in Pids, procs'[p].st # "none" PROVE \E k \in Names : PidOf(k)' = p
      OBVIOUS
  <2>1. CASE p = new
      BY Zenon, <2>1
  <2>2. CASE p # new
    <3>1. PICK k \in Names : PidOf(k) = p
        BY Zenon, <2>2 DEF Attached
    <3> QED BY Zenon, <2>2, <3>1
  <2> QED BY Zenon, <2>1, <2>2
<1>3. \A i, k \in Names : PidOf(i)' # 0 /\ PidOf(i)' = PidOf(k)' => i = k
    BY <1>1 DEF Attached
<1>4. \A k \in Names : PidOf(k)' # 0 => procs'[PidOf(k)'].st # "none"
  <2> SUFFICES ASSUME NEW k \in Names, PidOf(k)' # 0 PROVE procs'[PidOf(k)'].st # "none"
      OBVIOUS
  <2>1. CASE k = l
      BY Zenon, <2>1
  <2>2. CASE k # l
    <3>1. PICK p \in Pids : p = PidOf(k) /\ p = PidOf(k)'
        BY Zenon, <2>2
    <3>2. p # old /\ procs[p].st # "none"
        BY Zenon, <2>2, <3>1 DEF Attached
    <3> QED BY Zenon, <3>1, <3>2
  <2> QED BY Zenon, <2>1, <2>2
<1> QED BY Zenon, <1>2, <1>3, <1>4 DEF Attached

LEMMA PidTypes == ASSUME TypeOK PROVE \A l \in Names : PidOf(l) \in Pids \cup {0}
<1>1. \A p \in 0..MaxPids : p \in Pids \cup {0}
    BY ConstantsAssumption DEF Pids
<1>2. 0 \in 0..MaxPids
    BY ConstantsAssumption
<1> QED BY Zenon, <1>1, <1>2 DEF TypeOK, PidOf, Mounted, Link

(* The link a name gets. *)
LEMMA LinkChanged ==
    ASSUME TypeOK, NEW l \in Names, NEW link \in Link \cup {Nothing}, links' = [links EXCEPT ![l] = link]
    PROVE  /\ links' \in [Names -> Link \cup {Nothing}] /\ links'[l] = link
           /\ PidOf(l)' = IF link = Nothing THEN 0 ELSE link.pid
           /\ \A k \in Names : k # l => links'[k] = links[k] /\ PidOf(k)' = PidOf(k)
BY Zenon DEF TypeOK, PidOf, Mounted

(* A link keeps its child, and no process is started or reaped. *)
LEMMA LinkKept ==
    ASSUME Inv, NEW l \in Names, Mounted(l), NEW link \in Link, links' = [links EXCEPT ![l] = link],
           link.pid = links[l].pid, link.channel = Nothing <=> links[l].channel = Nothing,
           link.died = links[l].died, link.spawned = links[l].spawned, link.quarantined = links[l].quarantined,
           link.dead = links[l].dead, link.death_signaled = links[l].death_signaled,
           \A p \in Pids : procs'[p].st = "none" <=> procs[p].st = "none"
    PROVE  links' \in [Names -> Link \cup {Nothing}] /\ Attached' /\ Paired' /\ Deaths'
<1>1. links' \in [Names -> Link \cup {Nothing}] /\ links'[l] = link /\ \A k \in Names : k # l => links'[k] = links[k]
    BY Zenon, LinkChanged DEF Inv
<1>2. \A k \in Names : PidOf(k)' = PidOf(k) /\ PidOf(k) \in Pids \cup {0}
    BY Zenon, NothingAssumption, LinkChanged, PidTypes DEF Inv, PidOf, Mounted
<1>3. Attached'
    BY Zenon, <1>2, AttachedKept DEF Inv
<1>4. Paired'
    BY Zenon, <1>1, NothingAssumption DEF Inv, Paired, Mounted
<1>5. Deaths'
  <2>1. Accounted(links[l]) => Accounted(link)
      BY Zenon DEF Accounted
  <2> QED BY Zenon, <1>1, <2>1 DEF Inv, Deaths, Mounted
<1> QED BY Zenon, <1>1, <1>3, <1>4, <1>5

-----------------------------------------------------------------------------
(* One lemma per action. *)

LEMMA InitInv == Init => Inv
<1> SUFFICES ASSUME Init PROVE Inv
    OBVIOUS
<1>1. TypeOK
  <2>1. links \in [Names -> Link \cup {Nothing}] /\ queue \in Seq(Delivery) /\ pc \in Phases
      BY DEF Init, Phases
  <2>2. procs \in [Pids -> Process] /\ \A p \in Pids : Len(procs[p].inbuf) <= SockBuf /\ Len(procs[p].outbuf) <= SockBuf
      BY Zenon, NoProcessType DEF Init
  <2> QED BY Zenon, <2>1, <2>2 DEF Init, TypeOK
<1>2. \A l \in Names : ~Mounted(l) /\ PidOf(l) = 0
    BY Zenon DEF Init, Mounted, PidOf
<1>3. \A p \in Pids : procs[p].st = "none"
    BY Zenon DEF Init, NoProcess
<1>4. Attached /\ Paired /\ Deaths
    BY Zenon, <1>2, <1>3 DEF Attached, Paired, Deaths
<1> QED BY Zenon, <1>1, <1>4 DEF Inv

LEMMA MountStep == ASSUME Inv, NEW l \in Names, mount(l) PROVE Inv'
<1>1. /\ links[l] = Nothing /\ mounts[l] < MaxMounts /\ mounts' = [mounts EXCEPT ![l] = @ + 1]
      /\ UNCHANGED <<queue, sent, handled, emitted, pc>>
    BY Zenon DEF mount, Mounted
<1>2. PICK pid \in Pids, outcome \in SpawnOutcomes, registered \in BOOLEAN :
        /\ Free(pid)
        /\ IF outcome = "hello" /\ registered
           THEN links' = [links EXCEPT ![l] = Spawned(NewLink, pid, outcome)] /\ procs' = Forked(procs, pid, outcome)
           ELSE links' = links /\ procs' = Reaped(Forked(procs, pid, outcome), Spawned(NewLink, pid, outcome).pid)
    BY Zenon DEF mount
<1>3. pid \in 0..MaxPids /\ pid # 0 /\ 0 \in 0..MaxPids /\ 0 \notin Pids
    BY ConstantsAssumption DEF Pids
<1>4. mounts' \in [Names -> Nat] /\ Table(procs)
    BY <1>1 DEF Inv, TypeOK, Table
<1>5. PICK child \in Process : /\ child = [NoProcess EXCEPT !.st = "running"] /\ child.st = "running"
                               /\ Len(child.inbuf) <= SockBuf /\ Len(child.outbuf) <= SockBuf
    BY Zenon, ChildType
<1>6. PICK fork : fork = [procs EXCEPT ![pid] = child]
    BY Zenon
<1>7. Table(fork) /\ fork[pid] = child /\ \A p \in Pids : p # pid => fork[p] = procs[p]
    BY Zenon, <1>4, <1>5, <1>6 DEF Table
<1>8. CASE outcome = "hello" /\ registered
  <2>1. PICK link : link = Spawned(NewLink, pid, outcome)
      OBVIOUS
  <2>2. link = [NewLink EXCEPT !.channel = OpenChannel, !.pid = pid, !.spawned = 1]
      BY <1>8, <2>1 DEF Spawned, NewLink
  <2>3. link \in Link /\ link.pid = pid /\ link.channel # Nothing /\ Accounted(link)
    <3>1. NewLink \in Link
        BY Zenon, <1>3 DEF NewLink, Link, State
    <3>2. link \in Link
        BY Zenon, <1>3, <2>2, <3>1, OpenType DEF Link
    <3>3. link.pid = pid /\ link.channel = OpenChannel /\ link.spawned = 1
        BY Zenon, <2>2 DEF NewLink
    <3>4. link.died = 0 /\ ~link.quarantined /\ ~link.dead /\ ~link.death_signaled
        BY Zenon, <2>2 DEF NewLink
    <3>5. Accounted(link)
        BY <3>3, <3>4, OpenType DEF Accounted
    <3> QED BY Zenon, <3>2, <3>3, <3>5, OpenType
  <2>4. links' = [links EXCEPT ![l] = link] /\ procs' = fork
      BY Zenon, <1>2, <1>5, <1>6, <1>8, <2>1 DEF Forked
  <2>5. /\ links' \in [Names -> Link \cup {Nothing}] /\ links'[l] = link
        /\ \A k \in Names : k # l => links'[k] = links[k] /\ PidOf(k)' = PidOf(k)
        /\ PidOf(l)' = pid /\ PidOf(l) = 0
      BY Zenon, <1>1, <2>3, <2>4, LinkChanged, NothingAssumption DEF Inv, PidOf, Mounted
  <2>6. Attached'
    <3>1. \A p \in Pids : procs'[p].st # "none" <=> p = pid \/ (p # 0 /\ procs[p].st # "none")
        BY Zenon, <1>3, <1>5, <1>7, <2>4
    <3>2. \A p \in Pids : p = pid => p = 0 \/ procs[p].st = "none"
        BY Zenon, <1>2 DEF Free
    <3> QED BY <2>5, <3>1, <3>2, AttachedMoved, PidTypes DEF Inv
  <2>7. Paired' /\ Deaths'
      BY Zenon, <1>3, <2>3, <2>5 DEF Inv, Paired, Deaths, Mounted
  <2>8. TypeOK'
      BY Zenon, <1>1, <1>4, <1>7, <2>4, <2>5 DEF Inv, TypeOK, Table
  <2> QED BY Zenon, <2>6, <2>7, <2>8 DEF Inv
<1>9. CASE ~(outcome = "hello" /\ registered)
  <2>1. links' = links /\ Table(procs') /\ \A p \in Pids : procs'[p].st = "none" <=> procs[p].st = "none"
    <3>1. CASE outcome = "no_child"
      <4>1. Spawned(NewLink, pid, outcome).pid = 0 /\ Forked(procs, pid, outcome) = procs
          BY Zenon, <3>1 DEF Spawned, NewLink, Forked
      <4> QED BY Zenon, <1>2, <1>4, <1>9, <4>1 DEF Reaped
    <3>2. CASE outcome # "no_child"
      <4>1. Spawned(NewLink, pid, outcome).pid = pid /\ Forked(procs, pid, outcome) = fork
          BY Zenon, <1>5, <1>6, <3>2 DEF Spawned, NewLink, Forked
      <4>2. links' = links /\ procs' = Reaped(fork, pid)
          BY Zenon, <1>2, <1>9, <4>1
      <4>3. NoProcess.st = "none"
          BY Zenon DEF NoProcess
      <4> QED BY <1>2, <1>3, <1>7, <4>2, <4>3, ReapedTable DEF Free
    <3> QED BY Zenon, <3>1, <3>2
  <2>2. Attached' /\ Paired' /\ Deaths'
    <3>1. \A k \in Names : PidOf(k)' = PidOf(k) /\ PidOf(k) \in Pids \cup {0}
        BY Zenon, <2>1, PidTypes DEF Inv, PidOf, Mounted
    <3> QED BY Zenon, <2>1, <3>1, AttachedKept DEF Inv, Paired, Deaths, Mounted
  <2>3. TypeOK'
      BY Zenon, <1>1, <1>4, <2>1 DEF Inv, TypeOK, Table
  <2> QED BY Zenon, <2>2, <2>3 DEF Inv
<1> QED BY Zenon, <1>8, <1>9

LEMMA UnmountStep == ASSUME Inv, NEW l \in Names, unmount(l) PROVE Inv'
<1>1. /\ Mounted(l) /\ procs' = Reaped(procs, links[l].pid) /\ links' = [links EXCEPT ![l] = Nothing]
      /\ UNCHANGED <<queue, sent, handled, emitted, mounts, pc>>
    BY Zenon DEF unmount
<1>2. links[l] \in Link /\ links[l].pid \in 0..MaxPids /\ Table(procs)
    BY Zenon, <1>1 DEF Inv, TypeOK, Mounted, Link, Table
<1>3. PICK old \in 0..MaxPids : old = links[l].pid /\ PidOf(l) = old
    BY Zenon, <1>1, <1>2 DEF PidOf
<1>4. Table(procs') /\ \A p \in Pids : procs'[p] = IF p = old THEN NoProcess ELSE procs[p]
    BY <1>1, <1>2, <1>3, ReapedTable
<1>5. /\ links' \in [Names -> Link \cup {Nothing}] /\ links'[l] = Nothing
      /\ \A k \in Names : k # l => links'[k] = links[k] /\ PidOf(k)' = PidOf(k)
      /\ PidOf(l)' = 0
    BY Zenon, <1>1, LinkChanged DEF Inv
<1>6. Attached'
  <2>1. \A p \in Pids : procs'[p].st # "none" <=> p = 0 \/ (p # old /\ procs[p].st # "none")
      BY <1>4, ConstantsAssumption DEF NoProcess, Pids
  <2>2. \A p \in Pids : p # 0
      BY ConstantsAssumption DEF Pids
  <2> QED BY <1>3, <1>5, <2>1, <2>2, AttachedMoved, PidTypes DEF Inv
<1>7. Paired' /\ Deaths'
    BY Zenon, <1>5 DEF Inv, Paired, Deaths, Mounted
<1>8. TypeOK'
    BY Zenon, <1>1, <1>4, <1>5 DEF Inv, TypeOK, Table
<1> QED BY Zenon, <1>6, <1>7, <1>8 DEF Inv

(* Steps that leave links and processes alone. *)
LEMMA OtherStep == ASSUME Inv, UNCHANGED <<links, procs>> PROVE Attached' /\ Paired' /\ Deaths'
<1>1. \A k \in Names : PidOf(k)' = PidOf(k) /\ PidOf(k) \in Pids \cup {0}
    BY Zenon, PidTypes DEF Inv, PidOf, Mounted
<1>2. Attached'
    BY Zenon, <1>1, AttachedKept DEF Inv
<1> QED BY Zenon, <1>2 DEF Inv, Paired, Deaths, Mounted

LEMMA SendStep == ASSUME Inv, NEW l \in Names, NEW m \in Msgs, send(l, m) PROVE Inv'
<1>1. [to |-> l, mount |-> mounts[l], m |-> m] \in Delivery
    BY Zenon DEF Inv, TypeOK, Delivery
<1>2. TypeOK'
    BY <1>1 DEF Inv, TypeOK, send
<1> QED BY Zenon, <1>2, OtherStep DEF Inv, send

LEMMA StepStep == ASSUME Inv, step PROVE Inv'
<1>1. <<"flush", 1>> \in Phases
    BY ConstantsAssumption DEF Phases, Names
<1>2. TypeOK'
    BY Zenon, <1>1 DEF Inv, TypeOK, step
<1> QED BY Zenon, <1>2, OtherStep DEF Inv, step

LEMMA PumpedStep == ASSUME Inv, pumped PROVE Inv'
<1>1. <<"supervise", 1>> \in Phases
    BY ConstantsAssumption DEF Phases, Names
<1>2. TypeOK'
    BY Zenon, <1>1 DEF Inv, TypeOK, pumped
<1> QED BY Zenon, <1>2, OtherStep DEF Inv, pumped

LEMMA PhaseTypes ==
    ASSUME NEW l \in Names
    PROVE  AfterFlush(l) \in Phases /\ AfterDrain(l) \in Phases /\ AfterSupervise(l) \in Phases
<1>1. l < N => l + 1 \in Names
    BY ConstantsAssumption DEF Names
<1> QED BY Zenon, <1>1 DEF AfterFlush, AfterDrain, AfterSupervise, Phases

(* The child of a link is replaced, or not: link is what becomes of it. *)
LEMMA ChildReplaced ==
    ASSUME Inv, NEW l \in Names, Mounted(l), NEW pid \in Pids, NEW outcome \in SpawnOutcomes,
           Reaped(procs, links[l].pid)[pid].st = "none",
           NEW link \in Link, link.pid = IF outcome = "hello" THEN pid ELSE 0,
           link.channel = Nothing <=> outcome # "hello",
           links' = [links EXCEPT ![l] = link], ~HostSwaps => Accounted(link),
           procs' = Respawned(Reaped(procs, links[l].pid), pid, outcome)
    PROVE  links' \in [Names -> Link \cup {Nothing}] /\ Table(procs') /\ Attached' /\ Paired' /\ Deaths'
<1>1. links[l] \in Link /\ links[l].pid \in 0..MaxPids /\ Table(procs)
    BY Zenon DEF Inv, TypeOK, Mounted, Link, Table
<1>2. PICK old \in 0..MaxPids : old = links[l].pid /\ PidOf(l) = old
    BY Zenon, <1>1 DEF PidOf
<1>3. PICK ps : ps = Reaped(procs, links[l].pid)
    OBVIOUS
<1>4. Table(ps) /\ ps[pid].st = "none" /\ \A p \in Pids : ps[p] = IF p = old THEN NoProcess ELSE procs[p]
    BY <1>1, <1>2, <1>3, ReapedTable
<1>5. /\ Table(procs') /\ \A p \in Pids : p # pid => procs'[p] = ps[p]
      /\ procs'[pid].st = IF outcome = "hello" THEN "running" ELSE "none"
    BY <1>3, <1>4, RespawnedTable
<1>6. PICK new \in Pids \cup {0} : new = link.pid
    OBVIOUS
<1>7. /\ links' \in [Names -> Link \cup {Nothing}] /\ links'[l] = link
      /\ \A k \in Names : k # l => links'[k] = links[k] /\ PidOf(k)' = PidOf(k)
      /\ PidOf(l)' = new
    BY Zenon, <1>6, LinkChanged, NothingAssumption DEF Inv
<1>8. pid # 0 /\ NoProcess.st = "none"
    BY ConstantsAssumption DEF Pids, NoProcess
<1>9. Attached'
  <2>1. \A p \in Pids : procs'[p].st # "none" <=> p = new \/ (p # old /\ procs[p].st # "none")
    <3> SUFFICES ASSUME NEW p \in Pids PROVE procs'[p].st # "none" <=> p = new \/ (p # old /\ procs[p].st # "none")
        OBVIOUS
    <3>1. CASE p = pid
        BY Zenon, <1>4, <1>5, <1>6, <1>8, <3>1
    <3>2. CASE p # pid
      <4>1. p # 0
          BY ConstantsAssumption DEF Pids
      <4> QED BY Zenon, <1>4, <1>5, <1>6, <1>8, <3>2, <4>1
    <3> QED BY Zenon, <3>1, <3>2
  <2>2. \A p \in Pids : p = new => p = old \/ procs[p].st = "none"
    <3>1. \A p \in Pids : p # 0
        BY ConstantsAssumption DEF Pids
    <3> QED BY Zenon, <1>4, <1>6, <3>1
  <2> QED BY <1>2, <1>7, <2>1, <2>2, AttachedMoved, PidTypes DEF Inv
<1>10. Paired'
    BY Zenon, <1>7, <1>8 DEF Inv, Paired, Mounted
<1>11. Deaths'
    BY Zenon, <1>7 DEF Inv, Deaths, Mounted
<1> QED BY Zenon, <1>5, <1>7, <1>9, <1>10, <1>11

LEMMA RespawnKinds == RespawnOutcomes \subseteq SpawnOutcomes
BY Zenon DEF RespawnOutcomes, SpawnOutcomes

LEMMA SwapStateStep == ASSUME Inv, NEW l \in Names, swap_state(l) PROVE Inv'
<1>1. HostSwaps /\ Mounted(l) /\ UNCHANGED <<queue, sent, handled, emitted, mounts, pc>>
    BY Zenon DEF swap_state
<1>2. PICK pid \in Pids, outcome \in RespawnOutcomes, state \in State :
        /\ Reaped(procs, links[l].pid)[pid].st = "none"
        /\ links' = [links EXCEPT ![l] = [respawn_and_revive(TornDown(links[l]), pid, outcome, state) EXCEPT !.alive = TRUE]]
        /\ procs' = Respawned(Reaped(procs, links[l].pid), pid, outcome)
    BY Zenon DEF swap_state
<1>3. links[l] \in Link /\ outcome \in SpawnOutcomes
    BY Zenon, <1>1, RespawnKinds DEF Inv, TypeOK, Mounted
<1>4. PICK torn \in Link : torn = TornDown(links[l]) /\ torn.channel = Nothing /\ torn.pid = 0
    BY Zenon, <1>3, TornType
<1>5. PICK new : new = respawn_and_revive(torn, pid, outcome, state)
    OBVIOUS
<1>6. Revived(torn, new, pid, outcome)
    BY <1>3, <1>4, <1>5, RespawnedLink
<1>7. PICK link : link = [new EXCEPT !.alive = TRUE]
    BY Zenon
<1>8. link \in Link /\ link.pid = new.pid /\ link.channel = new.channel
    BY Zenon, <1>6, <1>7 DEF Revived, Link
<1>9. links' \in [Names -> Link \cup {Nothing}] /\ Table(procs') /\ Attached' /\ Paired' /\ Deaths'
  <2>1. links' = [links EXCEPT ![l] = link]
      BY Zenon, <1>2, <1>4, <1>5, <1>7
  <2>2. link.pid = (IF outcome = "hello" THEN pid ELSE 0) /\ (link.channel = Nothing <=> outcome # "hello")
      BY Zenon, <1>6, <1>8 DEF Revived
  <2>3. ~HostSwaps => Accounted(link)
      BY Zenon, <1>1
  <2>4. Mounted(l) /\ outcome \in SpawnOutcomes /\ link \in Link /\ Reaped(procs, links[l].pid)[pid].st = "none"
      BY Zenon, <1>1, <1>2, <1>3, <1>8
  <2>5. procs' = Respawned(Reaped(procs, links[l].pid), pid, outcome)
      BY Zenon, <1>2
  <2> QED BY Zenon, <2>1, <2>2, <2>3, <2>4, <2>5, ChildReplaced
<1>10. TypeOK'
    BY Zenon, <1>1, <1>9 DEF Inv, TypeOK, Table
<1> QED BY Zenon, <1>9, <1>10 DEF Inv

(* What supervise knows of a link once a death has been announced. *)
LEMMA SignalledLink ==
    ASSUME NEW link \in Link
    PROVE  /\ Signalled(link) \in Link /\ Signalled(link).pid = link.pid
           /\ Signalled(link).channel = link.channel /\ Signalled(link).spawned = link.spawned
           /\ Signalled(link).quarantined = link.quarantined
           /\ Signalled(link).dead => link.dead \/ DeadNow(link)
           /\ Signalled(link).died = IF DeadNow(link) /\ ~link.death_signaled THEN link.died + 1 ELSE link.died
           /\ ~Signalled(link).dead => Signalled(link) = link
<1>1. link.died + 1 \in Nat
    BY DEF Link
<1>2. CASE DeadNow(link) /\ ~link.death_signaled
  <2>1. Signalled(link) = [link EXCEPT !.dead = TRUE, !.death_signaled = TRUE, !.alive = FALSE, !.died = @ + 1]
      BY Zenon, <1>2 DEF Signalled
  <2> QED BY Zenon, <1>1, <1>2, <2>1 DEF Link
<1>3. CASE ~(DeadNow(link) /\ ~link.death_signaled)
    BY Zenon, <1>3 DEF Signalled
<1> QED BY Zenon, <1>2, <1>3

LEMMA SuperviseStep == ASSUME Inv, NEW l \in Names, supervise(l) PROVE Inv'
<1>1. pc' \in Phases /\ UNCHANGED <<queue, sent, handled, emitted, mounts>>
    BY Zenon, PhaseTypes DEF supervise
<1>2. CASE UNCHANGED <<links, procs>>
  <2>1. TypeOK'
      BY Zenon, <1>1, <1>2 DEF Inv, TypeOK
  <2> QED BY Zenon, <1>2, <2>1, OtherStep DEF Inv
<1>3. CASE ~UNCHANGED <<links, procs>>
  <2>1. PICK link : link = Signalled(links[l])
      OBVIOUS
  <2>2. ~Skipped(l) /\ link.dead /\ recover(l, link)
      BY Zenon, <1>3, <2>1 DEF supervise
  <2>3. Mounted(l) /\ ~links[l].quarantined /\ links[l] \in Link
      BY Zenon, <2>2 DEF Skipped, Inv, TypeOK, Mounted
  <2>4. /\ link \in Link /\ link.pid = links[l].pid /\ link.spawned = links[l].spawned /\ link.quarantined = FALSE
        /\ link.died = IF DeadNow(links[l]) /\ ~links[l].death_signaled THEN links[l].died + 1 ELSE links[l].died
        /\ links[l].dead \/ DeadNow(links[l])
      BY Zenon, <2>1, <2>2, <2>3, SignalledLink DEF Link
  <2>5. ~HostSwaps => link.died = link.spawned
    <3>1. ~HostSwaps => links[l].channel # Nothing /\ links[l].died + 1 = links[l].spawned /\ DeadNow(links[l]) /\ ~links[l].death_signaled
        BY Zenon, <2>3, <2>4 DEF Inv, Deaths, Accounted
    <3> QED BY Zenon, <2>4, <3>1
  <2>6. PICK torn \in Link : /\ torn = TornDown(link) /\ torn.channel = Nothing /\ torn.pid = 0 /\ torn.died = link.died
                            /\ torn.spawned = link.spawned /\ torn.quarantined = FALSE /\ torn.snapshot \in State
                            /\ torn.reloads_used \in Nat
    <3>1. TornDown(link).snapshot \in State /\ TornDown(link).reloads_used \in Nat
        BY Zenon, <2>4, TornType DEF Link
    <3> QED BY <2>4, <3>1, TornType
  <2>7. links' \in [Names -> Link \cup {Nothing}] /\ Table(procs') /\ Attached' /\ Paired' /\ Deaths'
    <3>1. CASE link.reloads_used >= MaxReloads
      <4>1. PICK new : new = Quarantined(torn)
          OBVIOUS
      <4>2. new \in Link /\ new.pid = 0 /\ new.channel = Nothing /\ new.quarantined /\ new.died = torn.died /\ new.spawned = torn.spawned
          BY Zenon, <2>6, <4>1 DEF Quarantined, Link
      <4>3. links' = [links EXCEPT ![l] = new] /\ procs' = Reaped(procs, links[l].pid)
          BY Zenon, <2>2, <2>4, <2>6, <3>1, <4>1 DEF recover
      <4>4. PICK old \in 0..MaxPids : old = links[l].pid /\ PidOf(l) = old
          BY Zenon, <2>3 DEF PidOf, Link
      <4>5. Table(procs') /\ \A p \in Pids : procs'[p] = IF p = old THEN NoProcess ELSE procs[p]
        <5>1. Table(procs)
            BY Zenon DEF Inv, TypeOK, Table
        <5> QED BY <4>3, <4>4, <5>1, ReapedTable
      <4>6. /\ links' \in [Names -> Link \cup {Nothing}] /\ links'[l] = new
            /\ \A k \in Names : k # l => links'[k] = links[k] /\ PidOf(k)' = PidOf(k)
            /\ PidOf(l)' = 0
          BY Zenon, <4>2, <4>3, LinkChanged DEF Inv
      <4>7. Attached'
        <5>1. \A p \in Pids : p # 0
            BY ConstantsAssumption DEF Pids
        <5>2. \A p \in Pids : procs'[p].st # "none" <=> p = 0 \/ (p # old /\ procs[p].st # "none")
            BY <4>5, <5>1 DEF NoProcess
        <5> QED BY <4>4, <4>6, <5>1, <5>2, AttachedMoved, PidTypes DEF Inv
      <4>8. ~HostSwaps => Accounted(new)
          BY <2>4, <2>5, <2>6, <4>2 DEF Accounted, Link
      <4>9. Paired' /\ Deaths'
          BY <4>2, <4>6, <4>8 DEF Inv, Paired, Deaths, Mounted
      <4> QED BY Zenon, <4>5, <4>6, <4>7, <4>9
    <3>2. CASE ~(link.reloads_used >= MaxReloads)
      <4>1. PICK pid \in Pids, outcome \in RespawnOutcomes :
              /\ Reaped(procs, link.pid)[pid].st = "none" /\ links' = [links EXCEPT ![l] = Reloaded(torn, pid, outcome)]
              /\ procs' = Respawned(Reaped(procs, link.pid), pid, outcome)
          BY Zenon, <2>2, <2>6, <3>2 DEF recover
      <4>2. outcome \in SpawnOutcomes
          BY Zenon, RespawnKinds
      <4>3. PICK rev : rev = respawn_and_revive(torn, pid, outcome, torn.snapshot)
          OBVIOUS
      <4>4. Revived(torn, rev, pid, outcome)
          BY Zenon, <2>6, <4>2, <4>3, RespawnedLink
      <4>5. PICK up : up = [rev EXCEPT !.alive = TRUE, !.reloads_used = @ + 1]
          OBVIOUS
      <4>6. /\ up \in Link /\ up.pid = rev.pid /\ up.channel = rev.channel /\ up.died = rev.died /\ up.spawned = rev.spawned
            /\ up.quarantined = FALSE
        <5>1. rev.reloads_used + 1 \in Nat
            BY <4>4 DEF Revived, Link
        <5> QED BY Zenon, <2>6, <4>4, <4>5, <5>1 DEF Revived, Link
      <4>7. PICK new : new = Reloaded(torn, pid, outcome)
          OBVIOUS
      <4>8. new = IF up.channel # Nothing THEN [up EXCEPT !.dead = FALSE, !.death_signaled = FALSE]
                  ELSE [up EXCEPT !.dead = TRUE, !.quarantined = TRUE]
          BY Zenon, <4>3, <4>5, <4>7 DEF Reloaded
      <4>9. /\ new \in Link /\ new.pid = up.pid /\ new.channel = up.channel /\ new.died = up.died /\ new.spawned = up.spawned
            /\ new.quarantined <=> up.channel = Nothing
            /\ up.channel # Nothing => ~new.dead /\ ~new.death_signaled
          BY Zenon, <4>6, <4>8 DEF Link
      <4>10. new.pid = (IF outcome = "hello" THEN pid ELSE 0) /\ (new.channel = Nothing <=> outcome # "hello")
          BY Zenon, <4>4, <4>6, <4>9 DEF Revived
      <4>11. ~HostSwaps => Accounted(new)
        <5>1. new.died = torn.died /\ new.spawned = IF outcome = "hello" THEN torn.spawned + 1 ELSE torn.spawned
            BY Zenon, <4>4, <4>6, <4>9 DEF Revived
        <5>2. torn.died \in Nat /\ torn.spawned \in Nat
            BY Zenon, <2>6 DEF Link
        <5> QED BY <2>5, <2>6, <4>9, <4>10, <5>1, <5>2 DEF Accounted
      <4> QED BY ZenonT(30), <2>3, <2>4, <4>1, <4>2, <4>7, <4>9, <4>10, <4>11, ChildReplaced
    <3> QED BY Zenon, <3>1, <3>2
  <2>8. TypeOK'
      BY Zenon, <1>1, <2>7 DEF Inv, TypeOK, Table
  <2> QED BY Zenon, <2>7, <2>8 DEF Inv
<1> QED BY Zenon, <1>2, <1>3

(* A link that has a channel, with its child. *)
LEMMA ChildOfLink ==
    ASSUME Inv, NEW l \in Names, HasChannel(l)
    PROVE  /\ Mounted(l) /\ links[l] \in Link /\ links[l].channel \in Channel
           /\ links[l].pid \in Pids /\ procs[links[l].pid] \in Process /\ procs[links[l].pid].st # "none"
<1>1. Mounted(l) /\ links[l] \in Link /\ links[l].channel \in Channel
    BY Zenon DEF Inv, TypeOK, HasChannel, Mounted, Link
<1>2. links[l].pid # 0 /\ PidOf(l) = links[l].pid
    BY Zenon, <1>1 DEF Inv, Paired, HasChannel, PidOf
<1>3. links[l].pid \in Pids
    BY Zenon, <1>2, PidTypes DEF Inv
<1> QED BY Zenon, <1>1, <1>2, <1>3 DEF Inv, TypeOK, Attached

(* What the socket takes of an outbox fits. *)
LEMMA AcceptedFits ==
    ASSUME NEW outbox \in Seq(Frame), NEW inbuf \in Seq(Frame), Len(inbuf) <= SockBuf
    PROVE  /\ inbuf \o Accepted(outbox, inbuf) \in Seq(Frame)
           /\ Len(inbuf \o Accepted(outbox, inbuf)) <= SockBuf
           /\ Unsent(outbox, Accepted(outbox, inbuf)) \in Seq(Frame)
<1>1. PICK n \in Nat : n = (IF SockBuf - Len(inbuf) < Len(outbox) THEN SockBuf - Len(inbuf) ELSE Len(outbox))
                       /\ n <= Len(outbox) /\ Len(inbuf) + n <= SockBuf
    BY ConstantsAssumption
<1>2. PICK taken : taken = SubSeq(outbox, 1, n) /\ taken = Accepted(outbox, inbuf)
    BY Zenon, <1>1 DEF Accepted
<1>3. taken \in Seq(Frame) /\ Len(taken) = n
    BY <1>1, <1>2
<1>4. inbuf \o taken \in Seq(Frame) /\ Len(inbuf \o taken) <= SockBuf
    BY <1>1, <1>3
<1>5. SubSeq(outbox, n + 1, Len(outbox)) \in Seq(Frame)
    BY <1>1
<1> QED BY Zenon, <1>2, <1>3, <1>4, <1>5 DEF Unsent

LEMMA FlushStep == ASSUME Inv, NEW l \in Names, flush(l) PROVE Inv'
<1>1. pc' \in Phases /\ UNCHANGED <<queue, sent, handled, emitted, mounts>>
    BY Zenon, PhaseTypes DEF flush
<1>2. CASE ~HasChannel(l) \/ links[l].channel.failed \/ links[l].channel.outbox = <<>>
  <2>1. TypeOK' /\ UNCHANGED <<links, procs>>
      BY Zenon, <1>1, <1>2 DEF Inv, TypeOK, flush
  <2> QED BY Zenon, <2>1, OtherStep DEF Inv
<1>3. CASE ~(~HasChannel(l) \/ links[l].channel.failed \/ links[l].channel.outbox = <<>>)
  <2>1. PICK pid \in Pids, pr \in Process, ch \in Channel, link \in Link :
          link = links[l] /\ ch = link.channel /\ pid = link.pid /\ pr = procs[pid] /\ pr.st # "none" /\ Mounted(l)
      BY Zenon, <1>3, ChildOfLink
  <2>2. CASE pr.st = "exited"
    <3>1. PICK c : c = [ch EXCEPT !.failed = TRUE]
        BY Zenon
    <3>2. PICK new : new = [link EXCEPT !.channel = c]
        BY Zenon
    <3>3. links' = [links EXCEPT ![l] = new] /\ procs' = procs
        BY Zenon, <1>3, <2>1, <2>2, <3>1, <3>2 DEF flush, Inv, TypeOK, Link
    <3>4. c \in Channel /\ c # Nothing
        BY Zenon, <3>1, NothingAssumption DEF Channel
    <3>5. /\ new \in Link /\ new.channel # Nothing /\ new.pid = link.pid /\ new.died = link.died /\ new.spawned = link.spawned
          /\ new.quarantined = link.quarantined /\ new.dead = link.dead /\ new.death_signaled = link.death_signaled
        BY Zenon, <3>2, <3>4 DEF Link
    <3>6. link.channel # Nothing
        BY Zenon, <2>1, NothingAssumption
    <3>7. links' \in [Names -> Link \cup {Nothing}] /\ Attached' /\ Paired' /\ Deaths'
        BY Zenon, <2>1, <3>3, <3>5, <3>6, LinkKept
    <3> QED BY Zenon, <1>1, <3>3, <3>7 DEF Inv, TypeOK
  <2>3. CASE pr.st # "exited"
    <3>1. PICK taken : taken = Accepted(ch.outbox, pr.inbuf)
        OBVIOUS
    <3>2. /\ pr.inbuf \o taken \in Seq(Frame) /\ Len(pr.inbuf \o taken) <= SockBuf
          /\ Unsent(ch.outbox, taken) \in Seq(Frame)
      <4>1. ch.outbox \in Seq(Frame) /\ pr.inbuf \in Seq(Frame) /\ Len(pr.inbuf) <= SockBuf
          BY Zenon, <2>1 DEF Inv, TypeOK, Channel, Process
      <4> QED BY Zenon, <3>1, <4>1, AcceptedFits
    <3>3. PICK c, np : c = [ch EXCEPT !.outbox = Unsent(ch.outbox, taken)] /\ np = [pr EXCEPT !.inbuf = pr.inbuf \o taken]
        BY Zenon
    <3>4. PICK new : new = [link EXCEPT !.channel = c]
        BY Zenon
    <3>5. links' = [links EXCEPT ![l] = new] /\ procs' = [procs EXCEPT ![pid] = np]
      <4>1. /\ links' = [links EXCEPT ![l].channel.outbox = Unsent(ch.outbox, taken)]
            /\ procs' = [procs EXCEPT ![pid].inbuf = @ \o taken]
          BY Zenon, <1>3, <2>1, <2>3, <3>1 DEF flush
      <4> QED BY Zenon, <2>1, <3>3, <3>4, <4>1 DEF Inv, TypeOK, Link, Process
    <3>6. c \in Channel /\ c # Nothing
        BY Zenon, <3>2, <3>3, NothingAssumption DEF Channel
    <3>7. /\ new \in Link /\ new.channel # Nothing /\ new.pid = link.pid /\ new.died = link.died /\ new.spawned = link.spawned
          /\ new.quarantined = link.quarantined /\ new.dead = link.dead /\ new.death_signaled = link.death_signaled
        BY <3>4, <3>6 DEF Link
    <3>8. np \in Process /\ np.st = pr.st /\ Len(np.inbuf) <= SockBuf /\ np.outbuf = pr.outbuf
        BY Zenon, <3>2, <3>3 DEF Process
    <3>9. Table(procs') /\ \A p \in Pids : procs'[p].st = "none" <=> procs[p].st = "none"
        BY <2>1, <3>5, <3>8 DEF Inv, TypeOK, Table
    <3>10. link.channel # Nothing
        BY <2>1, NothingAssumption
    <3>11. links' \in [Names -> Link \cup {Nothing}] /\ Attached' /\ Paired' /\ Deaths'
        BY Zenon, <2>1, <3>5, <3>7, <3>9, <3>10, LinkKept
    <3> QED BY Zenon, <1>1, <3>9, <3>11 DEF Inv, TypeOK, Table
  <2> QED BY Zenon, <2>2, <2>3
<1> QED BY Zenon, <1>2, <1>3

LEMMA RefreshedType ==
    ASSUME NEW snapshot \in State, NEW frames \in Seq(Frame), NEW good
    PROVE  Refreshed(snapshot, frames, good) \in State
<1>1. \A i \in 1..Len(frames) : frames[i] \in Frame
    OBVIOUS
<1>2. \A i \in 1..Len(frames) : frames[i].v \in State
    BY Zenon, <1>1 DEF Frame
<1> QED BY Zenon, <1>2 DEF Refreshed

(* What counting outputs rests on; CountRuleHolds proves it. *)
CountRule ==
    /\ Cardinality({}) = 0
    /\ \A x : Cardinality({x}) = 1
    /\ \A n \in Nat : \A S \in SUBSET (1..n) : Cardinality(S) \in Nat

LEMMA EmitsType ==
    ASSUME CountRule, NEW m, NEW frames \in Seq(Frame), NEW good
    PROVE  EmitsOf(m, frames, good) \in Nat
<1>1. Len(frames) \in Nat
    OBVIOUS
<1>2. {i \in 1..Len(frames) : frames[i] = [op |-> "Emit", v |-> {m}] /\ frames[i] \in good} \in SUBSET (1..Len(frames))
    BY Zenon
<1> QED BY Zenon, <1>1, <1>2 DEF EmitsOf, CountRule

LEMMA PollStep == ASSUME CountRule, Inv, NEW l \in Names, poll(l) PROVE Inv'
<1>1. pc' \in Phases /\ UNCHANGED <<queue, sent, handled, mounts>>
    BY Zenon, PhaseTypes DEF poll
<1>2. CASE ~HasChannel(l) \/ links[l].channel.failed
  <2>1. TypeOK' /\ UNCHANGED <<links, procs>>
      BY Zenon, <1>1, <1>2 DEF Inv, TypeOK, poll
  <2> QED BY <2>1, OtherStep DEF Inv
<1>3. CASE ~(~HasChannel(l) \/ links[l].channel.failed)
  <2>1. PICK pid \in Pids, pr \in Process, ch \in Channel, link \in Link :
          link = links[l] /\ ch = link.channel /\ pid = link.pid /\ pr = procs[pid] /\ pr.st # "none" /\ Mounted(l)
      BY Zenon, <1>3, ChildOfLink
  <2>2. PICK np : np = [pr EXCEPT !.outbuf = <<>>]
      BY Zenon
  <2>3. procs' = [procs EXCEPT ![pid] = np]
    <3>1. procs' = [procs EXCEPT ![pid].outbuf = <<>>]
        BY Zenon, <1>3, <2>1 DEF poll
    <3> QED BY Zenon, <2>1, <2>2, <3>1 DEF Inv, TypeOK
  <2>4. np \in Process /\ np.st = pr.st /\ np.inbuf = pr.inbuf /\ np.outbuf = <<>>
    <3>1. <<>> \in Seq(Frame)
        OBVIOUS
    <3> QED BY Zenon, <2>2, <3>1 DEF Process
  <2>5. Table(procs') /\ \A p \in Pids : procs'[p].st = "none" <=> procs[p].st = "none"
    <3>1. Len(np.outbuf) <= SockBuf
        BY <2>4, ConstantsAssumption
    <3> QED BY Zenon, <2>1, <2>3, <2>4, <3>1 DEF Inv, TypeOK, Table
  <2>6. PICK c \in Channel, state \in State :
          links' = [links EXCEPT ![l] = [link EXCEPT !.channel = c, !.snapshot = state]]
          /\ emitted' \in [Msgs -> Nat]
    <3>1. CASE pr.st = "exited" /\ pr.reset
      <4>1. PICK c : c = [ch EXCEPT !.failed = TRUE]
          BY Zenon
      <4>2. c \in Channel
          BY Zenon, <4>1 DEF Channel
      <4>3. links' = [links EXCEPT ![l].channel.failed = TRUE] /\ emitted' = emitted
          BY Zenon, <1>3, <2>1, <3>1 DEF poll
      <4>4. [link EXCEPT !.channel.failed = TRUE] = [link EXCEPT !.channel = c, !.snapshot = link.snapshot]
          BY Zenon, <2>1, <4>1 DEF Link
      <4>5. links' = [links EXCEPT ![l] = [link EXCEPT !.channel = c, !.snapshot = link.snapshot]]
          BY ZenonT(30), <2>1, <4>3, <4>4 DEF Inv, TypeOK
      <4>6. link.snapshot \in State
          BY DEF Link
      <4> QED BY Zenon, <4>2, <4>3, <4>5, <4>6 DEF Inv, TypeOK
    <3>2. CASE ~(pr.st = "exited" /\ pr.reset)
      <4>1. PICK good :
              /\ links' = [links EXCEPT ![l].channel.eof = (pr.st = "exited"),
                                        ![l].snapshot = Refreshed(@, pr.outbuf, good)]
              /\ emitted' = [m \in Msgs |-> emitted[m] + EmitsOf(m, pr.outbuf, good)]
          BY <1>3, <2>1, <3>2 DEF poll
      <4>2. pr.outbuf \in Seq(Frame)
          BY Zenon DEF Process
      <4>3. PICK state \in State : state = Refreshed(link.snapshot, pr.outbuf, good)
          BY Zenon, <4>2, RefreshedType DEF Link
      <4>4. PICK c : c = [ch EXCEPT !.eof = (pr.st = "exited")]
          BY Zenon
      <4>5. c \in Channel
          BY Zenon, <4>4 DEF Channel
      <4>6. links' = [links EXCEPT ![l] = [link EXCEPT !.channel = c, !.snapshot = state]]
          BY Zenon, <2>1, <4>1, <4>3, <4>4 DEF Inv, TypeOK, Link
      <4>7. emitted' \in [Msgs -> Nat]
        <5>1. \A m \in Msgs : EmitsOf(m, pr.outbuf, good) \in Nat
            BY Zenon, <4>2, EmitsType
        <5>2. \A m \in Msgs : emitted[m] \in Nat
            BY Zenon DEF Inv, TypeOK
        <5> QED BY <4>1, <5>1, <5>2
      <4> QED BY Zenon, <4>5, <4>6, <4>7
    <3> QED BY ZenonT(30), <3>1, <3>2
  <2>7. PICK new : new = [link EXCEPT !.channel = c, !.snapshot = state]
      OBVIOUS
  <2>8. c # Nothing /\ link.channel # Nothing
      BY Zenon, <2>1, <2>6, NothingAssumption
  <2>9. /\ new \in Link /\ new.channel # Nothing /\ new.pid = link.pid /\ new.died = link.died /\ new.spawned = link.spawned
        /\ new.quarantined = link.quarantined /\ new.dead = link.dead /\ new.death_signaled = link.death_signaled
      BY Zenon, <2>6, <2>7, <2>8 DEF Link
  <2>10. links' = [links EXCEPT ![l] = new]
      BY Zenon, <2>6, <2>7
  <2>11. links' \in [Names -> Link \cup {Nothing}] /\ Attached' /\ Paired' /\ Deaths'
      BY Zenon, <2>1, <2>5, <2>8, <2>9, <2>10, LinkKept
  <2> QED BY Zenon, <1>1, <2>5, <2>6, <2>11 DEF Inv, TypeOK, Table
<1> QED BY Zenon, <1>2, <1>3

LEMMA ShipDeliverStep == ASSUME Inv, ship_deliver PROVE Inv'
<1>1. UNCHANGED <<procs, sent, handled, emitted, mounts, pc>> /\ queue # <<>> /\ queue' = Tail(queue)
    BY Zenon DEF ship_deliver
<1>2. queue' \in Seq(Delivery)
    BY <1>1 DEF Inv, TypeOK
<1>3. PICK d \in Delivery : d = Head(queue)
  <2>1. Head(queue) \in Delivery
      BY <1>1 DEF Inv, TypeOK
  <2> QED BY Zenon, <2>1
<1>4. PICK l \in Names : l = d.to /\ d.m \in Msgs
    BY Zenon DEF Delivery
<1>5. CASE ~(HasChannel(l) /\ d.mount = mounts[l] /\ links[l].alive)
  <2>1. links' = links
      BY Zenon, <1>3, <1>4, <1>5 DEF ship_deliver
  <2>2. TypeOK'
      BY Zenon, <1>1, <1>2, <2>1 DEF Inv, TypeOK
  <2> QED BY Zenon, <1>1, <2>1, <2>2, OtherStep DEF Inv
<1>6. CASE HasChannel(l) /\ d.mount = mounts[l] /\ links[l].alive
  <2>1. PICK link \in Link, ch \in Channel : link = links[l] /\ ch = link.channel /\ Mounted(l)
      BY Zenon, <1>6, ChildOfLink
  <2>2. PICK f : f = [op |-> "Deliver", v |-> {d.m}]
      BY Zenon
  <2>3. f \in Frame
      BY Zenon, <1>4, <2>2 DEF Frame, State
  <2>4. PICK c \in Channel : c = Channel_queue(ch, f)
      BY Zenon, <2>3, QueueType
  <2>5. PICK new : new = [link EXCEPT !.channel = c]
      BY Zenon
  <2>6. links' = [links EXCEPT ![l] = new]
    <3>1. links' = [links EXCEPT ![l].channel = Channel_queue(@, f)]
        BY Zenon, <1>3, <1>4, <1>6, <2>2 DEF ship_deliver
    <3> QED BY Zenon, <2>1, <2>4, <2>5, <3>1 DEF Inv, TypeOK
  <2>7. c # Nothing /\ ch # Nothing
      BY Zenon, NothingAssumption
  <2>8. /\ new \in Link /\ new.channel # Nothing /\ new.pid = link.pid /\ new.died = link.died /\ new.spawned = link.spawned
        /\ new.quarantined = link.quarantined /\ new.dead = link.dead /\ new.death_signaled = link.death_signaled
      BY Zenon, <2>5, <2>7 DEF Link
  <2>9. links' \in [Names -> Link \cup {Nothing}] /\ Attached' /\ Paired' /\ Deaths'
      BY Zenon, <1>1, <2>1, <2>6, <2>7, <2>8, LinkKept
  <2> QED BY Zenon, <1>1, <1>2, <2>9 DEF Inv, TypeOK
<1> QED BY Zenon, <1>5, <1>6

(* A child's own step leaves the links alone and the process in the table. *)
LEMMA ChildStep ==
    ASSUME Inv, NEW p \in Pids, procs[p].st = "running", NEW np \in Process, procs' = [procs EXCEPT ![p] = np],
           np.st # "none", Len(np.inbuf) <= SockBuf, Len(np.outbuf) <= SockBuf, handled' \in [Msgs -> Nat],
           UNCHANGED <<links, queue, sent, emitted, mounts, pc>>
    PROVE  Inv'
<1>1. Table(procs') /\ \A q \in Pids : procs'[q].st = "none" <=> procs[q].st = "none"
    BY Zenon DEF Inv, TypeOK, Table
<1>2. \A l \in Names : PidOf(l)' = PidOf(l) /\ PidOf(l) \in Pids \cup {0}
    BY Zenon, PidTypes DEF Inv, PidOf, Mounted
<1>3. Attached'
    BY Zenon, <1>1, <1>2, AttachedKept DEF Inv
<1>4. Paired' /\ Deaths'
    BY Zenon DEF Inv, Paired, Deaths, Mounted
<1>5. TypeOK'
    BY <1>1 DEF Inv, TypeOK, Table
<1> QED BY Zenon, <1>3, <1>4, <1>5 DEF Inv

LEMMA ChildReadStep == ASSUME Inv, NEW p \in Pids, child_read(p) PROVE Inv'
<1>1. procs[p].st = "running" /\ procs[p].inbuf # <<>> /\ UNCHANGED <<links, queue, sent, emitted, mounts, pc>>
    BY Zenon DEF child_read
<1>2. PICK pr \in Process : /\ pr = procs[p] /\ pr.st = "running" /\ pr.inbuf # <<>> /\ pr.inbuf \in Seq(Frame)
                            /\ Len(pr.inbuf) <= SockBuf /\ Len(pr.outbuf) <= SockBuf
    BY Zenon, <1>1 DEF Inv, TypeOK, Process
<1>3. PICK f \in Frame : f = Head(pr.inbuf)
    BY <1>2
<1>4. PICK rest \in Seq(Frame) : rest = Tail(pr.inbuf) /\ Len(rest) <= SockBuf
  <2>1. Tail(pr.inbuf) \in Seq(Frame) /\ Len(Tail(pr.inbuf)) <= SockBuf
      BY <1>2, ConstantsAssumption
  <2> QED BY ZenonT(30), <2>1
<1>5. PICK state \in State, todo \in Seq(Frame) :
        /\ procs' = [procs EXCEPT ![p].inbuf = Tail(@), ![p].state = state, ![p].todo = todo]
        /\ handled' \in [Msgs -> Nat]
  <2>1. CASE f.op = "Deliver"
    <3>1. PICK state \in State : state = pr.state \cup f.v
        BY Zenon DEF Process, Frame, State
    <3>2. PICK todo : todo = << [op |-> "Emit", v |-> f.v], [op |-> "Snapshot", v |-> state] >>
        BY Zenon
    <3>3. todo \in Seq(Frame)
      <4>1. [op |-> "Emit", v |-> f.v] \in Frame /\ [op |-> "Snapshot", v |-> state] \in Frame
          BY DEF Frame
      <4> QED BY <3>2, <4>1
    <3>4. /\ procs' = [procs EXCEPT ![p].inbuf = Tail(@), ![p].state = state, ![p].todo = todo]
          /\ handled' = [m \in Msgs |-> IF m \in f.v THEN handled[m] + 1 ELSE handled[m]]
        BY Zenon, <1>2, <1>3, <2>1, <3>1, <3>2 DEF child_read
    <3>5. handled' \in [Msgs -> Nat]
      <4>1. \A m \in Msgs : handled[m] \in Nat /\ handled[m] + 1 \in Nat
          BY DEF Inv, TypeOK
      <4> QED BY Zenon, <3>4, <4>1
    <3> QED BY Zenon, <3>3, <3>4, <3>5
  <2>2. CASE f.op # "Deliver"
    <3>1. PICK state \in State :
            /\ procs' = [procs EXCEPT ![p].inbuf = Tail(@), ![p].state = state,
                                      ![p].todo = << [op |-> "Snapshot", v |-> state] >>]
            /\ handled' = handled
        BY Zenon, <1>2, <1>3, <2>2 DEF child_read, Frame, Process
    <3>2. PICK todo : todo = << [op |-> "Snapshot", v |-> state] >>
        BY Zenon
    <3>3. todo \in Seq(Frame)
      <4>1. [op |-> "Snapshot", v |-> state] \in Frame
          BY DEF Frame
      <4> QED BY <3>2, <4>1
    <3> QED BY ZenonT(30), <3>1, <3>2, <3>3 DEF Inv, TypeOK
  <2> QED BY Zenon, <2>1, <2>2
<1>6. PICK np : np = [pr EXCEPT !.inbuf = rest, !.state = state, !.todo = todo]
    OBVIOUS
<1>7. procs' = [procs EXCEPT ![p] = np]
    BY Zenon, <1>2, <1>4, <1>5, <1>6 DEF Inv, TypeOK, Process
<1>8. np \in Process /\ np.st = pr.st /\ np.inbuf = rest /\ np.outbuf = pr.outbuf
    BY Zenon, <1>6 DEF Process
<1> QED BY Zenon, <1>1, <1>2, <1>4, <1>5, <1>7, <1>8, ChildStep

LEMMA ChildWriteStep == ASSUME Inv, NEW p \in Pids, child_write(p) PROVE Inv'
<1>1. UNCHANGED <<links, queue, sent, handled, emitted, mounts, pc>>
    BY Zenon DEF child_write
<1>2. PICK pr \in Process : /\ pr = procs[p] /\ pr.st = "running" /\ pr.todo # <<>> /\ pr.todo \in Seq(Frame)
                            /\ pr.outbuf \in Seq(Frame) /\ Len(pr.outbuf) < SockBuf /\ Len(pr.inbuf) <= SockBuf
    BY Zenon DEF Inv, TypeOK, Process, child_write
<1>3. PICK f \in Frame : f = Head(pr.todo)
    BY <1>2
<1>4. PICK rest \in Seq(Frame) : rest = Tail(pr.todo)
  <2>1. Tail(pr.todo) \in Seq(Frame)
      BY <1>2
  <2> QED BY Zenon, <2>1
<1>5. PICK out \in Seq(Frame) : out = Append(pr.outbuf, f) /\ Len(out) <= SockBuf
  <2>1. Append(pr.outbuf, f) \in Seq(Frame) /\ Len(Append(pr.outbuf, f)) <= SockBuf
      BY <1>2, ConstantsAssumption
  <2> QED BY Zenon, <2>1
<1>6. PICK np : np = [pr EXCEPT !.outbuf = out, !.todo = rest]
    OBVIOUS
<1>7. procs' = [procs EXCEPT ![p] = np]
  <2>1. procs' = [procs EXCEPT ![p].outbuf = Append(@, Head(procs[p].todo)), ![p].todo = Tail(@)]
      BY Zenon DEF child_write
  <2> QED BY Zenon, <1>2, <1>3, <1>4, <1>5, <1>6, <2>1 DEF Inv, TypeOK, Process
<1>8. np \in Process /\ np.st = pr.st /\ np.inbuf = pr.inbuf /\ np.outbuf = out
    BY Zenon, <1>6 DEF Process
<1>9. handled' \in [Msgs -> Nat]
    BY Zenon, <1>1 DEF Inv, TypeOK
<1> QED BY Zenon, <1>1, <1>2, <1>5, <1>7, <1>8, <1>9, ChildStep

LEMMA ChildExitStep == ASSUME Inv, NEW p \in Pids, child_exit(p) PROVE Inv'
<1>1. UNCHANGED <<links, queue, sent, handled, emitted, mounts, pc>>
    BY Zenon DEF child_exit
<1>2. PICK pr \in Process : pr = procs[p] /\ pr.st = "running" /\ Len(pr.outbuf) <= SockBuf
    BY Zenon DEF Inv, TypeOK, child_exit
<1>3. PICK np : np = Ended(pr)
    OBVIOUS
<1>4. np \in Process /\ np.st = "exited" /\ np.inbuf = <<>> /\ np.outbuf = pr.outbuf
  <2>1. <<>> \in Seq(Frame)
      OBVIOUS
  <2> QED BY Zenon, <1>3, <2>1 DEF Ended, Process
<1>5. procs' = [procs EXCEPT ![p] = np]
    BY Zenon, <1>2, <1>3 DEF child_exit
<1>6. Len(np.inbuf) <= SockBuf
    BY <1>4, ConstantsAssumption
<1>7. handled' \in [Msgs -> Nat]
    BY Zenon, <1>1 DEF Inv, TypeOK
<1> QED BY Zenon, <1>1, <1>2, <1>4, <1>5, <1>6, <1>7, ChildStep

LEMMA NextInv == ASSUME CountRule, Inv, [Next]_vars PROVE Inv'
<1>1. CASE HostStep
    BY Zenon, <1>1, StepStep, FlushStep, PollStep, SuperviseStep, ShipDeliverStep, PumpedStep DEF HostStep
<1>2. CASE HostProgram
    BY Zenon, <1>2, MountStep, UnmountStep, SwapStateStep, SendStep DEF HostProgram
<1>3. CASE Child
    BY Zenon, <1>3, ChildReadStep, ChildWriteStep, ChildExitStep DEF Child
<1>4. CASE UNCHANGED vars
  <2>1. TypeOK' /\ UNCHANGED <<links, procs>>
      BY Zenon, <1>4 DEF Inv, TypeOK, vars
  <2> QED BY Zenon, <2>1, OtherStep DEF Inv
<1> QED BY Zenon, <1>1, <1>2, <1>3, <1>4 DEF Next

-----------------------------------------------------------------------------
(* At most once. *)


(* A box is a function from places to sequences of frames.  A frame of kind op
   that carries m is at position i of place x. *)
At(box, x, i, op, m) ==
    /\ x \in DOMAIN box
    /\ i \in 1..Len(box[x])
    /\ box[x][i].op = op /\ m \in box[x][i].v
In(box, op, m) == \E x \in DOMAIN box, i \in Nat : At(box, x, i, op, m)
Single(box, op, m) ==
    \A x, y \in DOMAIN box, i, j \in Nat : At(box, x, i, op, m) /\ At(box, y, j, op, m) => x = y /\ i = j

(* No frame is made, none is doubled. *)
Traced(box, new, op, m) ==
    /\ Single(box, op, m) => Single(new, op, m)
    /\ In(new, op, m) => In(box, op, m)

(* Places are left alone or lose all frames of the kind. *)
LEMMA Emptied ==
    ASSUME NEW box, NEW new, NEW op, NEW m, DOMAIN new = DOMAIN box,
           \A x \in DOMAIN box : new[x] = box[x] \/ \A i \in 1..Len(new[x]) : new[x][i].op # op
    PROVE  Traced(box, new, op, m)
<1>1. \A x \in DOMAIN box, i \in Nat : At(new, x, i, op, m) => At(box, x, i, op, m)
    BY Zenon DEF At
<1> QED BY Zenon, <1>1 DEF Traced, In, Single

(* The first n frames of a sequence go, some of them to the end of another. *)
Passed(from, rest, to, more, n) ==
    /\ \A i \in 1..Len(rest) : n + i \in 1..Len(from) /\ rest[i] = from[n + i]
    /\ \A i \in 1..Len(more) :
          IF i <= Len(to) THEN more[i] = to[i]
          ELSE i - Len(to) \in 1..n /\ n <= Len(from) /\ more[i] = from[i - Len(to)]

(* They go from place a to place b. *)
Shifts(box, new, a, b, n) ==
    /\ DOMAIN new = DOMAIN box
    /\ \A x \in DOMAIN box : x # a /\ x # b => new[x] = box[x]
    /\ Passed(box[a], new[a], box[b], new[b], n)

(* Where the frame at position i of place x was: position k of place y. *)
Was(box, a, b, n, x, i, y, k) ==
    \/ x = a /\ y = a /\ k = n + i
    \/ x = b /\ y = b /\ k = i /\ i <= Len(box[b])
    \/ x = b /\ y = a /\ k = i - Len(box[b]) /\ k <= n
    \/ x # a /\ x # b /\ y = x /\ k = i

LEMMA Origin ==
    ASSUME NEW box, NEW new, NEW a \in DOMAIN box, NEW b \in DOMAIN box, a # b, NEW n \in Nat,
           Shifts(box, new, a, b, n), Len(box[a]) \in Nat, Len(box[b]) \in Nat,
           NEW op, NEW m, NEW x \in DOMAIN box, NEW i \in Nat, At(new, x, i, op, m)
    PROVE  \E y \in DOMAIN box, k \in Nat : At(box, y, k, op, m) /\ Was(box, a, b, n, x, i, y, k)
<1>1. i \in 1..Len(new[x]) /\ new[x][i].op = op /\ m \in new[x][i].v
    BY Zenon DEF At
<1>2. CASE x = a
  <2>1. n + i \in 1..Len(box[a]) /\ new[a][i] = box[a][n + i] /\ n + i \in Nat
      BY <1>1, <1>2 DEF Shifts, Passed
  <2> QED BY Zenon, <1>1, <1>2, <2>1 DEF At, Was
<1>3. CASE x = b /\ i <= Len(box[b])
  <2>1. i \in 1..Len(box[b]) /\ new[b][i] = box[b][i]
      BY <1>1, <1>3 DEF Shifts, Passed
  <2> QED BY Zenon, <1>1, <1>3, <2>1 DEF At, Was
<1>4. CASE x = b /\ ~(i <= Len(box[b]))
  <2>1. PICK k \in Nat : k = i - Len(box[b]) /\ k <= n /\ k \in 1..Len(box[a]) /\ new[b][i] = box[a][k]
      BY <1>1, <1>4 DEF Shifts, Passed
  <2> QED BY Zenon, <1>1, <1>4, <2>1 DEF At, Was
<1>5. CASE x # a /\ x # b
    BY Zenon, <1>1, <1>5 DEF At, Was, Shifts
<1> QED BY Zenon, <1>2, <1>3, <1>4, <1>5

LEMMA Moved ==
    ASSUME NEW box, NEW new, NEW a \in DOMAIN box, NEW b \in DOMAIN box, a # b, NEW n \in Nat,
           Shifts(box, new, a, b, n), Len(box[a]) \in Nat, Len(box[b]) \in Nat, NEW op, NEW m
    PROVE  Traced(box, new, op, m)
<1>1. DOMAIN new = DOMAIN box
    BY Zenon DEF Shifts
<1>2. In(new, op, m) => In(box, op, m)
    BY Zenon, <1>1, Origin DEF In
<1>3. ASSUME Single(box, op, m), NEW x \in DOMAIN box, NEW y \in DOMAIN box, NEW i \in Nat, NEW j \in Nat,
             At(new, x, i, op, m), At(new, y, j, op, m)
      PROVE  x = y /\ i = j
  <2>1. PICK u \in DOMAIN box, k \in Nat : At(box, u, k, op, m) /\ Was(box, a, b, n, x, i, u, k)
      BY Zenon, <1>3, Origin
  <2>2. PICK w \in DOMAIN box, h \in Nat : At(box, w, h, op, m) /\ Was(box, a, b, n, y, j, w, h)
      BY Zenon, <1>3, Origin
  <2>3. u = w /\ k = h
      BY Zenon, <1>3, <2>1, <2>2 DEF Single
  <2>4. i >= 1 /\ j >= 1
      BY <1>3 DEF At
  <2> QED BY <2>1, <2>2, <2>3, <2>4 DEF Was
<1> QED BY Zenon, <1>1, <1>2, <1>3 DEF Traced, Single

(* A frame taken from the front of a place, and from there alone, is gone. *)
LEMMA Taken ==
    ASSUME NEW box, NEW new, NEW a \in DOMAIN box, NEW b \in DOMAIN box, a # b, new[b] = box[b],
           Shifts(box, new, a, b, 1), Len(box[a]) \in Nat, Len(box[b]) \in Nat,
           NEW op, NEW m, At(box, a, 1, op, m), Single(box, op, m)
    PROVE  ~In(new, op, m)
<1> SUFFICES ASSUME NEW x \in DOMAIN box, NEW i \in Nat, At(new, x, i, op, m) PROVE FALSE
    BY Zenon DEF In, Shifts
<1>1. PICK y \in DOMAIN box, k \in Nat : At(box, y, k, op, m) /\ Was(box, a, b, 1, x, i, y, k)
    BY Zenon, Origin
<1>2. y = a /\ k = 1
    BY Zenon, <1>1 DEF Single
<1>3. i \in 1..Len(new[x])
    BY Zenon DEF At
<1> QED BY <1>1, <1>2, <1>3 DEF Was

-----------------------------------------------------------------------------
(* A message is on its way in from the bus's queue through the link's outbox
   to the child's socket; its output is on its way out from the child, through
   its socket, to the host. *)
OutboxOf(link) == IF link # Nothing /\ link.channel # Nothing THEN link.channel.outbox ELSE <<>>
DeliverFrame(m) == [op |-> "Deliver", v |-> {m}]
Deliveries(q) == [i \in 1..Len(q) |-> DeliverFrame(q[i].m)]
Bus == <<"queue", 0>>
InPlaces == {Bus} \cup ({"outbox"} \X Names) \cup ({"inbuf"} \X Pids)
OutPlaces == {"todo", "outbuf"} \X Pids
Inward(q, ls, ps) ==
    [x \in InPlaces |->
        IF x[1] = "queue" THEN Deliveries(q)
        ELSE IF x[1] = "outbox" THEN OutboxOf(ls[x[2]]) ELSE ps[x[2]].inbuf]
Outward(ps) == [x \in OutPlaces |-> IF x[1] = "todo" THEN ps[x[2]].todo ELSE ps[x[2]].outbuf]

(* A message still on its way in is nowhere else and has not been handled; an
   output still on its way out is nowhere else and has not reached the bus. *)
Fate(m, in, out) ==
    /\ Single(in, "Deliver", m) /\ Single(out, "Emit", m)
    /\ In(in, "Deliver", m) => m \in sent /\ handled[m] = 0
    /\ In(out, "Emit", m) => handled[m] = 1 /\ emitted[m] = 0
    /\ handled[m] # 0 => m \in sent
    /\ handled[m] <= 1 /\ emitted[m] <= handled[m]
Fates == \A m \in Msgs : Fate(m, Inward(queue, links, procs), Outward(procs))

(* What is where. *)
IsInward(in, q, ls, ps) ==
    /\ DOMAIN in = InPlaces
    /\ in[Bus] = Deliveries(q)
    /\ \A l \in Names : in[<<"outbox", l>>] = OutboxOf(ls[l])
    /\ \A p \in Pids : in[<<"inbuf", p>>] = ps[p].inbuf
IsOutward(out, ps) ==
    /\ DOMAIN out = OutPlaces
    /\ \A p \in Pids : out[<<"todo", p>>] = ps[p].todo /\ out[<<"outbuf", p>>] = ps[p].outbuf

LEMMA PlacesCases ==
    /\ Bus \in InPlaces /\ \A l \in Names : <<"outbox", l>> \in InPlaces /\ <<"outbox", l>> # Bus
    /\ \A p \in Pids : <<"inbuf", p>> \in InPlaces /\ <<"inbuf", p>> # Bus
    /\ \A l \in Names, p \in Pids : <<"outbox", l>> # <<"inbuf", p>>
    /\ \A x \in InPlaces : x = Bus \/ (\E l \in Names : x = <<"outbox", l>>) \/ \E p \in Pids : x = <<"inbuf", p>>
    /\ \A p \in Pids : <<"todo", p>> \in OutPlaces /\ <<"outbuf", p>> \in OutPlaces
    /\ \A p, r \in Pids : <<"todo", p>> # <<"outbuf", r>>
    /\ \A x \in OutPlaces : \E p \in Pids : x = <<"todo", p>> \/ x = <<"outbuf", p>>
BY DEF InPlaces, OutPlaces, Bus

LEMMA DeliveriesAt ==
    ASSUME NEW q \in Seq(Delivery)
    PROVE  Len(Deliveries(q)) = Len(q) /\ \A i \in 1..Len(q) : Deliveries(q)[i] = DeliverFrame(q[i].m)
BY DEF Deliveries

LEMMA InwardAt == ASSUME NEW q, NEW ls, NEW ps PROVE IsInward(Inward(q, ls, ps), q, ls, ps)
BY Zenon DEF Inward, InPlaces, Bus, IsInward

LEMMA OutwardAt == ASSUME NEW ps PROVE IsOutward(Outward(ps), ps)
BY DEF Outward, OutPlaces, IsOutward

(* Nothing is handled or put on the bus. *)
LEMMA FatesTraced ==
    ASSUME Fates, sent' = sent, handled' = handled, emitted' = emitted,
           \A m \in Msgs : Traced(Inward(queue, links, procs), Inward(queue', links', procs'), "Deliver", m),
           \A m \in Msgs : Traced(Outward(procs), Outward(procs'), "Emit", m)
    PROVE  Fates'
BY Zenon DEF Fates, Fate, Traced

(* Frames of a kind are only lost. *)
Without(frames, op) == \A i \in 1..Len(frames) : frames[i].op # op

(* Nothing is on its way that was not on its way there before. *)
LEMMA FatesKept ==
    ASSUME Fates, UNCHANGED <<queue, sent, handled, emitted>>,
           \A l \in Names : OutboxOf(links'[l]) = OutboxOf(links[l]) \/ Without(OutboxOf(links'[l]), "Deliver"),
           \A p \in Pids : procs'[p].inbuf = procs[p].inbuf \/ Without(procs'[p].inbuf, "Deliver"),
           \A p \in Pids : procs'[p].todo = procs[p].todo \/ Without(procs'[p].todo, "Emit"),
           \A p \in Pids : procs'[p].outbuf = procs[p].outbuf \/ Without(procs'[p].outbuf, "Emit")
    PROVE  Fates'
<1>1. PICK in, new : /\ in = Inward(queue, links, procs) /\ new = Inward(queue', links', procs')
                     /\ IsInward(in, queue, links, procs) /\ IsInward(new, queue', links', procs')
    BY Zenon, InwardAt
<1>2. PICK out, nout : /\ out = Outward(procs) /\ nout = Outward(procs')
                       /\ IsOutward(out, procs) /\ IsOutward(nout, procs')
    BY Zenon, OutwardAt
<1>3. \A x \in InPlaces : new[x] = in[x] \/ Without(new[x], "Deliver")
  <2>1. new[Bus] = in[Bus]
      BY Zenon, <1>1 DEF IsInward
  <2>2. \A l \in Names : new[<<"outbox", l>>] = in[<<"outbox", l>>] \/ Without(new[<<"outbox", l>>], "Deliver")
      BY <1>1 DEF IsInward
  <2>3. \A p \in Pids : new[<<"inbuf", p>>] = in[<<"inbuf", p>>] \/ Without(new[<<"inbuf", p>>], "Deliver")
      BY Zenon, <1>1 DEF IsInward
  <2> QED BY Zenon, <2>1, <2>2, <2>3, PlacesCases
<1>4. \A x \in OutPlaces : nout[x] = out[x] \/ Without(nout[x], "Emit")
  <2>1. \A p \in Pids : nout[<<"todo", p>>] = out[<<"todo", p>>] \/ Without(nout[<<"todo", p>>], "Emit")
      BY Zenon, <1>2 DEF IsOutward
  <2>2. \A p \in Pids : nout[<<"outbuf", p>>] = out[<<"outbuf", p>>] \/ Without(nout[<<"outbuf", p>>], "Emit")
      BY Zenon, <1>2 DEF IsOutward
  <2>3. ASSUME NEW x \in OutPlaces PROVE nout[x] = out[x] \/ Without(nout[x], "Emit")
    <3>1. PICK p \in Pids : x = <<"todo", p>> \/ x = <<"outbuf", p>>
        BY Zenon, PlacesCases
    <3> QED BY Zenon, <2>1, <2>2, <3>1
  <2> QED BY Zenon, <2>3
<1>5. \A m \in Msgs : Traced(in, new, "Deliver", m)
    BY <1>1, <1>3, Emptied DEF Without, IsInward
<1>6. \A m \in Msgs : Traced(out, nout, "Emit", m)
    BY Zenon, <1>2, <1>4, Emptied DEF Without, IsOutward
<1> QED BY Zenon, <1>1, <1>2, <1>5, <1>6, FatesTraced

(* A process that has neither input nor output. *)
Silent(pr) == pr.inbuf = <<>> /\ pr.todo = <<>> /\ pr.outbuf = <<>>

LEMMA NothingWithout == ASSUME NEW op PROVE Without(<<>>, op)
BY DEF Without

LEMMA SilentProcesses == Silent(NoProcess) /\ Silent([NoProcess EXCEPT !.st = "running"])
BY Zenon DEF Silent, NoProcess

LEMMA ReapedSilent ==
    ASSUME NEW ps, Table(ps), NEW pid \in 0..MaxPids
    PROVE  \A p \in Pids : Reaped(ps, pid)[p] = ps[p] \/ Silent(Reaped(ps, pid)[p])
BY Zenon, ReapedTable, SilentProcesses

LEMMA RespawnedSilent ==
    ASSUME NEW ps, Table(ps), NEW pid \in Pids, NEW outcome \in SpawnOutcomes
    PROVE  \A p \in Pids : Respawned(ps, pid, outcome)[p] = ps[p] \/ Silent(Respawned(ps, pid, outcome)[p])
<1>1. PICK child : child = [NoProcess EXCEPT !.st = "running"] /\ Silent(child) /\ child \in Process
    BY Zenon, SilentProcesses, ChildType
<1>2. PICK fork : fork = [ps EXCEPT ![pid] = child]
    BY Zenon
<1>3. pid # 0
    BY DEF Pids
<1>4. \A p \in Pids : fork[p] = ps[p] \/ Silent(fork[p])
    BY Zenon, <1>1, <1>2 DEF Table
<1>5. CASE outcome = "hello"
    BY Zenon, <1>1, <1>2, <1>4, <1>5 DEF Respawned, Forked
<1>6. CASE outcome = "no_hello"
  <2>1. Respawned(ps, pid, outcome) = [fork EXCEPT ![pid] = NoProcess]
      BY Zenon, <1>1, <1>2, <1>3, <1>6 DEF Respawned, Forked, Reaped
  <2> QED BY Zenon, <1>2, <1>4, <2>1, SilentProcesses DEF Table
<1>7. CASE outcome = "no_child"
    BY Zenon, <1>7 DEF Respawned, Forked, Reaped
<1> QED BY Zenon, <1>5, <1>6, <1>7 DEF SpawnOutcomes

(* A respawned child's outbox holds no message. *)
LEMMA RespawnedOutbox ==
    ASSUME NEW link \in Link, NEW pid \in Pids, NEW outcome \in SpawnOutcomes, NEW state \in State
    PROVE  Without(OutboxOf(respawn_and_revive(link, pid, outcome, state)), "Deliver")
<1>1. PICK fr : fr = [op |-> "Revive", v |-> state]
    BY Zenon
<1>2. CASE outcome = "hello"
  <2>1. PICK ch : ch = Channel_queue(OpenChannel, fr)
      BY Zenon
  <2>2. ch.outbox = Append(<<>>, fr)
      BY Zenon, <2>1 DEF Channel_queue, OpenChannel
  <2>3. respawn_and_revive(link, pid, outcome, state).channel = ch
      BY Zenon, <1>1, <1>2, <2>1 DEF respawn_and_revive, Spawned, Link
  <2>4. Without(ch.outbox, "Deliver")
    <3>1. Append(<<>>, fr) = <<fr>>
        OBVIOUS
    <3>2. Without(<<fr>>, "Deliver")
        BY <1>1 DEF Without
    <3> QED BY Zenon, <2>2, <3>1, <3>2
  <2> QED BY Zenon, <2>3, <2>4, NothingWithout DEF OutboxOf
<1>3. CASE outcome \in {"no_hello", "no_child"}
  <2>1. respawn_and_revive(link, pid, outcome, state).channel = Nothing
      BY Zenon, <1>3 DEF respawn_and_revive, Spawned, TornDown, Link
  <2> QED BY Zenon, <2>1, NothingWithout DEF OutboxOf
<1> QED BY Zenon, <1>2, <1>3 DEF SpawnOutcomes

(* A link is replaced by one with no message in its outbox, or with the
   messages it had; processes start silent or are reaped. *)
LEMMA FatesReplaced ==
    ASSUME Inv, Fates, NEW l \in Names, NEW link \in Link \cup {Nothing}, links' = [links EXCEPT ![l] = link],
           OutboxOf(link) = OutboxOf(links[l]) \/ Without(OutboxOf(link), "Deliver"),
           \A p \in Pids : procs'[p] = procs[p] \/ Silent(procs'[p]),
           UNCHANGED <<queue, sent, handled, emitted>>
    PROVE  Fates'
<1>1. \A k \in Names : links'[k] = IF k = l THEN link ELSE links[k]
    BY Zenon DEF Inv, TypeOK
<1>2. \A k \in Names : OutboxOf(links'[k]) = OutboxOf(links[k]) \/ Without(OutboxOf(links'[k]), "Deliver")
    BY Zenon, <1>1
<1>3. \A p \in Pids : /\ procs'[p].inbuf = procs[p].inbuf \/ Without(procs'[p].inbuf, "Deliver")
                      /\ procs'[p].todo = procs[p].todo \/ Without(procs'[p].todo, "Emit")
                      /\ procs'[p].outbuf = procs[p].outbuf \/ Without(procs'[p].outbuf, "Emit")
    BY Zenon, NothingWithout DEF Silent
<1> QED BY Zenon, <1>2, <1>3, FatesKept

-----------------------------------------------------------------------------
(* One lemma per action. *)

LEMMA FatesUnmoved ==
    ASSUME Fates, UNCHANGED <<links, procs, queue, sent, handled, emitted>>
    PROVE  Fates'
BY Zenon, FatesKept

LEMMA MountFates == ASSUME Inv, Fates, NEW l \in Names, mount(l) PROVE Fates'
<1>1. UNCHANGED <<queue, sent, handled, emitted>> /\ Table(procs)
    BY Zenon DEF mount, Inv, TypeOK, Table
<1>2. PICK pid \in Pids, outcome \in SpawnOutcomes, registered \in BOOLEAN :
        IF outcome = "hello" /\ registered
        THEN links' = [links EXCEPT ![l] = Spawned(NewLink, pid, outcome)] /\ procs' = Forked(procs, pid, outcome)
        ELSE links' = links /\ procs' = Reaped(Forked(procs, pid, outcome), Spawned(NewLink, pid, outcome).pid)
    BY Zenon DEF mount
<1>3. pid \in 0..MaxPids /\ pid # 0 /\ 0 \in 0..MaxPids
    BY ConstantsAssumption DEF Pids
<1>4. PICK child : child = [NoProcess EXCEPT !.st = "running"] /\ Silent(child) /\ child \in Process
    BY Zenon, SilentProcesses, ChildType
<1>5. PICK fork : fork = [procs EXCEPT ![pid] = child]
    BY Zenon
<1>6. CASE outcome = "hello" /\ registered
  <2>1. links' = [links EXCEPT ![l] = Spawned(NewLink, pid, outcome)] /\ procs' = fork
      BY Zenon, <1>2, <1>4, <1>5, <1>6 DEF Forked
  <2>2. PICK link : link = Spawned(NewLink, pid, outcome)
      BY Zenon
  <2>3. link.channel = OpenChannel
      BY Zenon, <1>6, <2>2 DEF Spawned, NewLink
  <2>4. Without(OutboxOf(link), "Deliver")
    <3>1. OutboxOf(link) \in {<<>>, OpenChannel.outbox} /\ OpenChannel.outbox = <<>>
        BY Zenon, <2>3 DEF OutboxOf, OpenChannel
    <3> QED BY Zenon, <3>1, NothingWithout
  <2>5. \A k \in Names : links'[k] = IF k = l THEN link ELSE links[k]
      BY Zenon, <2>1, <2>2 DEF Inv, TypeOK
  <2>6. \A p \in Pids : procs'[p] = procs[p] \/ Silent(procs'[p])
      BY Zenon, <1>1, <1>4, <1>5, <2>1 DEF Table
  <2>7. \A k \in Names : OutboxOf(links'[k]) = OutboxOf(links[k]) \/ Without(OutboxOf(links'[k]), "Deliver")
      BY Zenon, <2>4, <2>5
  <2> QED BY Zenon, <1>1, <2>6, <2>7, NothingWithout, FatesKept DEF Silent
<1>7. CASE ~(outcome = "hello" /\ registered)
  <2>1. PICK ps \in {procs, fork}, q \in 0..MaxPids : procs' = Reaped(ps, q)
    <3>1. CASE outcome = "no_child"
      <4>1. Spawned(NewLink, pid, outcome).pid = 0 /\ Forked(procs, pid, outcome) = procs
          BY Zenon, <3>1 DEF Spawned, NewLink, Forked
      <4>2. procs' = Reaped(procs, 0)
          BY Zenon, <1>2, <1>7, <4>1
      <4> QED BY Zenon, <1>3, <4>2
    <3>2. CASE outcome # "no_child"
      <4>1. Spawned(NewLink, pid, outcome).pid = pid /\ Forked(procs, pid, outcome) = fork
          BY Zenon, <1>4, <1>5, <3>2 DEF Spawned, NewLink, Forked
      <4>2. procs' = Reaped(fork, pid)
          BY Zenon, <1>2, <1>7, <4>1
      <4> QED BY Zenon, <1>3, <4>2
    <3> QED BY Zenon, <3>1, <3>2
  <2>2. \A p \in Pids : ps[p] = procs[p] \/ Silent(ps[p])
      BY Zenon, <1>1, <1>4, <1>5, <2>1 DEF Table
  <2>3. ps \in [Pids -> Process]
      BY Zenon, <1>1, <1>4, <1>5, <2>1 DEF Table
  <2>4. \A p \in Pids : Reaped(ps, q)[p] = ps[p] \/ Reaped(ps, q)[p] = NoProcess
      BY Zenon, <2>3 DEF Reaped
  <2>5. \A p \in Pids : procs'[p] = procs[p] \/ Silent(procs'[p])
      BY Zenon, <2>1, <2>2, <2>4, SilentProcesses
  <2>6. links' = links
      BY Zenon, <1>2, <1>7
  <2> QED BY Zenon, <1>1, <2>5, <2>6, NothingWithout, FatesKept DEF Silent
<1> QED BY Zenon, <1>6, <1>7

LEMMA UnmountFates == ASSUME Inv, Fates, NEW l \in Names, unmount(l) PROVE Fates'
<1>1. /\ Mounted(l) /\ UNCHANGED <<queue, sent, handled, emitted>> /\ Table(procs)
      /\ links' = [links EXCEPT ![l] = Nothing] /\ procs' = Reaped(procs, links[l].pid)
    BY Zenon DEF unmount, Inv, TypeOK, Table
<1>2. links[l].pid \in 0..MaxPids
    BY Zenon, <1>1 DEF Inv, TypeOK, Mounted, Link
<1>3. \A p \in Pids : procs'[p] = procs[p] \/ Silent(procs'[p])
    BY Zenon, <1>1, <1>2, ReapedSilent
<1>4. Without(OutboxOf(Nothing), "Deliver")
    BY Zenon, NothingWithout DEF OutboxOf
<1> QED BY Zenon, <1>1, <1>3, <1>4, FatesReplaced

(* The child of a link is torn down and another one started. *)
LEMMA RespawnSilent ==
    ASSUME Inv, NEW pid \in Pids, NEW old \in 0..MaxPids, NEW outcome \in SpawnOutcomes,
           procs' = Respawned(Reaped(procs, old), pid, outcome)
    PROVE  \A p \in Pids : procs'[p] = procs[p] \/ Silent(procs'[p])
<1>1. Table(procs)
    BY Zenon DEF Inv, TypeOK, Table
<1>2. PICK ps : ps = Reaped(procs, old) /\ Table(ps) /\ \A p \in Pids : ps[p] = procs[p] \/ Silent(ps[p])
  <2>1. Table(Reaped(procs, old))
      BY Zenon, <1>1, ReapedTable
  <2>2. \A p \in Pids : Reaped(procs, old)[p] = procs[p] \/ Silent(Reaped(procs, old)[p])
      BY Zenon, <1>1, ReapedSilent
  <2> QED BY Zenon, <2>1, <2>2
<1>3. \A p \in Pids : procs'[p] = ps[p] \/ Silent(procs'[p])
    BY Zenon, <1>2, RespawnedSilent
<1> QED BY Zenon, <1>2, <1>3

LEMMA SwapStateFates == ASSUME Inv, Fates, NEW l \in Names, swap_state(l) PROVE Fates'
<1>1. Mounted(l) /\ UNCHANGED <<queue, sent, handled, emitted>>
    BY Zenon DEF swap_state
<1>2. PICK pid \in Pids, outcome \in RespawnOutcomes, state \in State :
        /\ links' = [links EXCEPT ![l] = [respawn_and_revive(TornDown(links[l]), pid, outcome, state) EXCEPT !.alive = TRUE]]
        /\ procs' = Respawned(Reaped(procs, links[l].pid), pid, outcome)
    BY Zenon DEF swap_state
<1>3. links[l] \in Link /\ outcome \in SpawnOutcomes /\ links[l].pid \in 0..MaxPids
    BY Zenon, <1>1, RespawnKinds DEF Inv, TypeOK, Mounted, Link
<1>4. PICK torn \in Link : torn = TornDown(links[l]) /\ torn.channel = Nothing /\ torn.pid = 0
    BY Zenon, <1>3, TornType
<1>5. PICK new : new = respawn_and_revive(torn, pid, outcome, state)
    OBVIOUS
<1>6. new \in Link /\ Without(OutboxOf(new), "Deliver")
    BY Zenon, <1>3, <1>4, <1>5, RespawnedLink, RespawnedOutbox DEF Revived
<1>7. PICK link : link = [new EXCEPT !.alive = TRUE]
    BY Zenon
<1>8. link \in Link /\ link.channel = new.channel
    BY Zenon, <1>6, <1>7 DEF Link
<1>9. Without(OutboxOf(link), "Deliver")
    BY Zenon, <1>6, <1>8, NothingAssumption DEF OutboxOf
<1>10. \A p \in Pids : procs'[p] = procs[p] \/ Silent(procs'[p])
    BY Zenon, <1>2, <1>3, RespawnSilent
<1>11. links' = [links EXCEPT ![l] = link]
    BY Zenon, <1>2, <1>4, <1>5, <1>7
<1> QED BY Zenon, <1>1, <1>8, <1>9, <1>10, <1>11, FatesReplaced

LEMMA SuperviseFates == ASSUME Inv, Fates, NEW l \in Names, supervise(l) PROVE Fates'
<1>1. UNCHANGED <<queue, sent, handled, emitted>>
    BY Zenon DEF supervise
<1>2. CASE UNCHANGED <<links, procs>>
    BY Zenon, <1>1, <1>2, FatesUnmoved
<1>3. CASE ~UNCHANGED <<links, procs>>
  <2>1. PICK link : link = Signalled(links[l])
      OBVIOUS
  <2>2. ~Skipped(l) /\ recover(l, link)
      BY Zenon, <1>3, <2>1 DEF supervise
  <2>3. links[l] \in Link
      BY Zenon, <2>2 DEF Skipped, Inv, TypeOK, Mounted
  <2>4. link \in Link /\ link.pid \in 0..MaxPids
      BY Zenon, <2>1, <2>3, SignalledLink DEF Link
  <2>5. PICK torn \in Link : /\ torn = TornDown(link) /\ torn.channel = Nothing /\ torn.pid = 0
                            /\ torn.snapshot \in State /\ torn.reloads_used \in Nat
    <3>1. TornDown(link).snapshot \in State /\ TornDown(link).reloads_used \in Nat
        BY Zenon, <2>4, TornType DEF Link
    <3> QED BY Zenon, <2>4, <3>1, TornType
  <2>6. CASE link.reloads_used >= MaxReloads
    <3>1. PICK new : new = Quarantined(torn)
        OBVIOUS
    <3>2. new \in Link /\ new.channel = Nothing
        BY Zenon, <2>5, <3>1 DEF Quarantined, Link
    <3>3. links' = [links EXCEPT ![l] = new] /\ procs' = Reaped(procs, link.pid)
        BY Zenon, <2>2, <2>5, <2>6, <3>1 DEF recover
    <3>4. Table(procs)
        BY Zenon DEF Inv, TypeOK, Table
    <3>5. \A p \in Pids : procs'[p] = procs[p] \/ Silent(procs'[p])
        BY Zenon, <2>4, <3>3, <3>4, ReapedSilent
    <3>6. Without(OutboxOf(new), "Deliver")
        BY Zenon, <3>2, NothingWithout DEF OutboxOf
    <3> QED BY Zenon, <1>1, <3>2, <3>3, <3>5, <3>6, FatesReplaced
  <2>7. CASE ~(link.reloads_used >= MaxReloads)
    <3>1. PICK pid \in Pids, outcome \in RespawnOutcomes :
            /\ links' = [links EXCEPT ![l] = Reloaded(torn, pid, outcome)]
            /\ procs' = Respawned(Reaped(procs, link.pid), pid, outcome)
        BY Zenon, <2>2, <2>5, <2>7 DEF recover
    <3>2. outcome \in SpawnOutcomes
        BY Zenon, RespawnKinds
    <3>3. PICK back : back = respawn_and_revive(torn, pid, outcome, torn.snapshot)
        OBVIOUS
    <3>4. back \in Link /\ back.reloads_used \in Nat /\ Without(OutboxOf(back), "Deliver")
        BY <2>5, <3>2, <3>3, RespawnedLink, RespawnedOutbox DEF Revived
    <3>5. PICK new : new = Reloaded(torn, pid, outcome)
        OBVIOUS
    <3>6. new \in Link /\ new.channel = back.channel
      <4>1. PICK mid : mid = [back EXCEPT !.alive = TRUE, !.reloads_used = @ + 1]
          BY Zenon
      <4>2. back.reloads_used + 1 \in Nat
          BY <3>4
      <4>3. mid \in Link /\ mid.channel = back.channel
          BY Zenon, <3>4, <4>1, <4>2 DEF Link
      <4>4. \/ new = [mid EXCEPT !.dead = FALSE, !.death_signaled = FALSE]
            \/ new = [mid EXCEPT !.dead = TRUE, !.quarantined = TRUE]
          BY Zenon, <3>3, <3>5, <4>1 DEF Reloaded
      <4> QED BY Zenon, <4>3, <4>4 DEF Link
    <3>7. Without(OutboxOf(new), "Deliver")
        BY Zenon, <3>4, <3>6, NothingAssumption DEF OutboxOf
    <3>8. \A p \in Pids : procs'[p] = procs[p] \/ Silent(procs'[p])
        BY Zenon, <2>4, <3>1, <3>2, RespawnSilent
    <3>9. links' = [links EXCEPT ![l] = new]
        BY Zenon, <3>1, <3>5
    <3> QED BY Zenon, <1>1, <3>6, <3>7, <3>8, <3>9, FatesReplaced
  <2> QED BY Zenon, <2>6, <2>7
<1> QED BY Zenon, <1>2, <1>3

LEMMA ChildExitFates == ASSUME Inv, Fates, NEW p \in Pids, child_exit(p) PROVE Fates'
<1>1. PICK np : np = Ended(procs[p])
    BY Zenon
<1>2. procs' = [procs EXCEPT ![p] = np] /\ UNCHANGED <<links, queue, sent, handled, emitted>> /\ procs[p] \in Process
    BY Zenon, <1>1 DEF child_exit, Inv, TypeOK
<1>3. np.inbuf = <<>> /\ np.todo = <<>> /\ np.outbuf = procs[p].outbuf
    BY Zenon, <1>1, <1>2 DEF Ended, Process
<1>4. \A q \in Pids : procs'[q] = IF q = p THEN np ELSE procs[q]
    BY Zenon, <1>2 DEF Inv, TypeOK
<1>5. \A q \in Pids : /\ procs'[q].inbuf = procs[q].inbuf \/ Without(procs'[q].inbuf, "Deliver")
                      /\ procs'[q].todo = procs[q].todo \/ Without(procs'[q].todo, "Emit")
                      /\ procs'[q].outbuf = procs[q].outbuf \/ Without(procs'[q].outbuf, "Emit")
    BY Zenon, <1>3, <1>4, NothingWithout
<1> QED BY Zenon, <1>2, <1>5, FatesKept

(* A message sent for the first time is nowhere yet. *)
LEMMA SendFates == ASSUME Inv, Fates, NEW l \in Names, NEW m \in Msgs, send(l, m) PROVE Fates'
<1>1. /\ m \notin sent /\ sent' = sent \cup {m} /\ UNCHANGED <<links, procs, handled, emitted>>
      /\ queue' = Append(queue, [to |-> l, mount |-> mounts[l], m |-> m])
    BY Zenon DEF send
<1>2. PICK in, new : /\ in = Inward(queue, links, procs) /\ new = Inward(queue', links', procs')
                     /\ IsInward(in, queue, links, procs) /\ IsInward(new, queue', links', procs')
    BY Zenon, InwardAt
<1>3. PICK n \in Nat : n = Len(queue)
    BY DEF Inv, TypeOK
<1>4. \A i \in 1..Len(new[Bus]) : IF i = n + 1 THEN new[Bus][i] = DeliverFrame(m)
                                  ELSE i \in 1..Len(in[Bus]) /\ new[Bus][i] = in[Bus][i]
  <2>1. PICK q \in Seq(Delivery), nq \in Seq(Delivery) :
          q = queue /\ nq = Append(q, [to |-> l, mount |-> mounts[l], m |-> m]) /\ nq = queue'
    <3>1. [to |-> l, mount |-> mounts[l], m |-> m] \in Delivery
        BY Zenon DEF Inv, TypeOK, Delivery
    <3>2. Append(queue, [to |-> l, mount |-> mounts[l], m |-> m]) \in Seq(Delivery)
        BY <3>1 DEF Inv, TypeOK
    <3> QED BY Zenon, <1>1, <3>2 DEF Inv, TypeOK
  <2>2. Len(nq) = n + 1 /\ nq[n + 1].m = m /\ \A i \in 1..n : nq[i] = q[i]
      BY <1>3, <2>1
  <2>3. new[Bus] = Deliveries(nq) /\ in[Bus] = Deliveries(q)
      BY Zenon, <1>2, <2>1 DEF IsInward
  <2>4. /\ Len(Deliveries(nq)) = n + 1 /\ \A i \in 1..n + 1 : Deliveries(nq)[i] = DeliverFrame(nq[i].m)
        /\ Len(Deliveries(q)) = n /\ \A i \in 1..n : Deliveries(q)[i] = DeliverFrame(q[i].m)
      BY Zenon, <1>3, <2>1, <2>2, DeliveriesAt
  <2>5. Deliveries(nq)[n + 1] = DeliverFrame(m)
      BY <2>2, <2>4
  <2>6. \A i \in 1..n : Deliveries(nq)[i] = Deliveries(q)[i]
      BY <2>2, <2>4
  <2> QED BY <2>3, <2>4, <2>5, <2>6
<1>5. \A x \in InPlaces : x # Bus => new[x] = in[x]
  <2>1. \A k \in Names : new[<<"outbox", k>>] = in[<<"outbox", k>>]
      BY <1>1, <1>2 DEF IsInward
  <2>2. \A p \in Pids : new[<<"inbuf", p>>] = in[<<"inbuf", p>>]
      BY Zenon, <1>1, <1>2 DEF IsInward
  <2> QED BY <2>1, <2>2, PlacesCases
<1>6. ASSUME NEW o \in Msgs, NEW x \in InPlaces, NEW i \in Nat, At(new, x, i, "Deliver", o)
      PROVE  At(in, x, i, "Deliver", o) \/ (o = m /\ x = Bus /\ i = n + 1)
  <2>1. CASE x = Bus /\ i = n + 1
    <3>1. i \in 1..Len(new[Bus]) /\ o \in new[Bus][i].v
        BY Zenon, <1>6, <2>1 DEF At
    <3>2. new[Bus][i] = DeliverFrame(m)
        BY <1>4, <2>1, <3>1
    <3> QED BY <2>1, <3>1, <3>2 DEF DeliverFrame
  <2>2. CASE ~(x = Bus /\ i = n + 1)
      BY Zenon, <1>2, <1>4, <1>5, <1>6, <2>2 DEF At, IsInward
  <2> QED BY Zenon, <2>1, <2>2
<1>7. ~In(in, "Deliver", m) /\ handled[m] = 0 /\ handled[m] \in Nat
    BY Zenon, <1>1, <1>2 DEF Fates, Fate, Inv, TypeOK
<1>8. DOMAIN in = InPlaces /\ DOMAIN new = InPlaces
    BY Zenon, <1>2 DEF IsInward
<1>9. Single(new, "Deliver", m)
    BY <1>6, <1>7, <1>8 DEF Single, In
<1>10. \A o \in Msgs : o # m => Traced(in, new, "Deliver", o)
    BY <1>6, <1>8 DEF Traced, Single, In
<1>11. Fate(m, in, Outward(procs)) /\ \A o \in Msgs : Fate(o, in, Outward(procs))
    BY Zenon, <1>2 DEF Fates
<1>12. \A o \in Msgs : /\ Single(new, "Deliver", o)
                       /\ In(new, "Deliver", o) => o \in sent' /\ handled[o] = 0
    BY Zenon, <1>1, <1>7, <1>9, <1>10, <1>11 DEF Fate, Traced
<1> QED BY Zenon, <1>1, <1>2, <1>11, <1>12 DEF Fates, Fate

(* Frames only move on along the way in. *)
LEMMA InwardMoved ==
    ASSUME Fates, UNCHANGED <<sent, handled, emitted>>, Outward(procs') = Outward(procs),
           NEW a \in InPlaces, NEW b \in InPlaces, a # b, NEW n \in Nat, NEW in, NEW new,
           in = Inward(queue, links, procs), new = Inward(queue', links', procs'), Shifts(in, new, a, b, n),
           Len(in[a]) \in Nat, Len(in[b]) \in Nat
    PROVE  Fates'
<1>1. DOMAIN in = InPlaces
    BY Zenon, InwardAt DEF IsInward
<1>2. \A m \in Msgs : Traced(in, new, "Deliver", m)
    BY Zenon, <1>1, Moved
<1>3. \A m \in Msgs : Traced(Outward(procs), Outward(procs'), "Emit", m)
    BY Zenon DEF Traced
<1> QED BY Zenon, <1>2, <1>3, FatesTraced

(* What goes out is the same when every process has the same to write and has
   written the same. *)
LEMMA OutwardSame ==
    ASSUME \A p \in Pids : procs'[p].todo = procs[p].todo /\ procs'[p].outbuf = procs[p].outbuf
    PROVE  Outward(procs') = Outward(procs)
<1>1. \A x \in OutPlaces : x[2] \in Pids
    BY Zenon DEF OutPlaces
<1> QED BY Zenon, <1>1 DEF Outward

(* flush moves frames from the front of the outbox to the end of the socket. *)
LEMMA FlushedFrames ==
    ASSUME NEW outbox \in Seq(Frame), NEW inbuf \in Seq(Frame), Len(inbuf) <= SockBuf
    PROVE  \E n \in Nat : Passed(outbox, Unsent(outbox, Accepted(outbox, inbuf)), inbuf, inbuf \o Accepted(outbox, inbuf), n)
<1>1. PICK n \in 0..Len(outbox) : n = (IF SockBuf - Len(inbuf) < Len(outbox) THEN SockBuf - Len(inbuf) ELSE Len(outbox))
    BY ConstantsAssumption
<1>2. PICK taken : taken = SubSeq(outbox, 1, n) /\ taken = Accepted(outbox, inbuf)
    BY Zenon, <1>1 DEF Accepted
<1>3. taken \in Seq(Frame) /\ Len(taken) = n /\ \A i \in 1..n : taken[i] = outbox[i]
    BY <1>1, <1>2
<1>4. PICK rest : rest = SubSeq(outbox, n + 1, Len(outbox)) /\ rest = Unsent(outbox, taken)
    BY Zenon, <1>3 DEF Unsent
<1>5. Len(rest) = Len(outbox) - n /\ \A i \in 1..(Len(outbox) - n) : rest[i] = outbox[n + i]
  <2>1. PICK k \in Nat : k = Len(outbox) /\ n <= k /\ n \in Nat
      BY <1>1
  <2>2. Len(SubSeq(outbox, n + 1, k)) = k - n
      BY <2>1
  <2>3. \A i \in 1..(k - n) : SubSeq(outbox, n + 1, k)[i] = outbox[n + i]
      BY <2>1
  <2> QED BY Zenon, <1>4, <2>1, <2>2, <2>3
<1>6. /\ Len(inbuf \o taken) = Len(inbuf) + n
      /\ \A i \in 1..Len(inbuf) : (inbuf \o taken)[i] = inbuf[i]
      /\ \A i \in 1..n : (inbuf \o taken)[Len(inbuf) + i] = outbox[i]
  <2>1. PICK k \in Nat : k = Len(inbuf)
      OBVIOUS
  <2>2. Len(inbuf \o taken) = k + n /\ \A i \in 1..k : (inbuf \o taken)[i] = inbuf[i]
      BY <1>3, <2>1
  <2>3. \A i \in 1..n : (inbuf \o taken)[k + i] = taken[i]
      BY <1>3, <2>1
  <2> QED BY Zenon, <1>3, <2>1, <2>2, <2>3
<1>7. n \in Nat /\ Len(outbox) \in Nat /\ Len(inbuf) \in Nat
    BY <1>1
<1>8. Passed(outbox, rest, inbuf, inbuf \o taken, n)
  <2>0. PICK more : more = inbuf \o taken
      BY Zenon
  <2>1. PICK k \in Nat, o \in Nat : more = inbuf \o taken /\ k = Len(inbuf) /\ o = Len(outbox) /\ n <= o
      BY <1>1, <1>7, <2>0
  <2>2. \A i \in 1..Len(rest) : n + i \in 1..o /\ rest[i] = outbox[n + i]
      BY <1>5, <1>7, <2>1
  <2>3. ASSUME NEW i \in 1..Len(more), ~(i <= k) PROVE i - k \in 1..n /\ more[i] = outbox[i - k]
    <3>1. PICK j \in 1..n : j = i - k /\ i = k + j
      <4>1. i \in 1..(k + n)
          BY Zenon, <1>6, <2>1
      <4>2. i - k \in 1..n
          BY <1>7, <2>3, <4>1
      <4> QED BY <2>3, <4>1, <4>2
    <3> QED BY Zenon, <1>6, <2>1, <3>1
  <2>4. \A i \in 1..Len(more) : i <= k => more[i] = inbuf[i]
      BY <1>6, <1>7, <2>1
  <2> QED BY Zenon, <2>1, <2>2, <2>3, <2>4 DEF Passed
<1> QED BY Zenon, <1>2, <1>4, <1>7, <1>8

LEMMA FlushFates == ASSUME Inv, Fates, NEW l \in Names, flush(l) PROVE Fates'
<1>1. UNCHANGED <<queue, sent, handled, emitted>>
    BY Zenon DEF flush
<1>2. CASE ~HasChannel(l) \/ links[l].channel.failed \/ links[l].channel.outbox = <<>>
    BY Zenon, <1>1, <1>2, FatesUnmoved DEF flush
<1>3. CASE ~(~HasChannel(l) \/ links[l].channel.failed \/ links[l].channel.outbox = <<>>)
  <2>1. PICK pid \in Pids, pr \in Process, ch \in Channel, link \in Link :
          link = links[l] /\ ch = link.channel /\ pid = link.pid /\ pr = procs[pid] /\ pr.st # "none" /\ Mounted(l)
      BY Zenon, <1>3, ChildOfLink
  <2>2. link # Nothing /\ ch # Nothing
      BY Zenon, NothingAssumption
  <2>3. CASE pr.st = "exited"
    <3>1. PICK c : c = [ch EXCEPT !.failed = TRUE]
        BY Zenon
    <3>2. PICK new : new = [link EXCEPT !.channel = c]
        BY Zenon
    <3>3. links' = [links EXCEPT ![l] = new] /\ procs' = procs
        BY Zenon, <1>3, <2>1, <2>3, <3>1, <3>2 DEF flush, Inv, TypeOK, Link
    <3>4. c \in Channel /\ c # Nothing /\ c.outbox = ch.outbox
        BY Zenon, <3>1, NothingAssumption DEF Channel
    <3>5. new \in Link /\ new # Nothing /\ new.channel = c
        BY Zenon, <3>2, <3>4, NothingAssumption DEF Link
    <3>6. OutboxOf(new) = OutboxOf(links[l])
        BY Zenon, <2>1, <2>2, <3>4, <3>5 DEF OutboxOf
    <3> QED BY Zenon, <1>1, <3>3, <3>5, <3>6, FatesReplaced
  <2>4. CASE pr.st # "exited"
    <3>1. PICK taken : taken = Accepted(ch.outbox, pr.inbuf)
        OBVIOUS
    <3>2. ch.outbox \in Seq(Frame) /\ pr.inbuf \in Seq(Frame) /\ Len(pr.inbuf) <= SockBuf
        BY Zenon, <2>1 DEF Inv, TypeOK, Channel, Process
    <3>3. PICK c, np : c = [ch EXCEPT !.outbox = Unsent(ch.outbox, taken)] /\ np = [pr EXCEPT !.inbuf = pr.inbuf \o taken]
        BY Zenon
    <3>4. PICK new : new = [link EXCEPT !.channel = c]
        BY Zenon
    <3>5. links' = [links EXCEPT ![l] = new] /\ procs' = [procs EXCEPT ![pid] = np]
      <4>1. /\ links' = [links EXCEPT ![l].channel.outbox = Unsent(ch.outbox, taken)]
            /\ procs' = [procs EXCEPT ![pid].inbuf = @ \o taken]
          BY Zenon, <1>3, <2>1, <2>4, <3>1 DEF flush
      <4> QED BY Zenon, <2>1, <3>3, <3>4, <4>1 DEF Inv, TypeOK, Link, Process
    <3>6. c \in Channel /\ c # Nothing /\ c.outbox = Unsent(ch.outbox, taken)
      <4>1. Unsent(ch.outbox, taken) \in Seq(Frame)
          BY Zenon, <3>1, <3>2, AcceptedFits
      <4> QED BY Zenon, <3>3, <4>1, NothingAssumption DEF Channel
    <3>7. new \in Link /\ new # Nothing /\ new.channel = c
        BY Zenon, <3>4, <3>6, NothingAssumption DEF Link
    <3>8. OutboxOf(new) = c.outbox /\ OutboxOf(links[l]) = ch.outbox
        BY Zenon, <2>1, <2>2, <3>6, <3>7 DEF OutboxOf
    <3>9. np.inbuf = pr.inbuf \o taken /\ np.todo = pr.todo /\ np.outbuf = pr.outbuf
        BY Zenon, <3>3 DEF Process
    <3>10. \A k \in Names : links'[k] = IF k = l THEN new ELSE links[k]
        BY Zenon, <3>5 DEF Inv, TypeOK
    <3>11. \A p \in Pids : procs'[p] = IF p = pid THEN np ELSE procs[p]
        BY Zenon, <3>5 DEF Inv, TypeOK
    <3>12. PICK in, box : /\ in = Inward(queue, links, procs) /\ box = Inward(queue', links', procs')
                          /\ IsInward(in, queue, links, procs) /\ IsInward(box, queue', links', procs')
        BY Zenon, InwardAt
    <3>13. PICK a \in InPlaces, b \in InPlaces : a = <<"outbox", l>> /\ b = <<"inbuf", pid>> /\ a # b
        BY Zenon, PlacesCases
    <3>14. /\ in[a] = ch.outbox /\ box[a] = Unsent(ch.outbox, taken)
           /\ in[b] = pr.inbuf /\ box[b] = pr.inbuf \o taken
      <4>1. in[a] = OutboxOf(links[l]) /\ box[a] = OutboxOf(links'[l])
          BY Zenon, <3>12, <3>13 DEF IsInward
      <4>2. in[b] = procs[pid].inbuf /\ box[b] = procs'[pid].inbuf
          BY Zenon, <3>12, <3>13 DEF IsInward
      <4>3. links'[l] = new /\ procs'[pid] = np
          BY Zenon, <3>10, <3>11
      <4> QED BY Zenon, <2>1, <3>6, <3>8, <3>9, <4>1, <4>2, <4>3
    <3>15. \A x \in InPlaces : x # a /\ x # b => box[x] = in[x]
      <4>1. box[Bus] = in[Bus]
          BY Zenon, <1>1, <3>12 DEF IsInward
      <4>2. \A k \in Names : k # l => box[<<"outbox", k>>] = in[<<"outbox", k>>]
          BY Zenon, <3>10, <3>12 DEF IsInward
      <4>3. \A p \in Pids : p # pid => box[<<"inbuf", p>>] = in[<<"inbuf", p>>]
          BY Zenon, <3>11, <3>12 DEF IsInward
      <4> QED BY <3>13, <4>1, <4>2, <4>3, PlacesCases
    <3>16. PICK n \in Nat : Passed(in[a], box[a], in[b], box[b], n)
        BY Zenon, <3>1, <3>2, <3>14, FlushedFrames
    <3>17. Len(in[a]) \in Nat /\ Len(in[b]) \in Nat
        BY <3>2, <3>14
    <3>18. Shifts(in, box, a, b, n)
        BY Zenon, <3>12, <3>15, <3>16 DEF Shifts, IsInward
    <3>19. Outward(procs') = Outward(procs)
        BY Zenon, <2>1, <3>9, <3>11, OutwardSame
    <3> QED BY Zenon, <1>1, <3>12, <3>13, <3>17, <3>18, <3>19, InwardMoved
  <2> QED BY Zenon, <2>3, <2>4
<1> QED BY Zenon, <1>2, <1>3

(* The first frame of one sequence is appended to the other, or dropped. *)
LEMMA HeadPassed ==
    ASSUME NEW from, NEW rest, NEW to \in Seq(Frame), NEW f \in Frame, NEW k \in Nat,
           Len(from) = k + 1, from[1] = f, Len(rest) = k, \A i \in 1..k : rest[i] = from[i + 1]
    PROVE  Passed(from, rest, to, to, 1) /\ Passed(from, rest, to, Append(to, f), 1)
<1>1. PICK n \in Nat : n = Len(to)
    OBVIOUS
<1>2. PICK more : more = Append(to, f)
    BY Zenon
<1>3. Len(more) = n + 1 /\ more[n + 1] = f /\ \A i \in 1..n : more[i] = to[i]
    BY <1>1, <1>2
<1>4. \A i \in 1..Len(rest) : 1 + i \in 1..Len(from) /\ rest[i] = from[1 + i]
    OBVIOUS
<1>5. \A i \in 1..Len(more) : IF i <= n THEN more[i] = to[i]
                              ELSE i - n \in 1..1 /\ 1 <= Len(from) /\ more[i] = from[i - n]
  <2> SUFFICES ASSUME NEW i \in 1..(n + 1) PROVE IF i <= n THEN more[i] = to[i]
                              ELSE i - n \in 1..1 /\ 1 <= Len(from) /\ more[i] = from[i - n]
      BY Zenon, <1>3
  <2>1. CASE i <= n
      BY <1>3, <2>1
  <2>2. CASE i = n + 1
    <3>1. i - n = 1 /\ ~(i <= n) /\ 1 <= Len(from)
        BY <2>2
    <3> QED BY <1>3, <2>2, <3>1
  <2> QED BY <2>1, <2>2
<1>6. Passed(from, rest, to, more, 1)
    BY Zenon, <1>1, <1>4, <1>5 DEF Passed
<1>7. Passed(from, rest, to, to, 1)
    BY <1>1, <1>4 DEF Passed
<1> QED BY Zenon, <1>2, <1>6, <1>7

LEMMA TailPassed ==
    ASSUME NEW from \in Seq(Frame), from # <<>>, NEW to \in Seq(Frame)
    PROVE  /\ Passed(from, Tail(from), to, to, 1) /\ Passed(from, Tail(from), to, Append(to, Head(from)), 1)
           /\ 1 \in 1..Len(from) /\ from[1] = Head(from) /\ Head(from) \in Frame
<1>1. PICK k \in Nat : Len(from) = k + 1 /\ Len(Tail(from)) = k
  <2>1. Len(from) - 1 \in Nat /\ Len(from) = (Len(from) - 1) + 1 /\ Len(Tail(from)) = Len(from) - 1
      OBVIOUS
  <2> QED BY Zenon, <2>1
<1>2. from[1] = Head(from) /\ Head(from) \in Frame /\ 1 \in 1..Len(from) /\ \A i \in 1..k : Tail(from)[i] = from[i + 1]
    BY <1>1
<1> QED BY Zenon, <1>1, <1>2, HeadPassed

LEMMA ShipDeliverFates == ASSUME Inv, Fates, ship_deliver PROVE Fates'
<1>1. UNCHANGED <<procs, sent, handled, emitted>>
    BY Zenon DEF ship_deliver
<1>2. PICK q \in Seq(Delivery), nq \in Seq(Delivery) : q = queue /\ q # <<>> /\ nq = Tail(q) /\ nq = queue'
  <2>1. Tail(queue) \in Seq(Delivery)
      BY DEF ship_deliver, Inv, TypeOK
  <2> QED BY Zenon, <2>1 DEF ship_deliver, Inv, TypeOK
<1>3. PICK d \in Delivery : d = Head(q)
    BY <1>2
<1>4. PICK l \in Names : l = d.to /\ d.m \in Msgs
    BY Zenon DEF Delivery
<1>5. PICK f \in Frame : f = DeliverFrame(d.m)
    BY Zenon, <1>4 DEF DeliverFrame, Frame, State
<1>6. PICK k \in Nat : /\ Len(Deliveries(q)) = k + 1 /\ Deliveries(q)[1] = f /\ Len(Deliveries(nq)) = k
                       /\ \A i \in 1..k : Deliveries(nq)[i] = Deliveries(q)[i + 1]
  <2>1. PICK k \in Nat : Len(q) = k + 1 /\ Len(nq) = k /\ q[1] = d /\ \A i \in 1..k : nq[i] = q[i + 1]
    <3>1. Len(q) - 1 \in Nat /\ Len(q) = (Len(q) - 1) + 1 /\ Len(nq) = Len(q) - 1 /\ q[1] = d
        BY <1>2, <1>3
    <3>2. \A i \in 1..(Len(q) - 1) : nq[i] = q[i + 1]
        BY <1>2
    <3> QED BY Zenon, <3>1, <3>2
  <2>2. Len(Deliveries(q)) = k + 1 /\ \A i \in 1..(k + 1) : Deliveries(q)[i] = DeliverFrame(q[i].m)
      BY Zenon, <2>1, DeliveriesAt
  <2>3. Len(Deliveries(nq)) = k /\ \A i \in 1..k : Deliveries(nq)[i] = DeliverFrame(nq[i].m)
      BY Zenon, <2>1, DeliveriesAt
  <2>4. Deliveries(q)[1] = f
      BY <1>5, <2>1, <2>2
  <2>5. \A i \in 1..k : i + 1 \in 1..(k + 1)
      OBVIOUS
  <2>6. \A i \in 1..k : Deliveries(nq)[i] = Deliveries(q)[i + 1]
      BY Zenon, <2>1, <2>2, <2>3, <2>5
  <2> QED BY Zenon, <2>2, <2>3, <2>4, <2>6
<1>7. PICK ob \in Seq(Frame) : /\ ob = OutboxOf(links[l]) /\ OutboxOf(links'[l]) \in {ob, Append(ob, f)}
                               /\ \A j \in Names : j # l => links'[j] = links[j]
  <2>1. CASE ~(HasChannel(l) /\ d.mount = mounts[l] /\ links[l].alive)
    <3>1. links' = links
        BY Zenon, <1>2, <1>3, <1>4, <2>1 DEF ship_deliver
    <3>2. OutboxOf(links[l]) \in Seq(Frame)
      <4>1. <<>> \in Seq(Frame)
          OBVIOUS
      <4>2. links[l] \in Link \cup {Nothing}
          BY Zenon DEF Inv, TypeOK
      <4> QED BY Zenon, <4>1, <4>2 DEF OutboxOf, Link, Channel
    <3> QED BY Zenon, <3>1, <3>2
  <2>2. CASE HasChannel(l) /\ d.mount = mounts[l] /\ links[l].alive
    <3>1. PICK link \in Link, ch \in Channel : link = links[l] /\ ch = link.channel /\ Mounted(l)
        BY Zenon, <2>2, ChildOfLink
    <3>2. PICK c \in Channel : c = Channel_queue(ch, f)
        BY Zenon, QueueType
    <3>3. PICK new : new = [link EXCEPT !.channel = c]
        BY Zenon
    <3>4. links' = [links EXCEPT ![l] = new]
      <4>1. links' = [links EXCEPT ![l].channel = Channel_queue(@, f)]
          BY Zenon, <1>2, <1>3, <1>4, <1>5, <2>2 DEF ship_deliver, DeliverFrame
      <4> QED BY Zenon, <3>1, <3>2, <3>3, <4>1 DEF Inv, TypeOK
    <3>5. new \in Link /\ new.channel = c
        BY Zenon, <3>2, <3>3 DEF Link
    <3>6. new # Nothing /\ c # Nothing /\ link # Nothing /\ ch # Nothing
        BY Zenon, <3>2, <3>5, NothingAssumption
    <3>7. OutboxOf(links[l]) = ch.outbox /\ links'[l] = new /\ \A j \in Names : j # l => links'[j] = links[j]
        BY Zenon, <3>1, <3>4, <3>6 DEF OutboxOf, Inv, TypeOK
    <3>8. OutboxOf(new) = c.outbox /\ ch.outbox \in Seq(Frame)
        BY Zenon, <3>5, <3>6 DEF OutboxOf, Channel
    <3>9. c.outbox \in {ch.outbox, Append(ch.outbox, f)}
        BY Zenon, <3>2 DEF Channel_queue, Channel
    <3> QED BY Zenon, <3>7, <3>8, <3>9
  <2> QED BY Zenon, <2>1, <2>2
<1>8. PICK in, box : /\ in = Inward(queue, links, procs) /\ box = Inward(queue', links', procs')
                     /\ IsInward(in, queue, links, procs) /\ IsInward(box, queue', links', procs')
    BY Zenon, InwardAt
<1>9. PICK b \in InPlaces : b = <<"outbox", l>> /\ b # Bus
    BY Zenon, PlacesCases
<1>10. in[Bus] = Deliveries(q) /\ box[Bus] = Deliveries(nq) /\ in[b] = ob /\ box[b] \in {ob, Append(ob, f)}
    BY Zenon, <1>2, <1>7, <1>8, <1>9 DEF IsInward
<1>11. Passed(in[Bus], box[Bus], in[b], box[b], 1)
    BY Zenon, <1>6, <1>10, HeadPassed
<1>12. \A x \in InPlaces : x # Bus /\ x # b => box[x] = in[x]
  <2>1. \A j \in Names : j # l => box[<<"outbox", j>>] = in[<<"outbox", j>>]
      BY Zenon, <1>7, <1>8 DEF IsInward
  <2>2. \A p \in Pids : box[<<"inbuf", p>>] = in[<<"inbuf", p>>]
      BY Zenon, <1>1, <1>8 DEF IsInward
  <2> QED BY <1>9, <2>1, <2>2, PlacesCases
<1>13. Shifts(in, box, Bus, b, 1)
    BY Zenon, <1>8, <1>11, <1>12 DEF Shifts, IsInward
<1>14. Len(in[Bus]) \in Nat /\ Len(in[b]) \in Nat /\ 1 \in Nat /\ Bus \in InPlaces
    BY <1>6, <1>7, <1>10, PlacesCases
<1>15. Outward(procs') = Outward(procs)
    BY Zenon, <1>1
<1> QED BY Zenon, <1>1, <1>8, <1>9, <1>13, <1>14, <1>15, InwardMoved

(* The ways in are the same when every process has the same input. *)
LEMMA InwardSame ==
    ASSUME UNCHANGED <<queue, links>>, \A p \in Pids : procs'[p].inbuf = procs[p].inbuf
    PROVE  Inward(queue', links', procs') = Inward(queue, links, procs)
<1>1. \A x \in InPlaces : x[1] \in {"queue", "outbox"} \/ x[2] \in Pids
    BY DEF InPlaces, Bus
<1> QED BY Zenon, <1>1 DEF Inward

LEMMA ChildWriteFates == ASSUME Inv, Fates, NEW p \in Pids, child_write(p) PROVE Fates'
<1>1. UNCHANGED <<links, queue, sent, handled, emitted>>
    BY Zenon DEF child_write
<1>2. PICK pr \in Process : /\ pr = procs[p] /\ pr.todo # <<>> /\ pr.todo \in Seq(Frame) /\ pr.outbuf \in Seq(Frame)
    BY Zenon DEF Inv, TypeOK, Process, child_write
<1>3. PICK np : np = [pr EXCEPT !.outbuf = Append(pr.outbuf, Head(pr.todo)), !.todo = Tail(pr.todo)]
    BY Zenon
<1>4. procs' = [procs EXCEPT ![p] = np]
  <2>1. procs' = [procs EXCEPT ![p].outbuf = Append(@, Head(procs[p].todo)), ![p].todo = Tail(@)]
      BY Zenon DEF child_write
  <2> QED BY Zenon, <1>2, <1>3, <2>1 DEF Inv, TypeOK, Process
<1>5. np.outbuf = Append(pr.outbuf, Head(pr.todo)) /\ np.todo = Tail(pr.todo) /\ np.inbuf = pr.inbuf
    BY Zenon, <1>3 DEF Process
<1>6. \A r \in Pids : procs'[r] = IF r = p THEN np ELSE procs[r]
    BY Zenon, <1>4 DEF Inv, TypeOK
<1>7. PICK out, new : /\ out = Outward(procs) /\ new = Outward(procs')
                      /\ IsOutward(out, procs) /\ IsOutward(new, procs')
    BY Zenon, OutwardAt
<1>8. PICK a \in OutPlaces, b \in OutPlaces : a = <<"todo", p>> /\ b = <<"outbuf", p>> /\ a # b
    BY Zenon, PlacesCases
<1>9. /\ out[a] = pr.todo /\ new[a] = Tail(pr.todo)
      /\ out[b] = pr.outbuf /\ new[b] = Append(pr.outbuf, Head(pr.todo))
  <2>1. procs'[p] = np
      BY Zenon, <1>6
  <2> QED BY Zenon, <1>2, <1>5, <1>7, <1>8, <2>1 DEF IsOutward
<1>10. \A x \in OutPlaces : x # a /\ x # b => new[x] = out[x]
  <2>1. \A r \in Pids : r # p => new[<<"todo", r>>] = out[<<"todo", r>>]
      BY Zenon, <1>6, <1>7 DEF IsOutward
  <2>2. \A r \in Pids : r # p => new[<<"outbuf", r>>] = out[<<"outbuf", r>>]
      BY Zenon, <1>6, <1>7 DEF IsOutward
  <2> QED BY <1>8, <2>1, <2>2, PlacesCases
<1>11. Passed(out[a], new[a], out[b], new[b], 1)
    BY Zenon, <1>2, <1>9, TailPassed
<1>12. Shifts(out, new, a, b, 1)
    BY Zenon, <1>7, <1>10, <1>11 DEF Shifts, IsOutward
<1>13. Len(out[a]) \in Nat /\ Len(out[b]) \in Nat /\ 1 \in Nat
    BY <1>2, <1>9
<1>14. DOMAIN out = OutPlaces
    BY Zenon, <1>7 DEF IsOutward
<1>15. \A m \in Msgs : Traced(out, new, "Emit", m)
    BY Zenon, <1>8, <1>12, <1>13, <1>14, Moved
<1>16. Inward(queue', links', procs') = Inward(queue, links, procs)
    BY Zenon, <1>1, <1>2, <1>5, <1>6, InwardSame
<1>17. \A m \in Msgs : Traced(Inward(queue, links, procs), Inward(queue', links', procs'), "Deliver", m)
    BY Zenon, <1>16 DEF Traced
<1> QED BY Zenon, <1>1, <1>7, <1>15, <1>17, FatesTraced

(* The child's next frame is read; what it has to write for it is new. *)
LEMMA ChildReadFates == ASSUME Inv, Fates, NEW p \in Pids, child_read(p) PROVE Fates'
<1>1. UNCHANGED <<links, queue, sent, emitted>>
    BY Zenon DEF child_read
<1>2. PICK pr \in Process : /\ pr = procs[p] /\ pr.inbuf # <<>> /\ pr.inbuf \in Seq(Frame) /\ pr.todo = <<>>
    BY Zenon DEF Inv, TypeOK, Process, child_read
<1>3. PICK f \in Frame : f = Head(pr.inbuf) /\ f = pr.inbuf[1] /\ 1 \in 1..Len(pr.inbuf)
    BY Zenon, <1>2, TailPassed
<1>4. PICK state, todo :
        /\ procs' = [procs EXCEPT ![p].inbuf = Tail(@), ![p].state = state, ![p].todo = todo]
        /\ \/ /\ f.op = "Deliver"
              /\ todo = << [op |-> "Emit", v |-> f.v], [op |-> "Snapshot", v |-> state] >>
              /\ handled' = [m \in Msgs |-> IF m \in f.v THEN handled[m] + 1 ELSE handled[m]]
           \/ /\ f.op = "Revive"
              /\ todo = << [op |-> "Snapshot", v |-> state] >>
              /\ handled' = handled
  <2>1. CASE f.op = "Deliver"
    <3>1. PICK state : state = pr.state \cup f.v
        BY Zenon
    <3>2. PICK todo : todo = << [op |-> "Emit", v |-> f.v], [op |-> "Snapshot", v |-> state] >>
        BY Zenon
    <3>3. /\ procs' = [procs EXCEPT ![p].inbuf = Tail(@), ![p].state = state, ![p].todo = todo]
          /\ handled' = [m \in Msgs |-> IF m \in f.v THEN handled[m] + 1 ELSE handled[m]]
        BY Zenon, <1>2, <1>3, <2>1, <3>1, <3>2 DEF child_read
    <3> QED BY Zenon, <2>1, <3>2, <3>3
  <2>2. CASE f.op # "Deliver"
    <3>1. PICK state :
            /\ procs' = [procs EXCEPT ![p].inbuf = Tail(@), ![p].state = state,
                                      ![p].todo = << [op |-> "Snapshot", v |-> state] >>]
            /\ handled' = handled /\ f.op = "Revive"
        BY Zenon, <1>2, <1>3, <2>2 DEF child_read
    <3>2. PICK todo : todo = << [op |-> "Snapshot", v |-> state] >>
        BY Zenon
    <3> QED BY ZenonT(30), <3>1, <3>2 DEF Inv, TypeOK
  <2> QED BY Zenon, <2>1, <2>2
<1>5. PICK np : np = [pr EXCEPT !.inbuf = Tail(pr.inbuf), !.state = state, !.todo = todo]
    BY Zenon
<1>6. procs' = [procs EXCEPT ![p] = np]
    BY Zenon, <1>2, <1>4, <1>5 DEF Inv, TypeOK, Process
<1>7. np.inbuf = Tail(pr.inbuf) /\ np.todo = todo /\ np.outbuf = pr.outbuf
    BY Zenon, <1>5 DEF Process
<1>8. procs'[p] = np /\ \A r \in Pids : r # p => procs'[r] = procs[r]
    BY Zenon, <1>6 DEF Inv, TypeOK
<1>9. PICK in, nin : /\ in = Inward(queue, links, procs) /\ nin = Inward(queue', links', procs')
                     /\ IsInward(in, queue, links, procs) /\ IsInward(nin, queue', links', procs')
    BY Zenon, InwardAt
<1>10. PICK out, nout : /\ out = Outward(procs) /\ nout = Outward(procs')
                        /\ IsOutward(out, procs) /\ IsOutward(nout, procs')
    BY Zenon, OutwardAt
<1>11. PICK a \in InPlaces, c \in OutPlaces : a = <<"inbuf", p>> /\ a # Bus /\ c = <<"todo", p>>
    BY Zenon, PlacesCases
<1>12. in[a] = pr.inbuf /\ nin[a] = Tail(pr.inbuf) /\ nin[Bus] = in[Bus] /\ out[c] = <<>> /\ nout[c] = todo
    BY Zenon, <1>1, <1>2, <1>7, <1>8, <1>9, <1>10, <1>11 DEF IsInward, IsOutward
<1>13. \A x \in InPlaces : x # a /\ x # Bus => nin[x] = in[x]
  <2>1. \A l \in Names : nin[<<"outbox", l>>] = in[<<"outbox", l>>]
      BY <1>1, <1>9 DEF IsInward
  <2>2. \A r \in Pids : r # p => nin[<<"inbuf", r>>] = in[<<"inbuf", r>>]
      BY Zenon, <1>8, <1>9 DEF IsInward
  <2> QED BY <1>11, <2>1, <2>2, PlacesCases
<1>14. \A x \in OutPlaces : x # c => nout[x] = out[x]
  <2>1. \A r \in Pids : r # p => nout[<<"todo", r>>] = out[<<"todo", r>>]
      BY Zenon, <1>8, <1>10 DEF IsOutward
  <2>2. \A r \in Pids : nout[<<"outbuf", r>>] = out[<<"outbuf", r>>]
      BY Zenon, <1>2, <1>7, <1>8, <1>10 DEF IsOutward
  <2> QED BY <1>11, <2>1, <2>2, PlacesCases
<1>15. Shifts(in, nin, a, Bus, 1) /\ Len(in[a]) \in Nat /\ Len(in[Bus]) \in Nat /\ Bus \in InPlaces /\ 1 \in Nat
  <2>1. Passed(pr.inbuf, Tail(pr.inbuf), Deliveries(queue), Deliveries(queue), 1)
    <3>1. Passed(pr.inbuf, Tail(pr.inbuf), pr.inbuf, pr.inbuf, 1)
        BY Zenon, <1>2, TailPassed
    <3>2. Len(Deliveries(queue)) \in Nat
        BY DeliveriesAt DEF Inv, TypeOK
    <3> QED BY <3>1, <3>2 DEF Passed
  <2>2. in[Bus] = Deliveries(queue)
      BY Zenon, <1>9 DEF IsInward
  <2>3. Len(in[a]) \in Nat /\ Len(in[Bus]) \in Nat
      BY <1>2, <1>12, <2>2, DeliveriesAt DEF Inv, TypeOK
  <2>4. Passed(in[a], nin[a], in[Bus], nin[Bus], 1)
      BY Zenon, <1>12, <2>1, <2>2
  <2>5. Shifts(in, nin, a, Bus, 1)
      BY Zenon, <1>9, <1>13, <2>4 DEF Shifts, IsInward
  <2> QED BY Zenon, <2>3, <2>5, PlacesCases
<1>16. DOMAIN in = InPlaces /\ DOMAIN nin = InPlaces /\ DOMAIN out = OutPlaces /\ DOMAIN nout = OutPlaces
    BY Zenon, <1>9, <1>10 DEF IsInward, IsOutward
<1>17. \A m \in Msgs : Traced(in, nin, "Deliver", m)
    BY Zenon, <1>11, <1>15, <1>16, Moved
<1>18. CASE f.op = "Revive"
  <2>1. todo = << [op |-> "Snapshot", v |-> state] >> /\ handled' = handled
      BY Zenon, <1>4, <1>18
  <2>2. \A i \in 1..Len(todo) : todo[i].op # "Emit"
      BY <2>1
  <2>3. \A x \in OutPlaces : nout[x] = out[x] \/ \A i \in 1..Len(nout[x]) : nout[x][i].op # "Emit"
      BY Zenon, <1>12, <1>14, <2>2
  <2>4. \A m \in Msgs : Traced(out, nout, "Emit", m)
      BY Zenon, <1>16, <2>3, Emptied
  <2> QED BY Zenon, <1>1, <1>9, <1>10, <1>17, <2>1, <2>4, FatesTraced

<1>19. CASE f.op = "Deliver"
  <2>1. /\ todo = << [op |-> "Emit", v |-> f.v], [op |-> "Snapshot", v |-> state] >>
        /\ handled' = [m \in Msgs |-> IF m \in f.v THEN handled[m] + 1 ELSE handled[m]]
      BY Zenon, <1>4, <1>19
  <2>2. \A m \in Msgs : Fate(m, in, out) /\ handled[m] \in Nat
      BY Zenon, <1>9, <1>10 DEF Fates, Inv, TypeOK
  <2>3. ASSUME NEW m \in Msgs, m \in f.v
        PROVE  ~In(nin, "Deliver", m) /\ m \in sent /\ handled[m] = 0 /\ ~In(out, "Emit", m)
    <3>1. At(in, a, 1, "Deliver", m)
        BY Zenon, <1>3, <1>12, <1>16, <1>19, <2>3 DEF At
    <3>2. Single(in, "Deliver", m) /\ In(in, "Deliver", m)
        BY Zenon, <1>15, <1>16, <2>2, <3>1 DEF Fate, In
    <3>3. ~In(nin, "Deliver", m)
        BY Zenon, <1>11, <1>12, <1>15, <1>16, <3>1, <3>2, Taken
    <3>4. m \in sent /\ handled[m] = 0
        BY Zenon, <2>2, <3>2 DEF Fate
    <3>5. ~In(out, "Emit", m)
        BY <2>2, <3>4 DEF Fate
    <3> QED BY Zenon, <3>3, <3>4, <3>5
  <2>4. ASSUME NEW m \in Msgs, NEW x \in OutPlaces, NEW i \in Nat, At(nout, x, i, "Emit", m)
        PROVE  At(out, x, i, "Emit", m) \/ (m \in f.v /\ x = c /\ i = 1)
    <3>1. CASE x = c
      <4>1. i \in 1..Len(todo) /\ todo[i].op = "Emit" /\ m \in todo[i].v
          BY Zenon, <1>12, <2>4, <3>1 DEF At
      <4> QED BY <2>1, <3>1, <4>1
    <3>2. CASE x # c
        BY Zenon, <1>14, <1>16, <2>4, <3>2 DEF At
    <3> QED BY Zenon, <3>1, <3>2
  <2>5. ASSUME NEW m \in Msgs
        PROVE  Fate(m, nin, nout)'
    <3>1. CASE m \in f.v
      <4>1. Single(nout, "Emit", m)
          BY <1>16, <2>3, <2>4, <3>1 DEF Single, In
      <4>2. Single(nin, "Deliver", m)
          BY Zenon, <1>17, <2>2 DEF Traced, Fate
      <4>3. handled'[m] = 1 /\ emitted'[m] = emitted[m] /\ sent' = sent
          BY <1>1, <2>1, <2>3, <3>1
      <4>4. emitted[m] \in Nat /\ emitted[m] <= handled[m]
          BY Zenon, <2>2 DEF Fate, Inv, TypeOK
      <4>5. emitted[m] = 0
          BY <2>3, <3>1, <4>4
      <4> QED BY <2>3, <3>1, <4>1, <4>2, <4>3, <4>5 DEF Fate
    <3>2. CASE m \notin f.v
      <4>1. Traced(out, nout, "Emit", m)
          BY Zenon, <1>16, <2>4, <3>2 DEF Traced, Single, In
      <4>2. handled'[m] = handled[m] /\ emitted' = emitted /\ sent' = sent
          BY Zenon, <1>1, <2>1, <3>2
      <4>3. Fate(m, in, out) /\ Traced(in, nin, "Deliver", m)
          BY Zenon, <1>17, <2>2
      <4> QED BY Zenon, <4>1, <4>2, <4>3 DEF Fate, Traced
    <3> QED BY Zenon, <3>1, <3>2
  <2> QED BY Zenon, <1>9, <1>10, <2>5 DEF Fates, Fate
<1> QED BY Zenon, <1>4, <1>18, <1>19

(* How often m is counted: at most once, when it is in one place at most. *)
LEMMA EmitsOnce ==
    ASSUME CountRule, NEW m, NEW frames \in Seq(Frame), NEW good,
           \A i, j \in 1..Len(frames) : frames[i].op = "Emit" /\ m \in frames[i].v
                                        /\ frames[j].op = "Emit" /\ m \in frames[j].v => i = j
    PROVE  \/ EmitsOf(m, frames, good) = 0
           \/ /\ EmitsOf(m, frames, good) = 1
              /\ \E i \in 1..Len(frames) : frames[i].op = "Emit" /\ m \in frames[i].v
<1> DEFINE T == {i \in 1..Len(frames) : frames[i] = [op |-> "Emit", v |-> {m}] /\ frames[i] \in good}
<1>1. \A i \in T : frames[i].op = "Emit" /\ m \in frames[i].v /\ i \in 1..Len(frames)
    OBVIOUS
<1>2. CASE T = {}
    BY Zenon, <1>2 DEF EmitsOf, CountRule
<1>3. CASE T # {}
  <2>1. PICK i : i \in T
      BY Zenon, <1>3
  <2>2. T = {i}
      BY Zenon, <1>1, <2>1
  <2>3. Cardinality(T) = 1
      BY Zenon, <2>2 DEF CountRule
  <2> QED BY Zenon, <1>1, <2>1, <2>3 DEF EmitsOf
<1> QED BY Zenon, <1>2, <1>3

LEMMA PollFates == ASSUME CountRule, Inv, Fates, NEW l \in Names, poll(l) PROVE Fates'
<1>1. UNCHANGED <<queue, sent, handled>>
    BY Zenon DEF poll
<1>2. CASE ~HasChannel(l) \/ links[l].channel.failed
    BY Zenon, <1>1, <1>2, FatesUnmoved DEF poll
<1>3. CASE ~(~HasChannel(l) \/ links[l].channel.failed)
  <2>1. PICK pid \in Pids, pr \in Process, ch \in Channel, link \in Link :
          link = links[l] /\ ch = link.channel /\ pid = link.pid /\ pr = procs[pid] /\ Mounted(l)
      BY Zenon, <1>3, ChildOfLink
  <2>2. procs' = [procs EXCEPT ![pid].outbuf = <<>>] /\ pr.outbuf \in Seq(Frame)
      BY Zenon, <1>3, <2>1 DEF poll, Process
  <2>3. /\ procs'[pid].inbuf = pr.inbuf /\ procs'[pid].todo = pr.todo /\ procs'[pid].outbuf = <<>>
        /\ \A p \in Pids : p # pid => procs'[p] = procs[p]
      BY Zenon, <2>1, <2>2 DEF Inv, TypeOK, Process
  <2>4. \A k \in Names : OutboxOf(links'[k]) = OutboxOf(links[k])
    <3>1. PICK c, new : /\ links' = [links EXCEPT ![l] = new] /\ c.outbox = ch.outbox /\ c \in Channel
                        /\ new \in Link /\ new.channel = c
      <4>1. CASE pr.st = "exited" /\ pr.reset
        <5>1. PICK c : c = [ch EXCEPT !.failed = TRUE]
            BY Zenon
        <5>2. PICK new : new = [link EXCEPT !.channel = c]
            BY Zenon
        <5>3. links' = [links EXCEPT ![l].channel.failed = TRUE]
            BY Zenon, <1>3, <2>1, <4>1 DEF poll
        <5>4. links' = [links EXCEPT ![l] = new]
            BY Zenon, <2>1, <5>1, <5>2, <5>3 DEF Inv, TypeOK, Link
        <5>5. c \in Channel /\ c.outbox = ch.outbox
            BY Zenon, <5>1 DEF Channel
        <5>6. new \in Link /\ new.channel = c
            BY Zenon, <5>2, <5>5 DEF Link
        <5> QED BY Zenon, <5>4, <5>5, <5>6
      <4>2. CASE ~(pr.st = "exited" /\ pr.reset)
        <5>1. PICK good : links' = [links EXCEPT ![l].channel.eof = (pr.st = "exited"),
                                                 ![l].snapshot = Refreshed(@, pr.outbuf, good)]
            BY Zenon, <1>3, <2>1, <4>2 DEF poll
        <5>2. PICK state \in State : state = Refreshed(link.snapshot, pr.outbuf, good)
            BY Zenon, <2>2, RefreshedType DEF Link
        <5>3. PICK c : c = [ch EXCEPT !.eof = (pr.st = "exited")]
            BY Zenon
        <5>4. PICK new : new = [link EXCEPT !.channel = c, !.snapshot = state]
            BY Zenon
        <5>5. links' = [links EXCEPT ![l] = new]
            BY Zenon, <2>1, <5>1, <5>2, <5>3, <5>4 DEF Inv, TypeOK, Link
        <5>6. c \in Channel /\ c.outbox = ch.outbox
            BY Zenon, <5>3 DEF Channel
        <5>7. new \in Link /\ new.channel = c
            BY Zenon, <5>4, <5>6 DEF Link
        <5> QED BY Zenon, <5>5, <5>6, <5>7
      <4> QED BY Zenon, <4>1, <4>2
    <3>2. \A k \in Names : links'[k] = IF k = l THEN new ELSE links[k]
        BY Zenon, <3>1 DEF Inv, TypeOK
    <3>3. OutboxOf(new) = OutboxOf(links[l])
        BY Zenon, <2>1, <3>1, NothingAssumption DEF OutboxOf
    <3> QED BY Zenon, <3>2, <3>3
  <2>5. PICK in, nin : /\ in = Inward(queue, links, procs) /\ nin = Inward(queue', links', procs')
                       /\ IsInward(in, queue, links, procs) /\ IsInward(nin, queue', links', procs')
      BY Zenon, InwardAt
  <2>6. PICK out, nout : /\ out = Outward(procs) /\ nout = Outward(procs')
                         /\ IsOutward(out, procs) /\ IsOutward(nout, procs')
      BY Zenon, OutwardAt
  <2>7. \A x \in InPlaces : nin[x] = in[x]
    <3>1. nin[Bus] = in[Bus]
        BY Zenon, <1>1, <2>5 DEF IsInward
    <3>2. \A k \in Names : nin[<<"outbox", k>>] = in[<<"outbox", k>>]
        BY <2>4, <2>5 DEF IsInward
    <3>3. \A p \in Pids : nin[<<"inbuf", p>>] = in[<<"inbuf", p>>]
      <4>1. \A p \in Pids : procs'[p].inbuf = procs[p].inbuf
          BY Zenon, <2>1, <2>3
      <4> QED BY Zenon, <2>5, <4>1 DEF IsInward
    <3> QED BY <3>1, <3>2, <3>3, PlacesCases
  <2>8. \A m \in Msgs : Traced(in, nin, "Deliver", m)
      BY Zenon, <2>5, <2>7, Emptied DEF IsInward
  <2>9. PICK c \in OutPlaces : c = <<"outbuf", pid>> /\ out[c] = pr.outbuf /\ nout[c] = <<>>
    <3>1. out[<<"outbuf", pid>>] = pr.outbuf /\ nout[<<"outbuf", pid>>] = <<>>
        BY Zenon, <2>1, <2>3, <2>6 DEF IsOutward
    <3> QED BY Zenon, <3>1, PlacesCases
  <2>10. \A x \in OutPlaces : x # c => nout[x] = out[x]
    <3>1. \A p \in Pids : nout[<<"todo", p>>] = out[<<"todo", p>>]
      <4>1. \A p \in Pids : procs'[p].todo = procs[p].todo
          BY Zenon, <2>1, <2>3
      <4> QED BY Zenon, <2>6, <4>1 DEF IsOutward
    <3>2. \A p \in Pids : p # pid => nout[<<"outbuf", p>>] = out[<<"outbuf", p>>]
        BY Zenon, <2>3, <2>6 DEF IsOutward
    <3> QED BY <2>9, <3>1, <3>2, PlacesCases
  <2>11. DOMAIN out = OutPlaces /\ DOMAIN nout = OutPlaces
      BY Zenon, <2>6 DEF IsOutward
  <2>12. \A m \in Msgs, x \in OutPlaces, i \in Nat : At(nout, x, i, "Emit", m) => At(out, x, i, "Emit", m) /\ x # c
    <3> SUFFICES ASSUME NEW m \in Msgs, NEW x \in OutPlaces, NEW i \in Nat, At(nout, x, i, "Emit", m)
                 PROVE  At(out, x, i, "Emit", m) /\ x # c
        BY Zenon
    <3>1. x # c
        BY <2>9 DEF At
    <3> QED BY Zenon, <2>10, <2>11, <3>1 DEF At
  <2>13. \A m \in Msgs : Traced(out, nout, "Emit", m)
      BY <2>11, <2>12 DEF Traced, Single, In
  <2>14. CASE emitted' = emitted
      BY Zenon, <1>1, <2>5, <2>6, <2>8, <2>13, <2>14, FatesTraced
  <2>15. CASE emitted' # emitted
    <3>1. PICK good : emitted' = [m \in Msgs |-> emitted[m] + EmitsOf(m, pr.outbuf, good)]
      <4>1. ~(pr.st = "exited" /\ pr.reset)
          BY Zenon, <1>3, <2>1, <2>15 DEF poll
      <4> QED BY <1>3, <2>1, <4>1 DEF poll
    <3>2. \A m \in Msgs : Fate(m, in, out) /\ emitted[m] \in Nat /\ handled[m] \in Nat
        BY Zenon, <2>5, <2>6 DEF Fates, Inv, TypeOK
    <3>3. ASSUME NEW m \in Msgs PROVE Fate(m, nin, nout)'
      <4>1. \A i \in 1..Len(pr.outbuf) : i \in Nat
          OBVIOUS
      <4>2. \A i \in 1..Len(pr.outbuf) : pr.outbuf[i].op = "Emit" /\ m \in pr.outbuf[i].v => At(out, c, i, "Emit", m)
          BY Zenon, <2>9, <2>11 DEF At
      <4>3. Single(out, "Emit", m)
          BY Zenon, <3>2 DEF Fate
      <4>4. \/ EmitsOf(m, pr.outbuf, good) = 0
            \/ /\ EmitsOf(m, pr.outbuf, good) = 1
               /\ \E i \in 1..Len(pr.outbuf) : pr.outbuf[i].op = "Emit" /\ m \in pr.outbuf[i].v
        <5>1. \A i, j \in 1..Len(pr.outbuf) : pr.outbuf[i].op = "Emit" /\ m \in pr.outbuf[i].v
                                        /\ pr.outbuf[j].op = "Emit" /\ m \in pr.outbuf[j].v => i = j
            BY Zenon, <2>11, <4>1, <4>2, <4>3 DEF Single
        <5> QED BY Zenon, <2>2, <5>1, EmitsOnce
      <4>5. emitted'[m] = emitted[m] + EmitsOf(m, pr.outbuf, good)
          BY Zenon, <3>1
      <4>6. CASE EmitsOf(m, pr.outbuf, good) = 0
        <5>1. emitted'[m] = emitted[m]
            BY <3>2, <4>5, <4>6
        <5>2. Fate(m, in, out) /\ Traced(in, nin, "Deliver", m) /\ Traced(out, nout, "Emit", m)
            BY Zenon, <2>8, <2>13, <3>2
        <5> QED BY Zenon, <1>1, <5>1, <5>2 DEF Fate, Traced
      <4>7. CASE EmitsOf(m, pr.outbuf, good) = 1 /\ \E i \in 1..Len(pr.outbuf) : pr.outbuf[i].op = "Emit" /\ m \in pr.outbuf[i].v
        <5>1. PICK i \in Nat : At(out, c, i, "Emit", m)
            BY Zenon, <4>1, <4>2, <4>7
        <5>2. In(out, "Emit", m)
            BY Zenon, <2>11, <5>1 DEF In
        <5>3. handled[m] = 1 /\ emitted[m] = 0
            BY Zenon, <3>2, <5>2 DEF Fate
        <5>4. ~In(nout, "Emit", m)
            BY Zenon, <2>11, <2>12, <4>3, <5>1 DEF In, Single
        <5>5. emitted'[m] = 1 /\ handled'[m] = 1 /\ sent' = sent
            BY <1>1, <4>5, <4>7, <5>3
        <5>6. Single(nin, "Deliver", m) /\ Single(nout, "Emit", m) /\ (In(nin, "Deliver", m) => In(in, "Deliver", m))
            BY Zenon, <2>8, <2>13, <3>2 DEF Fate, Traced
        <5>7. ~In(nin, "Deliver", m) /\ m \in sent
            BY <3>2, <5>3, <5>6 DEF Fate
        <5> QED BY <5>4, <5>5, <5>6, <5>7 DEF Fate
      <4> QED BY Zenon, <4>4, <4>6, <4>7
    <3> QED BY Zenon, <2>5, <2>6, <3>3 DEF Fates, Fate
  <2> QED BY Zenon, <2>14, <2>15
<1> QED BY Zenon, <1>2, <1>3

LEMMA InitFates == Init => Fates
<1> SUFFICES ASSUME Init PROVE Fates
    OBVIOUS
<1>1. PICK in : in = Inward(queue, links, procs) /\ IsInward(in, queue, links, procs)
    BY Zenon, InwardAt
<1>2. PICK out : out = Outward(procs) /\ IsOutward(out, procs)
    BY Zenon, OutwardAt
<1>3. in[Bus] = <<>>
    BY <1>1 DEF Init, IsInward, Deliveries
<1>4. \A l \in Names : in[<<"outbox", l>>] = <<>>
    BY Zenon, <1>1 DEF Init, IsInward, OutboxOf
<1>5. \A p \in Pids : in[<<"inbuf", p>>] = <<>> /\ out[<<"todo", p>>] = <<>> /\ out[<<"outbuf", p>>] = <<>>
    BY Zenon, <1>1, <1>2 DEF Init, IsInward, IsOutward, NoProcess
<1>6. (\A x \in InPlaces : in[x] = <<>>) /\ \A x \in OutPlaces : out[x] = <<>>
  <2>1. ASSUME NEW x \in InPlaces PROVE in[x] = <<>>
    <3>1. x = Bus \/ (\E l \in Names : x = <<"outbox", l>>) \/ \E p \in Pids : x = <<"inbuf", p>>
        BY Zenon, PlacesCases
    <3> QED BY Zenon, <1>3, <1>4, <1>5, <3>1
  <2>2. ASSUME NEW x \in OutPlaces PROVE out[x] = <<>>
    <3>1. PICK p \in Pids : x = <<"todo", p>> \/ x = <<"outbuf", p>>
        BY Zenon, PlacesCases
    <3> QED BY Zenon, <1>5, <3>1
  <2> QED BY Zenon, <2>1, <2>2
<1>7. \A m \in Msgs, i \in Nat, x \in InPlaces : ~At(in, x, i, "Deliver", m)
    BY <1>6 DEF At
<1>8. \A m \in Msgs, i \in Nat, x \in OutPlaces : ~At(out, x, i, "Emit", m)
    BY <1>6 DEF At
<1>9. DOMAIN in = InPlaces /\ DOMAIN out = OutPlaces
    BY Zenon, <1>1, <1>2 DEF IsInward, IsOutward
<1>10. \A m \in Msgs : /\ Single(in, "Deliver", m) /\ ~In(in, "Deliver", m)
                       /\ Single(out, "Emit", m) /\ ~In(out, "Emit", m)
    BY Zenon, <1>7, <1>8, <1>9 DEF Single, In
<1>11. \A m \in Msgs : handled[m] = 0 /\ emitted[m] = 0
    BY Zenon DEF Init
<1>12. \A m \in Msgs : Fate(m, in, out)
    BY <1>10, <1>11 DEF Fate
<1> QED BY Zenon, <1>1, <1>2, <1>12 DEF Fates

LEMMA NextFates == ASSUME CountRule, Inv, Fates, [Next]_vars PROVE Fates'
<1>1. CASE HostStep
  <2>1. CASE step \/ pumped
      BY Zenon, <2>1, FatesUnmoved DEF step, pumped
  <2> QED BY Zenon, <1>1, <2>1, FlushFates, PollFates, SuperviseFates, ShipDeliverFates DEF HostStep
<1>2. CASE HostProgram
    BY Zenon, <1>2, MountFates, UnmountFates, SwapStateFates, SendFates DEF HostProgram
<1>3. CASE Child
    BY Zenon, <1>3, ChildReadFates, ChildWriteFates, ChildExitFates DEF Child
<1>4. CASE UNCHANGED vars
    BY Zenon, <1>4, FatesUnmoved DEF vars
<1> QED BY Zenon, <1>1, <1>2, <1>3, <1>4 DEF Next

-----------------------------------------------------------------------------
(* Snapshots.  The state of a child is never behind the host's snapshot, except
   that of a new child whose first frame, still on its way, is the snapshot. *)

(* What is on its way to the child of a link, in the order it will read it. *)
Coming(link, pr) == pr.inbuf \o link.channel.outbox

(* A child that has nothing left to revive from: every snapshot it has written
   or is about to write is covered by its state. *)
Settled(snapshot, line, pr) ==
    /\ snapshot \subseteq pr.state
    /\ \A i \in 1..Len(line) : line[i].op # "Revive"
    /\ \A i \in 1..Len(pr.outbuf) : pr.outbuf[i].op = "Snapshot" => pr.outbuf[i].v \subseteq pr.state
    /\ \A i \in 1..Len(pr.todo) : pr.todo[i].op = "Snapshot" => pr.todo[i].v = pr.state

(* A child that will revive before it does anything else. *)
Reviving(snapshot, line, pr) ==
    /\ pr.outbuf = <<>> /\ pr.todo = <<>>
    /\ line # <<>> /\ line[1].op = "Revive" /\ snapshot \subseteq line[1].v
    /\ \A i \in 2..Len(line) : line[i].op # "Revive"

Ahead(snapshot, line, pr) ==
    /\ \A i \in 1..Len(pr.outbuf) : pr.outbuf[i].op = "Snapshot" => snapshot \subseteq pr.outbuf[i].v
    /\ pr.st = "running" => Settled(snapshot, line, pr) \/ Reviving(snapshot, line, pr)

AheadOf(link, pr) == Ahead(link.snapshot, Coming(link, pr), pr)
Recall == \A l \in Names : HasChannel(l) => AheadOf(links[l], procs[links[l].pid])

(* The step of the snapshots: a link that stays mounted loses nothing. *)
NothingLost == \A l \in Names : Mounted(l) /\ links'[l] # Nothing => links[l].snapshot \subseteq links'[l].snapshot

(* Concatenation, and when two sequences are the same. *)
Joined(s, t, st, a, b) ==
    /\ st = s \o t /\ Len(st) = a + b
    /\ \A i \in 1..a : st[i] = s[i]
    /\ \A i \in 1..b : st[a + i] = t[i]

LEMMA Concatenated ==
    ASSUME NEW S, NEW s \in Seq(S), NEW t \in Seq(S), NEW a \in Nat, NEW b \in Nat, Len(s) = a, Len(t) = b
    PROVE  \E st \in Seq(S) : Joined(s, t, st, a, b)
<1>1. s \o t \in Seq(S) /\ Len(s \o t) = a + b
    OBVIOUS
<1>2. \A i \in 1..a : (s \o t)[i] = s[i]
    OBVIOUS
<1>3. \A i \in 1..b : (s \o t)[a + i] = t[i]
    OBVIOUS
<1> QED BY Zenon, <1>1, <1>2, <1>3 DEF Joined

LEMMA SameSequence ==
    ASSUME NEW S, NEW s \in Seq(S), NEW t \in Seq(S), NEW n \in Nat, Len(s) = n, Len(t) = n, \A i \in 1..n : s[i] = t[i]
    PROVE  s = t
OBVIOUS

(* Two pieces of a sequence, put behind another one. *)
Pieces(t, front, rest, n, b) ==
    /\ t \in Seq(Frame) /\ front \in Seq(Frame) /\ rest \in Seq(Frame)
    /\ Len(t) = n + b /\ Len(front) = n /\ Len(rest) = b
    /\ \A i \in 1..n : front[i] = t[i]
    /\ \A i \in 1..b : rest[i] = t[n + i]
SameLine(s, front, rest, t) == (s \o front) \o rest = s \o t

LEMMA Rejoined ==
    ASSUME NEW s \in Seq(Frame), NEW t, NEW front, NEW rest, NEW n \in Nat, NEW b \in Nat, Pieces(t, front, rest, n, b)
    PROVE  SameLine(s, front, rest, t)
<1>0. PICK a \in Nat : Len(s) = a
  <2>1. Len(s) \in Nat
      OBVIOUS
  <2> QED BY Zenon, <2>1
<1> USE DEF Pieces
<1>1. a + n \in Nat /\ n + b \in Nat /\ (a + n) + b = a + (n + b) /\ a + (n + b) \in Nat
    OBVIOUS
<1>2. PICK head \in Seq(Frame) : Joined(s, front, head, a, n)
    BY Zenon, <1>0, Concatenated
<1>3. PICK one \in Seq(Frame) : Joined(head, rest, one, a + n, b)
  <2>1. Len(head) = a + n
      BY Zenon, <1>2 DEF Joined
  <2> QED BY Zenon, <1>1, <2>1, Concatenated
<1>4. PICK two \in Seq(Frame) : Joined(s, t, two, a, n + b)
    BY Zenon, <1>0, <1>1, Concatenated
<1>5. \A i \in 1..(a + (n + b)) : one[i] = two[i]
  <2> SUFFICES ASSUME NEW i \in 1..(a + (n + b)) PROVE one[i] = two[i]
      BY Zenon
  <2>1. CASE i \in 1..a
    <3>1. i \in 1..(a + n)
        BY <2>1
    <3> QED BY Zenon, <1>2, <1>3, <1>4, <2>1, <3>1 DEF Joined
  <2>2. ASSUME NEW k \in 1..n, i = a + k PROVE one[i] = two[i]
    <3>1. a + k \in 1..(a + n) /\ k \in 1..(n + b)
        OBVIOUS
    <3>2. one[a + k] = head[a + k] /\ head[a + k] = front[k] /\ front[k] = t[k] /\ two[a + k] = t[k]
        BY Zenon, <1>2, <1>3, <1>4, <3>1 DEF Joined
    <3> QED BY Zenon, <2>2, <3>2
  <2>3. ASSUME NEW k \in 1..b, i = (a + n) + k PROVE one[i] = two[i]
    <3>1. n + k \in 1..(n + b) /\ (a + n) + k = a + (n + k)
        OBVIOUS
    <3>2. one[(a + n) + k] = rest[k] /\ rest[k] = t[n + k] /\ two[a + (n + k)] = t[n + k]
        BY Zenon, <1>3, <1>4, <3>1 DEF Joined
    <3> QED BY Zenon, <2>3, <3>1, <3>2
  <2>4. i \in 1..a \/ (\E k \in 1..n : i = a + k) \/ \E k \in 1..b : i = (a + n) + k
    <3>1. i \in 1..a \/ i - a \in 1..n \/ i - (a + n) \in 1..b
        OBVIOUS
    <3>2. i = a + (i - a) /\ i = (a + n) + (i - (a + n))
        OBVIOUS
    <3> QED BY Zenon, <3>1, <3>2
  <2> QED BY Zenon, <2>1, <2>2, <2>3, <2>4
<1>6. Len(one) = a + (n + b) /\ Len(two) = a + (n + b)
    BY Zenon, <1>1, <1>3, <1>4 DEF Joined
<1>7. one = two
    BY Zenon, <1>1, <1>5, <1>6, SameSequence
<1> QED BY Zenon, <1>2, <1>3, <1>4, <1>7 DEF Joined, SameLine

(* flush moves frames along the line and leaves the line as it is. *)
LEMMA FlushedLine ==
    ASSUME NEW outbox \in Seq(Frame), NEW inbuf \in Seq(Frame), Len(inbuf) <= SockBuf
    PROVE  SameLine(inbuf, Accepted(outbox, inbuf), Unsent(outbox, Accepted(outbox, inbuf)), outbox)
<1>1. PICK n \in Nat : n = (IF SockBuf - Len(inbuf) < Len(outbox) THEN SockBuf - Len(inbuf) ELSE Len(outbox))
                       /\ n <= Len(outbox)
    BY ConstantsAssumption
<1>2. PICK taken : taken = SubSeq(outbox, 1, n) /\ taken = Accepted(outbox, inbuf)
    BY Zenon, <1>1 DEF Accepted
<1>3. taken \in Seq(Frame) /\ Len(taken) = n
    BY <1>1, <1>2
<1>4. \A i \in 1..n : taken[i] = outbox[i]
    BY <1>1, <1>2
<1>5. PICK b \in Nat : Len(outbox) = n + b /\ Len(outbox) - n = b
  <2>1. Len(outbox) - n \in Nat /\ Len(outbox) = n + (Len(outbox) - n)
      BY <1>1
  <2> QED BY Zenon, <2>1
<1>6. PICK rest : rest = SubSeq(outbox, n + 1, n + b)
    BY Zenon
<1>7. rest \in Seq(Frame) /\ Len(rest) = b /\ \A i \in 1..b : rest[i] = outbox[n + i]
  <2>1. SubSeq(outbox, n + 1, n + b) \in Seq(Frame)
      BY <1>5
  <2>2. Len(SubSeq(outbox, n + 1, n + b)) = b
      BY <1>5
  <2>3. \A i \in 1..b : SubSeq(outbox, n + 1, n + b)[i] = outbox[n + i]
      BY <1>5
  <2> QED BY Zenon, <1>6, <2>1, <2>2, <2>3
<1>8. Pieces(outbox, taken, rest, n, b)
    BY Zenon, <1>3, <1>4, <1>5, <1>7 DEF Pieces
<1>9. SameLine(inbuf, taken, rest, outbox)
    BY Zenon, <1>8, Rejoined
<1>10. rest = Unsent(outbox, taken)
    BY Zenon, <1>3, <1>5, <1>6 DEF Unsent
<1> QED BY Zenon, <1>2, <1>9, <1>10

(* One more frame, not a Revive, joins the line. *)
LEMMA LongerLine ==
    ASSUME NEW inbuf \in Seq(Frame), NEW outbox \in Seq(Frame), NEW f \in Frame, f.op # "Revive",
           NEW snapshot, NEW pr, Ahead(snapshot, inbuf \o outbox, pr)
    PROVE  Ahead(snapshot, inbuf \o Append(outbox, f), pr)
<1>1. PICK line : line = inbuf \o outbox /\ line \in Seq(Frame)
  <2>1. inbuf \o outbox \in Seq(Frame)
      OBVIOUS
  <2> QED BY Zenon, <2>1
<1>2. PICK new : new = Append(line, f) /\ new \in Seq(Frame)
  <2>1. Append(line, f) \in Seq(Frame)
      BY <1>1
  <2> QED BY Zenon, <2>1
<1>3. inbuf \o Append(outbox, f) = new
    BY <1>1, <1>2
<1>4. Len(new) = Len(line) + 1 /\ new[Len(new)] = f /\ \A i \in 1..Len(line) : new[i] = line[i]
    BY <1>1, <1>2
<1>5. \A i \in 1..Len(new) : i \in 1..Len(line) \/ i = Len(new)
    BY <1>4
<1>6. Settled(snapshot, line, pr) => Settled(snapshot, new, pr)
    BY Zenon, <1>4, <1>5 DEF Settled
<1>7. Reviving(snapshot, line, pr) => Reviving(snapshot, new, pr)
  <2> SUFFICES ASSUME Reviving(snapshot, line, pr) PROVE Reviving(snapshot, new, pr)
      OBVIOUS
  <2>1. line # <<>> /\ line[1].op = "Revive" /\ snapshot \subseteq line[1].v /\ \A i \in 2..Len(line) : line[i].op # "Revive"
      BY Zenon DEF Reviving
  <2>2. new # <<>> /\ new[1] = line[1]
      BY <1>4, <2>1
  <2>3. \A i \in 2..Len(new) : new[i].op # "Revive"
    <3>1. \A i \in 2..Len(new) : (i \in 2..Len(line) /\ new[i] = line[i]) \/ new[i] = f
        BY <1>4
    <3> QED BY Zenon, <2>1, <3>1
  <2> QED BY Zenon, <2>1, <2>2, <2>3 DEF Reviving
<1> QED BY Zenon, <1>1, <1>3, <1>6, <1>7 DEF Ahead

(* The child reads the first frame of the line. *)
ReadOff(line, new, f) ==
    /\ line # <<>> /\ line[1] = f /\ Len(line) \in Nat \ {0}
    /\ \A i \in 1..Len(new) : i + 1 \in 2..Len(line) /\ new[i] = line[i + 1]

LEMMA ShorterLine ==
    ASSUME NEW inbuf \in Seq(Frame), NEW outbox \in Seq(Frame), inbuf # <<>>
    PROVE  ReadOff(inbuf \o outbox, Tail(inbuf) \o outbox, Head(inbuf))
BY DEF ReadOff

(* A step of one link and its child, seen by all. *)
LEMMA RecallKept ==
    ASSUME Inv, Recall, NEW l \in Names, \A k \in Names : k # l => links'[k] = links[k],
           \A p \in Pids : procs'[p] # procs[p] => p = PidOf(l) \/ procs[p].st = "none",
           HasChannel(l)' => AheadOf(links'[l], procs'[links'[l].pid]),
           Mounted(l) /\ links'[l] # Nothing => links[l].snapshot \subseteq links'[l].snapshot
    PROVE  Recall' /\ NothingLost
<1>1. ASSUME NEW k \in Names, HasChannel(k)', k # l PROVE AheadOf(links'[k], procs'[links'[k].pid])
  <2>1. HasChannel(k) /\ links'[k] = links[k]
      BY Zenon, <1>1 DEF HasChannel, Mounted
  <2>2. PICK p \in Pids : p = links[k].pid /\ procs[p].st # "none" /\ PidOf(k) = p
      BY Zenon, <2>1, ChildOfLink DEF PidOf
  <2>3. p # 0
      BY ConstantsAssumption DEF Pids
  <2>4. p # PidOf(l)
      BY Zenon, <1>1, <2>2, <2>3 DEF Inv, Attached
  <2>5. procs'[p] = procs[p]
      BY Zenon, <2>2, <2>4
  <2> QED BY Zenon, <2>1, <2>2, <2>5 DEF Recall
<1>2. Recall'
    BY Zenon, <1>1 DEF Recall
<1>3. NothingLost
    BY Zenon DEF NothingLost, Mounted
<1> QED BY Zenon, <1>2, <1>3

(* A step of a child, whatever its link has queued for it. *)
LEMMA RecallOfChild ==
    ASSUME Inv, Recall, NEW p \in Pids, procs[p].st = "running", NEW np, procs' = [procs EXCEPT ![p] = np], links' = links,
           \A outbox \in Seq(Frame), snapshot \in State :
              Ahead(snapshot, procs[p].inbuf \o outbox, procs[p]) => Ahead(snapshot, np.inbuf \o outbox, np)
    PROVE  Recall' /\ NothingLost
<1>1. PICK l \in Names : PidOf(l) = p
    BY Zenon DEF Inv, Attached
<1>2. procs'[p] = np /\ \A q \in Pids : q # p => procs'[q] = procs[q]
    BY Zenon DEF Inv, TypeOK
<1>3. ASSUME HasChannel(l)' PROVE AheadOf(links'[l], procs'[links'[l].pid])
  <2>1. HasChannel(l)
      BY Zenon, <1>3 DEF HasChannel, Mounted
  <2>2. PICK link \in Link, outbox \in Seq(Frame), snapshot \in State :
          link = links[l] /\ outbox = link.channel.outbox /\ snapshot = link.snapshot /\ link.pid = p
      BY Zenon, <1>1, <2>1, ChildOfLink DEF Link, Channel, PidOf
  <2>3. Ahead(snapshot, procs[p].inbuf \o outbox, procs[p])
      BY Zenon, <2>1, <2>2 DEF Recall, AheadOf, Coming
  <2>4. Ahead(snapshot, np.inbuf \o outbox, np)
      BY Zenon, <2>3
  <2> QED BY Zenon, <1>2, <2>2, <2>4 DEF AheadOf, Coming
<1> QED BY Zenon, <1>1, <1>2, <1>3, RecallKept

LEMMA RecallUnchanged == ASSUME Recall, UNCHANGED <<links, procs>> PROVE Recall' /\ NothingLost
<1>1. Recall'
    BY Zenon DEF Recall, HasChannel, Mounted
<1> QED BY Zenon, <1>1 DEF NothingLost

(* A child that ends writes nothing more. *)
LEMMA RecallExit == ASSUME Inv, Recall, NEW p \in Pids, child_exit(p) PROVE Recall' /\ NothingLost
<1>1. PICK np, pr : pr \in Process /\ pr = procs[p] /\ pr.st = "running" /\ np = Ended(pr) /\ procs' = [procs EXCEPT ![p] = np] /\ links' = links
    BY Zenon DEF Inv, TypeOK, child_exit
<1>2. np.st = "exited" /\ np.outbuf = pr.outbuf
    BY Zenon, <1>1 DEF Ended, Process
<1>3. \A outbox \in Seq(Frame), snapshot \in State :
        Ahead(snapshot, procs[p].inbuf \o outbox, procs[p]) => Ahead(snapshot, np.inbuf \o outbox, np)
    BY Zenon, <1>1, <1>2 DEF Ahead
<1> QED BY Zenon, <1>1, <1>3, RecallOfChild

(* A child that writes only writes what its state covers. *)
LEMMA RecallWrite == ASSUME Inv, Recall, NEW p \in Pids, child_write(p) PROVE Recall' /\ NothingLost
<1>1. PICK pr \in Process : pr = procs[p] /\ pr.st = "running" /\ pr.todo # <<>> /\ pr.todo \in Seq(Frame) /\ pr.outbuf \in Seq(Frame)
    BY Zenon DEF Inv, TypeOK, Process, child_write
<1>2. PICK np : np = [pr EXCEPT !.outbuf = Append(pr.outbuf, Head(pr.todo)), !.todo = Tail(pr.todo)]
    BY Zenon
<1>3. procs' = [procs EXCEPT ![p] = np] /\ links' = links
  <2>1. procs' = [procs EXCEPT ![p].outbuf = Append(@, Head(procs[p].todo)), ![p].todo = Tail(@)] /\ links' = links
      BY Zenon DEF child_write
  <2> QED BY Zenon, <1>1, <1>2, <2>1 DEF Inv, TypeOK, Process
<1>4. np.st = pr.st /\ np.inbuf = pr.inbuf /\ np.state = pr.state /\ np.outbuf = Append(pr.outbuf, Head(pr.todo)) /\ np.todo = Tail(pr.todo)
    BY Zenon, <1>2 DEF Process
<1>5. \A i \in 1..Len(np.outbuf) : np.outbuf[i] = pr.todo[1] \/ (i \in 1..Len(pr.outbuf) /\ np.outbuf[i] = pr.outbuf[i])
    BY <1>1, <1>4
<1>6. (\A i \in 1..Len(np.todo) : i + 1 \in 1..Len(pr.todo) /\ np.todo[i] = pr.todo[i + 1]) /\ 1 \in 1..Len(pr.todo)
    BY <1>1, <1>4
<1>7. ASSUME NEW outbox \in Seq(Frame), NEW snapshot \in State, Ahead(snapshot, pr.inbuf \o outbox, pr)
      PROVE  Ahead(snapshot, np.inbuf \o outbox, np)
  <2>1. Settled(snapshot, pr.inbuf \o outbox, pr)
      BY Zenon, <1>1, <1>7 DEF Ahead, Reviving
  <2>2. Settled(snapshot, np.inbuf \o outbox, np)
    <3>1. \A i \in 1..Len(np.outbuf) : np.outbuf[i].op = "Snapshot" => np.outbuf[i].v \subseteq np.state
        BY Zenon, <1>4, <1>5, <1>6, <2>1 DEF Settled
    <3>2. \A i \in 1..Len(np.todo) : np.todo[i].op = "Snapshot" => np.todo[i].v = np.state
        BY Zenon, <1>4, <1>6, <2>1 DEF Settled
    <3> QED BY Zenon, <1>4, <2>1, <3>1, <3>2 DEF Settled
  <2>3. \A i \in 1..Len(np.outbuf) : np.outbuf[i].op = "Snapshot" => snapshot \subseteq np.outbuf[i].v
      BY Zenon, <1>5, <1>6, <1>7, <2>1 DEF Ahead, Settled
  <2> QED BY Zenon, <2>2, <2>3 DEF Ahead
<1> QED BY Zenon, <1>1, <1>3, <1>7, RecallOfChild

(* A child that reads handles a delivery, and its state grows, or revives. *)
LEMMA RecallRead == ASSUME ~ReviveFails, Inv, Recall, NEW p \in Pids, child_read(p) PROVE Recall' /\ NothingLost
<1>1. PICK pr \in Process : /\ pr = procs[p] /\ pr.st = "running" /\ pr.inbuf # <<>> /\ pr.todo = <<>>
                            /\ pr.inbuf \in Seq(Frame) /\ pr.outbuf \in Seq(Frame)
    BY Zenon DEF Inv, TypeOK, Process, child_read
<1>2. PICK f \in Frame : f = Head(pr.inbuf)
    BY <1>1
<1>3. PICK state, todo :
        /\ procs' = [procs EXCEPT ![p].inbuf = Tail(@), ![p].state = state, ![p].todo = todo]
        /\ \/ f.op = "Deliver" /\ state = pr.state \cup f.v /\ todo = << [op |-> "Emit", v |-> f.v], [op |-> "Snapshot", v |-> state] >>
           \/ f.op = "Revive" /\ state = f.v /\ todo = << [op |-> "Snapshot", v |-> state] >>
    BY Zenon, <1>1, <1>2 DEF child_read
<1>4. \A i \in 1..Len(todo) : todo[i].op = "Snapshot" => todo[i].v = state
  <2>1. CASE todo = << [op |-> "Emit", v |-> f.v], [op |-> "Snapshot", v |-> state] >>
      BY <2>1
  <2>2. CASE todo = << [op |-> "Snapshot", v |-> state] >>
      BY <2>2
  <2> QED BY Zenon, <1>3, <2>1, <2>2
<1>5. PICK np : np = [pr EXCEPT !.inbuf = Tail(pr.inbuf), !.state = state, !.todo = todo]
    BY Zenon
<1>6. procs' = [procs EXCEPT ![p] = np] /\ links' = links
    BY Zenon, <1>1, <1>3, <1>5 DEF Inv, TypeOK, Process, child_read
<1>7. np.st = pr.st /\ np.inbuf = Tail(pr.inbuf) /\ np.state = state /\ np.outbuf = pr.outbuf /\ np.todo = todo
    BY Zenon, <1>5 DEF Process
<1>8. ASSUME NEW outbox \in Seq(Frame), NEW snapshot \in State, Ahead(snapshot, pr.inbuf \o outbox, pr)
      PROVE  Ahead(snapshot, np.inbuf \o outbox, np)
  <2>1. PICK line, new : line = pr.inbuf \o outbox /\ new = np.inbuf \o outbox
      BY Zenon
  <2>2. /\ line # <<>> /\ line[1] = f /\ 1 \in 1..Len(line)
        /\ \A i \in 1..Len(new) : i + 1 \in 1..Len(line) /\ i + 1 \in 2..Len(line) /\ new[i] = line[i + 1]
    <3>1. line # <<>> /\ line[1] = f /\ Len(line) \in Nat \ {0} /\ \A i \in 1..Len(new) : i + 1 \in 2..Len(line) /\ new[i] = line[i + 1]
      <4>1. new = Tail(pr.inbuf) \o outbox
          BY Zenon, <1>7, <2>1
      <4>2. ReadOff(line, new, f)
          BY Zenon, <1>1, <1>2, <2>1, <4>1, ShorterLine
      <4> QED BY Zenon, <4>2 DEF ReadOff
    <3>2. 1 \in 1..Len(line) /\ 2..Len(line) \subseteq 1..Len(line)
        BY <3>1
    <3> QED BY Zenon, <3>1, <3>2
  <2>3. snapshot \subseteq state /\ \A i \in 1..Len(pr.outbuf) : pr.outbuf[i].op = "Snapshot" => pr.outbuf[i].v \subseteq state
    <3>1. CASE f.op = "Deliver"
      <4>1. Settled(snapshot, line, pr)
          BY Zenon, <1>1, <1>8, <2>1, <2>2, <3>1 DEF Ahead, Reviving
      <4>2. pr.state \subseteq state
          BY Zenon, <1>3, <3>1
      <4> QED BY Zenon, <4>1, <4>2 DEF Settled
    <3>2. CASE f.op = "Revive"
      <4>1. Reviving(snapshot, line, pr)
          BY Zenon, <1>1, <1>8, <2>1, <2>2, <3>2 DEF Ahead, Settled
      <4>2. state = f.v
          BY Zenon, <1>3, <3>2
      <4>3. Len(pr.outbuf) = 0
          BY <4>1 DEF Reviving
      <4>4. \A i \in 1..Len(pr.outbuf) : FALSE
          BY <4>3
      <4> QED BY Zenon, <2>2, <4>1, <4>2, <4>4 DEF Reviving
    <3> QED BY Zenon, <1>3, <3>1, <3>2
  <2>4. \A i \in 1..Len(new) : new[i].op # "Revive"
      BY Zenon, <1>1, <1>8, <2>1, <2>2 DEF Ahead, Settled, Reviving
  <2>5. Settled(snapshot, new, np)
      BY Zenon, <1>4, <1>7, <2>3, <2>4 DEF Settled
  <2> QED BY Zenon, <1>7, <1>8, <2>1, <2>5 DEF Ahead
<1> QED BY Zenon, <1>1, <1>6, <1>8, RecallOfChild

(* A step of a link that keeps its child. *)
LEMMA RecallOfLink ==
    ASSUME Inv, Recall, NEW l \in Names, Mounted(l), NEW pid \in Pids, pid = links[l].pid, NEW new, NEW np,
           links' = [links EXCEPT ![l] = new], procs' = [procs EXCEPT ![pid] = np],
           new.pid = pid, AheadOf(new, np), links[l].snapshot \subseteq new.snapshot
    PROVE  Recall' /\ NothingLost
<1>1. links'[l] = new /\ \A k \in Names : k # l => links'[k] = links[k]
    BY Zenon DEF Inv, TypeOK
<1>2. procs'[pid] = np /\ \A p \in Pids : p # pid => procs'[p] = procs[p]
    BY Zenon DEF Inv, TypeOK
<1>3. PidOf(l) = pid
    BY Zenon DEF PidOf
<1>4. \A p \in Pids : procs'[p] # procs[p] => p = PidOf(l) \/ procs[p].st = "none"
    BY Zenon, <1>2, <1>3
<1>5. AheadOf(links'[l], procs'[links'[l].pid]) /\ links[l].snapshot \subseteq links'[l].snapshot
    BY Zenon, <1>1, <1>2
<1> QED BY Zenon, <1>1, <1>4, <1>5, RecallKept

(* flush moves frames of the line from the outbox to the child. *)
LEMMA RecallFlush == ASSUME Inv, Recall, NEW l \in Names, flush(l) PROVE Recall' /\ NothingLost
<1>1. CASE ~HasChannel(l) \/ links[l].channel.failed \/ links[l].channel.outbox = <<>>
    BY Zenon, <1>1, RecallUnchanged DEF flush
<1>2. CASE ~(~HasChannel(l) \/ links[l].channel.failed \/ links[l].channel.outbox = <<>>)
  <2>1. PICK pid \in Pids, pr \in Process, ch \in Channel, link \in Link :
          link = links[l] /\ ch = link.channel /\ pid = link.pid /\ pr = procs[pid] /\ Mounted(l) /\ PidOf(l) = pid
      BY Zenon, <1>2, ChildOfLink DEF PidOf
  <2>2. Ahead(link.snapshot, pr.inbuf \o ch.outbox, pr)
      BY Zenon, <1>2, <2>1 DEF Recall, AheadOf, Coming
  <2>3. ASSUME NEW c, NEW np, links' = [links EXCEPT ![l] = [link EXCEPT !.channel = c]], procs' = [procs EXCEPT ![pid] = np],
               Ahead(link.snapshot, np.inbuf \o c.outbox, np)
        PROVE  Recall' /\ NothingLost
    <3>1. PICK new : new = [link EXCEPT !.channel = c]
        BY Zenon
    <3>2. new.channel = c /\ new.snapshot = link.snapshot /\ new.pid = pid
        BY Zenon, <2>1, <3>1 DEF Link
    <3>3. AheadOf(new, np) /\ links[l].snapshot \subseteq new.snapshot
        BY Zenon, <2>1, <2>3, <3>2 DEF AheadOf, Coming
    <3> QED BY Zenon, <2>1, <2>3, <3>1, <3>2, <3>3, RecallOfLink
  <2>4. CASE pr.st = "exited"
    <3>1. PICK c : c = [ch EXCEPT !.failed = TRUE]
        BY Zenon
    <3>2. links' = [links EXCEPT ![l] = [link EXCEPT !.channel = c]] /\ procs' = [procs EXCEPT ![pid] = pr]
        BY Zenon, <1>2, <2>1, <2>4, <3>1 DEF flush, Inv, TypeOK, Link
    <3>3. c.outbox = ch.outbox
        BY Zenon, <3>1 DEF Channel
    <3> QED BY Zenon, <2>2, <2>3, <3>2, <3>3
  <2>5. CASE pr.st # "exited"
    <3>1. PICK taken, rest : taken = Accepted(ch.outbox, pr.inbuf) /\ rest = Unsent(ch.outbox, taken)
        BY Zenon
    <3>2. PICK c, np : c = [ch EXCEPT !.outbox = rest] /\ np = [pr EXCEPT !.inbuf = pr.inbuf \o taken]
        BY Zenon
    <3>3. links' = [links EXCEPT ![l] = [link EXCEPT !.channel = c]] /\ procs' = [procs EXCEPT ![pid] = np]
      <4>1. /\ links' = [links EXCEPT ![l].channel.outbox = rest]
            /\ procs' = [procs EXCEPT ![pid].inbuf = @ \o taken]
          BY Zenon, <1>2, <2>1, <2>5, <3>1 DEF flush
      <4> QED BY Zenon, <2>1, <3>2, <4>1 DEF Inv, TypeOK, Link, Process
    <3>4. c.outbox = rest /\ np.inbuf = pr.inbuf \o taken /\ np.st = pr.st /\ np.outbuf = pr.outbuf /\ np.state = pr.state /\ np.todo = pr.todo
        BY Zenon, <3>2 DEF Channel, Process
    <3>5. ch.outbox \in Seq(Frame) /\ pr.inbuf \in Seq(Frame) /\ Len(pr.inbuf) <= SockBuf
        BY Zenon, <2>1 DEF Inv, TypeOK, Channel, Process
    <3>6. np.inbuf \o c.outbox = pr.inbuf \o ch.outbox
      <4>1. SameLine(pr.inbuf, taken, rest, ch.outbox)
          BY Zenon, <3>1, <3>5, FlushedLine
      <4>2. (pr.inbuf \o taken) \o rest = pr.inbuf \o ch.outbox
          BY Zenon, <4>1 DEF SameLine
      <4> QED BY Zenon, <3>4, <4>2
    <3>7. Ahead(link.snapshot, np.inbuf \o c.outbox, np)
        BY Zenon, <2>2, <3>4, <3>6 DEF Ahead, Settled, Reviving
    <3> QED BY Zenon, <2>3, <3>3, <3>7
  <2> QED BY Zenon, <2>4, <2>5
<1> QED BY Zenon, <1>1, <1>2

(* What a snapshot is refreshed from. *)
RefreshedBy(snapshot, frames, new) ==
    new = snapshot \/ \E i \in 1..Len(frames) : frames[i].op = "Snapshot" /\ new = frames[i].v

LEMMA RefreshedFrom ==
    ASSUME NEW snapshot, NEW frames, NEW good
    PROVE  RefreshedBy(snapshot, frames, Refreshed(snapshot, frames, good))
BY Zenon DEF Refreshed, RefreshedBy

(* poll takes everything the child has written, and some of it is a snapshot. *)
LEMMA RecallPoll == ASSUME Inv, Recall, NEW l \in Names, poll(l) PROVE Recall' /\ NothingLost
<1>1. CASE ~HasChannel(l) \/ links[l].channel.failed
    BY Zenon, <1>1, RecallUnchanged DEF poll
<1>2. CASE ~(~HasChannel(l) \/ links[l].channel.failed)
  <2>1. PICK pid \in Pids, pr \in Process, ch \in Channel, link \in Link :
          link = links[l] /\ ch = link.channel /\ pid = link.pid /\ pr = procs[pid] /\ Mounted(l) /\ PidOf(l) = pid
      BY Zenon, <1>2, ChildOfLink DEF PidOf
  <2>2. Ahead(link.snapshot, pr.inbuf \o ch.outbox, pr)
      BY Zenon, <1>2, <2>1 DEF Recall, AheadOf, Coming
  <2>3. PICK np : np = [pr EXCEPT !.outbuf = <<>>]
      BY Zenon
  <2>4. procs' = [procs EXCEPT ![pid] = np]
    <3>1. procs' = [procs EXCEPT ![pid].outbuf = <<>>]
        BY Zenon, <1>2, <2>1 DEF poll
    <3> QED BY Zenon, <2>1, <2>3, <3>1 DEF Inv, TypeOK
  <2>5. np.st = pr.st /\ np.inbuf = pr.inbuf /\ np.state = pr.state /\ np.outbuf = <<>> /\ np.todo = pr.todo
      BY Zenon, <2>3 DEF Process
  <2>6. \A i \in 1..Len(np.outbuf) : FALSE
      BY <2>5
  <2>7. ASSUME NEW c, NEW snapshot, links' = [links EXCEPT ![l] = [link EXCEPT !.channel = c, !.snapshot = snapshot]],
               c.outbox = ch.outbox,
               RefreshedBy(link.snapshot, pr.outbuf, snapshot)
        PROVE  Recall' /\ NothingLost
    <3>1. PICK new : new = [link EXCEPT !.channel = c, !.snapshot = snapshot]
        BY Zenon
    <3>2. new.channel = c /\ new.snapshot = snapshot /\ new.pid = pid
        BY Zenon, <2>1, <3>1 DEF Link
    <3>3. Ahead(snapshot, pr.inbuf \o ch.outbox, np)
      <4>1. ASSUME Settled(link.snapshot, pr.inbuf \o ch.outbox, pr) PROVE Settled(snapshot, pr.inbuf \o ch.outbox, np)
          BY Zenon, <2>5, <2>6, <2>7, <4>1 DEF Settled, RefreshedBy
      <4>2. ASSUME Reviving(link.snapshot, pr.inbuf \o ch.outbox, pr) PROVE Reviving(snapshot, pr.inbuf \o ch.outbox, np)
        <5>1. pr.outbuf = np.outbuf
            BY Zenon, <2>5, <4>2 DEF Reviving
        <5>2. snapshot = link.snapshot
            BY Zenon, <2>6, <2>7, <5>1 DEF RefreshedBy
        <5> QED BY Zenon, <2>5, <4>2, <5>2 DEF Reviving
      <4> QED BY Zenon, <2>2, <2>5, <2>6, <4>1, <4>2 DEF Ahead
    <3>4. AheadOf(new, np)
        BY Zenon, <2>5, <2>7, <3>2, <3>3 DEF AheadOf, Coming
    <3>5. links[l].snapshot \subseteq new.snapshot
        BY Zenon, <2>1, <2>2, <2>7, <3>2 DEF Ahead, RefreshedBy
    <3> QED BY Zenon, <2>1, <2>4, <2>7, <3>1, <3>2, <3>4, <3>5, RecallOfLink
  <2>8. CASE pr.st = "exited" /\ pr.reset
    <3>1. PICK c : c = [ch EXCEPT !.failed = TRUE]
        BY Zenon
    <3>2. links' = [links EXCEPT ![l].channel.failed = TRUE]
        BY Zenon, <1>2, <2>1, <2>8 DEF poll
    <3>3. [link EXCEPT !.channel.failed = TRUE] = [link EXCEPT !.channel = c, !.snapshot = link.snapshot]
        BY Zenon, <2>1, <3>1 DEF Link
    <3>4. links' = [links EXCEPT ![l] = [link EXCEPT !.channel = c, !.snapshot = link.snapshot]]
        BY ZenonT(30), <2>1, <3>2, <3>3 DEF Inv, TypeOK
    <3>5. c.outbox = ch.outbox
        BY Zenon, <3>1 DEF Channel
    <3>6. RefreshedBy(link.snapshot, pr.outbuf, link.snapshot)
        BY Zenon DEF RefreshedBy
    <3> QED BY Zenon, <2>7, <3>4, <3>5, <3>6
  <2>9. CASE ~(pr.st = "exited" /\ pr.reset)
    <3>1. PICK good : links' = [links EXCEPT ![l].channel.eof = (pr.st = "exited"), ![l].snapshot = Refreshed(@, pr.outbuf, good)]
        BY <1>2, <2>1, <2>9 DEF poll
    <3>2. PICK snapshot : snapshot = Refreshed(link.snapshot, pr.outbuf, good)
        BY Zenon
    <3>3. PICK c : c = [ch EXCEPT !.eof = (pr.st = "exited")]
        BY Zenon
    <3>4. c.outbox = ch.outbox
        BY Zenon, <3>3 DEF Channel
    <3>5. links' = [links EXCEPT ![l] = [link EXCEPT !.channel = c, !.snapshot = snapshot]]
        BY Zenon, <2>1, <3>1, <3>2, <3>3 DEF Inv, TypeOK, Link
    <3>6. RefreshedBy(link.snapshot, pr.outbuf, snapshot)
        BY Zenon, <3>2, RefreshedFrom
    <3> QED BY Zenon, <2>7, <3>4, <3>5, <3>6
  <2> QED BY Zenon, <2>8, <2>9
<1> QED BY Zenon, <1>1, <1>2

(* A delivery joins the line. *)
LEMMA RecallShip == ASSUME Inv, Recall, ship_deliver PROVE Recall' /\ NothingLost
<1>1. procs' = procs /\ queue # <<>>
    BY Zenon DEF ship_deliver
<1>2. PICK d \in Delivery : d = Head(queue)
  <2>1. Head(queue) \in Delivery
      BY <1>1 DEF Inv, TypeOK
  <2> QED BY Zenon, <2>1
<1>3. PICK l \in Names : l = d.to /\ d.m \in Msgs
    BY Zenon DEF Delivery
<1>4. CASE ~(HasChannel(l) /\ d.mount = mounts[l] /\ links[l].alive)
    BY Zenon, <1>1, <1>2, <1>3, <1>4, RecallUnchanged DEF ship_deliver
<1>5. CASE HasChannel(l) /\ d.mount = mounts[l] /\ links[l].alive
  <2>1. PICK pid \in Pids, pr \in Process, ch \in Channel, link \in Link :
          link = links[l] /\ ch = link.channel /\ pid = link.pid /\ pr = procs[pid] /\ Mounted(l) /\ PidOf(l) = pid
      BY Zenon, <1>5, ChildOfLink DEF PidOf
  <2>2. Ahead(link.snapshot, pr.inbuf \o ch.outbox, pr)
      BY Zenon, <1>5, <2>1 DEF Recall, AheadOf, Coming
  <2>3. PICK f : f = [op |-> "Deliver", v |-> {d.m}]
      BY Zenon
  <2>4. f \in Frame /\ f.op # "Revive"
      BY Zenon, <1>3, <2>3 DEF Frame, State
  <2>5. PICK c, new : c = Channel_queue(ch, f) /\ new = [link EXCEPT !.channel = c]
      BY Zenon
  <2>6. links' = [links EXCEPT ![l] = new] /\ procs' = [procs EXCEPT ![pid] = pr]
    <3>1. links' = [links EXCEPT ![l].channel = Channel_queue(@, f)]
        BY Zenon, <1>2, <1>3, <1>5, <2>3 DEF ship_deliver
    <3> QED BY Zenon, <1>1, <2>1, <2>5, <3>1 DEF Inv, TypeOK
  <2>7. c.outbox = ch.outbox \/ c.outbox = Append(ch.outbox, f)
      BY Zenon, <2>5 DEF Channel_queue, Channel
  <2>8. ch.outbox \in Seq(Frame) /\ pr.inbuf \in Seq(Frame)
      BY Zenon DEF Channel, Process
  <2>9. Ahead(link.snapshot, pr.inbuf \o c.outbox, pr)
      BY Zenon, <2>2, <2>4, <2>7, <2>8, LongerLine
  <2>10. new.channel = c /\ new.snapshot = link.snapshot /\ new.pid = pid
      BY Zenon, <2>1, <2>5 DEF Link
  <2>11. AheadOf(new, pr) /\ links[l].snapshot \subseteq new.snapshot
      BY Zenon, <2>1, <2>9, <2>10 DEF AheadOf, Coming
  <2> QED BY Zenon, <2>1, <2>6, <2>10, <2>11, RecallOfLink
<1> QED BY Zenon, <1>4, <1>5

(* A child just started, that nothing or a Revive is waiting for. *)
LEMMA NewChild ==
    ASSUME NEW pr, pr = [NoProcess EXCEPT !.st = "running"], NEW snapshot \in State, NEW outbox,
           \/ outbox = <<>> /\ snapshot = {}
           \/ outbox = << [op |-> "Revive", v |-> snapshot] >>
    PROVE  Ahead(snapshot, pr.inbuf \o outbox, pr)
<1>1. pr.st = "running" /\ pr.state = {} /\ pr.inbuf = <<>> /\ pr.outbuf = <<>> /\ pr.todo = <<>>
    BY Zenon DEF NoProcess
<1>2. (\A i \in 1..Len(pr.outbuf) : FALSE) /\ (\A i \in 1..Len(pr.todo) : FALSE)
    BY <1>1
<1>3. CASE outbox = <<>> /\ snapshot = {}
  <2>1. \A i \in 1..Len(pr.inbuf \o outbox) : FALSE
      BY <1>1, <1>3
  <2>2. Settled(snapshot, pr.inbuf \o outbox, pr)
      BY Zenon, <1>1, <1>2, <1>3, <2>1 DEF Settled
  <2> QED BY Zenon, <1>2, <2>2 DEF Ahead
<1>4. CASE outbox = << [op |-> "Revive", v |-> snapshot] >>
  <2>1. PICK line : line = pr.inbuf \o outbox
      BY Zenon
  <2>2. [op |-> "Revive", v |-> snapshot] \in Frame
      BY Zenon DEF Frame
  <2>3. line = outbox
    <3>1. outbox \in Seq(Frame)
        BY <1>4, <2>2
    <3>2. <<>> \o outbox = outbox
        BY <3>1
    <3> QED BY Zenon, <1>1, <2>1, <3>2
  <2>4. line # <<>> /\ line[1] = [op |-> "Revive", v |-> snapshot] /\ Len(line) = 1
      BY Zenon, <1>4, <2>3
  <2>5. \A i \in 2..Len(line) : FALSE
      BY <2>4
  <2>6. line[1].op = "Revive" /\ line[1].v = snapshot
      BY <2>4
  <2>7. Reviving(snapshot, line, pr)
      BY Zenon, <1>1, <2>4, <2>5, <2>6 DEF Reviving
  <2> QED BY Zenon, <1>2, <2>1, <2>7 DEF Ahead
<1> QED BY Zenon, <1>3, <1>4

LEMMA RecallMount == ASSUME Inv, Recall, NEW l \in Names, mount(l) PROVE Recall' /\ NothingLost
<1>1. PICK pid \in Pids, outcome \in SpawnOutcomes, registered \in BOOLEAN :
        /\ Free(pid)
        /\ IF outcome = "hello" /\ registered
           THEN links' = [links EXCEPT ![l] = Spawned(NewLink, pid, outcome)] /\ procs' = Forked(procs, pid, outcome)
           ELSE links' = links /\ procs' = Reaped(Forked(procs, pid, outcome), Spawned(NewLink, pid, outcome).pid)
    BY Zenon DEF mount
<1>2. ~Mounted(l) /\ procs[pid].st = "none" /\ pid # 0
    BY <1>1, ConstantsAssumption DEF mount, Free, Pids
<1>3. PICK child : child = [NoProcess EXCEPT !.st = "running"]
    BY Zenon
<1>4. CASE outcome = "hello" /\ registered
  <2>1. PICK link : link = Spawned(NewLink, pid, outcome)
      BY Zenon
  <2>2. link.pid = pid /\ link.snapshot = {} /\ link.channel.outbox = <<>>
      BY Zenon, <1>4, <2>1 DEF Spawned, NewLink, OpenChannel
  <2>3. links'[l] = link /\ \A k \in Names : k # l => links'[k] = links[k]
      BY Zenon, <1>1, <1>4, <2>1 DEF Inv, TypeOK
  <2>4. procs'[pid] = child /\ \A p \in Pids : p # pid => procs'[p] = procs[p]
      BY Zenon, <1>1, <1>3, <1>4 DEF Forked, Inv, TypeOK
  <2>5. Ahead(link.snapshot, child.inbuf \o link.channel.outbox, child)
      BY Zenon, <1>3, <2>2, NewChild DEF State
  <2>6. AheadOf(links'[l], procs'[links'[l].pid])
      BY Zenon, <2>2, <2>3, <2>4, <2>5 DEF AheadOf, Coming
  <2>7. \A p \in Pids : procs'[p] # procs[p] => procs[p].st = "none"
      BY Zenon, <1>2, <2>4
  <2> QED BY Zenon, <1>2, <2>3, <2>6, <2>7, RecallKept
<1>5. CASE ~(outcome = "hello" /\ registered)
  <2>1. links' = links /\ procs' = Reaped(Forked(procs, pid, outcome), Spawned(NewLink, pid, outcome).pid)
      BY Zenon, <1>1, <1>5
  <2>2. \A p \in Pids : p # pid => procs'[p] = procs[p]
    <3>1. CASE outcome = "no_child"
        BY Zenon, <2>1, <3>1 DEF Forked, Reaped, Spawned, NewLink
    <3>2. CASE outcome # "no_child"
      <4>1. Spawned(NewLink, pid, outcome).pid = pid
          BY Zenon, <3>2 DEF Spawned, NewLink
      <4>2. procs' = [[procs EXCEPT ![pid] = child] EXCEPT ![pid] = NoProcess]
          BY Zenon, <1>2, <1>3, <2>1, <3>2, <4>1 DEF Forked, Reaped
      <4> QED BY Zenon, <4>2 DEF Inv, TypeOK
    <3> QED BY Zenon, <3>1, <3>2
  <2>3. \A p \in Pids : procs'[p] # procs[p] => procs[p].st = "none"
      BY Zenon, <1>2, <2>2
  <2>4. ~HasChannel(l)'
      BY Zenon, <1>2, <2>1 DEF HasChannel, Mounted
  <2> QED BY Zenon, <1>2, <2>1, <2>3, <2>4, RecallKept
<1> QED BY Zenon, <1>4, <1>5

LEMMA RecallUnmount == ASSUME Inv, Recall, NEW l \in Names, unmount(l) PROVE Recall' /\ NothingLost
<1>1. Mounted(l) /\ procs' = Reaped(procs, links[l].pid) /\ links' = [links EXCEPT ![l] = Nothing]
    BY Zenon DEF unmount
<1>2. PidOf(l) = links[l].pid /\ links[l].pid \in 0..MaxPids /\ Table(procs)
    BY Zenon, <1>1 DEF Inv, TypeOK, Mounted, Link, Table, PidOf
<1>3. \A p \in Pids : procs'[p] # procs[p] => p = PidOf(l)
    BY Zenon, <1>1, <1>2, ReapedTable
<1>4. links'[l] = Nothing /\ \A k \in Names : k # l => links'[k] = links[k]
    BY Zenon, <1>1 DEF Inv, TypeOK
<1>5. ~HasChannel(l)'
    BY Zenon, <1>4 DEF HasChannel, Mounted
<1> QED BY Zenon, <1>3, <1>4, <1>5, RecallKept

(* What the first child of a respawn finds, and what is left of the snapshot. *)
LEMMA RespawnedSnapshot ==
    ASSUME NEW link \in Link, link.channel = Nothing, NEW pid \in Pids, NEW outcome \in SpawnOutcomes, NEW state
    PROVE  /\ respawn_and_revive(link, pid, outcome, state).snapshot = link.snapshot
           /\ outcome = "hello" => respawn_and_revive(link, pid, outcome, state).channel.outbox = << [op |-> "Revive", v |-> state] >>
<1>1. PICK new : new = respawn_and_revive(link, pid, outcome, state)
    BY Zenon
<1>2. CASE outcome = "hello"
  <2>1. PICK f, ch : f = [op |-> "Revive", v |-> state] /\ ch = Channel_queue(OpenChannel, f)
      BY Zenon
  <2>2. ch.outbox = << f >>
    <3>1. ch.outbox = Append(<<>>, f)
        BY Zenon, <2>1 DEF Channel_queue, OpenChannel
    <3> QED BY <3>1
  <2>3. new = [link EXCEPT !.channel = ch, !.pid = pid, !.spawned = @ + 1]
      BY Zenon, <1>1, <1>2, <2>1 DEF respawn_and_revive, Spawned, Link
  <2>4. new.snapshot = link.snapshot /\ new.channel = ch
      BY Zenon, <2>3 DEF Link
  <2> QED BY Zenon, <1>1, <2>1, <2>2, <2>4
<1>3. CASE outcome \in {"no_hello", "no_child"}
  <2>1. new = [link EXCEPT !.channel = Nothing, !.pid = 0]
      BY Zenon, <1>1, <1>3 DEF respawn_and_revive, Spawned, TornDown, Link
  <2>2. new.snapshot = link.snapshot /\ outcome # "hello"
      BY Zenon, <1>3, <2>1 DEF Link
  <2> QED BY Zenon, <1>1, <2>2
<1> QED BY Zenon, <1>2, <1>3 DEF SpawnOutcomes

(* supervise keeps the snapshot of a Shard it gives up, and revives the child
   it starts for another from it. *)
LEMMA RecallSupervise == ASSUME Inv, Recall, NEW l \in Names, supervise(l) PROVE Recall' /\ NothingLost
<1>1. CASE UNCHANGED <<links, procs>>
    BY Zenon, <1>1, RecallUnchanged
<1>2. CASE ~UNCHANGED <<links, procs>>
  <2>1. PICK link : link = Signalled(links[l])
      BY Zenon
  <2>2. ~Skipped(l) /\ recover(l, link)
      BY Zenon, <1>2, <2>1 DEF supervise
  <2>3. Mounted(l) /\ links[l] \in Link
      BY Zenon, <2>2 DEF Skipped, Inv, TypeOK, Mounted
  <2>4. link \in Link /\ link.pid = links[l].pid /\ link.snapshot = links[l].snapshot
    <3>1. link.snapshot = links[l].snapshot
        BY Zenon, <2>1, <2>3 DEF Signalled, Link
    <3> QED BY Zenon, <2>1, <2>3, <3>1, SignalledLink
  <2>5. PICK torn \in Link : torn = TornDown(link) /\ torn.channel = Nothing /\ torn.pid = 0 /\ torn.snapshot = link.snapshot
      BY Zenon, <2>4, TornType
  <2>6. PICK old \in 0..MaxPids : old = link.pid /\ PidOf(l) = old
      BY Zenon, <2>3, <2>4 DEF PidOf, Link
  <2>7. PICK ps : ps = Reaped(procs, link.pid)
      BY Zenon
  <2>8. Table(ps) /\ \A p \in Pids : ps[p] = IF p = old THEN NoProcess ELSE procs[p]
    <3>1. Table(procs)
        BY Zenon DEF Inv, TypeOK, Table
    <3> QED BY <2>6, <2>7, <3>1, ReapedTable
  <2>9. ASSUME NEW new, links' = [links EXCEPT ![l] = new]
        PROVE  links'[l] = new /\ \A k \in Names : k # l => links'[k] = links[k]
      BY Zenon, <2>9 DEF Inv, TypeOK
  <2>10. CASE link.reloads_used >= MaxReloads
    <3>1. PICK new : new = Quarantined(torn)
        BY Zenon
    <3>2. new.channel = Nothing /\ new.snapshot = links[l].snapshot
        BY Zenon, <2>4, <2>5, <3>1 DEF Quarantined, Link
    <3>3. links' = [links EXCEPT ![l] = new] /\ procs' = ps
        BY Zenon, <2>2, <2>5, <2>7, <2>10, <3>1 DEF recover
    <3>4. links'[l] = new /\ \A k \in Names : k # l => links'[k] = links[k]
        BY Zenon, <2>9, <3>3
    <3>5. ~HasChannel(l)' /\ links[l].snapshot \subseteq links'[l].snapshot
        BY Zenon, <3>2, <3>4 DEF HasChannel
    <3>6. \A p \in Pids : procs'[p] # procs[p] => p = PidOf(l)
        BY Zenon, <2>6, <2>8, <3>3
    <3> QED BY Zenon, <3>4, <3>5, <3>6, RecallKept
  <2>11. CASE ~(link.reloads_used >= MaxReloads)
    <3>1. PICK pid \in Pids, outcome \in RespawnOutcomes :
            ps[pid].st = "none" /\ links' = [links EXCEPT ![l] = Reloaded(torn, pid, outcome)] /\ procs' = Respawned(ps, pid, outcome)
        BY Zenon, <2>2, <2>5, <2>7, <2>11 DEF recover
    <3>2. outcome \in SpawnOutcomes
        BY Zenon, RespawnKinds
    <3>3. PICK rev : rev = respawn_and_revive(torn, pid, outcome, torn.snapshot)
        BY Zenon
    <3>4. /\ Revived(torn, rev, pid, outcome) /\ rev.snapshot = torn.snapshot
          /\ outcome = "hello" => rev.channel.outbox = << [op |-> "Revive", v |-> torn.snapshot] >>
      <4>1. torn.snapshot \in State
          BY Zenon DEF Link
      <4>2. Revived(torn, rev, pid, outcome)
          BY Zenon, <2>5, <3>2, <3>3, <4>1, RespawnedLink
      <4>3. rev.snapshot = torn.snapshot /\ (outcome = "hello" => rev.channel.outbox = << [op |-> "Revive", v |-> torn.snapshot] >>)
          BY <2>5, <3>2, <3>3, RespawnedSnapshot
      <4> QED BY Zenon, <4>2, <4>3
    <3>5. PICK new : new = Reloaded(torn, pid, outcome)
        BY Zenon
    <3>6. new.channel = rev.channel /\ new.pid = rev.pid /\ new.snapshot = rev.snapshot
      <4>1. PICK up : up = [rev EXCEPT !.alive = TRUE, !.reloads_used = @ + 1]
          BY Zenon
      <4>2. rev \in Link
          BY Zenon, <3>4 DEF Revived
      <4>3. up.channel = rev.channel /\ up.pid = rev.pid /\ up.snapshot = rev.snapshot
          BY Zenon, <4>1, <4>2 DEF Link
      <4>4. \/ new = [up EXCEPT !.dead = FALSE, !.death_signaled = FALSE]
            \/ new = [up EXCEPT !.dead = TRUE, !.quarantined = TRUE]
          BY Zenon, <3>3, <3>5, <4>1 DEF Reloaded
      <4>5. DOMAIN up = DOMAIN rev
          BY Zenon, <4>1
      <4> QED BY Zenon, <4>2, <4>3, <4>4, <4>5 DEF Link
    <3>7. links'[l] = new /\ \A k \in Names : k # l => links'[k] = links[k]
        BY Zenon, <2>9, <3>1, <3>5
    <3>8. \A p \in Pids : procs'[p] # procs[p] => p = PidOf(l) \/ procs[p].st = "none"
      <4>1. \A p \in Pids : p # pid => procs'[p] = ps[p]
          BY <2>8, <3>1, <3>2, RespawnedTable
      <4> QED BY Zenon, <2>6, <2>8, <3>1, <4>1
    <3>9. links[l].snapshot \subseteq links'[l].snapshot
        BY Zenon, <2>4, <2>5, <3>4, <3>6, <3>7
    <3>10. ASSUME HasChannel(l)' PROVE AheadOf(links'[l], procs'[links'[l].pid])
      <4>1. outcome = "hello" /\ new.pid = pid
          BY Zenon, <3>4, <3>6, <3>7, <3>10 DEF Revived, HasChannel
      <4>2. PICK child : child = [NoProcess EXCEPT !.st = "running"]
          BY Zenon
      <4>3. procs'[pid] = child
          BY Zenon, <2>8, <3>1, <4>1, <4>2 DEF Respawned, Forked, Table
      <4>4. new.snapshot \in State /\ new.channel.outbox = << [op |-> "Revive", v |-> new.snapshot] >>
          BY Zenon, <3>4, <3>6, <4>1 DEF Link
      <4>5. Ahead(new.snapshot, child.inbuf \o new.channel.outbox, child)
          BY Zenon, <4>2, <4>4, NewChild
      <4> QED BY Zenon, <3>7, <4>1, <4>3, <4>5 DEF AheadOf, Coming
    <3> QED BY Zenon, <3>7, <3>8, <3>9, <3>10, RecallKept
  <2> QED BY Zenon, <2>10, <2>11
<1> QED BY Zenon, <1>1, <1>2

LEMMA RecallNext == ASSUME ~HostSwaps, ~ReviveFails, Inv, Recall, [Next]_vars PROVE Recall' /\ NothingLost
<1>1. CASE HostStep
  <2>1. CASE step \/ pumped
      BY Zenon, <2>1, RecallUnchanged DEF step, pumped
  <2> QED BY Zenon, <1>1, <2>1, RecallFlush, RecallPoll, RecallSupervise, RecallShip DEF HostStep
<1>2. CASE HostProgram
  <2>1. ASSUME NEW l \in Names, NEW m \in Msgs, send(l, m) PROVE Recall' /\ NothingLost
      BY Zenon, <2>1, RecallUnchanged DEF send
  <2> QED BY Zenon, <1>2, <2>1, RecallMount, RecallUnmount DEF HostProgram, swap_state
<1>3. CASE Child
    BY Zenon, <1>3, RecallRead, RecallWrite, RecallExit DEF Child
<1>4. CASE UNCHANGED vars
    BY Zenon, <1>4, RecallUnchanged DEF vars
<1> QED BY Zenon, <1>1, <1>2, <1>3, <1>4 DEF Next

-----------------------------------------------------------------------------
(* Theorems. *)

INSTANCE FiniteSetTheorems

LEMMA CountRuleHolds == CountRule
<1>1. Cardinality({}) = 0 /\ \A x : Cardinality({x}) = 1
    BY Zenon, FS_EmptySet, FS_Singleton
<1>2. ASSUME NEW n \in Nat, NEW S \in SUBSET (1..n) PROVE Cardinality(S) \in Nat
  <2>1. IsFiniteSet(1..n)
      BY FS_Interval
  <2>2. IsFiniteSet(S)
      BY Zenon, <2>1, FS_Subset
  <2> QED BY Zenon, <2>2, FS_CardinalityType
<1> QED BY Zenon, <1>1, <1>2 DEF CountRule

(* The inductive invariant. *)
THEOREM Invariant == Spec => []Inv
<1>1. Inv /\ [Next]_vars => Inv'
    BY Zenon, NextInv, CountRuleHolds
<1> QED BY <1>1, InitInv, PTL DEF Spec

(* Links, processes, outboxes and sockets are well formed and the sockets
   within their limits, in every state of the host and its children. *)
THEOREM TypeCorrect == Spec => []TypeOK
<1>1. Inv => TypeOK
    BY Zenon DEF Inv
<1> QED BY <1>1, Invariant, PTL

(* teardown_child is reached on every path that drops a child: whatever is
   mounted, unmounted, swapped, killed, respawned or refused, a process that
   exists is the child of exactly one link that has a channel to it. *)
THEOREM NoOrphansCorrect == Spec => []NoOrphans
<1>1. Inv => NoOrphans
  <2> SUFFICES ASSUME Inv, NEW p \in Pids, procs[p].st # "none"
               PROVE  /\ \E l \in Names : HasChannel(l) /\ links[l].pid = p
                      /\ \A l, k \in Names : Mounted(l) /\ Mounted(k) /\ links[l].pid = p /\ links[k].pid = p => l = k
      BY Zenon DEF NoOrphans
  <2>1. p # 0
      BY ConstantsAssumption DEF Pids
  <2>2. PICK l \in Names : PidOf(l) = p
      BY Zenon DEF Inv, Attached
  <2>3. HasChannel(l) /\ links[l].pid = p
      BY Zenon, <2>1, <2>2 DEF Inv, Paired, PidOf, HasChannel
  <2>4. \A i, k \in Names : Mounted(i) /\ Mounted(k) /\ links[i].pid = p /\ links[k].pid = p => i = k
      BY Zenon, <2>1 DEF Inv, Attached, PidOf
  <2> QED BY Zenon, <2>3, <2>4
<1> QED BY <1>1, Invariant, PTL

(* A host that leaves recovery to step() announces every death exactly once:
   the Died events of a link are its handshakes, less the child it still has. *)
THEOREM DiedCorrect == ~HostSwaps => (Spec => []DiedOncePerDeath)
<1> SUFFICES ASSUME ~HostSwaps PROVE Spec => []DiedOncePerDeath
    BY Zenon
<1>1. Inv => DiedOncePerDeath
    BY Zenon DEF Inv, Deaths, Accounted, DiedOncePerDeath, HasChannel
<1> QED BY <1>1, Invariant, PTL

(* Recovery never replays, for any number of children, deaths, respawns and
   swaps: a message on its way to a child is in one place only, leaves it
   when it is handled or dies with the process that holds it, and the same
   holds for its output on the way back. *)
THEOREM AtMostOnceCorrect == Spec => []AtMostOnce
<1>1. Fates => AtMostOnce
    BY Zenon DEF Fates, Fate, AtMostOnce
<1>2. Spec => []Fates
  <2>1. Inv /\ Fates /\ [Next]_vars => Fates'
      BY Zenon, NextFates, CountRuleHolds
  <2> QED BY <2>1, Invariant, InitFates, PTL DEF Spec
<1> QED BY <1>1, <1>2, PTL

(* Recovery never costs a Shard a message its snapshot already contains.  For a
   host that leaves recovery to step() and a Shard whose revive succeeds: a
   respawned child is sent the snapshot before anything else, and it writes no
   snapshot of its own before it has revived, so what handle_child_frame stores
   always covers what was stored before, whatever dies and whenever. *)
THEOREM SnapshotCorrect == ASSUME ~HostSwaps, ~ReviveFails PROVE Spec => SnapshotNeverRegresses
<1>1. Init => Recall
    BY Zenon DEF Init, Recall, HasChannel, Mounted
<1>2. Inv /\ Recall /\ [Next]_vars => Recall' /\ NothingLost
    BY Zenon, RecallNext
<1>3. NothingLost => [\A l \in Names : Mounted(l) /\ links'[l] # Nothing => links[l].snapshot \subseteq links'[l].snapshot]_vars
    BY Zenon DEF NothingLost
<1> QED BY <1>1, <1>2, <1>3, Invariant, PTL DEF Spec, SnapshotNeverRegresses
=============================================================================
