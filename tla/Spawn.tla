------------------------------- MODULE Spawn -------------------------------
(***************************************************************************)
(* Starting a contained child (IsolationHost::mount, spawn_and_handshake    *)
(* and teardown_child in src/isolation/host.cpp; src/isolation/sandbox.cpp).*)
(* The host probes what it can enforce, resolves each capability a grant    *)
(* withholds, forks, and the two processes take turns over a pair of pipes: *)
(* the child unshares and signals, the host maps its ids, moves it into its *)
(* cgroup leaf and releases it, the child builds its view and executes.     *)
(*                                                                         *)
(* One link is modelled.  Descriptors are modelled one by one, because who   *)
(* holds which end of a pipe decides whether a read ever returns.            *)
(***************************************************************************)
EXTENDS Integers, Sequences, FiniteSets, FiniteSetsExt, MountView

CONSTANTS
    Grants,        \* the grants the host program mounts with
    InitialFds,    \* the sets of descriptors the host may have open at the start
    MaxFd,         \* bound on descriptors
    MaxSpawns,     \* bound on children started for one mount
    MaxMounts,     \* bound on mounts
    SoElsewhere    \* the library is not below the executable's directory

Grant == [Network : BOOLEAN, level : FsAccess, scoped : BOOLEAN, unlimited : BOOLEAN]
Caps == {"Network", "Filesystem", "Resources"}
Fds == 0..MaxFd
kChildFd == 3

ASSUME ConstantsAssumption ==
    /\ Grants \subseteq Grant
    /\ MaxFd \in Nat /\ MaxFd >= kChildFd
    /\ InitialFds \subseteq SUBSET Fds
    /\ MaxSpawns \in Nat \ {0} /\ MaxMounts \in Nat
    /\ SoElsewhere \in BOOLEAN

Sockets == {"sock_p", "sock_c"}                   \* sv[0] and sv[1]
Pipes == {"c2p_r", "c2p_w", "p2c_r", "p2c_w"}     \* sync_c2p and sync_p2c
Closed == [file |-> "none", cloexec |-> FALSE]
Entry == [file : {"none", "host", "lost"} \cup Sockets \cup Pipes, cloexec : BOOLEAN]

VARIABLES
    enforceable,  \* enforcement_: what detection found enforceable
    dev_mode,     \* dev_mode_
    job,          \* what is going on: a probe of a capability, a mount, a respawn
    at,           \* where the host is
    prepared,     \* the local variable of that name
    link,         \* the Link
    child,        \* the child process
    hfd, cfd,     \* descriptors of the host and of the child
    c2p, p2c,     \* bytes in the pipes
    sock,         \* the frame on its way to the host
    root,         \* view-root directories: the link's own, and one nobody remembers
    leaf,         \* the cgroup leaf
    mounts        \* how many mounts have been made

sandbox == <<root, leaf>>
pipes == <<c2p, p2c>>
vars == <<enforceable, dev_mode, job, at, prepared, link, child, hfd, cfd, pipes, sock, sandbox, mounts>>

NoLink == [grant |-> [Network |-> FALSE, level |-> "None", scoped |-> FALSE, unlimited |-> FALSE],
           dev |-> FALSE, res |-> [c \in Caps |-> "none"], confirmed |-> {}, pid |-> FALSE,
           mounted |-> FALSE, spawns |-> 0]
NoChild == [st |-> "none", ns |-> {}, mapped |-> FALSE, view |-> HostView, in_leaf |-> FALSE,
            exit0 |-> FALSE, killed |-> FALSE]
Live == child.st \in {"forked", "signalled", "released", "running"}

(* A file is open somewhere. *)
Open(file) == \E d \in Fds : hfd[d].file = file \/ (Live /\ cfd[d].file = file)

Free(t) == {d \in Fds : t[d].file = "none"}
Opened(t, file, cloexec) == [t EXCEPT ![Min(Free(t))] = [file |-> file, cloexec |-> cloexec]]
Without(t, files) == [d \in Fds |-> IF t[d].file \in files THEN Closed ELSE t[d]]
NoFds == [d \in Fds |-> Closed]
With_pipes(t) == Opened(Opened(Opened(Opened(t, "c2p_r", FALSE), "c2p_w", FALSE), "p2c_r", FALSE), "p2c_w", FALSE)

Probing == job \in Caps

(* What the child is to be contained in. *)
Sandboxed == IF Probing THEN {job} ELSE {c \in Caps : link.res[c] = "Enforced"}
needs_userns == Sandboxed \cap {"Network", "Filesystem"} # {}

Init ==
    /\ enforceable = {}
    /\ dev_mode = FALSE
    /\ job = "Network"
    /\ at = "probe"
    /\ prepared = FALSE
    /\ link = NoLink
    /\ child = NoChild
    /\ \E S \in InitialFds :
        hfd = [d \in Fds |-> IF d \in S THEN [file |-> "host", cloexec |-> FALSE] ELSE Closed]
    /\ cfd = NoFds
    /\ c2p = 0
    /\ p2c = 0
    /\ sock = "none"
    /\ root = {}
    /\ leaf = "none"
    /\ mounts = 0

-----------------------------------------------------------------------------
(* Detection: one throwaway child for each namespace, through the same
   handshake as a real one. *)

Next_probe(found) ==
    /\ enforceable' = enforceable \cup found
    /\ job' = CASE job = "Network" -> "Filesystem" [] job = "Filesystem" -> "Resources"
                [] job = "Resources" -> "none"
    /\ at' = IF job = "Resources" THEN "idle" ELSE "probe"

probe_isolation ==
    /\ at = "probe"
    /\ job # "Resources"
    /\ \/ Next_probe({}) /\ UNCHANGED <<child, hfd, cfd, pipes>>     \* no directory, pipe or process
       \/ /\ Cardinality(Free(hfd)) >= 4
          /\ child' = [NoChild EXCEPT !.st = "forked"]
          /\ cfd' = Without(With_pipes(hfd), {"c2p_r", "p2c_w"})
          /\ hfd' = Without(With_pipes(hfd), {"c2p_w", "p2c_r"})
          /\ c2p' = 0 /\ p2c' = 0
          /\ at' = "await_signal"
          /\ UNCHANGED <<enforceable, job>>
    /\ UNCHANGED <<dev_mode, prepared, link, sock, sandbox, mounts>>

probe_passed == prepared /\ child.exit0

(* waitpid without a timeout. *)
probe_end ==
    /\ at = "probe_wait"
    /\ child.st = "zombie"
    /\ Next_probe(IF probe_passed THEN {job} ELSE {})
    /\ child' = NoChild
    /\ UNCHANGED <<dev_mode, prepared, link, hfd, cfd, pipes, sock, sandbox, mounts>>

(* Establishing the cgroup base is the probe of Resources. *)
cgroup_base ==
    /\ at = "probe"
    /\ job = "Resources"
    /\ Next_probe({}) \/ Next_probe({"Resources"})
    /\ UNCHANGED <<dev_mode, prepared, link, child, hfd, cfd, pipes, sock, sandbox, mounts>>

-----------------------------------------------------------------------------
(* The operations of the host. *)

set_dev_mode ==
    /\ at = "idle"
    /\ dev_mode' = ~dev_mode
    /\ UNCHANGED <<enforceable, job, at, prepared, link, child, hfd, cfd, pipes, sock, sandbox, mounts>>

Granted(g, c) ==
    CASE c = "Network" -> g.Network
      [] c = "Filesystem" -> g.level = "WriteAnywhere"
      [] c = "Resources" -> g.unlimited

resolution(g, c) ==
    IF Granted(g, c) THEN "Granted"
    ELSE IF c \in enforceable THEN "Enforced"
    ELSE IF dev_mode THEN "Uncontained" ELSE "Refused"

refused(res) == \E c \in Caps : res[c] = "Refused"

(* The capabilities are resolved in order, and the view root is made in passing:
   it stays behind, under a name nobody remembers, if Resources are refused. *)
mount(g) ==
    /\ at = "idle"
    /\ link = NoLink
    /\ mounts < MaxMounts
    /\ mounts' = mounts + 1
    /\ LET res == [c \in Caps |-> resolution(g, c)]
           makes_root == res["Network"] # "Refused" /\ res["Filesystem"] = "Enforced"
       IN  \/ /\ makes_root                      \* mkdtemp fails
              /\ UNCHANGED <<job, at, link, root>>
           \/ /\ refused(res)
              /\ root' = IF makes_root THEN root \cup {"forgotten"} ELSE root
              /\ UNCHANGED <<job, at, link>>
           \/ /\ ~refused(res)
              /\ link' = [NoLink EXCEPT !.grant = g, !.dev = dev_mode, !.res = res]
              /\ root' = IF makes_root THEN root \cup {"own"} ELSE root
              /\ job' = "mount"
              /\ at' = "spawn"
    /\ UNCHANGED <<enforceable, dev_mode, prepared, child, hfd, cfd, pipes, sock, leaf>>

(* teardown_child: the channel is closed, the child told to stop, waited for,
   killed if need be and reaped, its view root and its leaf removed. *)
teardown_child ==
    /\ child' = IF link.pid THEN NoChild ELSE child
    /\ cfd' = IF link.pid THEN NoFds ELSE cfd
    /\ hfd' = Without(hfd, {"sock_p"})
    /\ sock' = "none"
    /\ root' = root \ {"own"}
    /\ leaf' = "none"

(* recover(), or swap_state on a live child: respawn_and_revive. *)
respawn ==
    /\ at = "idle"
    /\ link.mounted
    /\ link.spawns < MaxSpawns
    /\ teardown_child
    /\ link' = [link EXCEPT !.pid = FALSE]
    /\ job' = "respawn"
    /\ at' = "spawn"
    /\ UNCHANGED <<enforceable, dev_mode, prepared, pipes, mounts>>

(* recover() when the reload budget is spent. *)
quarantine ==
    /\ at = "idle"
    /\ link.mounted
    /\ teardown_child
    /\ link' = [link EXCEPT !.pid = FALSE]
    /\ UNCHANGED <<enforceable, dev_mode, job, at, prepared, pipes, mounts>>

unmount ==
    /\ at = "idle"
    /\ link.mounted
    /\ teardown_child
    /\ link' = NoLink
    /\ UNCHANGED <<enforceable, dev_mode, job, at, prepared, pipes, mounts>>

(* After a failed spawn the caller tears down; a failed mount keeps no link. *)
teardown ==
    /\ at = "teardown"
    /\ teardown_child
    /\ link' = IF job = "mount" THEN NoLink ELSE [link EXCEPT !.pid = FALSE]
    /\ job' = "none"
    /\ at' = "idle"
    /\ UNCHANGED <<enforceable, dev_mode, prepared, pipes, mounts>>

-----------------------------------------------------------------------------
(* spawn_and_handshake, the host's side. *)

Failed(to, files) ==
    /\ hfd' = Without(hfd, files)
    /\ at' = to

(* cgroup_create_leaf writes the limits through a stream whose failures show
   only after it has answered: it may answer yes to a leaf without limits. *)
cgroup_create_leaf(answer) ==
    leaf' \in IF answer THEN {"made", "limited"} ELSE {"none", "made"}

(* socketpair, the view root, the leaf. *)
open_socket ==
    /\ at = "spawn"
    /\ \/ at' = "teardown" /\ UNCHANGED <<hfd, sandbox>>
       \/ /\ Cardinality(Free(hfd)) >= 2
          /\ root' = IF "Filesystem" \in Sandboxed THEN root \cup {"own"} ELSE root
          /\ \/ /\ "Resources" \in Sandboxed
                /\ cgroup_create_leaf(FALSE)
                /\ at' = "teardown"
                /\ UNCHANGED hfd
             \/ /\ IF "Resources" \in Sandboxed THEN cgroup_create_leaf(TRUE) ELSE UNCHANGED leaf
                /\ hfd' = Opened(Opened(hfd, "sock_p", TRUE), "sock_c", FALSE)
                /\ at' = IF Sandboxed = {} THEN "posix_spawn" ELSE "fork"
    /\ UNCHANGED <<enforceable, dev_mode, job, prepared, link, child, cfd, pipes, sock, mounts>>

(* Mutant: the host keeps the child's ends of the pipes. *)
childs_ends_kept == {}
childs_ends == {"c2p_w", "p2c_r"}

(* The first pipe stays open when the second cannot be made. *)
fork ==
    /\ at = "fork"
    /\ \/ Failed("teardown", Sockets) /\ UNCHANGED <<link, child, cfd, pipes>>
       \/ /\ Cardinality(Free(hfd)) >= 2
          /\ hfd' = Without(Opened(Opened(hfd, "lost", FALSE), "lost", FALSE), Sockets)
          /\ at' = "teardown"
          /\ UNCHANGED <<link, child, cfd, pipes>>
       \/ /\ Cardinality(Free(hfd)) >= 4
          /\ child' = [NoChild EXCEPT !.st = "forked"]
          /\ cfd' = Without(With_pipes(hfd), {"c2p_r", "p2c_w"})
          /\ hfd' = Without(With_pipes(hfd), childs_ends)
          /\ c2p' = 0 /\ p2c' = 0
          /\ link' = [link EXCEPT !.spawns = @ + 1]
          /\ at' = "await_signal"
    /\ UNCHANGED <<enforceable, dev_mode, job, prepared, sock, sandbox, mounts>>

(* Mutant: the pid of a child that could not be prepared is forgotten. *)
unprepared_forgotten == link
unprepared == [link EXCEPT !.pid = TRUE]

(* The child is not released: both pipes are closed, and for a real child the
   sockets too. *)
Not_released ==
    /\ prepared' = FALSE
    /\ IF Probing THEN Failed("probe_wait", Pipes) ELSE Failed("teardown", Pipes \cup Sockets)
    /\ link' = IF Probing THEN link ELSE unprepared

(* Mutant: the go byte is written even to a child that has not signalled. *)
unsignalled_written == prepared' = FALSE /\ at' = "release" /\ UNCHANGED <<link, hfd>>
unsignalled == Not_released

(* read(sync_c2p[0]): the byte, or the end of the pipe. *)
await_signal ==
    /\ at = "await_signal"
    /\ \/ c2p = 1 /\ c2p' = 0 /\ at' = "prepare" /\ UNCHANGED <<prepared, link, hfd>>
       \/ c2p = 0 /\ ~Open("c2p_w") /\ unsignalled /\ UNCHANGED c2p
    /\ UNCHANGED <<enforceable, dev_mode, job, child, cfd, p2c, sock, sandbox, mounts>>

(* A signal interrupts the read; it is not retried. *)
interrupted ==
    /\ at = "await_signal"
    /\ Not_released
    /\ UNCHANGED <<enforceable, dev_mode, job, child, cfd, pipes, sock, sandbox, mounts>>

(* The id maps, then the leaf.  cgroup_move_pid answers yes as soon as it could
   open the file: whether the child was moved shows only later. *)
prepare ==
    /\ at = "prepare"
    /\ \E mapped, moved \in BOOLEAN :
        /\ mapped => needs_userns
        /\ moved => "Resources" \in Sandboxed /\ (needs_userns => mapped)
        /\ child' = [child EXCEPT !.mapped = mapped, !.in_leaf = moved]
        /\ prepared' \in IF needs_userns /\ ~mapped THEN {FALSE}
                         ELSE IF "Resources" \in Sandboxed THEN {TRUE, moved} ELSE {TRUE}
    /\ at' = "release"
    /\ UNCHANGED <<enforceable, dev_mode, job, link, hfd, cfd, pipes, sock, sandbox, mounts>>

(* write(sync_p2c[1]) kills the host when nobody can read the pipe any more. *)
release ==
    /\ at = "release"
    /\ \/ ~Open("p2c_r") /\ at' = "killed" /\ UNCHANGED <<prepared, link, hfd, p2c>>
       \/ /\ Open("p2c_r")
          /\ p2c' = IF prepared THEN 1 ELSE 2
          /\ IF ~prepared THEN Not_released
             ELSE /\ hfd' = Without(hfd, Pipes \cup {"sock_c"})
                  /\ at' = IF Probing THEN "probe_wait" ELSE "await_hello"
                  /\ link' = IF Probing THEN link ELSE [link EXCEPT !.pid = TRUE]
                  /\ UNCHANGED prepared
    /\ UNCHANGED <<enforceable, dev_mode, job, child, cfd, c2p, sock, sandbox, mounts>>

(* wait_for_hello: a frame, the end of the stream, or five seconds. *)
wait_for_hello ==
    /\ at = "await_hello"
    /\ at' = IF sock = "hello" THEN "confirm" ELSE "teardown"
    /\ sock' = "none"
    /\ UNCHANGED <<enforceable, dev_mode, job, prepared, link, child, hfd, cfd, pipes, sandbox, mounts>>

(* The namespaces are compared through /proc, which a dead child no longer has;
   its cgroup may still be readable. *)
child_is_isolated(c) ==
    CASE c = "Network" -> child.st = "running" /\ "net" \in child.ns
      [] c = "Filesystem" -> child.st = "running" /\ "mnt" \in child.ns
      [] c = "Resources" -> child.in_leaf /\ leaf = "limited"

(* Mutant: confirmation is left out for Resources. *)
confirm_namespaces == \A c \in Sandboxed \ {"Resources"} : child_is_isolated(c)
confirm_all == \A c \in Sandboxed : child_is_isolated(c)

confirm ==
    /\ at = "confirm"
    /\ \/ /\ confirm_all
          /\ link' = [link EXCEPT !.confirmed = Sandboxed]
          /\ IF job = "mount" THEN at' = "register" /\ UNCHANGED job
             ELSE at' = "idle" /\ job' = "none"
       \/ /\ ~confirm_all \/ ("Resources" \in Sandboxed /\ child.st = "zombie")
          /\ at' = "teardown"
          /\ UNCHANGED <<link, job>>
    /\ UNCHANGED <<enforceable, dev_mode, prepared, child, hfd, cfd, pipes, sock, sandbox, mounts>>

(* The end of mount: the manifest, the policy and the snapshot are admitted and
   the proxy registered; the gate or the bus may refuse. *)
register ==
    /\ at = "register"
    /\ \/ at' = "teardown" /\ UNCHANGED <<job, link>>
       \/ at' = "idle" /\ job' = "none" /\ link' = [link EXCEPT !.mounted = TRUE]
    /\ UNCHANGED <<enforceable, dev_mode, prepared, child, hfd, cfd, pipes, sock, sandbox, mounts>>

-----------------------------------------------------------------------------
(* The child, up to its exec. *)

Exits(code0) == child' = [child EXCEPT !.st = "zombie", !.exit0 = code0] /\ cfd' = NoFds

unshare_isolation ==
    (IF needs_userns THEN {"user"} ELSE {})
    \cup (IF "Network" \in Sandboxed THEN {"net"} ELSE {})
    \cup (IF "Filesystem" \in Sandboxed THEN {"mnt"} ELSE {})

(* It unshares, which may fail, and signals, which kills it when the host has
   given up on it. *)
child_unshare ==
    /\ child.st = "forked"
    /\ \/ Exits(FALSE) /\ UNCHANGED c2p
       \/ /\ Open("c2p_r")
          /\ c2p' = 1
          /\ child' = [child EXCEPT !.st = "signalled", !.ns = unshare_isolation]
          /\ UNCHANGED cfd
    /\ UNCHANGED <<enforceable, dev_mode, job, at, prepared, link, hfd, p2c, sock, sandbox, mounts>>

go(byte) == byte = 1

child_released ==
    /\ child.st = "signalled"
    /\ p2c # 0 \/ ~Open("p2c_w")
    /\ p2c' = 0
    /\ IF go(p2c)
       THEN /\ child' = [child EXCEPT !.st = "released"]
            /\ cfd' = Without(cfd, Pipes)
       ELSE Exits(FALSE)
    /\ UNCHANGED <<enforceable, dev_mode, job, at, prepared, link, hfd, c2p, sock, sandbox, mounts>>

(* Mutant: the parent's end is closed whatever its number is. *)
socket_dance_closing(t) ==
    LET sv0 == CHOOSE d \in Fds : t[d].file = "sock_p"
        sv1 == CHOOSE d \in Fds : t[d].file = "sock_c"
        moved == [t EXCEPT ![kChildFd] = [file |-> "sock_c", cloexec |-> FALSE]]
    IN  [d \in Fds |-> IF d = sv0 \/ (d = sv1 /\ sv1 # kChildFd) THEN Closed ELSE moved[d]]

(* dup2 to the descriptor the child expects, then the originals are closed
   unless one of them has that number; exec closes what is marked. *)
socket_dance(t) ==
    LET sv0 == CHOOSE d \in Fds : t[d].file = "sock_p"
        sv1 == CHOOSE d \in Fds : t[d].file = "sock_c"
        moved == IF sv1 = kChildFd THEN t ELSE [t EXCEPT ![kChildFd] = [file |-> "sock_c", cloexec |-> FALSE]]
    IN  [d \in Fds |-> IF d \in {sv0, sv1} \ {kChildFd} THEN Closed ELSE moved[d]]

Executed(t) == [d \in Fds |-> IF t[d].cloexec THEN Closed ELSE t[d]]

Plan ==
    IF Probing THEN build_probe_plan
    ELSE build_view_plan(link.grant.level, link.grant.scoped, SoElsewhere)

(* The view, for which the ids must be mapped, then exec; a probe just exits. *)
child_exec ==
    /\ child.st = "released"
    /\ \/ Exits(FALSE)
       \/ LET fs == "Filesystem" \in Sandboxed
              view == IF fs THEN run_mount_plan(Plan) ELSE HostView
          IN  /\ fs => child.mapped /\ Runs(Plan)
              /\ IF Probing
                 THEN /\ child' = [child EXCEPT !.st = "zombie", !.exit0 = TRUE, !.view = view]
                      /\ cfd' = NoFds
                 ELSE /\ child' = [child EXCEPT !.st = "running", !.view = view]
                      /\ cfd' = Executed(socket_dance(cfd))
    /\ UNCHANGED <<enforceable, dev_mode, job, at, prepared, link, hfd, pipes, sock, sandbox, mounts>>

(* The unsandboxed branch: no fork of our own. *)
posix_spawn ==
    /\ at = "posix_spawn"
    /\ \/ Failed("teardown", Sockets) /\ UNCHANGED <<link, child, cfd>>
       \/ /\ child' = [NoChild EXCEPT !.st = "running"]
          /\ cfd' = Executed(socket_dance(hfd))
          /\ hfd' = Without(hfd, {"sock_c"})
          /\ link' = [link EXCEPT !.pid = TRUE, !.spawns = @ + 1]
          /\ at' = "await_hello"
    /\ UNCHANGED <<enforceable, dev_mode, job, prepared, pipes, sock, sandbox, mounts>>

-----------------------------------------------------------------------------
(* The library's code runs: it says Hello, or something else, or nothing. *)
child_hello ==
    /\ child.st = "running"
    /\ cfd[kChildFd].file = "sock_c"
    /\ at = "await_hello"
    /\ sock = "none"
    /\ sock' \in {"hello", "garbled"}
    /\ UNCHANGED <<enforceable, dev_mode, job, at, prepared, link, child, hfd, cfd, pipes, sandbox, mounts>>

child_exit ==
    /\ child.st = "running"
    /\ Exits(FALSE)
    /\ UNCHANGED <<enforceable, dev_mode, job, at, prepared, link, hfd, pipes, sock, sandbox, mounts>>

(* Somebody, the kernel's memory manager say, kills a child before its exec. *)
child_killed ==
    /\ child.st \in {"forked", "signalled", "released"}
    /\ child' = [child EXCEPT !.st = "zombie", !.killed = TRUE]
    /\ cfd' = NoFds
    /\ UNCHANGED <<enforceable, dev_mode, job, at, prepared, link, hfd, pipes, sock, sandbox, mounts>>

Host ==
    \/ probe_isolation \/ probe_end \/ cgroup_base \/ open_socket \/ fork \/ posix_spawn
    \/ await_signal \/ prepare \/ release \/ wait_for_hello \/ confirm \/ register \/ teardown
Child == child_unshare \/ child_released \/ child_exec

Next ==
    \/ Host \/ interrupted \/ Child \/ child_hello \/ child_exit \/ child_killed
    \/ set_dev_mode \/ respawn \/ quarantine \/ unmount
    \/ \E g \in Grants : mount(g)

Spec == Init /\ [][Next]_vars

(* The host and the child before its exec run the host's own code; nothing is
   assumed of the library's code, nor that interruptions come. *)
FairSpec == Spec /\ WF_vars(Host) /\ WF_vars(Child)

-----------------------------------------------------------------------------
(* Every variable holds what the code can hold. *)
TypeOK ==
    /\ enforceable \subseteq Caps
    /\ dev_mode \in BOOLEAN
    /\ job \in Caps \cup {"none", "mount", "respawn"}
    /\ at \in {"probe", "probe_wait", "idle", "spawn", "fork", "posix_spawn", "await_signal",
               "prepare", "release", "await_hello", "confirm", "register", "teardown", "killed"}
    /\ prepared \in BOOLEAN
    /\ link \in [grant : Grant, dev : BOOLEAN,
                 res : [Caps -> {"none", "Granted", "Enforced", "Uncontained"}],
                 confirmed : SUBSET Caps, pid : BOOLEAN, mounted : BOOLEAN, spawns : 0..MaxSpawns]
    /\ child \in [st : {"none", "forked", "signalled", "released", "running", "zombie"},
                  ns : SUBSET {"user", "net", "mnt"}, mapped : BOOLEAN, view : View,
                  in_leaf : BOOLEAN, exit0 : BOOLEAN, killed : BOOLEAN]
    /\ hfd \in [Fds -> Entry]
    /\ cfd \in [Fds -> Entry]
    /\ c2p \in 0..1
    /\ p2c \in 0..2
    /\ sock \in {"none", "hello", "garbled"}
    /\ root \subseteq {"own", "forgotten"}
    /\ leaf \in {"none", "made", "limited"}
    /\ mounts \in 0..MaxMounts

Contained(c) ==
    CASE c = "Network" -> "net" \in child.ns
      [] c = "Filesystem" ->
            /\ "mnt" \in child.ns
            /\ child.view = PromisedView(link.grant.level, link.grant.scoped, SoElsewhere)
      [] c = "Resources" -> child.in_leaf /\ leaf = "limited"

(* A capability may be uncontained only by the grant, or because detection found
   it unenforceable and dev mode was on when the Shard was mounted. *)
Excused(c) == Granted(link.grant, c) \/ (c \notin enforceable /\ link.dev)

(* "there is no path where a Shard runs while its status claims contained-but-
   the-namespace-was-not-entered": no instruction of a library runs outside the
   network namespace and the file-system view that its grant calls for, in the
   first child and in every respawned one, not even before confirmation. *)
RunsInItsNamespaces ==
    child.st = "running" => \A c \in {"Network", "Filesystem"} : Contained(c) \/ Excused(c)

(* Once mount or respawn has returned, a running child is contained in
   everything its grant withholds, the limits included: whatever the steps on
   the way only seemed to do, confirmation has caught. *)
MountedIsContained ==
    (at = "idle" /\ child.st = "running") =>
        \A c \in Caps : (c \in link.confirmed /\ Contained(c)) \/ Excused(c)

(* A running child has its socket at descriptor 3, and no other end of any
   socket or pipe of the handshake: a stray end would keep the host from
   noticing its death, or the child from noticing the host's. *)
ChildHasItsSocket ==
    child.st = "running" =>
        {d \in Fds : cfd[d].file \in Sockets \cup Pipes} = {kChildFd} /\ cfd[kChildFd].file = "sock_c"

(* Between operations every process is a link's, and a link without one keeps
   no view root, no leaf and no descriptor (a refused mount's root and the ends
   of a first sync pipe whose second could not be made are lost). *)
NothingLeftBehind ==
    at = "idle" =>
        /\ child.st # "none" => link.mounted /\ link.pid
        /\ child.st = "none" => "own" \notin root /\ leaf = "none"
        /\ \A d \in Fds : hfd[d].file \in {"none", "host", "lost"} \cup (IF link.pid THEN {"sock_p"} ELSE {})

(* A child that gives up by itself never costs the host its life: "only write
   when the child is alive and waiting".  One that somebody kills between its
   signal and its release does. *)
OnlyKillsRaiseSigpipe == at = "killed" => child.killed

(* The handshake never hangs: every probe, mount and respawn returns, whatever
   fails and whoever dies on the way. *)
SpawnReturns == (at \notin {"idle", "killed"}) ~> (at \in {"idle", "killed"})
=============================================================================
