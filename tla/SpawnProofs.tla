---------------------------- MODULE SpawnProofs -----------------------------
(***************************************************************************)
(* Starting a contained child, for every set of grants, every number of    *)
(* descriptors, mounts and spawns.  What counting descriptors and running a *)
(* mount plan rest on is carried along as two rules, RoomRule and PlanRule, *)
(* which the end of the module proves.                                      *)
(***************************************************************************)
EXTENDS Spawn, TLAPS

-----------------------------------------------------------------------------
(* The inductive invariant. *)

(* What a descriptor table holds: only these files; this one; one pair of
   sockets, of which exec closes the host's. *)
Base == {"none", "host", "lost"}
Only(t, files) == \A d \in Fds : t[d].file \in files
Has(t, file) == \E d \in Fds : t[d].file = file
Pair(t) ==
    \E p, c \in Fds :
        /\ p # c
        /\ t[p] = [file |-> "sock_p", cloexec |-> TRUE] /\ t[c] = [file |-> "sock_c", cloexec |-> FALSE]
        /\ \A d \in Fds : (t[d].file = "sock_p" => d = p) /\ (t[d].file = "sock_c" => d = c)

Handshake == {"await_signal", "prepare", "release"}
Starting == {"spawn", "fork", "posix_spawn"}
Started == {"await_hello", "confirm", "register"}

(* Which job is done at which place. *)
Phases ==
    /\ Probing => /\ at \in {"probe", "probe_wait", "killed"} \cup Handshake
                  /\ link = NoLink /\ root = {} /\ leaf = "none" /\ sock = "none"
    /\ at \in {"probe", "probe_wait"} => Probing
    /\ at = "idle" => job = "none"
    /\ at \in Starting \cup {"await_hello", "confirm", "teardown"} => job \in {"mount", "respawn"}
    /\ at = "register" => job = "mount"
    /\ at \in Handshake => job # "none"
    /\ job = "respawn" => link.mounted
    /\ at \in Starting => link.spawns < MaxSpawns
    /\ at = "posix_spawn" => Sandboxed = {}

(* What a capability was resolved to stays justified. *)
Resolved ==
    job \in {"mount", "respawn"} \/ link.mounted => \A c \in Caps : link.res[c] = "Enforced" \/ Excused(c)

(* The child at each place of the host: only a signalled child is waited for
   further, and only a kill takes it away before its release. *)
Children ==
    /\ at \in {"probe"} \cup Starting => child.st = "none"
    /\ at \in Starting => ~link.pid
    /\ at \in Handshake => p2c = 0
    /\ at = "await_signal" => /\ child.st \in {"forked", "signalled", "zombie"}
                              /\ c2p = 1 => child.st = "signalled" \/ child.killed
    /\ at \in {"prepare", "release"} => child.st = "signalled" \/ child.killed
    /\ at = "killed" => child.killed
    /\ at \in Started => link.pid /\ child.st # "none"
    /\ at \in {"confirm", "register"} => child.st \in {"running", "zombie"}
    /\ at = "teardown" => link.pid \/ child.st = "none"
    /\ at = "idle" => child.st \in {"none", "running", "zombie"} /\ (child.st # "none" => link.mounted /\ link.pid)
    /\ at = "idle" /\ child.st = "none" => "own" \notin root /\ leaf = "none"
    /\ sock # "none" => child.st \in {"running", "zombie"}
    /\ child.killed => child.st = "zombie"

(* The child is in the namespaces it unshared, in its view from its exec on,
   and in its leaf from its confirmation on. *)
Containment ==
    /\ child.st \in {"signalled", "released", "running"} => child.ns = unshare_isolation
    /\ child.st = "running" =>
        /\ ~Probing
        /\ "Filesystem" \in Sandboxed =>
             child.view = PromisedView(link.grant.level, link.grant.scoped, SoElsewhere)
    /\ at = "register" \/ (at = "idle" /\ child.st # "none") =>
        /\ link.confirmed = Sandboxed
        /\ "Resources" \in Sandboxed => child.in_leaf /\ leaf = "limited"

(* The descriptors of the host at each place, and of the child at each stage. *)
HostDescriptors ==
    /\ at \in {"probe", "probe_wait", "spawn"} => Only(hfd, Base)
    /\ at \in {"idle", "teardown"} => Only(hfd, Base \cup (IF link.pid THEN {"sock_p"} ELSE {}))
    /\ at \in {"fork", "posix_spawn"} => Only(hfd, Base \cup Sockets) /\ Pair(hfd)
    /\ at \in Handshake => /\ Only(hfd, Base \cup {"c2p_r", "p2c_w"} \cup (IF Probing THEN {} ELSE Sockets))
                           /\ Has(hfd, "p2c_w")
    /\ at \in Started => Only(hfd, Base \cup {"sock_p"})

ChildDescriptors ==
    /\ child.st \in {"forked", "signalled"} => Has(cfd, "p2c_r")
    /\ child.st \in {"forked", "signalled", "released"} /\ ~Probing => Pair(cfd)
    /\ child.st = "released" => \A d \in Fds : cfd[d].file \notin Pipes
    /\ ChildHasItsSocket

Inv ==
    /\ TypeOK /\ Phases /\ Resolved /\ Children /\ Containment
    /\ HostDescriptors /\ ChildDescriptors

-----------------------------------------------------------------------------
(* Descriptors. *)

(* What counting free descriptors rests on. *)
RoomRule ==
    \A F \in SUBSET Fds, n \in Nat :
        Cardinality(F) >= n + 1 =>
            /\ \E i \in F : \A j \in F : i <= j
            /\ \A x \in F : Cardinality(F \ {x}) >= n

(* What the child's view rests on. *)
PlanRule ==
    /\ run_mount_plan(build_probe_plan) \in View
    /\ \A level, scoped, so :
         /\ run_mount_plan(build_view_plan(level, scoped, so)) = PromisedView(level, scoped, so)
         /\ PromisedView(level, scoped, so) \in View

LEMMA NoChildView == HostView \in View
BY DEF HostView, View, Mounted_as

AllFiles == {"none", "host", "lost"} \cup Sockets \cup Pipes
Table == [Fds -> Entry]
New(file, cloexec) == [file |-> file, cloexec |-> cloexec]

LEMMA FdsFacts == Fds \subseteq Nat /\ kChildFd \in Fds
BY ConstantsAssumption DEF Fds, kChildFd

LEMMA EntryFacts ==
    /\ Closed \in Entry /\ Closed.file = "none"
    /\ \A e \in Entry : e.file \in AllFiles /\ e.cloexec \in BOOLEAN
    /\ \A file \in AllFiles, b \in BOOLEAN :
         New(file, b) \in Entry /\ New(file, b).file = file /\ New(file, b).cloexec = b
BY DEF Closed, Entry, AllFiles, New

(* A descriptor is opened at a free place, and the others are left alone. *)
Adds(t, u, file, cloexec) ==
    \E m \in Fds : t[m].file = "none" /\ u = [t EXCEPT ![m] = New(file, cloexec)]
Room(t, n) == Cardinality(Free(t)) >= n

LEMMA OpenedAdds ==
    ASSUME RoomRule, NEW t \in Table, NEW n \in Nat, Room(t, n + 1), NEW file \in AllFiles \ {"none"}, NEW cloexec \in BOOLEAN
    PROVE  /\ Adds(t, Opened(t, file, cloexec), file, cloexec)
           /\ Opened(t, file, cloexec) \in Table
           /\ Room(Opened(t, file, cloexec), n)
<1> DEFINE F == Free(t)
           m == Min(F)
<1>1. F \in SUBSET Fds /\ (\E i \in F : \A j \in F : i <= j) /\ \A x \in F : Cardinality(F \ {x}) >= n
    BY Zenon DEF RoomRule, Room, Free
<1>2. m \in F
    BY Zenon, <1>1 DEF Min
<1> HIDE DEF m
<1>3. m \in Fds /\ t[m].file = "none"
    BY Zenon, <1>2 DEF Free
<1>4. Opened(t, file, cloexec) = [t EXCEPT ![m] = New(file, cloexec)]
    BY Zenon DEF Opened, m, New
<1>5. Opened(t, file, cloexec) \in Table
    BY Zenon, <1>3, <1>4, EntryFacts DEF Table
<1>6. Free(Opened(t, file, cloexec)) = F \ {m}
  <2>1. \A d \in Fds : Opened(t, file, cloexec)[d] = IF d = m THEN New(file, cloexec) ELSE t[d]
      BY Zenon, <1>3, <1>4 DEF Table
  <2>2. New(file, cloexec).file # "none"
      BY Zenon, EntryFacts
  <2> QED BY Zenon, <2>1, <2>2 DEF Free
<1> QED BY Zenon, <1>1, <1>2, <1>3, <1>4, <1>5, <1>6 DEF Adds, Room

(* Without closes what it names and leaves the rest. *)
Closes(t, files, u) == u \in Table /\ \A d \in Fds : u[d] = IF t[d].file \in files THEN Closed ELSE t[d]

LEMMA WithoutCloses == ASSUME NEW t \in Table, NEW files PROVE Closes(t, files, Without(t, files))
<1>1. \A d \in Fds : Without(t, files)[d] = IF t[d].file \in files THEN Closed ELSE t[d]
    BY Zenon DEF Without
<1>2. \A d \in Fds : (IF t[d].file \in files THEN Closed ELSE t[d]) \in Entry
    BY Zenon, EntryFacts DEF Table
<1> QED BY Zenon, <1>1, <1>2 DEF Without, Table, Closes

LEMMA OnlyWithout ==
    ASSUME NEW t, NEW u, NEW files, NEW all, NEW rest, Closes(t, files, u), Only(t, all),
           all \ files \subseteq rest, "none" \in rest
    PROVE  Only(u, rest)
<1> SUFFICES ASSUME NEW d \in Fds PROVE u[d].file \in rest
    BY Zenon DEF Only
<1>1. CASE t[d].file \in files
  <2>1. u[d] = Closed
      BY Zenon, <1>1 DEF Closes
  <2>2. Closed.file = "none"
      BY Zenon, EntryFacts
  <2> QED BY Zenon, <2>1, <2>2
<1>2. CASE t[d].file \notin files
  <2>1. u[d] = t[d] /\ t[d].file \in all
      BY Zenon, <1>2 DEF Closes, Only
  <2> QED BY Zenon, <1>2, <2>1
<1> QED BY Zenon, <1>1, <1>2

LEMMA OnlyMore == ASSUME NEW t, NEW some, NEW all, Only(t, some), some \subseteq all PROVE Only(t, all)
BY Zenon DEF Only

LEMMA HasWithout ==
    ASSUME NEW t, NEW u, NEW files, NEW file, Closes(t, files, u), Has(t, file), file \notin files
    PROVE  Has(u, file)
<1>1. PICK d \in Fds : t[d].file = file
    BY Zenon DEF Has
<1>2. u[d] = t[d]
    BY Zenon, <1>1 DEF Closes
<1> QED BY Zenon, <1>1, <1>2 DEF Has

LEMMA PairWithout ==
    ASSUME NEW t, NEW u, NEW files, Closes(t, files, u), Pair(t), "sock_p" \notin files, "sock_c" \notin files
    PROVE  Pair(u)
<1>1. PICK p, c \in Fds :
        /\ p # c
        /\ t[p] = [file |-> "sock_p", cloexec |-> TRUE] /\ t[c] = [file |-> "sock_c", cloexec |-> FALSE]
        /\ \A d \in Fds : (t[d].file = "sock_p" => d = p) /\ (t[d].file = "sock_c" => d = c)
    BY Zenon DEF Pair
<1>2. t[p].file = "sock_p" /\ t[c].file = "sock_c"
    BY <1>1
<1>3. u[p] = t[p] /\ u[c] = t[c]
    BY Zenon, <1>2 DEF Closes
<1>4. Closed.file # "sock_p" /\ Closed.file # "sock_c"
    BY DEF Closed
<1>5. \A d \in Fds : (u[d].file = "sock_p" => d = p) /\ (u[d].file = "sock_c" => d = c)
  <2> SUFFICES ASSUME NEW d \in Fds PROVE (u[d].file = "sock_p" => d = p) /\ (u[d].file = "sock_c" => d = c)
      OBVIOUS
  <2>1. u[d] = Closed \/ u[d] = t[d]
      BY Zenon DEF Closes
  <2> QED BY Zenon, <1>1, <1>4, <2>1
<1>6. u[p] = [file |-> "sock_p", cloexec |-> TRUE] /\ u[c] = [file |-> "sock_c", cloexec |-> FALSE]
    BY Zenon, <1>1, <1>3
<1> QED BY Zenon, <1>1, <1>5, <1>6 DEF Pair

(* The free descriptors of t have come to hold these files, each at least once. *)
Extends(t, u, files) ==
    /\ \A d \in Fds : t[d].file # "none" => u[d] = t[d]
    /\ \A d \in Fds : t[d].file = "none" => u[d].file \in {"none"} \cup files
    /\ \A file \in files : Has(u, file)

LEMMA ExtendsOne ==
    ASSUME NEW t \in Table, NEW u, NEW file \in AllFiles \ {"none"}, NEW cloexec \in BOOLEAN, Adds(t, u, file, cloexec)
    PROVE  Extends(t, u, {file})
<1>1. PICK m \in Fds : t[m].file = "none" /\ u = [t EXCEPT ![m] = New(file, cloexec)]
    BY Zenon DEF Adds
<1>2. \A d \in Fds : u[d] = IF d = m THEN New(file, cloexec) ELSE t[d]
    BY Zenon, <1>1 DEF Table
<1>3. New(file, cloexec).file = file
    BY Zenon, EntryFacts
<1>4. u[m].file = file
    BY Zenon, <1>2, <1>3
<1>5. \A d \in Fds : t[d].file # "none" => u[d] = t[d]
    BY Zenon, <1>1, <1>2
<1>6. \A d \in Fds : t[d].file = "none" => u[d].file \in {"none"} \cup {file}
    BY Zenon, <1>2, <1>3
<1> QED BY Zenon, <1>4, <1>5, <1>6 DEF Extends, Has

LEMMA ExtendsMore ==
    ASSUME NEW t, NEW u, NEW w, NEW F, NEW G, Extends(t, u, F), Extends(u, w, G), "none" \notin F
    PROVE  Extends(t, w, F \cup G)
<1>1. \A d \in Fds : t[d].file # "none" => w[d] = t[d]
    BY Zenon DEF Extends
<1>2. \A d \in Fds : t[d].file = "none" => w[d].file \in {"none"} \cup (F \cup G)
  <2> SUFFICES ASSUME NEW d \in Fds, t[d].file = "none" PROVE w[d].file \in {"none"} \cup (F \cup G)
      OBVIOUS
  <2>1. CASE u[d].file = "none"
      BY Zenon, <2>1 DEF Extends
  <2>2. CASE u[d].file # "none"
    <3>1. w[d] = u[d] /\ u[d].file \in {"none"} \cup F
        BY Zenon, <2>2 DEF Extends
    <3> QED BY Zenon, <3>1
  <2> QED BY Zenon, <2>1, <2>2
<1>3. ASSUME NEW file \in F PROVE Has(w, file)
  <2>1. PICK d \in Fds : u[d].file = file
      BY Zenon DEF Extends, Has
  <2>2. w[d] = u[d]
      BY Zenon, <2>1 DEF Extends
  <2> QED BY Zenon, <2>1, <2>2 DEF Has
<1>4. \A file \in G : Has(w, file)
    BY Zenon DEF Extends
<1> QED BY Zenon, <1>1, <1>2, <1>3, <1>4 DEF Extends

LEMMA With_pipesExtends ==
    ASSUME RoomRule, NEW t \in Table, Room(t, 4)
    PROVE  With_pipes(t) \in Table /\ Extends(t, With_pipes(t), Pipes)
<1> DEFINE t1 == Opened(t, "c2p_r", FALSE)
           t2 == Opened(t1, "c2p_w", FALSE)
           t3 == Opened(t2, "p2c_r", FALSE)
           t4 == Opened(t3, "p2c_w", FALSE)
<1>1. /\ {"c2p_r", "c2p_w", "p2c_r", "p2c_w"} \subseteq AllFiles \ {"none"} /\ FALSE \in BOOLEAN
      /\ Pipes = (({"c2p_r"} \cup {"c2p_w"}) \cup {"p2c_r"}) \cup {"p2c_w"}
    BY DEF AllFiles, Pipes
<1>2. Room(t, 3 + 1) /\ 3 \in Nat /\ 3 = 2 + 1 /\ 2 \in Nat /\ 2 = 1 + 1 /\ 1 \in Nat /\ 1 = 0 + 1 /\ 0 \in Nat
    OBVIOUS
<1>3. t1 \in Table /\ Room(t1, 3) /\ Adds(t, t1, "c2p_r", FALSE)
    BY Zenon, <1>1, <1>2, OpenedAdds
<1> HIDE DEF t1
<1>4. t2 \in Table /\ Room(t2, 2) /\ Adds(t1, t2, "c2p_w", FALSE)
    BY Zenon, <1>1, <1>2, <1>3, OpenedAdds
<1> HIDE DEF t2
<1>5. t3 \in Table /\ Room(t3, 1) /\ Adds(t2, t3, "p2c_r", FALSE)
    BY Zenon, <1>1, <1>2, <1>4, OpenedAdds
<1> HIDE DEF t3
<1>6. t4 \in Table /\ Adds(t3, t4, "p2c_w", FALSE)
    BY Zenon, <1>1, <1>2, <1>5, OpenedAdds
<1>7. With_pipes(t) = t4
    BY Zenon DEF With_pipes, t1, t2, t3
<1> HIDE DEF t4
<1>8. Extends(t, t1, {"c2p_r"}) /\ Extends(t1, t2, {"c2p_w"}) /\ Extends(t2, t3, {"p2c_r"}) /\ Extends(t3, t4, {"p2c_w"})
    BY Zenon, <1>1, <1>3, <1>4, <1>5, <1>6, ExtendsOne
<1>9. Extends(t, t2, {"c2p_r"} \cup {"c2p_w"})
    BY <1>8, ExtendsMore
<1>10. Extends(t, t3, ({"c2p_r"} \cup {"c2p_w"}) \cup {"p2c_r"})
  <2>1. "none" \notin {"c2p_r"} \cup {"c2p_w"}
      OBVIOUS
  <2> QED BY Zenon, <1>8, <1>9, <2>1, ExtendsMore
<1>11. Extends(t, t4, (({"c2p_r"} \cup {"c2p_w"}) \cup {"p2c_r"}) \cup {"p2c_w"})
  <2>1. "none" \notin ({"c2p_r"} \cup {"c2p_w"}) \cup {"p2c_r"}
      OBVIOUS
  <2> QED BY Zenon, <1>8, <1>10, <2>1, ExtendsMore
<1> QED BY Zenon, <1>1, <1>6, <1>7, <1>11

LEMMA OnlyExtends ==
    ASSUME NEW t, NEW u, NEW files, NEW some, Extends(t, u, files), Only(t, some)
    PROVE  Only(u, some \cup files)
<1> SUFFICES ASSUME NEW d \in Fds PROVE u[d].file \in some \cup files
    BY Zenon DEF Only
<1>1. CASE t[d].file = "none"
    BY Zenon, <1>1 DEF Extends, Only
<1>2. CASE t[d].file # "none"
  <2>1. u[d] = t[d] /\ t[d].file \in some
      BY Zenon, <1>2 DEF Extends, Only
  <2> QED BY Zenon, <2>1
<1> QED BY Zenon, <1>1, <1>2

LEMMA PairExtends ==
    ASSUME NEW t, NEW u, NEW files, Extends(t, u, files), Pair(t), "sock_p" \notin files, "sock_c" \notin files
    PROVE  Pair(u)
<1>1. PICK p, c \in Fds :
        /\ p # c
        /\ t[p] = [file |-> "sock_p", cloexec |-> TRUE] /\ t[c] = [file |-> "sock_c", cloexec |-> FALSE]
        /\ \A d \in Fds : (t[d].file = "sock_p" => d = p) /\ (t[d].file = "sock_c" => d = c)
    BY Zenon DEF Pair
<1>2. t[p].file = "sock_p" /\ t[c].file = "sock_c"
    BY <1>1
<1>3. u[p] = t[p] /\ u[c] = t[c]
    BY <1>2 DEF Extends
<1>4. ASSUME NEW d \in Fds PROVE (u[d].file = "sock_p" => d = p) /\ (u[d].file = "sock_c" => d = c)
  <2>1. CASE t[d].file = "none"
    <3>1. u[d].file \in {"none"} \cup files
        BY Zenon, <2>1 DEF Extends
    <3> QED BY <3>1
  <2>2. CASE t[d].file # "none"
      BY Zenon, <1>1, <2>2 DEF Extends
  <2> QED BY Zenon, <2>1, <2>2
<1>5. u[p] = [file |-> "sock_p", cloexec |-> TRUE] /\ u[c] = [file |-> "sock_c", cloexec |-> FALSE]
    BY Zenon, <1>1, <1>3
<1> QED BY Zenon, <1>1, <1>4, <1>5 DEF Pair

(* socketpair gives one pair. *)
LEMMA SocketPair ==
    ASSUME RoomRule, NEW t \in Table, Room(t, 2), Only(t, Base)
    PROVE  LET u == Opened(Opened(t, "sock_p", TRUE), "sock_c", FALSE)
           IN  u \in Table /\ Only(u, Base \cup Sockets) /\ Pair(u)
<1> DEFINE t1 == Opened(t, "sock_p", TRUE)
           u == Opened(t1, "sock_c", FALSE)
<1>1. {"sock_p", "sock_c"} \subseteq AllFiles \ {"none"} /\ Sockets = {"sock_p"} \cup {"sock_c"}
    BY DEF AllFiles, Sockets
<1>2. Room(t, 1 + 1) /\ 1 \in Nat /\ 1 = 0 + 1 /\ 0 \in Nat /\ TRUE \in BOOLEAN /\ FALSE \in BOOLEAN
    OBVIOUS
<1>3. t1 \in Table /\ Room(t1, 1) /\ Adds(t, t1, "sock_p", TRUE)
    BY Zenon, <1>1, <1>2, OpenedAdds
<1> HIDE DEF t1
<1>4. u \in Table /\ Adds(t1, u, "sock_c", FALSE)
    BY Zenon, <1>1, <1>2, <1>3, OpenedAdds
<1> HIDE DEF u
<1>5. Extends(t, t1, {"sock_p"}) /\ Extends(t1, u, {"sock_c"})
    BY Zenon, <1>1, <1>2, <1>3, <1>4, ExtendsOne
<1>6. Extends(t, u, Sockets)
    BY <1>1, <1>5, ExtendsMore
<1>7. Only(u, Base \cup Sockets)
    BY Zenon, <1>6, OnlyExtends
<1>8. PICK p \in Fds : t[p].file = "none" /\ t1 = [t EXCEPT ![p] = New("sock_p", TRUE)]
    BY Zenon, <1>3 DEF Adds
<1>9. PICK c \in Fds : t1[c].file = "none" /\ u = [t1 EXCEPT ![c] = New("sock_c", FALSE)]
    BY Zenon, <1>4 DEF Adds
<1>10. \A d \in Fds : t1[d] = IF d = p THEN New("sock_p", TRUE) ELSE t[d]
    BY Zenon, <1>8 DEF Table
<1>11. \A d \in Fds : u[d] = IF d = c THEN New("sock_c", FALSE) ELSE t1[d]
    BY Zenon, <1>3, <1>9 DEF Table
<1>12. New("sock_p", TRUE).file = "sock_p" /\ New("sock_c", FALSE).file = "sock_c"
    BY DEF New
<1>13. p # c
    BY Zenon, <1>8, <1>9, <1>10, <1>12
<1>14. \A d \in Fds : t[d].file # "sock_p" /\ t[d].file # "sock_c"
    BY DEF Only, Base
<1>15. \A d \in Fds : (u[d].file = "sock_p" => d = p) /\ (u[d].file = "sock_c" => d = c)
    BY Zenon, <1>10, <1>11, <1>12, <1>14
<1>16. u[p] = New("sock_p", TRUE) /\ u[c] = New("sock_c", FALSE)
    BY Zenon, <1>10, <1>11, <1>13
<1>17. Pair(u)
    BY Zenon, <1>13, <1>15, <1>16 DEF Pair, New
<1> QED BY Zenon, <1>4, <1>7, <1>17 DEF t1, u

(* The child that executes keeps its socket, where it expects it, and nothing
   else of the handshake (host.cpp:328-336). *)
LEMMA DanceDone ==
    ASSUME NEW t \in Table, Pair(t), \A d \in Fds : t[d].file \notin Pipes
    PROVE  LET w == Executed(socket_dance(t))
           IN  /\ w \in Table
               /\ {d \in Fds : w[d].file \in Sockets \cup Pipes} = {kChildFd} /\ w[kChildFd].file = "sock_c"
<1>1. PICK p, c \in Fds :
        /\ p # c
        /\ t[p] = [file |-> "sock_p", cloexec |-> TRUE] /\ t[c] = [file |-> "sock_c", cloexec |-> FALSE]
        /\ \A d \in Fds : (t[d].file = "sock_p" => d = p) /\ (t[d].file = "sock_c" => d = c)
    BY Zenon DEF Pair
<1>2. t[p].file = "sock_p" /\ t[c].file = "sock_c" /\ t[c].cloexec = FALSE
    BY <1>1
<1>3. (CHOOSE d \in Fds : t[d].file = "sock_p") = p /\ (CHOOSE d \in Fds : t[d].file = "sock_c") = c
    BY <1>1, <1>2
<1> DEFINE e == New("sock_c", FALSE)
           moved == IF c = kChildFd THEN t ELSE [t EXCEPT ![kChildFd] = e]
           s == [d \in Fds |-> IF d \in {p, c} \ {kChildFd} THEN Closed ELSE moved[d]]
           w == [d \in Fds |-> IF s[d].cloexec THEN Closed ELSE s[d]]
<1>4. Executed(socket_dance(t)) = w
  <2> DEFINE sv0 == CHOOSE d \in Fds : t[d].file = "sock_p"
             sv1 == CHOOSE d \in Fds : t[d].file = "sock_c"
  <2>1. socket_dance(t) = [d \in Fds |-> IF d \in {sv0, sv1} \ {kChildFd} THEN Closed
                                          ELSE (IF sv1 = kChildFd THEN t ELSE [t EXCEPT ![kChildFd] = e])[d]]
      BY Zenon DEF socket_dance, New
  <2>2. sv0 = p /\ sv1 = c
      BY Zenon, <1>3
  <2> HIDE DEF sv0, sv1
  <2>3. socket_dance(t) = s
      BY Zenon, <2>1, <2>2
  <2> QED BY Zenon, <2>3 DEF Executed
<1>5. e \in Entry /\ e.file = "sock_c" /\ e.cloexec = FALSE /\ Closed \in Entry /\ Closed.file = "none" /\ kChildFd \in Fds
  <2>1. "sock_c" \in AllFiles /\ FALSE \in BOOLEAN
      BY DEF AllFiles, Sockets
  <2> QED BY Zenon, <2>1, EntryFacts, FdsFacts
<1> HIDE DEF e
<1>6. moved \in Table
    BY Zenon, <1>5 DEF Table
<1>7. moved[kChildFd].file = "sock_c" /\ moved[kChildFd].cloexec = FALSE
  <2>1. moved[kChildFd] = IF c = kChildFd THEN t[c] ELSE e
      BY Zenon, <1>5 DEF Table
  <2> QED BY Zenon, <1>2, <1>5, <2>1
<1>8. \A d \in Fds : d # kChildFd => moved[d] = t[d]
    BY Zenon, <1>5 DEF Table
<1> HIDE DEF moved
<1>9. s \in Table
    BY Zenon, <1>5, <1>6 DEF Table
<1>10. \A d \in Fds : s[d] = IF d \in {p, c} \ {kChildFd} THEN Closed ELSE moved[d]
    BY Zenon
<1> HIDE DEF s
<1>11. w \in Table
    BY Zenon, <1>5, <1>9 DEF Table
<1>12. \A d \in Fds : w[d] = IF s[d].cloexec THEN Closed ELSE s[d]
    BY Zenon
<1> HIDE DEF w
<1>13. s[kChildFd] = moved[kChildFd]
    BY Zenon, <1>5, <1>10
<1>14. w[kChildFd].file = "sock_c"
    BY <1>5, <1>7, <1>12, <1>13
<1>15. ASSUME NEW d \in Fds, d # kChildFd PROVE w[d].file \notin Sockets \cup Pipes
  <2>1. Closed.file \notin Sockets \cup Pipes
      BY DEF Closed, Sockets, Pipes
  <2>2. CASE w[d] = Closed
      BY Zenon, <2>1, <2>2
  <2>3. CASE w[d] # Closed
    <3>1. w[d] = s[d] /\ s[d] # Closed
        BY Zenon, <2>3, <1>12
    <3>2. d \notin {p, c} /\ s[d] = t[d]
        BY Zenon, <3>1, <1>8, <1>10, <1>15
    <3> QED BY <1>1, <3>1, <3>2 DEF Sockets
  <2> QED BY Zenon, <2>2, <2>3
<1>16. "sock_c" \in Sockets
    BY DEF Sockets
<1>17. {d \in Fds : w[d].file \in Sockets \cup Pipes} = {kChildFd}
    BY Zenon, <1>5, <1>14, <1>15, <1>16
<1> QED BY Zenon, <1>4, <1>11, <1>14, <1>17


-----------------------------------------------------------------------------
(* The steps of the child. *)

ChildType ==
    [st : {"none", "forked", "signalled", "released", "running", "zombie"},
     ns : SUBSET {"user", "net", "mnt"}, mapped : BOOLEAN, view : View,
     in_leaf : BOOLEAN, exit0 : BOOLEAN, killed : BOOLEAN]

HostSide == <<enforceable, dev_mode, job, at, prepared, link, hfd, root, leaf, mounts>>

(* What a step that leaves the host alone leaves alone. *)
LEMMA HostSideKept ==
    ASSUME Inv, UNCHANGED HostSide, sock' = sock \/ ~Probing
    PROVE  /\ Probing' = Probing /\ Sandboxed' = Sandboxed /\ unshare_isolation' = unshare_isolation
           /\ Phases' /\ Resolved' /\ HostDescriptors'
<1>1. UNCHANGED <<enforceable, dev_mode, job, at, prepared, link, hfd, root, leaf, mounts>>
    BY Zenon DEF HostSide
<1>2. Probing' = Probing /\ Sandboxed' = Sandboxed
    BY Zenon, <1>1 DEF Probing, Sandboxed
<1>3. unshare_isolation' = unshare_isolation
    BY Zenon, <1>2 DEF unshare_isolation, needs_userns
<1>4. Phases'
    BY Zenon, <1>1, <1>2 DEF Inv, Phases
<1>5. Resolved'
    BY Zenon, <1>1 DEF Inv, Resolved, Excused
<1>6. HostDescriptors'
    BY <1>1, <1>2 DEF Inv, HostDescriptors
<1> QED BY Zenon, <1>2, <1>3, <1>4, <1>5, <1>6

LEMMA NoFdsTable == NoFds \in Table
BY Zenon, EntryFacts DEF NoFds, Table

(* A child dies: by itself only before its signal or after its release. *)
LEMMA ZombieStep ==
    ASSUME Inv, UNCHANGED HostSide, UNCHANGED <<c2p, sock>>, Live, p2c' \in 0..2, at \in Handshake => p2c' = 0,
           child' \in ChildType, child'.st = "zombie", child'.in_leaf = child.in_leaf, cfd' = NoFds,
           at \in {"prepare", "release"} \/ (at = "await_signal" /\ c2p = 1) => child'.killed
    PROVE  Inv'
<1>1. UNCHANGED <<enforceable, dev_mode, job, at, prepared, link, hfd, root, leaf, mounts, c2p, sock>>
    BY Zenon DEF HostSide
<1>2. TypeOK'
    BY <1>1, NoFdsTable DEF Inv, TypeOK, ChildType, Table
<1>3. Probing' = Probing /\ Sandboxed' = Sandboxed /\ Phases' /\ Resolved' /\ HostDescriptors'
    BY Zenon, HostSideKept
<1>4. child.st # "none" /\ ~child.killed
    BY Zenon DEF Inv, Children, Live
<1>5. Children'
    BY Zenon, <1>1, <1>4 DEF Inv, Children
<1>6. Containment'
    BY Zenon, <1>1, <1>3, <1>4 DEF Inv, Containment
<1>7. ChildDescriptors'
    BY DEF ChildDescriptors, ChildHasItsSocket
<1> QED BY Zenon, <1>2, <1>3, <1>5, <1>6, <1>7 DEF Inv

LEMMA ZombieChild ==
    ASSUME Inv, NEW b, NEW k, b \in BOOLEAN, k \in BOOLEAN,
           child' = [child EXCEPT !.st = "zombie", !.exit0 = b, !.killed = k]
    PROVE  child' \in ChildType /\ child'.st = "zombie" /\ child'.in_leaf = child.in_leaf /\ child'.killed = k
BY Zenon DEF Inv, TypeOK, ChildType

LEMMA ExitsChild ==
    ASSUME Inv, NEW b \in BOOLEAN, Exits(b)
    PROVE  /\ child' \in ChildType /\ child'.st = "zombie" /\ child'.in_leaf = child.in_leaf
           /\ child'.killed = child.killed /\ cfd' = NoFds
BY Zenon DEF Inv, TypeOK, ChildType, Exits

LEMMA Child_unshareStep == ASSUME Inv, child_unshare PROVE Inv'
<1>1. UNCHANGED HostSide /\ UNCHANGED <<p2c, sock>> /\ child.st = "forked" /\ Live
    BY Zenon DEF child_unshare, HostSide, sandbox, Live
<1>2. at \notin {"prepare", "release"} /\ p2c \in 0..2 /\ (at \in Handshake => p2c = 0) /\ ~(at = "await_signal" /\ c2p = 1)
    BY <1>1 DEF Inv, Children, TypeOK, Handshake
<1>3. CASE Exits(FALSE) /\ UNCHANGED c2p
  <2>1. /\ child' \in ChildType /\ child'.st = "zombie" /\ child'.in_leaf = child.in_leaf /\ cfd' = NoFds
      BY Zenon, <1>3, ExitsChild
  <2> QED BY Zenon, <1>1, <1>2, <1>3, <2>1, ZombieStep
<1>4. CASE c2p' = 1 /\ child' = [child EXCEPT !.st = "signalled", !.ns = unshare_isolation] /\ UNCHANGED cfd
  <2>1. UNCHANGED <<enforceable, dev_mode, job, at, prepared, link, hfd, cfd, root, leaf, mounts, p2c, sock>>
      BY Zenon, <1>1, <1>4 DEF HostSide
  <2>2. unshare_isolation \subseteq {"user", "net", "mnt"}
      BY DEF unshare_isolation
  <2>3. /\ child' \in ChildType /\ child'.st = "signalled" /\ child'.ns = unshare_isolation
        /\ child'.in_leaf = child.in_leaf /\ child'.killed = child.killed
      BY Zenon, <1>4, <2>2 DEF Inv, TypeOK, ChildType
  <2>4. TypeOK'
      BY <1>4, <2>1, <2>3 DEF Inv, TypeOK, ChildType
  <2>5. /\ Probing' = Probing /\ Sandboxed' = Sandboxed /\ unshare_isolation' = unshare_isolation
        /\ Phases' /\ Resolved' /\ HostDescriptors'
      BY Zenon, <1>1, HostSideKept
  <2>6. Children'
      BY <1>1, <1>2, <2>1, <2>3 DEF Inv, Children
  <2>7. Containment'
      BY <1>1, <2>1, <2>3, <2>5 DEF Inv, Containment, Children
  <2>8. ChildDescriptors'
      BY <1>1, <2>1, <2>3, <2>5 DEF Inv, ChildDescriptors, ChildHasItsSocket
  <2> QED BY Zenon, <2>4, <2>5, <2>6, <2>7, <2>8 DEF Inv
<1> QED BY Zenon, <1>3, <1>4 DEF child_unshare

LEMMA Child_releasedStep == ASSUME Inv, child_released PROVE Inv'
<1>1. UNCHANGED HostSide /\ UNCHANGED <<c2p, sock>> /\ child.st = "signalled" /\ Live /\ p2c' = 0
    BY DEF child_released, HostSide, sandbox, Live
<1>2. at \notin Handshake
  <2>1. at \in Handshake => p2c = 0 /\ Has(hfd, "p2c_w")
      BY Zenon DEF Inv, Children, HostDescriptors
  <2>2. Has(hfd, "p2c_w") => Open("p2c_w")
      BY Zenon DEF Has, Open
  <2> QED BY Zenon, <2>1, <2>2 DEF child_released
<1>3. p2c' \in 0..2 /\ at \notin {"prepare", "release", "await_signal"}
    BY <1>1, <1>2 DEF Handshake
<1>4. CASE Exits(FALSE)
  <2>1. /\ child' \in ChildType /\ child'.st = "zombie" /\ child'.in_leaf = child.in_leaf /\ cfd' = NoFds
      BY Zenon, <1>4, ExitsChild
  <2> QED BY Zenon, <1>1, <1>2, <1>3, <2>1, ZombieStep
<1>5. CASE child' = [child EXCEPT !.st = "released"] /\ cfd' = Without(cfd, Pipes)
  <2>1. UNCHANGED <<enforceable, dev_mode, job, at, prepared, link, hfd, root, leaf, mounts, c2p, sock>>
      BY Zenon, <1>1 DEF HostSide
  <2>2. /\ child' \in ChildType /\ child'.st = "released" /\ child'.ns = child.ns
        /\ child'.in_leaf = child.in_leaf /\ child'.killed = child.killed
      BY <1>5 DEF Inv, TypeOK, ChildType
  <2>3. cfd \in Table /\ Closes(cfd, Pipes, cfd')
      BY Zenon, <1>5, WithoutCloses DEF Inv, TypeOK, Table
  <2>4. TypeOK'
      BY <1>3, <2>1, <2>2, <2>3 DEF Inv, TypeOK, ChildType, Closes, Table
  <2>5. /\ Probing' = Probing /\ Sandboxed' = Sandboxed /\ unshare_isolation' = unshare_isolation
        /\ Phases' /\ Resolved' /\ HostDescriptors'
      BY Zenon, <1>1, HostSideKept
  <2>6. Children'
      BY Zenon, <1>1, <1>2, <2>1, <2>2 DEF Inv, Children, Handshake
  <2>7. Containment'
      BY Zenon, <1>1, <2>1, <2>2, <2>5 DEF Inv, Containment, Children
  <2>8. ChildDescriptors'
    <3>1. \A d \in Fds : cfd'[d].file \notin Pipes
      <4>1. Closed.file \notin Pipes
          BY DEF Closed, Pipes
      <4> QED BY Zenon, <2>3, <4>1 DEF Closes
    <3>2. "sock_p" \notin Pipes /\ "sock_c" \notin Pipes
        BY DEF Pipes
    <3>3. ~Probing => Pair(cfd')
        BY Zenon, <1>1, <2>3, <3>2, PairWithout DEF Inv, ChildDescriptors
    <3>4. ~Probing' => Pair(cfd)'
        BY Zenon, <2>5, <3>3 DEF Pair
    <3> QED BY Zenon, <2>2, <3>1, <3>4 DEF ChildDescriptors, ChildHasItsSocket
  <2> QED BY Zenon, <2>4, <2>5, <2>6, <2>7, <2>8 DEF Inv
<1> QED BY Zenon, <1>4, <1>5 DEF child_released

LEMMA Child_execStep == ASSUME PlanRule, Inv, child_exec PROVE Inv'
<1>1. UNCHANGED HostSide /\ UNCHANGED <<c2p, p2c, sock>> /\ child.st = "released" /\ Live
    BY Zenon DEF child_exec, HostSide, sandbox, pipes, Live
<1>2. at \notin Handshake
    BY Zenon, <1>1 DEF Inv, Children, Handshake
<1>3. p2c' \in 0..2 /\ at \notin {"prepare", "release", "await_signal"}
    BY Zenon, <1>1, <1>2 DEF Handshake, Inv, TypeOK
<1> DEFINE fs == "Filesystem" \in Sandboxed
           view == IF fs THEN run_mount_plan(Plan) ELSE HostView
<1>4. view \in View /\ (fs /\ ~Probing => view = PromisedView(link.grant.level, link.grant.scoped, SoElsewhere))
  <2>1. CASE ~fs
      BY Zenon, <2>1, NoChildView
  <2>2. CASE fs /\ Probing
      BY Zenon, <2>2 DEF Plan, PlanRule
  <2>3. CASE fs /\ ~Probing
      BY Zenon, <2>3 DEF Plan, PlanRule
  <2> QED BY Zenon, <2>1, <2>2, <2>3
<1> HIDE DEF view
<1>5. CASE Exits(FALSE)
  <2>1. /\ child' \in ChildType /\ child'.st = "zombie" /\ child'.in_leaf = child.in_leaf /\ cfd' = NoFds
      BY Zenon, <1>5, ExitsChild
  <2> QED BY Zenon, <1>1, <1>2, <1>3, <2>1, ZombieStep
<1>6. CASE child' = [child EXCEPT !.st = "zombie", !.exit0 = TRUE, !.view = view] /\ cfd' = NoFds
  <2>1. /\ child' \in ChildType /\ child'.st = "zombie" /\ child'.in_leaf = child.in_leaf
      BY Zenon, <1>4, <1>6 DEF Inv, TypeOK, ChildType
  <2> QED BY Zenon, <1>1, <1>2, <1>3, <1>6, <2>1, ZombieStep
<1>7. CASE ~Probing /\ child' = [child EXCEPT !.st = "running", !.view = view] /\ cfd' = Executed(socket_dance(cfd))
  <2>1. UNCHANGED <<enforceable, dev_mode, job, at, prepared, link, hfd, root, leaf, mounts, c2p, p2c, sock>>
      BY Zenon, <1>1 DEF HostSide
  <2>2. /\ child' \in ChildType /\ child'.st = "running" /\ child'.ns = child.ns /\ child'.view = view
        /\ child'.in_leaf = child.in_leaf /\ child'.killed = child.killed
      BY Zenon, <1>4, <1>7 DEF Inv, TypeOK, ChildType
  <2>3. cfd' \in Table /\ {d \in Fds : cfd'[d].file \in Sockets \cup Pipes} = {kChildFd} /\ cfd'[kChildFd].file = "sock_c"
    <3>1. cfd \in Table /\ Pair(cfd) /\ \A d \in Fds : cfd[d].file \notin Pipes
        BY Zenon, <1>1, <1>7 DEF Inv, TypeOK, Table, ChildDescriptors
    <3> QED BY Zenon, <1>7, <3>1, DanceDone
  <2>4. TypeOK'
      BY <2>1, <2>2, <2>3 DEF Inv, TypeOK, ChildType, Table
  <2>5. /\ Probing' = Probing /\ Sandboxed' = Sandboxed /\ unshare_isolation' = unshare_isolation
        /\ Phases' /\ Resolved' /\ HostDescriptors'
      BY Zenon, <1>1, HostSideKept
  <2>6. Children'
      BY Zenon, <1>1, <1>2, <2>1, <2>2 DEF Inv, Children, Handshake
  <2>7. Containment'
      BY Zenon, <1>1, <1>4, <1>7, <2>1, <2>2, <2>5 DEF Inv, Containment, Children
  <2>8. ChildDescriptors'
      BY <2>2, <2>3 DEF ChildDescriptors, ChildHasItsSocket
  <2> QED BY Zenon, <2>4, <2>5, <2>6, <2>7, <2>8 DEF Inv
<1> QED BY Zenon, <1>5, <1>6, <1>7 DEF child_exec, view

LEMMA Child_helloStep == ASSUME Inv, child_hello PROVE Inv'
<1>1. /\ UNCHANGED HostSide /\ UNCHANGED <<c2p, p2c, child, cfd>> /\ child.st = "running"
      /\ sock' \in {"none", "hello", "garbled"}
    BY DEF child_hello, HostSide, sandbox, pipes
<1>2. UNCHANGED <<enforceable, dev_mode, job, at, prepared, link, hfd, root, leaf, mounts, c2p, p2c, child, cfd>>
    BY Zenon, <1>1 DEF HostSide
<1>3. ~Probing
    BY Zenon, <1>1 DEF Inv, Containment
<1>4. /\ Probing' = Probing /\ Sandboxed' = Sandboxed /\ unshare_isolation' = unshare_isolation
      /\ Phases' /\ Resolved' /\ HostDescriptors'
    BY Zenon, <1>1, <1>3, HostSideKept
<1>5. TypeOK'
    BY <1>1, <1>2 DEF Inv, TypeOK
<1>6. Children'
    BY Zenon, <1>1, <1>2 DEF Inv, Children
<1>7. Containment'
    BY Zenon, <1>2, <1>4 DEF Inv, Containment
<1>8. ChildDescriptors'
    BY <1>2, <1>4 DEF Inv, ChildDescriptors, ChildHasItsSocket
<1> QED BY Zenon, <1>4, <1>5, <1>6, <1>7, <1>8 DEF Inv

LEMMA Child_exitStep == ASSUME Inv, child_exit PROVE Inv'
<1>1. UNCHANGED HostSide /\ UNCHANGED <<c2p, p2c, sock>> /\ child.st = "running" /\ Live /\ Exits(FALSE)
    BY Zenon DEF child_exit, HostSide, sandbox, pipes, Live
<1>2. at \notin Handshake /\ p2c' \in 0..2
    BY <1>1 DEF Inv, TypeOK, Children, Handshake
<1>3. at \notin {"prepare", "release", "await_signal"}
    BY <1>2 DEF Handshake
<1>4. /\ child' \in ChildType /\ child'.st = "zombie" /\ child'.in_leaf = child.in_leaf /\ cfd' = NoFds
    BY Zenon, <1>1, ExitsChild
<1> QED BY Zenon, <1>1, <1>2, <1>3, <1>4, ZombieStep

LEMMA Child_killedStep == ASSUME Inv, child_killed PROVE Inv'
<1>1. UNCHANGED HostSide /\ UNCHANGED <<c2p, p2c, sock>> /\ Live /\ cfd' = NoFds
    BY DEF child_killed, HostSide, sandbox, pipes, Live
<1>2. p2c' \in 0..2 /\ (at \in Handshake => p2c' = 0)
    BY <1>1 DEF Inv, TypeOK, Children
<1>3. /\ child' \in ChildType /\ child'.st = "zombie" /\ child'.in_leaf = child.in_leaf /\ child'.killed
    BY Zenon DEF child_killed, Inv, TypeOK, ChildType
<1> QED BY Zenon, <1>1, <1>2, <1>3, ZombieStep

-----------------------------------------------------------------------------
(* The steps of the host. *)

LEMMA Set_dev_modeStep == ASSUME Inv, set_dev_mode PROVE Inv'
<1>1. UNCHANGED <<enforceable, job, at, prepared, link, child, hfd, cfd, c2p, p2c, sock, root, leaf, mounts>>
    BY DEF set_dev_mode, pipes, sandbox
<1>2. dev_mode' \in BOOLEAN
    BY DEF set_dev_mode, Inv, TypeOK
<1>3. Probing' = Probing /\ Sandboxed' = Sandboxed
    BY Zenon, <1>1 DEF Probing, Sandboxed
<1>4. unshare_isolation' = unshare_isolation
    BY Zenon, <1>3 DEF unshare_isolation, needs_userns
<1>5. TypeOK'
    BY <1>1, <1>2 DEF Inv, TypeOK
<1>6. Phases'
    BY Zenon, <1>1, <1>3 DEF Inv, Phases
<1>7. Resolved'
    BY Zenon, <1>1 DEF Inv, Resolved, Excused
<1>8. Children'
    BY Zenon, <1>1 DEF Inv, Children
<1>9. Containment'
    BY Zenon, <1>1, <1>3, <1>4 DEF Inv, Containment
<1>10. HostDescriptors'
    BY Zenon, <1>1, <1>3 DEF Inv, HostDescriptors
<1>11. ChildDescriptors'
    BY Zenon, <1>1, <1>3 DEF Inv, ChildDescriptors, ChildHasItsSocket
<1> QED BY Zenon, <1>5, <1>6, <1>7, <1>8, <1>9, <1>10, <1>11 DEF Inv

LEMMA LinkFacts ==
    /\ ~NoLink.pid /\ ~NoLink.mounted /\ NoLink.spawns = 0
    /\ NoChild \in ChildType /\ NoChild.st = "none" /\ ~NoChild.killed
BY NoChildView DEF NoLink, NoChild, ChildType

(* A probe is over, and the next one or the host's work begins. *)
LEMMA Probed ==
    ASSUME Inv, at \in {"probe", "probe_wait"}, NEW found, found \subseteq Caps, Next_probe(found),
           child' \in ChildType, child'.st = "none", ~child'.killed,
           UNCHANGED <<dev_mode, prepared, link, hfd, cfd, c2p, p2c, sock, root, leaf, mounts>>
    PROVE  Inv'
<1>1. Probing /\ job \in Caps /\ link = NoLink /\ root = {} /\ leaf = "none" /\ sock = "none" /\ Only(hfd, Base)
    BY Zenon DEF Inv, Phases, Probing, HostDescriptors
<1>2. UNCHANGED <<dev_mode, prepared, link, hfd, cfd, c2p, p2c, sock, root, leaf, mounts>>
    OBVIOUS
<1>3. \/ job' \in Caps /\ at' = "probe"
      \/ job' = "none" /\ at' = "idle"
    BY Zenon, <1>1 DEF Next_probe, Caps
<1>4. enforceable' \subseteq Caps
    BY Zenon DEF Inv, TypeOK, Next_probe
<1>5. TypeOK'
    BY <1>2, <1>3, <1>4 DEF Inv, TypeOK, ChildType
<1>6. ~link'.pid /\ ~link'.mounted /\ job' \notin {"mount", "respawn"}
    BY Zenon, <1>1, <1>2, <1>3, LinkFacts DEF Caps
<1>7. Phases'
    BY Zenon, <1>1, <1>2, <1>3, <1>6 DEF Phases, Probing, Caps, Handshake, Starting
<1>8. Resolved'
    BY Zenon, <1>6 DEF Resolved
<1>9. Children'
    BY Zenon, <1>1, <1>2, <1>3 DEF Children, Handshake, Starting, Started
<1>10. Containment'
    BY Zenon, <1>3 DEF Containment
<1>11. HostDescriptors'
  <2>1. Only(hfd, Base)'
      BY <1>1, <1>2 DEF Only
  <2>2. Only(hfd, Base \cup {})'
      BY Zenon, <2>1 DEF Only
  <2> QED BY Zenon, <1>3, <1>6, <2>1, <2>2 DEF HostDescriptors, Handshake, Started
<1>12. ChildDescriptors'
    BY DEF ChildDescriptors, ChildHasItsSocket
<1> QED BY Zenon, <1>5, <1>7, <1>8, <1>9, <1>10, <1>11, <1>12 DEF Inv

LEMMA Probe_endStep == ASSUME Inv, probe_end PROVE Inv'
<1>1. PICK found \in {{}, {job}} : Next_probe(found)
    BY Zenon DEF probe_end
<1>2. found \subseteq Caps /\ at = "probe_wait"
    BY Zenon, <1>1 DEF probe_end, Inv, Phases, Probing
<1>3. child' = NoChild /\ UNCHANGED <<dev_mode, prepared, link, hfd, cfd, c2p, p2c, sock, root, leaf, mounts>>
    BY DEF probe_end, pipes, sandbox
<1> QED BY Zenon, <1>1, <1>2, <1>3, LinkFacts, Probed

LEMMA Cgroup_baseStep == ASSUME Inv, cgroup_base PROVE Inv'
<1>1. PICK found \in {{}, {"Resources"}} : Next_probe(found)
    BY Zenon DEF cgroup_base
<1>2. found \subseteq Caps /\ at = "probe"
    BY Zenon, <1>1 DEF cgroup_base, Caps
<1>3. UNCHANGED <<dev_mode, prepared, link, child, hfd, cfd, c2p, p2c, sock, root, leaf, mounts>>
    BY Zenon DEF cgroup_base, pipes, sandbox
<1>4. child \in ChildType /\ child.st = "none" /\ ~child.killed
    BY Zenon, <1>2 DEF Inv, TypeOK, ChildType, Children
<1> QED BY Zenon, <1>1, <1>2, <1>3, <1>4, Probed

LEMMA Wait_for_helloStep == ASSUME Inv, wait_for_hello PROVE Inv'
<1>1. UNCHANGED <<enforceable, dev_mode, job, prepared, link, child, hfd, cfd, c2p, p2c, root, leaf, mounts>>
    BY DEF wait_for_hello, pipes, sandbox
<1>2. at = "await_hello" /\ at' \in {"confirm", "teardown"} /\ sock' = "none" /\ (at' = "confirm" => sock = "hello")
    BY DEF wait_for_hello
<1>3. Probing' = Probing /\ Sandboxed' = Sandboxed
    BY Zenon, <1>1 DEF Probing, Sandboxed
<1>4. unshare_isolation' = unshare_isolation
    BY Zenon, <1>3 DEF unshare_isolation, needs_userns
<1>5. job \in {"mount", "respawn"} /\ ~Probing /\ link.pid
    BY Zenon, <1>2 DEF Inv, Phases, Probing, Caps, Children, Started
<1>6. TypeOK'
    BY <1>1, <1>2 DEF Inv, TypeOK
<1>7. Phases'
    BY Zenon, <1>1, <1>2, <1>3, <1>5 DEF Inv, Phases, Starting, Handshake
<1>8. Resolved'
    BY Zenon, <1>1 DEF Inv, Resolved, Excused
<1>9. Children'
    BY Zenon, <1>1, <1>2, <1>5 DEF Inv, Children, Starting, Handshake, Started
<1>10. Containment'
    BY Zenon, <1>1, <1>2, <1>3, <1>4 DEF Inv, Containment
<1>11. HostDescriptors'
    BY Zenon, <1>1, <1>2, <1>5 DEF Inv, HostDescriptors, Handshake, Started
<1>12. ChildDescriptors'
    BY Zenon, <1>1, <1>3 DEF Inv, ChildDescriptors, ChildHasItsSocket
<1> QED BY Zenon, <1>6, <1>7, <1>8, <1>9, <1>10, <1>11, <1>12 DEF Inv

(* What a real child may be contained in. *)
LEMMA RealSandbox == ASSUME ~Probing PROVE Sandboxed = {c \in Caps : link.res[c] = "Enforced"}
BY Zenon DEF Sandboxed

LinkType ==
    [grant : Grant, dev : BOOLEAN, res : [Caps -> {"none", "Granted", "Enforced", "Uncontained"}],
     confirmed : SUBSET Caps, pid : BOOLEAN, mounted : BOOLEAN, spawns : 0..MaxSpawns]

LEMMA ConfirmStep == ASSUME Inv, confirm PROVE Inv'
<1>1. UNCHANGED <<enforceable, dev_mode, prepared, child, hfd, cfd, c2p, p2c, sock, root, leaf, mounts>> /\ at = "confirm"
    BY Zenon DEF confirm, pipes, sandbox
<1>2. job \in {"mount", "respawn"} /\ ~Probing /\ link.pid /\ child.st \in {"running", "zombie"}
      /\ (job = "respawn" => link.mounted) /\ Only(hfd, Base \cup {"sock_p"})
    BY <1>1 DEF Inv, Phases, Probing, Caps, Children, Started, HostDescriptors
<1>3. Sandboxed \subseteq Caps /\ Sandboxed = {c \in Caps : link.res[c] = "Enforced"} /\ link \in LinkType
    BY Zenon, <1>2, RealSandbox DEF Inv, TypeOK, LinkType
<1>4. /\ link' \in LinkType /\ link'.grant = link.grant /\ link'.dev = link.dev /\ link'.res = link.res
      /\ link'.pid /\ link'.mounted = link.mounted
      /\ \/ at' = "teardown" /\ job' = job
         \/ /\ confirm_all /\ link'.confirmed = Sandboxed
            /\ \/ at' = "register" /\ job' = "mount"
               \/ at' = "idle" /\ job' = "none" /\ link.mounted
  <2>1. CASE confirm_all /\ link' = [link EXCEPT !.confirmed = Sandboxed]
             /\ IF job = "mount" THEN at' = "register" /\ UNCHANGED job ELSE at' = "idle" /\ job' = "none"
      BY Zenon, <1>2, <1>3, <2>1 DEF LinkType
  <2>2. CASE at' = "teardown" /\ UNCHANGED <<link, job>>
      BY Zenon, <1>2, <1>3, <2>2
  <2> QED BY Zenon, <2>1, <2>2 DEF confirm
<1>5. ~Probing' /\ Sandboxed' = Sandboxed
  <2>1. ~Probing'
      BY <1>2, <1>4 DEF Probing, Caps
  <2>2. Sandboxed' = {c \in Caps : link'.res[c] = "Enforced"}
      BY Zenon, <2>1 DEF Sandboxed
  <2> QED BY Zenon, <1>3, <1>4, <2>1, <2>2
<1>6. unshare_isolation' = unshare_isolation
    BY Zenon, <1>5 DEF unshare_isolation, needs_userns
<1>7. TypeOK'
    BY <1>1, <1>4 DEF Inv, TypeOK, LinkType
<1>8. Phases'
    BY Zenon, <1>2, <1>4, <1>5 DEF Phases, Starting, Handshake
<1>9. Resolved'
    BY Zenon, <1>1, <1>2, <1>4 DEF Inv, Resolved, Excused
<1>10. Children'
    BY Zenon, <1>1, <1>2, <1>4 DEF Inv, Children, Starting, Handshake, Started
<1>11. Containment'
  <2>1. confirm_all /\ "Resources" \in Sandboxed => child.in_leaf /\ leaf = "limited"
      BY Zenon DEF confirm_all, child_is_isolated
  <2> QED BY Zenon, <1>1, <1>2, <1>4, <1>5, <1>6, <2>1 DEF Inv, Containment
<1>12. HostDescriptors'
    BY <1>1, <1>2, <1>4 DEF HostDescriptors, Handshake, Started
<1>13. ChildDescriptors'
    BY <1>1, <1>2, <1>5 DEF Inv, ChildDescriptors, ChildHasItsSocket
<1> QED BY Zenon, <1>7, <1>8, <1>9, <1>10, <1>11, <1>12, <1>13 DEF Inv

LEMMA RegisterStep == ASSUME Inv, register PROVE Inv'
<1>1. UNCHANGED <<enforceable, dev_mode, prepared, child, hfd, cfd, c2p, p2c, sock, root, leaf, mounts>> /\ at = "register"
    BY DEF register, pipes, sandbox
<1>2. job = "mount" /\ ~Probing /\ link.pid /\ child.st \in {"running", "zombie"} /\ Only(hfd, Base \cup {"sock_p"})
    BY <1>1 DEF Inv, Phases, Probing, Caps, Children, Started, HostDescriptors
<1>3. Sandboxed = {c \in Caps : link.res[c] = "Enforced"} /\ link \in LinkType
    BY Zenon, <1>2, RealSandbox DEF Inv, TypeOK, LinkType
<1>4. /\ link' \in LinkType /\ link'.grant = link.grant /\ link'.dev = link.dev /\ link'.res = link.res
      /\ link'.pid /\ link'.confirmed = link.confirmed
      /\ \/ at' = "teardown" /\ job' = "mount"
         \/ at' = "idle" /\ job' = "none" /\ link'.mounted
  <2>1. CASE at' = "teardown" /\ UNCHANGED <<job, link>>
      BY Zenon, <1>2, <1>3, <2>1
  <2>2. CASE at' = "idle" /\ job' = "none" /\ link' = [link EXCEPT !.mounted = TRUE]
      BY Zenon, <1>2, <1>3, <2>2 DEF LinkType
  <2> QED BY Zenon, <2>1, <2>2 DEF register
<1>5. ~Probing' /\ Sandboxed' = Sandboxed
  <2>1. ~Probing'
      BY <1>4 DEF Probing, Caps
  <2>2. Sandboxed' = {c \in Caps : link'.res[c] = "Enforced"}
      BY Zenon, <2>1 DEF Sandboxed
  <2> QED BY Zenon, <1>3, <1>4, <2>1, <2>2
<1>6. unshare_isolation' = unshare_isolation
    BY Zenon, <1>5 DEF unshare_isolation, needs_userns
<1>7. TypeOK'
    BY <1>1, <1>4 DEF Inv, TypeOK, LinkType
<1>8. Phases'
    BY <1>4, <1>5 DEF Phases, Starting, Handshake
<1>9. Resolved'
    BY <1>1, <1>2, <1>4 DEF Inv, Resolved, Excused
<1>10. Children'
    BY Zenon, <1>1, <1>2, <1>4 DEF Inv, Children, Starting, Handshake, Started
<1>11. Containment'
    BY Zenon, <1>1, <1>2, <1>4, <1>5, <1>6 DEF Inv, Containment
<1>12. HostDescriptors'
    BY Zenon, <1>1, <1>2, <1>4 DEF HostDescriptors, Handshake, Started
<1>13. ChildDescriptors'
    BY Zenon, <1>1, <1>2, <1>5 DEF Inv, ChildDescriptors, ChildHasItsSocket
<1> QED BY Zenon, <1>7, <1>8, <1>9, <1>10, <1>11, <1>12, <1>13 DEF Inv

LEMMA NoLinkType == NoLink \in LinkType
<1>1. MaxSpawns \in Nat /\ 0 \in 0..MaxSpawns
    BY ConstantsAssumption
<1>2. NoLink.grant \in Grant
    BY DEF NoLink, Grant, FsAccess
<1>3. [c \in Caps |-> "none"] \in [Caps -> {"none", "Granted", "Enforced", "Uncontained"}]
    BY Zenon
<1> QED BY Zenon, <1>1, <1>2, <1>3 DEF NoLink, LinkType

LEMMA MountStep == ASSUME Inv, NEW g \in Grants, mount(g) PROVE Inv'
<1> DEFINE res == [c \in Caps |-> resolution(g, c)]
           makes_root == res["Network"] # "Refused" /\ res["Filesystem"] = "Enforced"
           fresh == [NoLink EXCEPT !.grant = g, !.dev = dev_mode, !.res = res]
<1>1. /\ UNCHANGED <<enforceable, dev_mode, prepared, child, hfd, cfd, c2p, p2c, sock, leaf>>
      /\ at = "idle" /\ link = NoLink /\ mounts' \in 0..MaxMounts
    BY ConstantsAssumption DEF mount, pipes, Inv, TypeOK
<1>2. /\ job = "none" /\ ~Probing /\ child.st = "none" /\ "own" \notin root /\ leaf = "none" /\ sock = "none"
      /\ ~child.killed /\ Only(hfd, Base)
  <2>1. job = "none" /\ ~Probing /\ child.st = "none" /\ "own" \notin root /\ leaf = "none" /\ sock = "none" /\ ~child.killed
      BY Zenon, <1>1, LinkFacts DEF Inv, Phases, Children, Probing, Caps
  <2>2. Only(hfd, Base \cup {})
      BY Zenon, <1>1, LinkFacts DEF Inv, HostDescriptors
  <2> QED BY Zenon, <2>1, <2>2 DEF Only
<1>3. \/ root' \subseteq root \cup {"forgotten"} /\ UNCHANGED <<job, at, link>>
      \/ /\ ~refused(res) /\ link' = fresh /\ root' \subseteq root \cup {"own"}
         /\ job' = "mount" /\ at' = "spawn"
  <2>1. \/ makes_root /\ UNCHANGED <<job, at, link, root>>
        \/ /\ refused(res)
           /\ root' = IF makes_root THEN root \cup {"forgotten"} ELSE root
           /\ UNCHANGED <<job, at, link>>
        \/ /\ ~refused(res)
           /\ link' = fresh
           /\ root' = IF makes_root THEN root \cup {"own"} ELSE root
           /\ job' = "mount"
           /\ at' = "spawn"
      BY Zenon DEF mount
  <2> HIDE DEF makes_root, fresh, res
  <2> QED BY <2>1
<1>4. CASE root' \subseteq root \cup {"forgotten"} /\ UNCHANGED <<job, at, link>>
  <2>1. UNCHANGED <<enforceable, dev_mode, prepared, child, hfd, cfd, c2p, p2c, sock, leaf, job, at, link>>
        /\ root' \subseteq {"own", "forgotten"} /\ "own" \notin root'
      BY Zenon, <1>1, <1>2, <1>4 DEF Inv, TypeOK
  <2>2. ~Probing' /\ Sandboxed' = Sandboxed
      BY Zenon, <1>2, <2>1 DEF Probing, Sandboxed
  <2>3. TypeOK'
      BY <1>1, <2>1 DEF Inv, TypeOK
  <2>4. Phases'
      BY Zenon, <1>1, <1>2, <2>1, <2>2 DEF Phases, Handshake, Starting
  <2>5. Resolved'
      BY Zenon, <2>1 DEF Inv, Resolved, Excused
  <2>6. Children'
      BY Zenon, <1>1, <1>2, <2>1 DEF Children, Handshake, Starting, Started
  <2>7. Containment'
      BY Zenon, <1>1, <1>2, <2>1 DEF Containment
  <2>8. HostDescriptors'
      BY Zenon, <1>1, <2>1 DEF Inv, HostDescriptors, Handshake, Started
  <2>9. ChildDescriptors'
      BY Zenon, <1>2, <2>1 DEF ChildDescriptors, ChildHasItsSocket
  <2> QED BY Zenon, <2>3, <2>4, <2>5, <2>6, <2>7, <2>8, <2>9 DEF Inv
<1>5. CASE /\ ~refused(res) /\ link' = fresh /\ root' \subseteq root \cup {"own"}
           /\ job' = "mount" /\ at' = "spawn"
  <2>1. g \in Grant /\ dev_mode \in BOOLEAN /\ MaxSpawns \in Nat /\ 0 < MaxSpawns
      BY ConstantsAssumption DEF Inv, TypeOK
  <2>2. \A c \in Caps : resolution(g, c) \in {"Granted", "Enforced", "Uncontained"}
      BY Zenon, <1>5 DEF refused, resolution
  <2>3. res \in [Caps -> {"none", "Granted", "Enforced", "Uncontained"}]
      BY Zenon, <2>2
  <2>4. ASSUME NEW c \in Caps
        PROVE  res[c] = "Enforced" \/ Granted(g, c) \/ (c \notin enforceable /\ dev_mode)
      BY <2>2 DEF resolution
  <2> HIDE DEF res
  <2>5. /\ link' \in LinkType /\ link'.grant = g /\ link'.dev = dev_mode /\ link'.res = res
        /\ ~link'.pid /\ ~link'.mounted /\ link'.spawns = 0
      BY Zenon, <1>5, <2>1, <2>3, LinkFacts, NoLinkType DEF LinkType
  <2>6. root' \subseteq {"own", "forgotten"}
      BY <1>5 DEF Inv, TypeOK
  <2>7. TypeOK'
      BY <1>1, <1>5, <2>5, <2>6 DEF Inv, TypeOK, LinkType
  <2>8. Phases'
      BY <1>5, <2>1, <2>5 DEF Phases, Probing, Caps, Handshake, Starting
  <2>9. Resolved'
      BY Zenon, <1>1, <2>4, <2>5 DEF Resolved, Excused
  <2>10. Children'
      BY <1>1, <1>2, <1>5, <2>5 DEF Children, Handshake, Starting, Started
  <2>11. Containment'
      BY <1>1, <1>2, <1>5 DEF Containment
  <2>12. HostDescriptors'
    <3>1. Only(hfd, Base)'
        BY <1>1, <1>2 DEF Only
    <3> QED BY <1>5, <3>1 DEF HostDescriptors, Handshake, Started
  <2>13. ChildDescriptors'
      BY <1>1, <1>2 DEF ChildDescriptors, ChildHasItsSocket
  <2> QED BY Zenon, <2>7, <2>8, <2>9, <2>10, <2>11, <2>12, <2>13 DEF Inv
<1> QED BY Zenon, <1>3, <1>4, <1>5

(* The host has torn its child down: nothing of it is left. *)
LEMMA TornDown ==
    ASSUME Inv, at \in {"idle", "teardown"}, teardown_child, link' \in LinkType, ~link'.pid,
           link'.mounted => link.mounted /\ link'.grant = link.grant /\ link'.dev = link.dev /\ link'.res = link.res,
           \/ at' = "idle" /\ job' = "none"
           \/ at' = "spawn" /\ job' = "respawn" /\ link'.mounted /\ link'.spawns < MaxSpawns,
           UNCHANGED <<enforceable, dev_mode, prepared, c2p, p2c, mounts>>
    PROVE  Inv'
<1>1. child' \in ChildType /\ child'.st = "none" /\ ~child'.killed
  <2>1. CASE link.pid
      BY Zenon, <2>1, LinkFacts DEF teardown_child
  <2>2. CASE ~link.pid
    <3>1. child \in ChildType /\ child.st = "none" /\ ~child.killed
        BY Zenon, <2>2 DEF Inv, TypeOK, ChildType, Children
    <3> QED BY Zenon, <2>2, <3>1 DEF teardown_child
  <2> QED BY Zenon, <2>1, <2>2
<1>2. cfd' \in Table
    BY Zenon, NoFdsTable DEF teardown_child, Inv, TypeOK, Table
<1>3. hfd' \in Table /\ Only(hfd', Base)
  <2>1. hfd \in Table /\ hfd' = Without(hfd, {"sock_p"})
      BY Zenon DEF teardown_child, Inv, TypeOK, Table
  <2>2. Closes(hfd, {"sock_p"}, hfd')
      BY Zenon, <2>1, WithoutCloses
  <2>3. Only(hfd, Base \cup {"sock_p"})
    <3>1. Only(hfd, Base \cup (IF link.pid THEN {"sock_p"} ELSE {}))
        BY Zenon DEF Inv, HostDescriptors
    <3> QED BY <3>1 DEF Only
  <2>4. (Base \cup {"sock_p"}) \ {"sock_p"} \subseteq Base /\ "none" \in Base
      BY DEF Base
  <2>5. Only(hfd', Base)
      BY Zenon, <2>2, <2>3, <2>4, OnlyWithout
  <2> QED BY Zenon, <2>2, <2>5 DEF Closes
<1>4. sock' = "none" /\ leaf' = "none" /\ root' \subseteq {"own", "forgotten"} /\ "own" \notin root'
    BY Zenon DEF teardown_child, Inv, TypeOK
<1>5. UNCHANGED <<enforceable, dev_mode, prepared, c2p, p2c, mounts>> /\ ~Probing'
    BY Zenon DEF Probing, Caps
<1>6. TypeOK'
    BY <1>1, <1>2, <1>3, <1>4, <1>5 DEF Inv, TypeOK, ChildType, LinkType, Table
<1>7. Phases'
    BY Zenon, <1>5 DEF Phases, Handshake, Starting
<1>8. Resolved'
  <2>1. job' \in {"mount", "respawn"} \/ link'.mounted => link'.mounted
      BY Zenon
  <2> QED BY Zenon, <1>5, <2>1 DEF Inv, Resolved, Excused
<1>9. Children'
    BY Zenon, <1>1, <1>4 DEF Children, Handshake, Starting, Started
<1>10. Containment'
    BY Zenon, <1>1 DEF Containment
<1>11. HostDescriptors'
  <2>1. Only(hfd, Base)'
      BY <1>3 DEF Only
  <2>2. Only(hfd, Base \cup {})'
      BY Zenon, <2>1 DEF Only
  <2> QED BY Zenon, <2>1, <2>2 DEF HostDescriptors, Handshake, Started
<1>12. ChildDescriptors'
    BY Zenon, <1>1 DEF ChildDescriptors, ChildHasItsSocket
<1> QED BY Zenon, <1>6, <1>7, <1>8, <1>9, <1>10, <1>11, <1>12 DEF Inv

LEMMA WithoutPid ==
    ASSUME Inv, link' = [link EXCEPT !.pid = FALSE]
    PROVE  /\ link' \in LinkType /\ ~link'.pid /\ link'.mounted = link.mounted /\ link'.spawns = link.spawns
           /\ link'.grant = link.grant /\ link'.dev = link.dev /\ link'.res = link.res
BY Zenon DEF Inv, TypeOK, LinkType

LEMMA RespawnStep == ASSUME Inv, respawn PROVE Inv'
<1>1. at = "idle" /\ link.mounted /\ link.spawns < MaxSpawns /\ teardown_child /\ job' = "respawn" /\ at' = "spawn"
      /\ link' = [link EXCEPT !.pid = FALSE] /\ UNCHANGED <<enforceable, dev_mode, prepared, c2p, p2c, mounts>>
    BY DEF respawn, pipes
<1>2. /\ link' \in LinkType /\ ~link'.pid /\ link'.mounted = link.mounted /\ link'.spawns = link.spawns
      /\ link'.grant = link.grant /\ link'.dev = link.dev /\ link'.res = link.res
    BY Zenon, <1>1, WithoutPid
<1> QED BY Zenon, <1>1, <1>2, TornDown

LEMMA QuarantineStep == ASSUME Inv, quarantine PROVE Inv'
<1>1. at = "idle" /\ link.mounted /\ teardown_child /\ link' = [link EXCEPT !.pid = FALSE]
      /\ UNCHANGED <<enforceable, dev_mode, prepared, job, at, c2p, p2c, mounts>>
    BY DEF quarantine, pipes
<1>2. at' = "idle" /\ job' = "none"
    BY Zenon, <1>1 DEF Inv, Phases
<1>3. /\ link' \in LinkType /\ ~link'.pid /\ link'.mounted = link.mounted
      /\ link'.grant = link.grant /\ link'.dev = link.dev /\ link'.res = link.res
    BY Zenon, <1>1, WithoutPid
<1> QED BY Zenon, <1>1, <1>2, <1>3, TornDown

LEMMA UnmountStep == ASSUME Inv, unmount PROVE Inv'
<1>1. at = "idle" /\ teardown_child /\ link' = NoLink
      /\ UNCHANGED <<enforceable, dev_mode, prepared, job, at, c2p, p2c, mounts>>
    BY DEF unmount, pipes
<1>2. at' = "idle" /\ job' = "none"
    BY Zenon, <1>1 DEF Inv, Phases
<1> QED BY Zenon, <1>1, <1>2, NoLinkType, LinkFacts, TornDown

LEMMA TeardownStep == ASSUME Inv, teardown PROVE Inv'
<1>1. at = "teardown" /\ teardown_child /\ at' = "idle" /\ job' = "none"
      /\ UNCHANGED <<enforceable, dev_mode, prepared, c2p, p2c, mounts>>
      /\ link' = IF job = "mount" THEN NoLink ELSE [link EXCEPT !.pid = FALSE]
    BY DEF teardown, pipes
<1>2. CASE job = "mount"
    BY Zenon, <1>1, <1>2, NoLinkType, LinkFacts, TornDown
<1>3. CASE job # "mount"
  <2>1. link' = [link EXCEPT !.pid = FALSE]
      BY Zenon, <1>1, <1>3
  <2>2. /\ link' \in LinkType /\ ~link'.pid /\ link'.mounted = link.mounted
        /\ link'.grant = link.grant /\ link'.dev = link.dev /\ link'.res = link.res
      BY Zenon, <2>1, WithoutPid
  <2> QED BY Zenon, <1>1, <2>2, TornDown
<1> QED BY Zenon, <1>2, <1>3

(* What the link says of the sandbox is kept. *)
SameSandbox ==
    /\ link' \in LinkType /\ link'.grant = link.grant /\ link'.dev = link.dev /\ link'.res = link.res
    /\ link'.mounted = link.mounted

LEMMA SandboxKept ==
    ASSUME Inv, SameSandbox, UNCHANGED <<enforceable, job>>
    PROVE  Probing' = Probing /\ Sandboxed' = Sandboxed /\ unshare_isolation' = unshare_isolation /\ Resolved'
<1>1. Probing' = Probing /\ Sandboxed' = Sandboxed
    BY Zenon DEF Probing, Sandboxed, SameSandbox
<1>2. unshare_isolation' = unshare_isolation
    BY Zenon, <1>1 DEF unshare_isolation, needs_userns
<1>3. Resolved'
    BY Zenon DEF Inv, Resolved, Excused, SameSandbox
<1> QED BY Zenon, <1>1, <1>2, <1>3

LEMMA UnchangedLink == ASSUME Inv, UNCHANGED link PROVE SameSandbox
BY DEF SameSandbox, Inv, TypeOK, LinkType

(* A spawn fails: the host closes its descriptors and is to tear down. *)
LEMMA GivesUp ==
    ASSUME Inv, job \in {"mount", "respawn"}, at' = "teardown", SameSandbox, link'.pid \/ child.st = "none",
           hfd' \in Table, Only(hfd', Base), prepared' \in BOOLEAN, c2p' \in 0..1, p2c' \in 0..2,
           root' \subseteq {"own", "forgotten"}, leaf' \in {"none", "made", "limited"},
           UNCHANGED <<enforceable, dev_mode, job, child, cfd, sock, mounts>>
    PROVE  Inv'
<1>1. UNCHANGED <<enforceable, dev_mode, job, child, cfd, sock, mounts>> /\ ~Probing
    BY DEF Probing, Caps
<1>2. Probing' = Probing /\ Sandboxed' = Sandboxed /\ unshare_isolation' = unshare_isolation /\ Resolved'
    BY Zenon, <1>1, SandboxKept
<1>3. TypeOK'
    BY <1>1 DEF Inv, TypeOK, SameSandbox, LinkType, Table
<1>4. Phases'
    BY Zenon, <1>1, <1>2 DEF Inv, Phases, Handshake, Starting, SameSandbox
<1>5. Children'
    BY Zenon, <1>1 DEF Inv, Children, Handshake, Starting, Started
<1>6. Containment'
    BY Zenon, <1>1, <1>2 DEF Inv, Containment, SameSandbox
<1>7. HostDescriptors'
  <2>1. Only(hfd, Base \cup (IF link.pid THEN {"sock_p"} ELSE {}))'
      BY Zenon DEF Only
  <2> QED BY Zenon, <2>1 DEF HostDescriptors, Handshake, Started
<1>8. ChildDescriptors'
    BY Zenon, <1>1, <1>2 DEF Inv, ChildDescriptors, ChildHasItsSocket
<1> QED BY Zenon, <1>2, <1>3, <1>4, <1>5, <1>6, <1>7, <1>8 DEF Inv

LEMMA Not_releasedStep ==
    ASSUME Inv, Not_released, at \in Handshake, c2p' \in 0..1, p2c' \in 0..2,
           UNCHANGED <<enforceable, dev_mode, job, child, cfd, sock, root, leaf, mounts>>
    PROVE  Inv'
<1>1. UNCHANGED <<enforceable, dev_mode, job, child, cfd, sock, root, leaf, mounts>> /\ prepared' = FALSE
    BY Zenon DEF Not_released
<1>2. hfd \in Table /\ Only(hfd, Base \cup {"c2p_r", "p2c_w"} \cup (IF Probing THEN {} ELSE Sockets))
    BY Zenon DEF Inv, TypeOK, Table, HostDescriptors
<1>3. CASE Probing
  <2>1. hfd' = Without(hfd, Pipes) /\ at' = "probe_wait" /\ UNCHANGED link
      BY Zenon, <1>3 DEF Not_released, Failed
  <2>2. Closes(hfd, Pipes, hfd')
      BY Zenon, <1>2, <2>1, WithoutCloses
  <2>3. Only(hfd', Base) /\ hfd' \in Table
    <3>1. (Base \cup {"c2p_r", "p2c_w"} \cup {}) \ Pipes \subseteq Base /\ "none" \in Base
        BY DEF Base, Pipes
    <3>2. Only(hfd, Base \cup {"c2p_r", "p2c_w"} \cup {})
        BY Zenon, <1>2, <1>3
    <3>3. Only(hfd', Base)
        BY Zenon, <2>2, <3>1, <3>2, OnlyWithout
    <3> QED BY Zenon, <2>2, <3>3 DEF Closes
  <2>4. SameSandbox
      BY Zenon, <2>1, UnchangedLink
  <2>5. Probing' = Probing /\ Sandboxed' = Sandboxed /\ unshare_isolation' = unshare_isolation /\ Resolved'
      BY Zenon, <1>1, <2>4, SandboxKept
  <2>6. TypeOK'
      BY <1>1, <2>1, <2>3 DEF Inv, TypeOK, Table
  <2>7. Phases'
      BY <1>1, <1>3, <2>1, <2>5 DEF Inv, Phases, Handshake, Starting
  <2>8. Children'
      BY <1>1, <2>1 DEF Inv, Children, Handshake, Starting, Started
  <2>9. Containment'
      BY <1>1, <2>1, <2>5 DEF Inv, Containment
  <2>10. HostDescriptors'
    <3>1. Only(hfd, Base)'
        BY <2>3 DEF Only
    <3> QED BY <2>1, <3>1 DEF HostDescriptors, Handshake, Started
  <2>11. ChildDescriptors'
      BY <1>1, <2>5 DEF Inv, ChildDescriptors, ChildHasItsSocket
  <2> QED BY Zenon, <2>5, <2>6, <2>7, <2>8, <2>9, <2>10, <2>11 DEF Inv
<1>4. CASE ~Probing
  <2>1. hfd' = Without(hfd, Pipes \cup Sockets) /\ at' = "teardown" /\ link' = [link EXCEPT !.pid = TRUE]
      BY Zenon, <1>4 DEF Not_released, Failed, unprepared
  <2>2. Closes(hfd, Pipes \cup Sockets, hfd')
      BY Zenon, <1>2, <2>1, WithoutCloses
  <2>3. Only(hfd', Base) /\ hfd' \in Table
    <3>1. (Base \cup {"c2p_r", "p2c_w"} \cup Sockets) \ (Pipes \cup Sockets) \subseteq Base /\ "none" \in Base
        BY DEF Base, Pipes
    <3>2. Only(hfd, Base \cup {"c2p_r", "p2c_w"} \cup Sockets)
        BY Zenon, <1>2, <1>4
    <3>3. Only(hfd', Base)
        BY Zenon, <2>2, <3>1, <3>2, OnlyWithout
    <3> QED BY Zenon, <2>2, <3>3 DEF Closes
  <2>4. SameSandbox /\ link'.pid
      BY Zenon, <2>1 DEF SameSandbox, Inv, TypeOK, LinkType
  <2>5. job \in {"mount", "respawn"}
      BY <1>4 DEF Inv, TypeOK, Phases, Probing
  <2>6. root' \subseteq {"own", "forgotten"} /\ leaf' \in {"none", "made", "limited"} /\ prepared' \in BOOLEAN
      BY Zenon, <1>1 DEF Inv, TypeOK
  <2> QED BY Zenon, <1>1, <2>1, <2>3, <2>4, <2>5, <2>6, GivesUp
<1> QED BY Zenon, <1>3, <1>4

LEMMA InterruptedStep == ASSUME Inv, interrupted PROVE Inv'
<1>1. /\ at = "await_signal" /\ Not_released
      /\ UNCHANGED <<enforceable, dev_mode, job, child, cfd, c2p, p2c, sock, root, leaf, mounts>>
    BY DEF interrupted, pipes, sandbox
<1>2. at \in Handshake /\ c2p' \in 0..1 /\ p2c' \in 0..2
    BY <1>1 DEF Handshake, Inv, TypeOK
<1> QED BY Zenon, <1>1, <1>2, Not_releasedStep

LEMMA Await_signalStep == ASSUME Inv, await_signal PROVE Inv'
<1>1. /\ at = "await_signal"
      /\ UNCHANGED <<enforceable, dev_mode, job, child, cfd, p2c, sock, root, leaf, mounts>>
    BY DEF await_signal, sandbox
<1>2. CASE Not_released /\ UNCHANGED c2p
  <2>1. at \in Handshake /\ c2p' \in 0..1 /\ p2c' \in 0..2
      BY Zenon, <1>1, <1>2 DEF Handshake, Inv, TypeOK
  <2> QED BY Zenon, <1>1, <1>2, <2>1, Not_releasedStep
<1>3. CASE c2p = 1 /\ c2p' = 0 /\ at' = "prepare" /\ UNCHANGED <<prepared, link, hfd>>
  <2>1. UNCHANGED <<enforceable, dev_mode, job, child, cfd, p2c, sock, root, leaf, mounts, prepared, link, hfd>>
      BY Zenon, <1>1, <1>3
  <2>2. SameSandbox
      BY Zenon, <2>1, UnchangedLink
  <2>3. Probing' = Probing /\ Sandboxed' = Sandboxed /\ unshare_isolation' = unshare_isolation /\ Resolved'
      BY Zenon, <2>1, <2>2, SandboxKept
  <2>4. TypeOK'
      BY <1>3, <2>1 DEF Inv, TypeOK
  <2>5. Phases'
      BY Zenon, <1>1, <1>3, <2>1, <2>3 DEF Inv, Phases, Handshake, Starting
  <2>6. Children'
      BY <1>1, <1>3, <2>1 DEF Inv, Children, Handshake, Starting, Started
  <2>7. Containment'
      BY Zenon, <1>3, <2>1, <2>3 DEF Inv, Containment
  <2>8. HostDescriptors'
      BY Zenon, <1>1, <1>3, <2>1, <2>3 DEF Inv, HostDescriptors, Handshake, Started
  <2>9. ChildDescriptors'
      BY Zenon, <2>1, <2>3 DEF Inv, ChildDescriptors, ChildHasItsSocket
  <2> QED BY Zenon, <2>3, <2>4, <2>5, <2>6, <2>7, <2>8, <2>9 DEF Inv
<1> QED BY Zenon, <1>2, <1>3 DEF await_signal, unsignalled

LEMMA PrepareStep == ASSUME Inv, prepare PROVE Inv'
<1>1. /\ at = "prepare" /\ at' = "release"
      /\ UNCHANGED <<enforceable, dev_mode, job, link, hfd, cfd, c2p, p2c, sock, root, leaf, mounts>>
    BY DEF prepare, pipes, sandbox
<1>2. PICK mapped, moved \in BOOLEAN :
        /\ child' = [child EXCEPT !.mapped = mapped, !.in_leaf = moved]
        /\ prepared' \in IF needs_userns /\ ~mapped THEN {FALSE}
                         ELSE IF "Resources" \in Sandboxed THEN {TRUE, moved} ELSE {TRUE}
    BY Zenon DEF prepare
<1>3. /\ child' \in ChildType /\ child'.st = child.st /\ child'.ns = child.ns /\ child'.view = child.view
      /\ child'.killed = child.killed
    BY Zenon, <1>2 DEF Inv, TypeOK, ChildType
<1>4. prepared' \in BOOLEAN
    BY Zenon, <1>2
<1>5. SameSandbox
    BY Zenon, <1>1, UnchangedLink
<1>6. Probing' = Probing /\ Sandboxed' = Sandboxed /\ unshare_isolation' = unshare_isolation /\ Resolved'
    BY Zenon, <1>1, <1>5, SandboxKept
<1>7. TypeOK'
    BY <1>1, <1>3, <1>4 DEF Inv, TypeOK, ChildType
<1>8. Phases'
    BY <1>1, <1>6 DEF Inv, Phases, Handshake, Starting
<1>9. Children'
    BY Zenon, <1>1, <1>3 DEF Inv, Children, Handshake, Starting, Started
<1>10. Containment'
    BY Zenon, <1>1, <1>3, <1>6 DEF Inv, Containment
<1>11. HostDescriptors'
    BY Zenon, <1>1, <1>6 DEF Inv, HostDescriptors, Handshake, Started
<1>12. ChildDescriptors'
    BY Zenon, <1>1, <1>3, <1>6 DEF Inv, ChildDescriptors, ChildHasItsSocket
<1> QED BY Zenon, <1>6, <1>7, <1>8, <1>9, <1>10, <1>11, <1>12 DEF Inv

LEMMA ReleaseStep == ASSUME Inv, release PROVE Inv'
<1>1. /\ at = "release"
      /\ UNCHANGED <<enforceable, dev_mode, job, child, cfd, c2p, sock, root, leaf, mounts>>
    BY Zenon DEF release, sandbox
<1>2. CASE ~Open("p2c_r") /\ at' = "killed" /\ UNCHANGED <<prepared, link, hfd, p2c>>
  <2>1. UNCHANGED <<enforceable, dev_mode, job, child, cfd, p2c, c2p, sock, root, leaf, mounts, prepared, link, hfd>>
      BY Zenon, <1>1, <1>2
  <2>2. SameSandbox
      BY Zenon, <2>1, UnchangedLink
  <2>3. Probing' = Probing /\ Sandboxed' = Sandboxed /\ unshare_isolation' = unshare_isolation /\ Resolved'
      BY Zenon, <2>1, <2>2, SandboxKept
  <2>4. child.killed
    <3>1. child.st = "signalled" => Live /\ Has(cfd, "p2c_r")
        BY DEF Live, Inv, ChildDescriptors
    <3>2. Live /\ Has(cfd, "p2c_r") => Open("p2c_r")
        BY Zenon DEF Has, Open
    <3>3. child.st = "signalled" \/ child.killed
        BY Zenon, <1>1 DEF Inv, Children
    <3> QED BY Zenon, <1>2, <3>1, <3>2, <3>3
  <2>5. TypeOK'
      BY <1>2, <2>1 DEF Inv, TypeOK
  <2>6. Phases'
      BY Zenon, <1>1, <1>2, <2>1, <2>3 DEF Inv, Phases, Handshake, Starting
  <2>7. Children'
      BY Zenon, <1>2, <2>1, <2>4 DEF Inv, Children, Handshake, Starting, Started
  <2>8. Containment'
      BY Zenon, <1>2, <2>1, <2>3 DEF Inv, Containment
  <2>9. HostDescriptors'
      BY Zenon, <1>2 DEF HostDescriptors, Handshake, Started
  <2>10. ChildDescriptors'
      BY Zenon, <2>1, <2>3 DEF Inv, ChildDescriptors, ChildHasItsSocket
  <2> QED BY Zenon, <2>3, <2>5, <2>6, <2>7, <2>8, <2>9, <2>10 DEF Inv
<1>3. CASE p2c' = 2 /\ Not_released
  <2>1. at \in Handshake /\ c2p' \in 0..1 /\ p2c' \in 0..2
      BY <1>1, <1>3 DEF Handshake, Inv, TypeOK
  <2> QED BY Zenon, <1>1, <1>3, <2>1, Not_releasedStep
<1>4. CASE /\ p2c' = 1
           /\ hfd' = Without(hfd, Pipes \cup {"sock_c"})
           /\ at' = IF Probing THEN "probe_wait" ELSE "await_hello"
           /\ link' = IF Probing THEN link ELSE [link EXCEPT !.pid = TRUE]
           /\ UNCHANGED prepared
  <2>1. hfd \in Table /\ Only(hfd, Base \cup {"c2p_r", "p2c_w"} \cup (IF Probing THEN {} ELSE Sockets))
      BY Zenon, <1>1 DEF Inv, TypeOK, Table, HostDescriptors, Handshake
  <2>2. Closes(hfd, Pipes \cup {"sock_c"}, hfd')
      BY Zenon, <1>4, <2>1, WithoutCloses
  <2>3. hfd' \in Table /\ Only(hfd', Base \cup (IF Probing THEN {} ELSE {"sock_p"}))
    <3>1. /\ (Base \cup {"c2p_r", "p2c_w"} \cup (IF Probing THEN {} ELSE Sockets)) \ (Pipes \cup {"sock_c"})
               \subseteq Base \cup (IF Probing THEN {} ELSE {"sock_p"})
          /\ "none" \in Base \cup (IF Probing THEN {} ELSE {"sock_p"})
        BY DEF Base, Pipes, Sockets
    <3>2. Only(hfd', Base \cup (IF Probing THEN {} ELSE {"sock_p"}))
        BY Zenon, <2>1, <2>2, <3>1, OnlyWithout
    <3> QED BY Zenon, <2>2, <3>2 DEF Closes
  <2>4. SameSandbox /\ (IF Probing THEN link' = link ELSE link'.pid)
      BY Zenon, <1>4 DEF SameSandbox, Inv, TypeOK, LinkType
  <2>5. Probing' = Probing /\ Sandboxed' = Sandboxed /\ unshare_isolation' = unshare_isolation /\ Resolved'
      BY Zenon, <1>1, <2>4, SandboxKept
  <2>6. TypeOK'
    <3>1. at' \in {"probe_wait", "await_hello"} /\ p2c' \in 0..2 /\ prepared' = prepared
        BY <1>4
    <3>2. link' \in LinkType /\ hfd' \in Table
        BY Zenon, <2>3, <2>4 DEF SameSandbox
    <3> QED BY <1>1, <3>1, <3>2 DEF Inv, TypeOK, LinkType, Table
  <2>7. Phases'
    <3>1. job # "none" /\ (~Probing => job \in {"mount", "respawn"})
        BY Zenon, <1>1 DEF Inv, Phases, Handshake, TypeOK, Probing
    <3>2. Probing => link' = NoLink /\ root = {} /\ leaf = "none" /\ sock = "none" /\ at' = "probe_wait"
        BY Zenon, <1>4 DEF Inv, Phases
    <3>3. job = "respawn" => link'.mounted
        BY Zenon, <2>4 DEF Inv, Phases, SameSandbox
    <3> QED BY <1>1, <1>4, <2>5, <3>1, <3>2, <3>3 DEF Phases, Handshake, Starting
  <2>8. Children'
      BY Zenon, <1>1, <1>4, <2>4 DEF Inv, Children, Handshake, Starting, Started
  <2>9. Containment'
      BY Zenon, <1>1, <1>4, <2>4, <2>5 DEF Inv, Containment, SameSandbox
  <2>10. HostDescriptors'
    <3>1. CASE Probing
      <4>1. Only(hfd, Base)'
          BY Zenon, <2>3, <3>1 DEF Only
      <4> QED BY Zenon, <1>4, <3>1, <4>1 DEF HostDescriptors, Handshake, Started
    <3>2. CASE ~Probing
      <4>1. Only(hfd, Base \cup {"sock_p"})'
          BY Zenon, <2>3, <3>2 DEF Only
      <4> QED BY Zenon, <1>4, <3>2, <4>1 DEF HostDescriptors, Handshake, Started
    <3> QED BY Zenon, <3>1, <3>2
  <2>11. ChildDescriptors'
      BY Zenon, <1>1, <2>5 DEF Inv, ChildDescriptors, ChildHasItsSocket
  <2> QED BY Zenon, <2>5, <2>6, <2>7, <2>8, <2>9, <2>10, <2>11 DEF Inv
<1> QED BY Zenon, <1>2, <1>3, <1>4 DEF release

(* The two processes after a fork: each has closed its two of the four ends. *)
LEMMA Forked ==
    ASSUME RoomRule, Inv, at \in {"probe", "fork"}, at' = "await_signal", Room(hfd, 4),
           child' = [NoChild EXCEPT !.st = "forked"],
           cfd' = Without(With_pipes(hfd), {"c2p_r", "p2c_w"}), hfd' = Without(With_pipes(hfd), {"c2p_w", "p2c_r"}),
           c2p' = 0, p2c' = 0, SameSandbox, Probing => UNCHANGED link,
           UNCHANGED <<enforceable, dev_mode, job, prepared, sock, root, leaf, mounts>>
    PROVE  Inv'
<1>1. UNCHANGED <<enforceable, dev_mode, job, prepared, sock, root, leaf, mounts>>
      /\ c2p' = 0 /\ p2c' = 0 /\ at' = "await_signal"
    OBVIOUS
<1>2. child' \in ChildType /\ child'.st = "forked" /\ ~child'.killed
    BY Zenon, LinkFacts DEF ChildType
<1>3. sock = "none" /\ job # "none" /\ (at = "probe" <=> Probing)
    BY DEF Inv, Children, Phases, Starting, Probing, Caps
<1> DEFINE u == With_pipes(hfd)
           had == Base \cup (IF Probing THEN {} ELSE Sockets)
<1>4. hfd \in Table /\ u \in Table /\ Extends(hfd, u, Pipes)
    BY Zenon, With_pipesExtends DEF Inv, TypeOK, Table
<1> HIDE DEF u
<1>5. Closes(u, {"c2p_r", "p2c_w"}, cfd') /\ Closes(u, {"c2p_w", "p2c_r"}, hfd')
    BY Zenon, <1>4, WithoutCloses DEF u
<1>6. cfd' \in Table /\ hfd' \in Table
    BY Zenon, <1>5 DEF Closes
<1>7. Only(hfd', had \cup {"c2p_r", "p2c_w"})
  <2>1. Only(hfd, had)
    <3>1. CASE Probing
      <4>1. Only(hfd, Base)
          BY Zenon, <1>3, <3>1 DEF Inv, HostDescriptors
      <4> QED BY Zenon, <3>1, <4>1 DEF Only
    <3>2. CASE ~Probing
      <4>1. Only(hfd, Base \cup Sockets)
          BY Zenon, <1>3, <3>2 DEF Inv, HostDescriptors
      <4> QED BY Zenon, <3>2, <4>1
    <3> QED BY Zenon, <3>1, <3>2
  <2>2. Only(u, had \cup Pipes)
      BY Zenon, <1>4, <2>1, OnlyExtends
  <2>3. (had \cup Pipes) \ {"c2p_w", "p2c_r"} \subseteq had \cup {"c2p_r", "p2c_w"} /\ "none" \in had \cup {"c2p_r", "p2c_w"}
      BY DEF Base, Pipes
  <2> HIDE DEF had
  <2> QED BY Zenon, <1>5, <2>2, <2>3, OnlyWithout
<1>8. Has(hfd', "p2c_w") /\ Has(cfd', "p2c_r")
  <2>1. Has(u, "p2c_w") /\ Has(u, "p2c_r")
    <3>1. "p2c_w" \in Pipes /\ "p2c_r" \in Pipes
        BY DEF Pipes
    <3> QED BY Zenon, <1>4, <3>1 DEF Extends
  <2>2. "p2c_w" \notin {"c2p_w", "p2c_r"} /\ "p2c_r" \notin {"c2p_r", "p2c_w"}
      OBVIOUS
  <2> QED BY Zenon, <1>5, <2>1, <2>2, HasWithout
<1>9. ~Probing => Pair(cfd')
  <2> SUFFICES ASSUME ~Probing PROVE Pair(cfd')
      OBVIOUS
  <2>1. Pair(hfd)
      BY Zenon, <1>3 DEF Inv, HostDescriptors
  <2>2. "sock_p" \notin Pipes /\ "sock_c" \notin Pipes /\ "sock_p" \notin {"c2p_r", "p2c_w"} /\ "sock_c" \notin {"c2p_r", "p2c_w"}
      BY DEF Pipes
  <2>3. Pair(u)
      BY Zenon, <1>4, <2>1, <2>2, PairExtends
  <2> QED BY Zenon, <1>5, <2>2, <2>3, PairWithout
<1>10. Probing' = Probing /\ Sandboxed' = Sandboxed /\ unshare_isolation' = unshare_isolation /\ Resolved'
    BY Zenon, <1>1, SandboxKept
<1>11. TypeOK'
    BY <1>1, <1>2, <1>6 DEF Inv, TypeOK, ChildType, SameSandbox, LinkType, Table
<1>12. Phases'
  <2>1. Probing => link' = NoLink /\ root = {} /\ leaf = "none"
      BY Zenon DEF Inv, Phases
  <2>2. job = "respawn" => link'.mounted
      BY DEF Inv, Phases, SameSandbox
  <2> QED BY Zenon, <1>1, <1>3, <1>10, <2>1, <2>2 DEF Phases, Handshake, Starting
<1>13. Children'
    BY <1>1, <1>2, <1>3 DEF Children, Handshake, Starting, Started
<1>14. Containment'
    BY Zenon, <1>1, <1>2 DEF Containment
<1>15. HostDescriptors'
  <2>1. /\ Only(hfd, Base \cup {"c2p_r", "p2c_w"} \cup (IF Probing THEN {} ELSE Sockets))'
        /\ Has(hfd, "p2c_w")'
      BY Zenon, <1>7, <1>8, <1>10 DEF Only, Has
  <2> QED BY Zenon, <1>1, <2>1 DEF HostDescriptors, Handshake, Started
<1>16. ChildDescriptors'
  <2>1. Has(cfd, "p2c_r")' /\ (~Probing' => Pair(cfd)')
      BY Zenon, <1>8, <1>9, <1>10 DEF Has, Pair
  <2> QED BY Zenon, <1>2, <2>1 DEF ChildDescriptors, ChildHasItsSocket
<1> QED BY Zenon, <1>10, <1>11, <1>12, <1>13, <1>14, <1>15, <1>16 DEF Inv

LEMMA Probe_isolationStep == ASSUME RoomRule, Inv, probe_isolation PROVE Inv'
<1>1. at = "probe" /\ UNCHANGED <<dev_mode, prepared, link, sock, root, leaf, mounts>>
    BY DEF probe_isolation, sandbox
<1>2. CASE Next_probe({}) /\ UNCHANGED <<child, hfd, cfd, pipes>>
  <2>1. UNCHANGED <<dev_mode, prepared, link, child, hfd, cfd, c2p, p2c, sock, root, leaf, mounts>>
      BY Zenon, <1>1, <1>2 DEF pipes
  <2>2. child \in ChildType /\ child.st = "none" /\ ~child.killed /\ {} \subseteq Caps
      BY Zenon, <1>1 DEF Inv, TypeOK, ChildType, Children
  <2> QED BY Zenon, <1>1, <1>2, <2>1, <2>2, Probed
<1>3. CASE /\ Cardinality(Free(hfd)) >= 4
           /\ child' = [NoChild EXCEPT !.st = "forked"]
           /\ cfd' = Without(With_pipes(hfd), {"c2p_r", "p2c_w"})
           /\ hfd' = Without(With_pipes(hfd), {"c2p_w", "p2c_r"})
           /\ c2p' = 0 /\ p2c' = 0
           /\ at' = "await_signal"
           /\ UNCHANGED <<enforceable, job>>
  <2>1. Room(hfd, 4) /\ SameSandbox
      BY Zenon, <1>1, <1>3, UnchangedLink DEF Room
  <2> QED BY Zenon, <1>1, <1>3, <2>1, Forked
<1> QED BY Zenon, <1>2, <1>3 DEF probe_isolation

LEMMA Open_socketStep == ASSUME RoomRule, Inv, open_socket PROVE Inv'
<1>1. at = "spawn" /\ UNCHANGED <<enforceable, dev_mode, job, prepared, link, child, cfd, c2p, p2c, sock, mounts>>
    BY Zenon DEF open_socket, pipes
<1>2. /\ job \in {"mount", "respawn"} /\ ~Probing /\ child.st = "none" /\ ~child.killed /\ ~link.pid /\ sock = "none"
      /\ Only(hfd, Base) /\ link.spawns < MaxSpawns
    BY Zenon, <1>1 DEF Inv, Phases, Children, Starting, Probing, Caps, HostDescriptors
<1>3. hfd \in Table /\ SameSandbox /\ prepared' \in BOOLEAN /\ c2p' \in 0..1 /\ p2c' \in 0..2
    BY Zenon, <1>1, UnchangedLink DEF Inv, TypeOK, Table
<1>4. Probing' = Probing /\ Sandboxed' = Sandboxed /\ unshare_isolation' = unshare_isolation /\ Resolved'
    BY Zenon, <1>1, <1>3, SandboxKept
<1>5. root' \subseteq {"own", "forgotten"}
  <2>1. UNCHANGED root \/ root' = root \cup {"own"}
      BY Zenon DEF open_socket, sandbox
  <2> QED BY Zenon, <2>1 DEF Inv, TypeOK
<1>6. leaf' \in {"none", "made", "limited"}
    BY Zenon DEF open_socket, sandbox, cgroup_create_leaf, Inv, TypeOK
<1>7. CASE at' = "teardown" /\ UNCHANGED hfd
    BY Zenon, <1>1, <1>2, <1>3, <1>5, <1>6, <1>7, GivesUp
<1>8. CASE /\ Cardinality(Free(hfd)) >= 2
           /\ hfd' = Opened(Opened(hfd, "sock_p", TRUE), "sock_c", FALSE)
           /\ at' = IF Sandboxed = {} THEN "posix_spawn" ELSE "fork"
  <2>1. hfd' \in Table /\ Only(hfd', Base \cup Sockets) /\ Pair(hfd')
    <3>1. Room(hfd, 2)
        BY Zenon, <1>8 DEF Room
    <3> QED BY Zenon, <1>2, <1>3, <1>8, <3>1, SocketPair
  <2>2. at' \in {"posix_spawn", "fork"} /\ (at' = "posix_spawn" => Sandboxed' = {})
      BY <1>4, <1>8
  <2>3. TypeOK'
      BY <1>1, <1>3, <1>5, <1>6, <2>1, <2>2 DEF Inv, TypeOK, Table
  <2>4. Phases'
      BY Zenon, <1>1, <1>2, <1>4, <2>2 DEF Inv, Phases, Handshake, Starting
  <2>5. Children'
      BY Zenon, <1>1, <1>2, <2>2 DEF Children, Handshake, Starting, Started
  <2>6. Containment'
      BY Zenon, <1>1, <1>2, <2>2 DEF Containment
  <2>7. HostDescriptors'
    <3>1. Only(hfd, Base \cup Sockets)' /\ Pair(hfd)'
        BY Zenon, <2>1 DEF Only, Pair
    <3> QED BY Zenon, <2>2, <3>1 DEF HostDescriptors, Handshake, Started
  <2>8. ChildDescriptors'
      BY Zenon, <1>1, <1>2 DEF ChildDescriptors, ChildHasItsSocket
  <2> QED BY Zenon, <1>4, <2>3, <2>4, <2>5, <2>6, <2>7, <2>8 DEF Inv
<1> QED BY Zenon, <1>7, <1>8 DEF open_socket

(* A failed start closes the pair of sockets. *)
LEMMA StartFails ==
    ASSUME Inv, at \in {"fork", "posix_spawn"}, NEW t \in Table, Only(t, Base \cup Sockets),
           hfd' = Without(t, Sockets), at' = "teardown",
           UNCHANGED <<enforceable, dev_mode, job, prepared, link, child, cfd, c2p, p2c, sock, root, leaf, mounts>>
    PROVE  Inv'
<1>1. job \in {"mount", "respawn"} /\ child.st = "none"
    BY DEF Inv, Phases, Children, Starting
<1>2. Closes(t, Sockets, hfd')
    BY Zenon, WithoutCloses
<1>3. (Base \cup Sockets) \ Sockets \subseteq Base /\ "none" \in Base
    BY DEF Base
<1>4. hfd' \in Table /\ Only(hfd', Base)
  <2>1. Only(hfd', Base)
      BY Zenon, <1>2, <1>3, OnlyWithout
  <2> QED BY Zenon, <1>2, <2>1 DEF Closes
<1>5. /\ SameSandbox /\ prepared' \in BOOLEAN /\ c2p' \in 0..1 /\ p2c' \in 0..2
      /\ root' \subseteq {"own", "forgotten"} /\ leaf' \in {"none", "made", "limited"}
    BY Zenon, UnchangedLink DEF Inv, TypeOK
<1> QED BY Zenon, <1>1, <1>4, <1>5, GivesUp

LEMMA ForkStep == ASSUME RoomRule, Inv, fork PROVE Inv'
<1>1. at = "fork" /\ UNCHANGED <<enforceable, dev_mode, job, prepared, sock, root, leaf, mounts>>
    BY Zenon DEF fork, sandbox
<1>2. hfd \in Table /\ Only(hfd, Base \cup Sockets) /\ ~Probing /\ link.spawns < MaxSpawns
    BY Zenon, <1>1 DEF Inv, TypeOK, Table, HostDescriptors, Phases, Starting, Handshake
<1>3. CASE Failed("teardown", Sockets) /\ UNCHANGED <<link, child, cfd, pipes>>
  <2>1. UNCHANGED <<link, child, cfd, c2p, p2c>> /\ hfd' = Without(hfd, Sockets) /\ at' = "teardown"
      BY Zenon, <1>3 DEF Failed, pipes
  <2> QED BY Zenon, <1>1, <1>2, <2>1, StartFails
<1>4. CASE /\ Cardinality(Free(hfd)) >= 2
           /\ hfd' = Without(Opened(Opened(hfd, "lost", FALSE), "lost", FALSE), Sockets)
           /\ at' = "teardown"
           /\ UNCHANGED <<link, child, cfd, pipes>>
  <2> DEFINE t1 == Opened(hfd, "lost", FALSE)
             t2 == Opened(t1, "lost", FALSE)
  <2>1. UNCHANGED <<link, child, cfd, c2p, p2c>> /\ hfd' = Without(t2, Sockets) /\ at' = "teardown"
      BY Zenon, <1>4 DEF pipes
  <2>2. "lost" \in AllFiles \ {"none"} /\ FALSE \in BOOLEAN /\ {"lost"} \cup {"lost"} \subseteq Base
      BY Zenon DEF AllFiles, Base
  <2>3. Room(hfd, 1 + 1) /\ 1 \in Nat /\ 1 = 0 + 1 /\ 0 \in Nat
      BY <1>4 DEF Room
  <2>4. t1 \in Table /\ Room(t1, 1) /\ Adds(hfd, t1, "lost", FALSE)
      BY Zenon, <1>2, <2>2, <2>3, OpenedAdds
  <2> HIDE DEF t1
  <2>5. t2 \in Table /\ Adds(t1, t2, "lost", FALSE)
      BY Zenon, <2>2, <2>3, <2>4, OpenedAdds
  <2> HIDE DEF t2
  <2>6. Extends(hfd, t1, {"lost"}) /\ Extends(t1, t2, {"lost"})
      BY Zenon, <1>2, <2>2, <2>4, <2>5, ExtendsOne
  <2>7. Only(t2, ((Base \cup Sockets) \cup {"lost"}) \cup {"lost"})
      BY Zenon, <1>2, <2>6, OnlyExtends
  <2>8. Only(t2, Base \cup Sockets)
    <3>1. ((Base \cup Sockets) \cup {"lost"}) \cup {"lost"} \subseteq Base \cup Sockets
        BY Zenon, <2>2
    <3> QED BY Zenon, <2>7, <3>1, OnlyMore
  <2> QED BY Zenon, <1>1, <2>1, <2>5, <2>8, StartFails
<1>5. CASE /\ Cardinality(Free(hfd)) >= 4
           /\ child' = [NoChild EXCEPT !.st = "forked"]
           /\ cfd' = Without(With_pipes(hfd), {"c2p_r", "p2c_w"})
           /\ hfd' = Without(With_pipes(hfd), childs_ends)
           /\ c2p' = 0 /\ p2c' = 0
           /\ link' = [link EXCEPT !.spawns = @ + 1]
           /\ at' = "await_signal"
  <2>1. MaxSpawns \in Nat /\ link.spawns + 1 \in 0..MaxSpawns
      BY <1>2, ConstantsAssumption DEF Inv, TypeOK
  <2>2. SameSandbox
      BY Zenon, <1>5, <2>1 DEF SameSandbox, Inv, TypeOK, LinkType
  <2>3. Room(hfd, 4) /\ hfd' = Without(With_pipes(hfd), {"c2p_w", "p2c_r"})
      BY Zenon, <1>5 DEF Room, childs_ends
  <2> QED BY Zenon, <1>1, <1>2, <1>5, <2>2, <2>3, Forked
<1> QED BY Zenon, <1>3, <1>4, <1>5 DEF fork

LEMMA Posix_spawnStep == ASSUME Inv, posix_spawn PROVE Inv'
<1>1. at = "posix_spawn" /\ UNCHANGED <<enforceable, dev_mode, job, prepared, c2p, p2c, sock, root, leaf, mounts>>
    BY Zenon DEF posix_spawn, pipes, sandbox
<1>2. /\ hfd \in Table /\ Only(hfd, Base \cup Sockets) /\ Pair(hfd) /\ ~Probing /\ link.spawns < MaxSpawns
      /\ Sandboxed = {} /\ job \in {"mount", "respawn"}
    BY Zenon, <1>1 DEF Inv, TypeOK, Table, HostDescriptors, Phases, Starting, Handshake
<1>3. CASE Failed("teardown", Sockets) /\ UNCHANGED <<link, child, cfd>>
  <2>1. UNCHANGED <<link, child, cfd>> /\ hfd' = Without(hfd, Sockets) /\ at' = "teardown"
      BY <1>3 DEF Failed
  <2> QED BY Zenon, <1>1, <1>2, <2>1, StartFails
<1>4. CASE /\ child' = [NoChild EXCEPT !.st = "running"]
           /\ cfd' = Executed(socket_dance(hfd))
           /\ hfd' = Without(hfd, {"sock_c"})
           /\ link' = [link EXCEPT !.pid = TRUE, !.spawns = @ + 1]
           /\ at' = "await_hello"
  <2>1. MaxSpawns \in Nat /\ link.spawns + 1 \in 0..MaxSpawns
      BY <1>2, ConstantsAssumption DEF Inv, TypeOK
  <2>2. SameSandbox /\ link'.pid
      BY Zenon, <1>4, <2>1 DEF SameSandbox, Inv, TypeOK, LinkType
  <2>3. Probing' = Probing /\ Sandboxed' = Sandboxed /\ unshare_isolation' = unshare_isolation /\ Resolved'
      BY Zenon, <1>1, <2>2, SandboxKept
  <2>4. child' \in ChildType /\ child'.st = "running" /\ ~child'.killed /\ child'.ns = {}
    <3>1. NoChild.ns = {}
        BY DEF NoChild
    <3> QED BY <1>4, <3>1, LinkFacts DEF ChildType
  <2>5. cfd' \in Table /\ {d \in Fds : cfd'[d].file \in Sockets \cup Pipes} = {kChildFd} /\ cfd'[kChildFd].file = "sock_c"
    <3>1. \A d \in Fds : hfd[d].file \notin Pipes
        BY <1>2 DEF Only, Base, Sockets, Pipes
    <3> QED BY Zenon, <1>2, <1>4, <3>1, DanceDone
  <2>6. hfd' \in Table /\ Only(hfd', Base \cup {"sock_p"})
    <3>1. Closes(hfd, {"sock_c"}, hfd')
        BY Zenon, <1>2, <1>4, WithoutCloses
    <3>2. (Base \cup Sockets) \ {"sock_c"} \subseteq Base \cup {"sock_p"} /\ "none" \in Base \cup {"sock_p"}
        BY DEF Base, Sockets
    <3>3. Only(hfd', Base \cup {"sock_p"})
        BY Zenon, <1>2, <3>1, <3>2, OnlyWithout
    <3> QED BY Zenon, <3>1, <3>3 DEF Closes
  <2>7. TypeOK'
      BY Zenon, <1>1, <1>4, <2>2, <2>4, <2>5, <2>6 DEF Inv, TypeOK, SameSandbox, LinkType, ChildType, Table
  <2>8. Phases'
    <3>1. job = "respawn" => link'.mounted
        BY Zenon, <2>2 DEF Inv, Phases, SameSandbox
    <3> QED BY Zenon, <1>1, <1>2, <1>4, <2>3, <3>1 DEF Phases, Handshake, Starting
  <2>9. Children'
      BY Zenon, <1>1, <1>4, <2>2, <2>4 DEF Children, Handshake, Starting, Started
  <2>10. Containment'
    <3>1. unshare_isolation = {}
        BY Zenon, <1>2 DEF unshare_isolation, needs_userns
    <3> QED BY Zenon, <1>2, <1>4, <2>3, <2>4, <3>1 DEF Containment
  <2>11. HostDescriptors'
    <3>1. Only(hfd, Base \cup {"sock_p"})'
        BY Zenon, <2>6 DEF Only
    <3> QED BY Zenon, <1>4, <3>1 DEF HostDescriptors, Handshake, Started
  <2>12. ChildDescriptors'
      BY Zenon, <2>4, <2>5 DEF ChildDescriptors, ChildHasItsSocket
  <2> QED BY Zenon, <2>3, <2>7, <2>8, <2>9, <2>10, <2>11, <2>12 DEF Inv
<1> QED BY Zenon, <1>3, <1>4 DEF posix_spawn

-----------------------------------------------------------------------------

LEMMA InitInv == ASSUME Init PROVE Inv
<1>1. PICK S \in InitialFds :
        hfd = [d \in Fds |-> IF d \in S THEN [file |-> "host", cloexec |-> FALSE] ELSE Closed]
    BY Zenon DEF Init
<1>2. \A d \in Fds : (IF d \in S THEN [file |-> "host", cloexec |-> FALSE] ELSE Closed) \in Entry
    BY DEF Entry, Closed
<1>3. hfd \in Table /\ Only(hfd, Base)
  <2>1. [file |-> "host", cloexec |-> FALSE].file \in Base /\ Closed.file \in Base
      BY DEF Base, Closed
  <2>2. \A d \in Fds : hfd[d].file \in Base
      BY Zenon, <1>1, <2>1
  <2> QED BY Zenon, <1>1, <1>2, <2>2 DEF Table, Only
<1>4. link = NoLink /\ child = NoChild /\ at = "probe" /\ job = "Network" /\ cfd = NoFds /\ enforceable = {}
      /\ dev_mode = FALSE /\ prepared = FALSE /\ c2p = 0 /\ p2c = 0 /\ sock = "none" /\ root = {} /\ leaf = "none" /\ mounts = 0
    BY Zenon DEF Init
<1>5. TypeOK
  <2>1. MaxMounts \in Nat /\ link \in LinkType /\ child \in ChildType /\ cfd \in Table
      BY Zenon, <1>4, ConstantsAssumption, NoLinkType, LinkFacts, NoFdsTable
  <2>2. /\ enforceable \subseteq Caps /\ job \in Caps /\ mounts \in 0..MaxMounts /\ c2p \in 0..1 /\ p2c \in 0..2
        /\ dev_mode \in BOOLEAN /\ prepared \in BOOLEAN
    <3>1. {} \subseteq Caps /\ "Network" \in Caps /\ 0 \in 0..MaxMounts /\ 0 \in 0..1 /\ 0 \in 0..2
        BY <2>1 DEF Caps
    <3> QED BY Zenon, <1>4, <3>1
  <2>3. sock = "none" /\ root \subseteq {"own", "forgotten"} /\ leaf = "none" /\ at = "probe"
      BY Zenon, <1>4
  <2> QED BY Zenon, <1>3, <2>1, <2>2, <2>3 DEF TypeOK, LinkType, ChildType, Table
<1>6. Phases
    BY Zenon, <1>4 DEF Phases, Handshake, Starting, Probing, Caps
<1>7. Resolved
    BY Zenon, <1>4, LinkFacts DEF Resolved
<1>8. Children
    BY Zenon, <1>4, LinkFacts DEF Children, Handshake, Starting, Started
<1>9. Containment
    BY Zenon, <1>4, LinkFacts DEF Containment
<1>10. HostDescriptors
    BY Zenon, <1>3, <1>4 DEF HostDescriptors, Handshake, Started
<1>11. ChildDescriptors
    BY Zenon, <1>4, LinkFacts DEF ChildDescriptors, ChildHasItsSocket
<1> QED BY Zenon, <1>5, <1>6, <1>7, <1>8, <1>9, <1>10, <1>11 DEF Inv

LEMMA StutterInv == ASSUME Inv, UNCHANGED vars PROVE Inv'
<1>1. UNCHANGED <<enforceable, dev_mode, job, at, prepared, link, child, hfd, cfd, c2p, p2c, sock, root, leaf, mounts>>
    BY DEF vars, pipes, sandbox
<1>2. UNCHANGED HostSide /\ SameSandbox
    BY Zenon, <1>1, UnchangedLink DEF HostSide
<1>3. /\ Probing' = Probing /\ Sandboxed' = Sandboxed /\ unshare_isolation' = unshare_isolation
      /\ Phases' /\ Resolved' /\ HostDescriptors'
    BY Zenon, <1>1, <1>2, HostSideKept
<1>4. TypeOK'
    BY <1>1 DEF Inv, TypeOK
<1>5. Children'
    BY Zenon, <1>1 DEF Inv, Children
<1>6. Containment'
    BY Zenon, <1>1, <1>3 DEF Inv, Containment
<1>7. ChildDescriptors'
    BY Zenon, <1>1, <1>3 DEF Inv, ChildDescriptors, ChildHasItsSocket
<1> QED BY Zenon, <1>3, <1>4, <1>5, <1>6, <1>7 DEF Inv

LEMMA NextInv == ASSUME RoomRule, PlanRule, Inv, [Next]_vars PROVE Inv'
<1>1. CASE Host
    BY Zenon, <1>1, Probe_isolationStep, Probe_endStep, Cgroup_baseStep, Open_socketStep, ForkStep, Posix_spawnStep,
       Await_signalStep, PrepareStep, ReleaseStep, Wait_for_helloStep, ConfirmStep, RegisterStep, TeardownStep
       DEF Host
<1>2. CASE Child
    BY Zenon, <1>2, Child_unshareStep, Child_releasedStep, Child_execStep DEF Child
<1>3. CASE interrupted \/ child_hello \/ child_exit \/ child_killed
    BY Zenon, <1>3, InterruptedStep, Child_helloStep, Child_exitStep, Child_killedStep
<1>4. CASE set_dev_mode \/ respawn \/ quarantine \/ unmount \/ \E g \in Grants : mount(g)
    BY Zenon, <1>4, Set_dev_modeStep, RespawnStep, QuarantineStep, UnmountStep, MountStep
<1>5. CASE UNCHANGED vars
    BY Zenon, <1>5, StutterInv
<1> QED BY Zenon, <1>1, <1>2, <1>3, <1>4, <1>5 DEF Next

-----------------------------------------------------------------------------
(* What the two rules rest on.  Running a mount plan, by induction over the
   plan: for every grant it leads to exactly the view the grant promises. *)
INSTANCE WellFoundedInduction

(* A non-empty set of naturals has a least element. *)
LEMMA Least ==
    ASSUME NEW D, D \subseteq Nat, D # {}
    PROVE  \E i \in D : \A j \in D : i <= j
<1> DEFINE R == OpToRel(<, Nat)
<1>1. IsWellFoundedOn(R, Nat)
    BY Zenon, NatLessThanWellFounded
<1>2. \A i, j \in Nat : j < i => <<j, i>> \in R
    BY DEF OpToRel
<1> HIDE DEF R
<1>3. PICK i \in D : \A j \in D : ~(<<j, i>> \in R)
    BY Zenon, <1>1, WFMin
<1>4. \A j \in D : i \in Nat /\ j \in Nat /\ ~(j < i)
    BY Zenon, <1>2, <1>3
<1> QED BY <1>4

-----------------------------------------------------------------------------
(* Running a plan. *)

(* The views of the first n operations of a plan. *)
Traces(v, plan, n, f) == f = [i \in 0..n |-> IF i = 0 THEN v ELSE Done(f[i - 1], plan[i])]

(* The loop over a plan is well defined. *)
LEMMA TraceExists ==
    ASSUME NEW v, NEW plan, NEW n \in Nat
    PROVE  \E f : Traces(v, plan, n, f)
<1> DEFINE D == {k \in Nat : ~\E f : Traces(v, plan, k, f)}
<1> SUFFICES ASSUME D # {} PROVE FALSE
    BY Zenon
<1>1. PICK k \in D : \A j \in D : k <= j
    BY Zenon, Least
<1>2. CASE k = 0
  <2>1. Traces(v, plan, 0, [i \in 0..0 |-> v])
      BY DEF Traces
  <2> QED BY Zenon, <1>2, <2>1
<1>3. CASE k # 0
  <2>1. k - 1 \in Nat /\ k - 1 \notin D
      BY <1>1, <1>3
  <2>2. PICK f : Traces(v, plan, k - 1, f)
      BY Zenon, <2>1
  <2> DEFINE g == [i \in 0..k |-> IF i = k THEN Done(f[k - 1], plan[k]) ELSE f[i]]
  <2>3. \A i \in 0..k : i # 0 => i - 1 \in 0..k /\ i - 1 # k /\ g[i - 1] = f[i - 1]
      BY <1>3
  <2>4. \A i \in 0..k : i # k => i \in 0..(k - 1)
      BY <1>3
  <2>5. \A i \in 0..k : g[i] = IF i = 0 THEN v ELSE Done(g[i - 1], plan[i])
    <3> SUFFICES ASSUME NEW i \in 0..k PROVE g[i] = IF i = 0 THEN v ELSE Done(g[i - 1], plan[i])
        OBVIOUS
    <3>1. CASE i = k
        BY Zenon, <1>3, <2>3, <3>1
    <3>2. CASE i # k
      <4>1. f[i] = IF i = 0 THEN v ELSE Done(f[i - 1], plan[i])
          BY Zenon, <2>2, <2>4, <3>2 DEF Traces
      <4>2. g[i] = f[i]
          BY Zenon, <3>2
      <4> QED BY Zenon, <4>1, <4>2, <2>3
    <3> QED BY Zenon, <3>1, <3>2
  <2>6. Traces(v, plan, k, g)
      BY Zenon, <2>5 DEF Traces
  <2> QED BY Zenon, <2>6
<1> QED BY Zenon, <1>2, <1>3

LEMMA ViewsTrace ==
    ASSUME NEW v, NEW plan, Len(plan) \in Nat
    PROVE  Traces(v, plan, Len(plan), Views(v, plan))
<1>1. Views(v, plan) = CHOOSE f : Traces(v, plan, Len(plan), f)
    BY Zenon DEF Views, Traces
<1>2. \E f : Traces(v, plan, Len(plan), f)
    BY Zenon, TraceExists
<1> QED BY Zenon, <1>1, <1>2

(* From position k on, f goes through the views of the first n operations. *)
Loop(f, k, plan, n) == \A i \in 1..n : f[k + i] = Done(f[k + (i - 1)], plan[i])

LEMMA ViewsLoop ==
    ASSUME NEW v, NEW plan, Len(plan) \in Nat
    PROVE  Views(v, plan)[0] = v /\ Loop(Views(v, plan), 0, plan, Len(plan))
<1>1. /\ 0 \in 0..Len(plan)
      /\ \A i \in 1..Len(plan) : i \in 0..Len(plan) /\ i # 0 /\ 0 + i = i /\ 0 + (i - 1) = i - 1
    OBVIOUS
<1> DEFINE f == Views(v, plan)
           g == [i \in 0..Len(plan) |-> IF i = 0 THEN v ELSE Done(f[i - 1], plan[i])]
<1>2. Traces(v, plan, Len(plan), f)
    BY Zenon, ViewsTrace
<1> HIDE DEF f
<1>3. f = g
    BY Zenon, <1>2 DEF Traces
<1>4. \A i \in 0..Len(plan) : g[i] = IF i = 0 THEN v ELSE Done(f[i - 1], plan[i])
    OBVIOUS
<1> HIDE DEF g
<1>5. f[0] = v /\ \A i \in 1..Len(plan) : f[i] = Done(f[i - 1], plan[i])
    BY Zenon, <1>1, <1>3, <1>4
<1>6. f[0] = v /\ Loop(f, 0, plan, Len(plan))
    BY Zenon, <1>1, <1>5 DEF Loop
<1> QED BY Zenon, <1>6 DEF f

Agree(f, k, g, l) == f[k] = g[l]

(* Two loops over the same operations that start from the same view agree. *)
LEMMA SameLoop ==
    ASSUME NEW plan, NEW n \in Nat, NEW k \in Nat, NEW l \in Nat, NEW f, NEW g, Agree(f, k, g, l),
           Loop(f, k, plan, n), Loop(g, l, plan, n)
    PROVE  Agree(f, k + n, g, l + n)
<1> DEFINE D == {i \in Nat : i <= n /\ f[k + i] # g[l + i]}
<1>1. CASE D = {}
  <2>1. n <= n
      OBVIOUS
  <2> QED BY Zenon, <1>1, <2>1 DEF Agree
<1>2. CASE D # {}
  <2>1. PICK i \in D : \A j \in D : i <= j
      BY Zenon, <1>2, Least
  <2>2. i # 0
      BY <2>1 DEF Agree
  <2>3. i \in 1..n /\ i - 1 \in Nat /\ i - 1 <= n /\ ~(i <= i - 1)
      BY <2>1, <2>2
  <2>4. f[k + (i - 1)] = g[l + (i - 1)]
      BY Zenon, <2>1, <2>3
  <2>5. f[k + i] = g[l + i]
      BY Zenon, <2>3, <2>4 DEF Loop
  <2> QED BY Zenon, <2>1, <2>5
<1> QED BY Zenon, <1>1, <1>2

(* The relations between the view before and after an operation, or a plan. *)
Does(v, op, w) == Done(v, op) = w
Leads(v, plan, w) == After(v, plan) = w

(* A plan may be run part by part. *)
LEMMA AfterConcat ==
    ASSUME NEW v, NEW S, NEW s \in Seq(S), NEW t \in Seq(S)
    PROVE  Leads(v, s \o t, After(After(v, s), t))
<1> DEFINE st == s \o t
<1>1. /\ Len(s) \in Nat /\ Len(t) \in Nat /\ Len(st) = Len(s) + Len(t) /\ Len(st) \in Nat /\ 0 \in Nat
      /\ 0 + Len(s) = Len(s) /\ 0 + Len(t) = Len(t)
    OBVIOUS
<1>2. \A i \in 1..Len(s) : st[i] = s[i] /\ i \in 1..Len(st)
    OBVIOUS
<1>3. \A i \in 1..Len(t) : /\ st[Len(s) + i] = t[i] /\ Len(s) + i \in 1..Len(st)
                           /\ 0 + (Len(s) + i) = Len(s) + i
                           /\ 0 + ((Len(s) + i) - 1) = Len(s) + (i - 1)
    OBVIOUS
<1> HIDE DEF st
<1> DEFINE f == Views(v, st)
           g == Views(v, s)
           h == Views(After(v, s), t)
<1>4. f[0] = v /\ Loop(f, 0, st, Len(st))
    BY Zenon, <1>1, ViewsLoop
<1>5. g[0] = v /\ Loop(g, 0, s, Len(s))
    BY Zenon, <1>1, ViewsLoop
<1>6. h[0] = After(v, s) /\ Loop(h, 0, t, Len(t))
    BY Zenon, <1>1, ViewsLoop
<1>7. After(v, st) = f[Len(s) + Len(t)] /\ After(v, s) = g[Len(s)] /\ After(After(v, s), t) = h[Len(t)]
    BY Zenon, <1>1 DEF After
<1> HIDE DEF f, g, h
<1>8. Loop(f, 0, s, Len(s))
    BY Zenon, <1>2, <1>4 DEF Loop
<1>9. Agree(f, 0 + Len(s), g, 0 + Len(s))
  <2>1. Agree(f, 0, g, 0) /\ Len(s) \in Nat /\ 0 \in Nat
      BY Zenon, <1>1, <1>4, <1>5 DEF Agree
  <2> QED BY Zenon, <2>1, <1>5, <1>8, SameLoop
<1>10. Loop(f, Len(s), t, Len(t))
    BY Zenon, <1>3, <1>4 DEF Loop
<1>11. Agree(f, Len(s), h, 0) /\ Len(s) \in Nat /\ Len(t) \in Nat /\ 0 \in Nat
    BY Zenon, <1>1, <1>6, <1>7, <1>9 DEF Agree
<1>12. Agree(f, Len(s) + Len(t), h, 0 + Len(t))
    BY Zenon, <1>6, <1>10, <1>11, SameLoop
<1>13. After(v, st) = After(After(v, s), t)
    BY Zenon, <1>1, <1>7, <1>12 DEF Agree
<1> QED BY Zenon, <1>13 DEF st, Leads

LEMMA LeadsConcat ==
    ASSUME NEW S, NEW s \in Seq(S), NEW t \in Seq(S), NEW u, NEW v, NEW w, Leads(u, s, v), Leads(v, t, w)
    PROVE  Leads(u, s \o t, w)
<1>1. Leads(u, s \o t, After(After(u, s), t))
    BY Zenon, AfterConcat
<1> QED BY Zenon, <1>1 DEF Leads

LEMMA LeadsNone == ASSUME NEW v PROVE Leads(v, <<>>, v)
<1>1. Len(<<>>) = 0 /\ 0 \in Nat
    OBVIOUS
<1> QED BY Zenon, <1>1, ViewsLoop DEF After, Leads

LEMMA LeadsTwo ==
    ASSUME NEW a, NEW b,
           NEW v, NEW v1, NEW v2,
           Does(v, a, v1), Does(v1, b, v2)
    PROVE  Leads(v, <<a, b>>, v2)
<1> DEFINE p == <<a, b>>
           f == Views(v, p)
<1>1. Len(p) = 2 /\ 2 \in Nat /\ p[1] = a /\ p[2] = b
    OBVIOUS
<1> HIDE DEF p
<1>2. f[0] = v /\ Loop(f, 0, p, 2)
    BY Zenon, <1>1, ViewsLoop
<1>3. After(v, p) = f[2]
    BY Zenon, <1>1 DEF After
<1> HIDE DEF f
<1>4. f[1] = Done(f[0], p[1]) /\ f[2] = Done(f[1], p[2])
  <2>1. /\ 1 \in 1..2 /\ 2 \in 1..2
        /\ 0 + 1 = 1 /\ 0 + 2 = 2
        /\ 0 + (1 - 1) = 0 /\ 0 + (2 - 1) = 1
      OBVIOUS
  <2> QED BY Zenon, <1>2, <2>1 DEF Loop
<1>5. After(v, p) = v2
    BY Zenon, <1>1, <1>2, <1>3, <1>4 DEF Does
<1> QED BY Zenon, <1>5 DEF p, Leads

LEMMA LeadsThree ==
    ASSUME NEW a, NEW b, NEW c,
           NEW v, NEW v1, NEW v2, NEW v3,
           Does(v, a, v1), Does(v1, b, v2), Does(v2, c, v3)
    PROVE  Leads(v, <<a, b, c>>, v3)
<1> DEFINE p == <<a, b, c>>
           f == Views(v, p)
<1>1. Len(p) = 3 /\ 3 \in Nat /\ p[1] = a /\ p[2] = b /\ p[3] = c
    OBVIOUS
<1> HIDE DEF p
<1>2. f[0] = v /\ Loop(f, 0, p, 3)
    BY Zenon, <1>1, ViewsLoop
<1>3. After(v, p) = f[3]
    BY Zenon, <1>1 DEF After
<1> HIDE DEF f
<1>4. f[1] = Done(f[0], p[1]) /\ f[2] = Done(f[1], p[2]) /\ f[3] = Done(f[2], p[3])
  <2>1. /\ 1 \in 1..3 /\ 2 \in 1..3 /\ 3 \in 1..3
        /\ 0 + 1 = 1 /\ 0 + 2 = 2 /\ 0 + 3 = 3
        /\ 0 + (1 - 1) = 0 /\ 0 + (2 - 1) = 1 /\ 0 + (3 - 1) = 2
      OBVIOUS
  <2> QED BY Zenon, <1>2, <2>1 DEF Loop
<1>5. After(v, p) = v3
    BY Zenon, <1>1, <1>2, <1>3, <1>4 DEF Does
<1> QED BY Zenon, <1>5 DEF p, Leads

LEMMA LeadsFour ==
    ASSUME NEW a, NEW b, NEW c, NEW d,
           NEW v, NEW v1, NEW v2, NEW v3, NEW v4,
           Does(v, a, v1), Does(v1, b, v2), Does(v2, c, v3), Does(v3, d, v4)
    PROVE  Leads(v, <<a, b, c, d>>, v4)
<1> DEFINE p == <<a, b, c, d>>
           f == Views(v, p)
<1>1. Len(p) = 4 /\ 4 \in Nat /\ p[1] = a /\ p[2] = b /\ p[3] = c /\ p[4] = d
    OBVIOUS
<1> HIDE DEF p
<1>2. f[0] = v /\ Loop(f, 0, p, 4)
    BY Zenon, <1>1, ViewsLoop
<1>3. After(v, p) = f[4]
    BY Zenon, <1>1 DEF After
<1> HIDE DEF f
<1>4. f[1] = Done(f[0], p[1]) /\ f[2] = Done(f[1], p[2]) /\ f[3] = Done(f[2], p[3]) /\ f[4] = Done(f[3], p[4])
  <2>1. /\ 1 \in 1..4 /\ 2 \in 1..4 /\ 3 \in 1..4 /\ 4 \in 1..4
        /\ 0 + 1 = 1 /\ 0 + 2 = 2 /\ 0 + 3 = 3 /\ 0 + 4 = 4
        /\ 0 + (1 - 1) = 0 /\ 0 + (2 - 1) = 1 /\ 0 + (3 - 1) = 2 /\ 0 + (4 - 1) = 3
      OBVIOUS
  <2> QED BY Zenon, <1>2, <2>1 DEF Loop
<1>5. After(v, p) = v4
    BY Zenon, <1>1, <1>2, <1>3, <1>4 DEF Does
<1> QED BY Zenon, <1>5 DEF p, Leads

(* The operations of a plan, and a view all of whose mounts are private. *)
Ops == [kind : {"MakeRPrivate", "Mount", "Mkdir", "RemountRO", "SetattrRecRO", "PivotRoot", "Chdir", "Umount"},
        place : Places, as : Mounted_as]
MountKinds == {"Mount", "RemountRO", "SetattrRecRO"}
Private(mounted, host) == [at |-> mounted, private |-> TRUE, propagated |-> FALSE, host |-> host]

LEMMA Constants ==
    /\ {"/", "oldroot", "sys", "exe", "so", "scoped", "scratch"} \subseteq Places
    /\ {"absent", "dir", "writable", "noexec", "readonly"} \subseteq Mounted_as
    /\ {"Mount", "SetattrRecRO"} \subseteq MountKinds
BY DEF Places, Mounted_as, MountKinds

LEMMA DoneMkdir ==
    ASSUME NEW mounted \in [Places -> Mounted_as], NEW host, NEW p \in Places
    PROVE  Does(Private(mounted, host), Op("Mkdir", p, "dir"),
                Private([mounted EXCEPT ![p] = IF mounted[p] = "absent" THEN "dir" ELSE mounted[p]], host))
BY DEF Does, Done, Private, Op

LEMMA DoneMount ==
    ASSUME NEW mounted \in [Places -> Mounted_as], NEW host, NEW p \in Places, NEW as \in Mounted_as,
           NEW kind \in MountKinds
    PROVE  Does(Private(mounted, host), Op(kind, p, as), Private([mounted EXCEPT ![p] = as], host))
BY DEF Does, Done, Private, Op, MountKinds

LEMMA LeadsBind ==
    ASSUME NEW mounted \in [Places -> Mounted_as], NEW host, NEW p \in Places
    PROVE  Leads(Private(mounted, host), bind_ro_ops(p), Private([mounted EXCEPT ![p] = "readonly"], host))
<1> DEFINE m1 == [mounted EXCEPT ![p] = IF mounted[p] = "absent" THEN "dir" ELSE mounted[p]]
           m2 == [m1 EXCEPT ![p] = "writable"]
           m3 == [m2 EXCEPT ![p] = "readonly"]
<1>1. m1 \in [Places -> Mounted_as] /\ m2 \in [Places -> Mounted_as] /\ m3 = [mounted EXCEPT ![p] = "readonly"]
    BY DEF Mounted_as
<1>2. Does(Private(mounted, host), Op("Mkdir", p, "dir"), Private(m1, host))
    BY Zenon, DoneMkdir
<1> HIDE DEF m1
<1>3. Does(Private(m1, host), Op("Mount", p, "writable"), Private(m2, host))
    BY Zenon, <1>1, Constants, DoneMount
<1> HIDE DEF m2
<1>4. Does(Private(m2, host), Op("SetattrRecRO", p, "readonly"), Private(m3, host))
    BY Zenon, <1>1, Constants, DoneMount
<1> HIDE DEF m3
<1>5. Leads(Private(mounted, host), bind_ro_ops(p), Private(m3, host))
    BY Zenon, <1>2, <1>3, <1>4, LeadsThree DEF bind_ro_ops
<1> QED BY Zenon, <1>1, <1>5

LEMMA LeadsScratch ==
    ASSUME NEW mounted \in [Places -> Mounted_as], NEW host, NEW level
    PROVE  Leads(Private(mounted, host), scratch_ops(level),
                 Private(IF level \in {"WriteScoped", "WriteNoExec"}
                         THEN [mounted EXCEPT !["scratch"] = scratch_flags(level)] ELSE mounted, host))
<1>1. CASE level \notin {"WriteScoped", "WriteNoExec"}
    BY Zenon, <1>1, LeadsNone DEF scratch_ops
<1>2. CASE level \in {"WriteScoped", "WriteNoExec"}
  <2> DEFINE as == scratch_flags(level)
             m1 == [mounted EXCEPT !["scratch"] = IF mounted["scratch"] = "absent" THEN "dir" ELSE mounted["scratch"]]
             m2 == [m1 EXCEPT !["scratch"] = as]
  <2>1. as \in Mounted_as /\ "scratch" \in Places
      BY Constants DEF scratch_flags
  <2> HIDE DEF as
  <2>2. m1 \in [Places -> Mounted_as] /\ m2 = [mounted EXCEPT !["scratch"] = as]
      BY <2>1 DEF Mounted_as
  <2>3. Does(Private(mounted, host), Op("Mkdir", "scratch", "dir"), Private(m1, host))
      BY Zenon, <2>1, DoneMkdir
  <2> HIDE DEF m1
  <2>4. Does(Private(m1, host), Op("Mount", "scratch", as), Private(m2, host))
      BY Zenon, <2>1, <2>2, Constants, DoneMount
  <2> HIDE DEF m2
  <2>5. scratch_ops(level) = <<Op("Mkdir", "scratch", "dir"), Op("Mount", "scratch", as)>>
      BY Zenon, <1>2 DEF scratch_ops, as
  <2>6. Leads(Private(mounted, host), scratch_ops(level), Private(m2, host))
      BY Zenon, <2>3, <2>4, <2>5, LeadsTwo
  <2> QED BY Zenon, <1>2, <2>2, <2>6 DEF as
<1> QED BY Zenon, <1>1, <1>2

(* The first and the last operations of a plan. *)
Opening == <<Op("MakeRPrivate", "/", "dir"), Op("Mount", "/", "writable"), Op("Mkdir", "oldroot", "dir")>>
Closing == <<Op("Mount", "/", "readonly"), Op("PivotRoot", "oldroot", "dir"),
             Op("Chdir", "/", "dir"), Op("Umount", "oldroot", "dir")>>
Opened_at == [p \in Places |-> IF p = "/" THEN "writable" ELSE IF p = "oldroot" THEN "dir" ELSE "absent"]

LEMMA LeadsOpening == Leads(HostView, Opening, Private(Opened_at, "root"))
<1> DEFINE m0 == [p \in Places |-> "absent"]
           m1 == [m0 EXCEPT !["/"] = "writable"]
           m2 == [m1 EXCEPT !["oldroot"] = IF m1["oldroot"] = "absent" THEN "dir" ELSE m1["oldroot"]]
<1>1. m0 \in [Places -> Mounted_as] /\ m1 \in [Places -> Mounted_as]
    BY DEF Mounted_as
<1>2. m2 = Opened_at
    BY DEF Places, Opened_at
<1>3. Does(HostView, Op("MakeRPrivate", "/", "dir"), Private(m0, "root"))
    BY DEF Does, Done, HostView, Op, Private
<1> HIDE DEF m0
<1>4. Does(Private(m0, "root"), Op("Mount", "/", "writable"), Private(m1, "root"))
    BY Zenon, <1>1, Constants, DoneMount
<1> HIDE DEF m1
<1>5. Does(Private(m1, "root"), Op("Mkdir", "oldroot", "dir"), Private(m2, "root"))
    BY Zenon, <1>1, Constants, DoneMkdir
<1> HIDE DEF m2
<1>6. Leads(HostView, Opening, Private(m2, "root"))
    BY Zenon, <1>3, <1>4, <1>5, LeadsThree DEF Opening
<1> QED BY Zenon, <1>2, <1>6

LEMMA LeadsClosing ==
    ASSUME NEW mounted \in [Places -> Mounted_as]
    PROVE  Leads(Private(mounted, "root"), Closing, Private([mounted EXCEPT !["/"] = "readonly"], "gone"))
<1> DEFINE m == [mounted EXCEPT !["/"] = "readonly"]
<1>1. Does(Private(mounted, "root"), Op("Mount", "/", "readonly"), Private(m, "root"))
    BY Zenon, Constants, DoneMount
<1> HIDE DEF m
<1>2. Does(Private(m, "root"), Op("PivotRoot", "oldroot", "dir"), Private(m, "oldroot"))
    BY DEF Does, Done, Op, Private
<1>3. Does(Private(m, "oldroot"), Op("Chdir", "/", "dir"), Private(m, "oldroot"))
    BY DEF Does, Done, Op, Private
<1>4. Does(Private(m, "oldroot"), Op("Umount", "oldroot", "dir"), Private(m, "gone"))
    BY DEF Does, Done, Op, Private
<1>5. Leads(Private(mounted, "root"), Closing, Private(m, "gone"))
    BY Zenon, <1>1, <1>2, <1>3, <1>4, LeadsFour DEF Closing
<1> QED BY Zenon, <1>5 DEF m

LEMMA PlanParts ==
    /\ Opening \in Seq(Ops) /\ Closing \in Seq(Ops)
    /\ \A p \in Places : bind_ro_ops(p) \in Seq(Ops)
    /\ \A level : scratch_ops(level) \in Seq(Ops)
    /\ <<>> \in Seq(Ops)
<1>1. Opening \in Seq(Ops)
    BY DEF Opening, Ops, Op, Places, Mounted_as
<1>2. Closing \in Seq(Ops)
    BY DEF Closing, Ops, Op, Places, Mounted_as
<1>3. \A p \in Places : bind_ro_ops(p) \in Seq(Ops)
    BY DEF bind_ro_ops, Ops, Op, Mounted_as
<1>4. ASSUME NEW level PROVE scratch_ops(level) \in Seq(Ops)
  <2>1. scratch_flags(level) \in Mounted_as
      BY DEF scratch_flags, Mounted_as
  <2>2. Op("Mkdir", "scratch", "dir") \in Ops /\ Op("Mount", "scratch", scratch_flags(level)) \in Ops
      BY <2>1, Constants DEF Ops, Op
  <2>3. \A a, b \in Ops : <<a, b>> \in Seq(Ops)
      OBVIOUS
  <2>4. <<>> \in Seq(Ops)
      OBVIOUS
  <2> QED BY Zenon, <2>2, <2>3, <2>4 DEF scratch_ops
<1> QED BY <1>1, <1>2, <1>3, <1>4

(* A part of the plan that depends on a condition. *)
LEMMA LeadsBindIf ==
    ASSUME NEW mounted \in [Places -> Mounted_as], NEW host, NEW p \in Places, NEW if
    PROVE  Leads(Private(mounted, host), IF if THEN bind_ro_ops(p) ELSE <<>>,
                 Private(IF if THEN [mounted EXCEPT ![p] = "readonly"] ELSE mounted, host))
<1>1. CASE if
    BY Zenon, <1>1, LeadsBind
<1>2. CASE ~if
    BY Zenon, <1>2, LeadsNone
<1> QED BY Zenon, <1>1, <1>2

(* Running the plan that build_view_plan writes for a grant gives exactly the
   view its level promises (host.cpp:106-151, sandbox.cpp:233-282). *)
THEOREM PlanKeepsPromise ==
    ASSUME NEW level, NEW scoped, NEW so
    PROVE  run_mount_plan(build_view_plan(level, scoped, so)) = PromisedView(level, scoped, so)
<1> DEFINE ro == level = "ReadOnly" /\ scoped
           write == level \in {"WriteScoped", "WriteNoExec"}
           m1 == [Opened_at EXCEPT !["sys"] = "readonly"]
           m2 == [m1 EXCEPT !["exe"] = "readonly"]
           m3 == IF so THEN [m2 EXCEPT !["so"] = "readonly"] ELSE m2
           m4 == IF ro THEN [m3 EXCEPT !["scoped"] = "readonly"] ELSE m3
           m5 == IF write THEN [m4 EXCEPT !["scratch"] = scratch_flags(level)] ELSE m4
           m6 == [m5 EXCEPT !["/"] = "readonly"]
           p3 == IF so THEN bind_ro_ops("so") ELSE <<>>
           p4 == IF ro THEN bind_ro_ops("scoped") ELSE <<>>
<1> DEFINE T == [Places -> Mounted_as]
<1>1. Opened_at \in T /\ m1 \in T /\ m2 \in T /\ m3 \in T
    BY DEF Opened_at, Mounted_as
<1>2. m4 \in T
    BY <1>1 DEF Mounted_as
<1>3. m5 \in T
    BY <1>2 DEF Mounted_as, scratch_flags
<1>4. Private(m6, "gone") = PromisedView(level, scoped, so)
    BY DEF Private, PromisedView, Places, Opened_at, scratch_flags
<1>5. p3 \in Seq(Ops) /\ p4 \in Seq(Ops) /\ scratch_ops(level) \in Seq(Ops)
    BY Zenon, PlanParts, Constants
<1>6. build_view_plan(level, scoped, so)
        = Opening \o bind_ro_ops("sys") \o bind_ro_ops("exe") \o p3 \o p4 \o scratch_ops(level) \o Closing
    BY Zenon DEF build_view_plan, Opening, Closing
<1> DEFINE L(v) == Private(v, "root")
<1>7. Leads(HostView, Opening, L(Opened_at)) /\ Leads(L(Opened_at), bind_ro_ops("sys"), L(m1))
    BY Zenon, <1>1, Constants, LeadsOpening, LeadsBind
<1> HIDE DEF m1, T
<1>8. Leads(L(m1), bind_ro_ops("exe"), L(m2))
    BY Zenon, <1>1, Constants, LeadsBind DEF T
<1> HIDE DEF m2
<1>9. Leads(L(m2), p3, L(m3))
    BY Zenon, <1>1, Constants, LeadsBindIf DEF T
<1> HIDE DEF m3, p3
<1>10. Leads(L(m3), p4, L(m4))
    BY Zenon, <1>1, Constants, LeadsBindIf DEF T
<1> HIDE DEF m4, p4
<1>11. Leads(L(m4), scratch_ops(level), L(m5))
    BY Zenon, <1>2, LeadsScratch DEF T
<1> HIDE DEF m5
<1>12. Leads(L(m5), Closing, Private(m6, "gone"))
    BY Zenon, <1>3, LeadsClosing DEF T
<1> HIDE DEF m6, L
<1>13. \A s, t \in Seq(Ops) : s \o t \in Seq(Ops)
    OBVIOUS
<1>14. bind_ro_ops("sys") \in Seq(Ops) /\ bind_ro_ops("exe") \in Seq(Ops) /\ Opening \in Seq(Ops) /\ Closing \in Seq(Ops)
    BY Zenon, PlanParts, Constants
<1>15. /\ Opening \o bind_ro_ops("sys") \in Seq(Ops)
       /\ Leads(HostView, Opening \o bind_ro_ops("sys"), L(m1))
    BY Zenon, <1>7, <1>13, <1>14, LeadsConcat
<1>16. /\ Opening \o bind_ro_ops("sys") \o bind_ro_ops("exe") \in Seq(Ops)
       /\ Leads(HostView, Opening \o bind_ro_ops("sys") \o bind_ro_ops("exe"), L(m2))
    BY Zenon, <1>8, <1>13, <1>14, <1>15, LeadsConcat
<1>17. /\ Opening \o bind_ro_ops("sys") \o bind_ro_ops("exe") \o p3 \in Seq(Ops)
       /\ Leads(HostView, Opening \o bind_ro_ops("sys") \o bind_ro_ops("exe") \o p3, L(m3))
    BY Zenon, <1>9, <1>5, <1>13, <1>16, LeadsConcat
<1>18. /\ Opening \o bind_ro_ops("sys") \o bind_ro_ops("exe") \o p3 \o p4 \in Seq(Ops)
       /\ Leads(HostView, Opening \o bind_ro_ops("sys") \o bind_ro_ops("exe") \o p3 \o p4, L(m4))
    BY Zenon, <1>10, <1>5, <1>13, <1>17, LeadsConcat
<1>19. /\ Opening \o bind_ro_ops("sys") \o bind_ro_ops("exe") \o p3 \o p4 \o scratch_ops(level) \in Seq(Ops)
       /\ Leads(HostView, Opening \o bind_ro_ops("sys") \o bind_ro_ops("exe") \o p3 \o p4 \o scratch_ops(level), L(m5))
    BY Zenon, <1>11, <1>5, <1>13, <1>18, LeadsConcat
<1>20. Leads(HostView, build_view_plan(level, scoped, so), Private(m6, "gone"))
    BY Zenon, <1>6, <1>12, <1>14, <1>19, LeadsConcat
<1> QED BY Zenon, <1>4, <1>20 DEF Leads, run_mount_plan

(* Every plan leads from a view to a view. *)
LEMMA DoneView == ASSUME NEW v \in View, NEW op \in Ops PROVE Done(v, op) \in View
<1>1. CASE op.kind = "MakeRPrivate"
    BY <1>1 DEF Done, View, Ops
<1>2. CASE op.kind = "Mkdir"
    BY <1>2 DEF Done, View, Ops, Mounted_as
<1>3. CASE op.kind \in {"Mount", "RemountRO", "SetattrRecRO"}
    BY <1>3 DEF Done, View, Ops
<1>4. CASE op.kind \in {"PivotRoot", "Umount", "Chdir"}
    BY <1>4 DEF Done, View, Ops
<1> QED BY <1>1, <1>2, <1>3, <1>4 DEF Ops

LEMMA AfterView == ASSUME NEW v \in View, NEW plan \in Seq(Ops) PROVE After(v, plan) \in View
<1> DEFINE f == Views(v, plan)
           n == Len(plan)
           D == {i \in Nat : i <= n /\ f[i] \notin View}
<1>1. n \in Nat /\ n <= n /\ \A i \in 1..n : plan[i] \in Ops
    OBVIOUS
<1>2. f[0] = v /\ Loop(f, 0, plan, n)
    BY Zenon, <1>1, ViewsLoop
<1>3. After(v, plan) = f[n]
    BY Zenon DEF After
<1> HIDE DEF f, n
<1>4. CASE D = {}
    BY Zenon, <1>1, <1>3, <1>4
<1>5. CASE D # {}
  <2>1. PICK i \in D : \A j \in D : i <= j
      BY Zenon, <1>5, Least
  <2>2. i # 0
      BY <1>2, <2>1
  <2>3. i \in 1..n /\ i - 1 \in Nat /\ i - 1 <= n /\ ~(i <= i - 1) /\ 0 + i = i /\ 0 + (i - 1) = i - 1
      BY <1>1, <2>1, <2>2
  <2>4. f[i - 1] \in View
      BY Zenon, <2>1, <2>3
  <2>5. f[i] = Done(f[i - 1], plan[i])
      BY Zenon, <1>2, <2>3 DEF Loop
  <2> QED BY Zenon, <1>1, <2>1, <2>3, <2>4, <2>5, DoneView
<1> QED BY Zenon, <1>4, <1>5

LEMMA HostViewIsView == HostView \in View
BY DEF HostView, View, Mounted_as

LEMMA ProbeView == run_mount_plan(build_probe_plan) \in View
<1>1. build_probe_plan \in Seq(Ops)
    BY DEF build_probe_plan, Ops, Op, Places, Mounted_as
<1> QED BY Zenon, <1>1, HostViewIsView, AfterView DEF run_mount_plan

LEMMA PromisedIsView == ASSUME NEW level, NEW scoped, NEW so PROVE PromisedView(level, scoped, so) \in View
BY DEF PromisedView, View, Places, Mounted_as

-----------------------------------------------------------------------------
(* The rules, and with them the invariant. *)
INSTANCE FiniteSetTheorems

LEMMA PlanCorrect == PlanRule
BY Zenon, ProbeView, PlanKeepsPromise, PromisedIsView DEF PlanRule

LEMMA CountsFree == RoomRule
<1>1. IsFiniteSet(Fds)
  <2>1. 0 \in Int /\ MaxFd \in Int
      BY ConstantsAssumption
  <2> QED BY Zenon, <2>1, FS_Interval DEF Fds
<1> SUFFICES ASSUME NEW F \in SUBSET Fds, NEW n \in Nat, Cardinality(F) >= n + 1
             PROVE  (\E i \in F : \A j \in F : i <= j) /\ \A x \in F : Cardinality(F \ {x}) >= n
    BY Zenon DEF RoomRule
<1>2. IsFiniteSet(F)
    BY Zenon, <1>1, FS_Subset
<1>3. Cardinality(F) \in Nat
    BY Zenon, <1>2, FS_CardinalityType
<1>4. F # {}
    BY <1>3, FS_EmptySet
<1>5. \A x \in F : Cardinality(F \ {x}) = Cardinality(F) - 1
    BY Zenon, <1>2, FS_RemoveElement
<1>6. \E i \in F : \A j \in F : i <= j
    BY Zenon, <1>4, FdsFacts, Least
<1>7. \A x \in F : Cardinality(F \ {x}) >= n
    BY <1>3, <1>5
<1> QED BY Zenon, <1>6, <1>7

LEMMA InvAlways == Spec => []Inv
<1>1. Init => Inv
    BY Zenon, InitInv
<1>2. Inv /\ [Next]_vars => Inv'
    BY Zenon, CountsFree, PlanCorrect, NextInv
<1> QED BY <1>1, <1>2, PTL DEF Spec

LEMMA InvNamespaces == ASSUME Inv PROVE RunsInItsNamespaces
<1> SUFFICES ASSUME child.st = "running", NEW c \in {"Network", "Filesystem"} PROVE Contained(c) \/ Excused(c)
    BY Zenon DEF RunsInItsNamespaces
<1>1. ~Probing /\ child.ns = unshare_isolation
    BY Zenon DEF Inv, Containment
<1>2. job \in {"mount", "respawn"} \/ link.mounted
    BY <1>1 DEF Inv, TypeOK, Phases, Children, Handshake, Starting, Started, Probing
<1>3. c \in Caps /\ (link.res[c] = "Enforced" \/ Excused(c))
    BY Zenon, <1>2 DEF Inv, Resolved, Caps
<1>4. link.res[c] = "Enforced" => c \in Sandboxed
    BY Zenon, <1>1, <1>3, RealSandbox
<1>5. c \in Sandboxed => Contained(c)
  <2>1. CASE c = "Network"
      BY Zenon, <1>1, <2>1 DEF Contained, unshare_isolation
  <2>2. CASE c = "Filesystem"
      BY <1>1, <2>2 DEF Contained, unshare_isolation, Inv, Containment
  <2> QED BY Zenon, <2>1, <2>2
<1> QED BY Zenon, <1>3, <1>4, <1>5

LEMMA InvContained == ASSUME Inv PROVE MountedIsContained
<1> SUFFICES ASSUME at = "idle", child.st = "running", NEW c \in Caps
             PROVE  (c \in link.confirmed /\ Contained(c)) \/ Excused(c)
    BY Zenon DEF MountedIsContained
<1>1. ~Probing /\ link.mounted /\ link.confirmed = Sandboxed
    BY Zenon DEF Inv, Containment, Children
<1>2. link.res[c] = "Enforced" \/ Excused(c)
    BY Zenon, <1>1 DEF Inv, Resolved
<1>3. link.res[c] = "Enforced" => c \in Sandboxed
    BY Zenon, <1>1, RealSandbox
<1>4. CASE c \in {"Network", "Filesystem"}
  <2>1. Contained(c) \/ Excused(c)
      BY Zenon, <1>4, InvNamespaces DEF RunsInItsNamespaces
  <2> QED BY Zenon, <1>1, <1>2, <1>3, <2>1
<1>5. CASE c = "Resources"
  <2>1. c \in Sandboxed => Contained(c)
      BY Zenon, <1>5 DEF Contained, Inv, Containment
  <2> QED BY Zenon, <1>1, <1>2, <1>3, <2>1
<1> QED BY Zenon, <1>4, <1>5 DEF Caps

LEMMA InvNothingLeft == ASSUME Inv PROVE NothingLeftBehind
<1> SUFFICES ASSUME at = "idle"
             PROVE  /\ child.st # "none" => link.mounted /\ link.pid
                    /\ child.st = "none" => "own" \notin root /\ leaf = "none"
                    /\ \A d \in Fds : hfd[d].file \in {"none", "host", "lost"}
                                                        \cup (IF link.pid THEN {"sock_p"} ELSE {})
    BY Zenon DEF NothingLeftBehind
<1>1. /\ child.st # "none" => link.mounted /\ link.pid
      /\ child.st = "none" => "own" \notin root /\ leaf = "none"
    BY Zenon DEF Inv, Children
<1>2. Only(hfd, Base \cup (IF link.pid THEN {"sock_p"} ELSE {}))
    BY Zenon DEF Inv, HostDescriptors
<1> QED BY Zenon, <1>1, <1>2 DEF Only, Base

(* Every variable of a spawn keeps its type: the link, the child and both
   descriptor tables (host.cpp, sandbox.cpp). *)
THEOREM TypeCorrect == Spec => []TypeOK
<1>1. Inv => TypeOK
    BY Zenon DEF Inv
<1> QED BY <1>1, InvAlways, PTL

(* No instruction of a library runs outside the network namespace and the view
   its grant calls for, whatever fails, is interrupted or dies on the way
   (spawn_and_handshake, host.cpp; run_mount_plan, sandbox.cpp). *)
THEOREM NamespacesCorrect == Spec => []RunsInItsNamespaces
<1>1. Inv => RunsInItsNamespaces
    BY Zenon, InvNamespaces
<1> QED BY <1>1, InvAlways, PTL

(* When mount or respawn has returned, the running child is confirmed and
   contained in all its grant withholds, the limits included: the steps that
   only seem to succeed are caught by child_is_isolated (host.cpp, sandbox.cpp). *)
THEOREM ContainedCorrect == Spec => []MountedIsContained
<1>1. Inv => MountedIsContained
    BY Zenon, InvContained
<1> QED BY <1>1, InvAlways, PTL

(* Wherever socketpair put its two ends, the child that executes has its own at
   descriptor 3 and no other end of the handshake (the dance in host.cpp). *)
THEOREM SocketCorrect == Spec => []ChildHasItsSocket
<1>1. Inv => ChildHasItsSocket
    BY Zenon DEF Inv, ChildDescriptors
<1> QED BY <1>1, InvAlways, PTL

(* Between operations no child, view root, leaf or descriptor outlives its link
   (teardown_child and the error paths of spawn_and_handshake). *)
THEOREM NothingLeftCorrect == Spec => []NothingLeftBehind
<1>1. Inv => NothingLeftBehind
    BY Zenon, InvNothingLeft
<1> QED BY <1>1, InvAlways, PTL

(* The go byte is written only to a child that waits for it, unless somebody has
   killed the child (the write to sync_p2c in spawn_and_handshake). *)
THEOREM SigpipeCorrect == Spec => []OnlyKillsRaiseSigpipe
<1>1. Inv => OnlyKillsRaiseSigpipe
    BY Zenon DEF Inv, Children, OnlyKillsRaiseSigpipe
<1> QED BY <1>1, InvAlways, PTL
=============================================================================
