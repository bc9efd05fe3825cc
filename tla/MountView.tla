----------------------------- MODULE MountView -----------------------------
(***************************************************************************)
(* The restricted view of the file system that a child builds for itself:   *)
(* the plan the host writes (build_view_plan in src/isolation/host.cpp) and *)
(* what running it does (run_mount_plan in src/isolation/sandbox.cpp).      *)
(*                                                                         *)
(* A view says how each place below the new root is mounted, where the host's *)
(* own tree can still be seen, and whether a mount was made while mounts    *)
(* still propagated to the host.                                           *)
(***************************************************************************)
EXTENDS Naturals, Sequences

FsAccess == {"None", "ReadOnly", "WriteScoped", "WriteNoExec", "WriteAnywhere"}

(* "/" is the new root, "sys" stands for the directories of the dynamic
   loader, "scoped" for the tree a ReadOnly grant names. *)
Places == {"/", "oldroot", "sys", "exe", "so", "scoped", "scratch"}
Mounted_as == {"absent", "dir", "writable", "noexec", "readonly"}
View == [at : [Places -> Mounted_as], private : BOOLEAN, propagated : BOOLEAN,
         host : {"root", "oldroot", "gone"}]

HostView == [at |-> [p \in Places |-> "absent"], private |-> FALSE, propagated |-> FALSE,
             host |-> "root"]

Op(kind, place, as) == [kind |-> kind, place |-> place, as |-> as]

-----------------------------------------------------------------------------
(* build_view_plan. *)

bind_ro_ops(p) == <<Op("Mkdir", p, "dir"), Op("Mount", p, "writable"), Op("SetattrRecRO", p, "readonly")>>

(* Mutant: the scratch directory keeps its exec bit at every level. *)
scratch_flags_none(level) == "writable"
scratch_flags(level) == IF level = "WriteNoExec" THEN "noexec" ELSE "writable"

scratch_ops(level) ==
    IF level \in {"WriteScoped", "WriteNoExec"}
    THEN <<Op("Mkdir", "scratch", "dir"), Op("Mount", "scratch", scratch_flags(level))>>
    ELSE <<>>

build_view_plan(level, scoped, so_elsewhere) ==
    <<Op("MakeRPrivate", "/", "dir"), Op("Mount", "/", "writable"), Op("Mkdir", "oldroot", "dir")>>
    \o bind_ro_ops("sys")
    \o bind_ro_ops("exe")
    \o (IF so_elsewhere THEN bind_ro_ops("so") ELSE <<>>)
    \o (IF level = "ReadOnly" /\ scoped THEN bind_ro_ops("scoped") ELSE <<>>)
    \o scratch_ops(level)
    \o <<Op("Mount", "/", "readonly"), Op("PivotRoot", "oldroot", "dir"),
         Op("Chdir", "/", "dir"), Op("Umount", "oldroot", "dir")>>

(* The plan of the detection probe. *)
build_probe_plan ==
    <<Op("MakeRPrivate", "/", "dir"), Op("Mount", "/", "writable"), Op("Mkdir", "sys", "dir"),
      Op("Mkdir", "oldroot", "dir"), Op("Mount", "sys", "writable"), Op("RemountRO", "sys", "readonly"),
      Op("PivotRoot", "oldroot", "dir"), Op("Chdir", "/", "dir"), Op("Umount", "oldroot", "dir")>>

-----------------------------------------------------------------------------
(* run_mount_plan. *)

(* The operation has what it needs: a directory is made on a writable root
   unless it is there already, a mount point exists. *)
Possible(v, op) ==
    CASE op.kind = "Mkdir" -> v.at[op.place] # "absent" \/ v.at["/"] = "writable"
      [] op.kind \in {"Mount", "RemountRO", "SetattrRecRO", "PivotRoot"} ->
            op.place = "/" \/ v.at[op.place] # "absent"
      [] OTHER -> TRUE

Done(v, op) ==
    CASE op.kind = "MakeRPrivate" -> [v EXCEPT !.private = TRUE]
      [] op.kind = "Mkdir" -> [v EXCEPT !.at[op.place] = IF @ = "absent" THEN "dir" ELSE @]
      [] op.kind \in {"Mount", "RemountRO", "SetattrRecRO"} ->
            [v EXCEPT !.at[op.place] = op.as, !.propagated = @ \/ ~v.private]
      [] op.kind = "PivotRoot" -> [v EXCEPT !.host = "oldroot"]
      [] op.kind = "Umount" -> [v EXCEPT !.host = "gone"]
      [] op.kind = "Chdir" -> v

(* The views a plan goes through: the first, and one after each operation. *)
Views(start, plan) ==
    LET view[i \in 0..Len(plan)] == IF i = 0 THEN start ELSE Done(view[i - 1], plan[i]) IN view

(* The view after the whole plan. *)
After(start, plan) == Views(start, plan)[Len(plan)]
run_mount_plan(plan) == After(HostView, plan)

(* No operation of the plan fails for want of what the earlier ones make. *)
Runs(plan) == \A i \in 1..Len(plan) : Possible(Views(HostView, plan)[i - 1], plan[i])

-----------------------------------------------------------------------------
(* What each level promises: an allow-list.  Everything is read-only but the
   scratch directory of the write levels, which is noexec at WriteNoExec; the
   host's tree is absent; no mount ever propagates to the host. *)
PromisedView(level, scoped, so_elsewhere) ==
    [at |-> [p \in Places |->
                CASE p \in {"/", "sys", "exe"} -> "readonly"
                  [] p = "so" -> IF so_elsewhere THEN "readonly" ELSE "absent"
                  [] p = "scoped" -> IF level = "ReadOnly" /\ scoped THEN "readonly" ELSE "absent"
                  [] p = "scratch" -> IF level = "WriteScoped" THEN "writable"
                                      ELSE IF level = "WriteNoExec" THEN "noexec" ELSE "absent"
                  [] p = "oldroot" -> "dir"],
     private |-> TRUE, propagated |-> FALSE, host |-> "gone"]
=============================================================================
