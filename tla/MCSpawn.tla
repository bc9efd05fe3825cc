------------------------------ MODULE MCSpawn ------------------------------
(* Small instances of Spawn for TLC. *)
EXTENDS Spawn

G(net, level, scoped, unlimited) ==
    [Network |-> net, level |-> level, scoped |-> scoped, unlimited |-> unlimited]

(* The default grant, one opt-out after the other, and every level of access. *)
TheGrants ==
    {G(FALSE, "None", FALSE, FALSE), G(TRUE, "WriteAnywhere", FALSE, TRUE),
     G(TRUE, "WriteAnywhere", FALSE, FALSE), G(TRUE, "WriteNoExec", FALSE, TRUE),
     G(FALSE, "WriteAnywhere", FALSE, TRUE), G(TRUE, "WriteScoped", FALSE, FALSE),
     G(FALSE, "ReadOnly", TRUE, TRUE)}

(* Standard descriptors only; one more; one of them closed; two closed. *)
TheFds == {{0, 1, 2}, {0, 1, 2, 3}, {0, 1}, {0}}
=============================================================================
