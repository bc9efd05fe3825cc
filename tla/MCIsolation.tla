----------------------------- MODULE MCIsolation -----------------------------
(* Small instances of Isolation for TLC. *)
EXTENDS Isolation, TLC

CONSTANTS m1, m2

OneMessage == {m1}
TwoMessages == {m1, m2}
=============================================================================
