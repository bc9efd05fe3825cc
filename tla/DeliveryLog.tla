---------------------------- MODULE DeliveryLog ----------------------------
(***************************************************************************)
(* What the Switchboard promises the holder of a Ticket, and nothing else: *)
(* tickets are numbered 1, 2, 3, ... as they are issued, every ticket      *)
(* starts Pending, and the fates are decided once each, in ticket order.   *)
(* Publishing issues several consecutive tickets in one step.              *)
(***************************************************************************)
EXTENDS Naturals, Sequences

CONSTANTS Fates,     \* the dispositions a delivery can end with
          Pending    \* the disposition of a delivery not yet decided

VARIABLE log         \* log[s] is the disposition of ticket s

Init == log = <<>>

(* A send or a publish: new tickets, all pending, after the old ones. *)
Issue ==
    /\ Len(log') > Len(log)
    /\ \A s \in 1..Len(log) : log'[s] = log[s]
    /\ \A s \in (Len(log) + 1)..Len(log') : log'[s] = Pending

(* The oldest pending ticket gets its fate. *)
Resolve ==
    \E s \in DOMAIN log, f \in Fates :
        /\ log[s] = Pending
        /\ \A t \in 1..(s - 1) : log[t] # Pending
        /\ log' = [log EXCEPT ![s] = f]

Next == Issue \/ Resolve

Spec == Init /\ [][Next]_log
=============================================================================
