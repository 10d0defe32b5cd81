----------------------------- MODULE MC_Handover -----------------------------
(* An instance of Handover: a project of two units that share its cost     *)
(* unevenly, so that a floor leaves a remainder.  One was sold off-plan,   *)
(* and its revenue is deferred; the other was recognised on invoice.       *)
EXTENDS Handover

MCUnits == <<[size |-> 1, price |-> 3, quantity |-> 1], [size |-> 2, price |-> 3, quantity |-> 1]>>

MCSales == <<[unit |-> 1, raised |-> 10], [unit |-> 2, raised |-> 0]>>

(* A bill, and a credit note of its supplier for part of it.               *)
MCBills == {7, -2}
=============================================================================
