------------------------- MODULE MC_InvoicePayments -------------------------
(***************************************************************************)
(* Instances of InvoicePayments for TLC.                                   *)
(***************************************************************************)
EXTENDS InvoicePayments

LOCAL INSTANCE TLC

CONSTANTS i1, i2, r1, r2, f1, f2

(* An invoice in two instalments and one paid outright, for the last unit. *)
MCPrincipal == [i \in Invoice |-> IF i = i1 THEN <<1, 2>> ELSE <<2>>]
MCDueDay    == [i \in Invoice |-> IF i = i1 THEN <<0, 2>> ELSE <<2>>]
MCQuantity  == [i \in Invoice |-> 1]
BothOnFirst == [r \in Receipt |-> i1]
MCDiscounts == [i \in Invoice |-> IF i = i1 THEN {2} ELSE {}]

AlikeReceipts == Permutations(Receipt)
=============================================================================
