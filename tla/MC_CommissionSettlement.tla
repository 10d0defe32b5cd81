---------------------- MODULE MC_CommissionSettlement ----------------------
(***************************************************************************)
(* Instances of CommissionSettlement for TLC.                              *)
(***************************************************************************)
EXTENDS CommissionSettlement

CONSTANTS d1, e1, e2, e3, e4, r1, r2, w1, w2

(* One sale: the seller has three lines on it, so that a payout can recover *)
(* what a revision clawed back from the others; an award goes to the        *)
(* sponsor.                                                                 *)
MCDealOf   == [e \in Entitlement |-> d1]
MCOwnerOf  == [e \in Entitlement |-> IF e = e2 THEN r2 ELSE r1]
MCEntitled == [e \in Entitlement |-> IF e \in {e1, e3} THEN 3 ELSE 2]
MCRank     == SelectSeq(<<e1, e2, e3, e4>>, LAMBDA e : e \in Entitlement)

(* Vests with the money, withholds nothing, keeps a clawback window.       *)
Plain ==
  [trigger |-> "PRO_RATA", threshold |-> 0, holdback |-> 0, partial |-> TRUE,
   enforced |-> FALSE, lapseScope |-> "INCREMENT", disposition |-> "BREAKAGE",
   withholding |-> 0, recovery |-> 0, clawback |-> TRUE, cascades |-> TRUE]

(* What a lapsed realtor loses goes to the others.                         *)
Sharing ==
  [Plain EXCEPT !.enforced = TRUE, !.lapseScope = "REMAINING",
                !.disposition = "REDISTRIBUTE"]

(* A threshold with a holdback, a deduction, a partial recovery; what a    *)
(* lapse costs is held, and paid money is final.                           *)
Holding ==
  [Plain EXCEPT !.trigger = "ON_THRESHOLD", !.threshold = 60, !.holdback = 50,
                !.enforced = TRUE, !.disposition = "HOLD_PENDING_REINSTATEMENT",
                !.withholding = 10, !.recovery = 50, !.clawback = FALSE,
                !.cascades = FALSE]

PlainPlan == {Plain}
MCPlans   == {Sharing, Holding}
MCRevised == {2}
=============================================================================
