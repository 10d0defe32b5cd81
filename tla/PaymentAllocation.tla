------------------------- MODULE PaymentAllocation -------------------------
(***************************************************************************)
(* How an approved payment is spread over the schedules of a payment plan  *)
(* (shared/src/paymentAllocation.js), how a discount is spread over them   *)
(* (shared/src/invoiceDiscount.js), and the two statuses derived from them *)
(* (allocationService.js).  A plan's schedules are a sequence in due       *)
(* order, which is the order byDueDate sorts them in.                      *)
(*                                                                         *)
(* FeeForgotten, SpreadUncapped and ThresholdOnly stand for plausible      *)
(* mistakes in the operator that follows them.                             *)
(***************************************************************************)
EXTENDS Money

Settlement == {"unpaid", "partially_paid", "paid"}

Timing == {"upcoming", "due", "in_grace", "overdue"}

(* What the buyer must send for the principal of a schedule: the           *)
(* outstanding figure stays gross, the discount comes off at every read.   *)
PrincipalDue(s) == Greater(s.outstanding - s.discount, 0)

Collectable(s) ==
  IF s.settlement = "paid" THEN 0 ELSE s.fee + PrincipalDue(s)

(* What is left of the amount when the queue reaches schedule k.           *)
Reaching(amount, schedules, k) ==
  Greater(amount - Total([j \in 1..(k - 1) |-> Collectable(schedules[j])]), 0)

(* The allocation line of schedule k: its fee first, then its principal.   *)
FeeForgotten(amount, schedules, k) ==
  LET s     == schedules[k]
      reach == Lesser(Reaching(amount, schedules, k), Collectable(s))
  IN  [fee |-> Lesser(reach, s.fee), principal |-> Lesser(reach, PrincipalDue(s))]

LineOf(amount, schedules, k) ==
  LET s     == schedules[k]
      reach == Lesser(Reaching(amount, schedules, k), Collectable(s))
      fee   == Lesser(reach, s.fee)
  IN  [fee |-> fee, principal |-> reach - fee]

Lines(amount, schedules) ==
  [k \in DOMAIN schedules |-> LineOf(amount, schedules, k)]

(* The row written back.  A schedule nothing reached is not touched; one   *)
(* whose discounted principal is cleared is discharged of the discount     *)
(* with it.                                                                *)
AfterLine(s, line) ==
  LET fee  == s.fee - line.fee
      left == PrincipalDue(s) - line.principal
  IN  IF line.fee = 0 /\ line.principal = 0
      THEN s
      ELSE [s EXCEPT !.fee = fee,
                     !.outstanding = IF left = 0 THEN 0 ELSE left + s.discount,
                     !.settlement = IF fee = 0 /\ left = 0 THEN "paid" ELSE "partially_paid"]

Allocated(amount, schedules) ==
  [k \in DOMAIN schedules |-> AfterLine(schedules[k], LineOf(amount, schedules, k))]

(* What no schedule could take: the plan's credit balance.                 *)
Surplus(amount, schedules) == Reaching(amount, schedules, Len(schedules) + 1)

-----------------------------------------------------------------------------
(* The statuses implied by the schedules, never incremented.               *)
AllPaid(schedules) == \A k \in DOMAIN schedules : schedules[k].settlement = "paid"

InvoiceStatusFor(schedules) ==
  IF AllPaid(schedules) THEN "paid"
  ELSE IF \E k \in DOMAIN schedules : schedules[k].settlement # "unpaid"
       THEN "partially_paid"
       ELSE "sent"

PlanStatusFor(schedules) ==
  IF AllPaid(schedules) THEN "completed"
  ELSE IF \E k \in DOMAIN schedules :
            schedules[k].timing = "overdue" /\ schedules[k].settlement # "paid"
       THEN "in_default"
       ELSE "active"

(* The balance the payment screens quote: the discounts of all schedules   *)
(* come off the principal of all schedules.                                *)
BalanceOf(schedules) ==
  LET sum(F(_)) == Total([k \in DOMAIN schedules |-> F(schedules[k])])
      outstanding(s) == s.outstanding
      discount(s)    == s.discount
      fee(s)         == s.fee
  IN  Greater(sum(outstanding) - sum(discount), 0) + sum(fee)

-----------------------------------------------------------------------------
(* spreadDiscount: over the schedules that still owe principal, by what    *)
(* they owe, up to what they owe; the others carry no discount.            *)
SpreadUncapped(wanted, schedules) ==
  LET owed  == [k \in DOMAIN schedules |-> schedules[k].outstanding]
      share == AllocateByWeight(Greater(wanted, 0), owed)
  IN  [k \in DOMAIN schedules |-> [schedules[k] EXCEPT !.discount = share[k]]]

SpreadDiscount(wanted, schedules) ==
  LET owed  == [k \in DOMAIN schedules |-> schedules[k].outstanding]
      share == AllocateByWeight(Lesser(Greater(wanted, 0), Total(owed)), owed)
  IN  [k \in DOMAIN schedules |-> [schedules[k] EXCEPT !.discount = share[k]]]

-----------------------------------------------------------------------------
(* holdPolicyFor: a threshold of 0 is the policy "any payment".            *)
ThresholdOnly(paid, threshold, settled) == paid > 0 /\ paid >= threshold

PolicySecures(paid, threshold, settled) ==
  settled \/ (paid > 0 /\ paid >= threshold)
=============================================================================
