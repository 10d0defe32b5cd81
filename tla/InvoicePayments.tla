-------------------------- MODULE InvoicePayments --------------------------
(***************************************************************************)
(* The money side of a property purchase, in finance-service: receipts are *)
(* submitted, corrected, withdrawn, rejected and verified; payments are    *)
(* approved and allocated over the schedules of a payment plan; the units  *)
(* are held; surpluses are held as credit and refunded; discounts are      *)
(* spread; a daily sweep moves timings along and charges default fees;     *)
(* invoices are cancelled and expire.                                      *)
(*                                                                         *)
(* A handler that reads before its transaction is two steps: it is         *)
(* received, which reads, and served, which writes by what was read.  What *)
(* happens inside one transaction, under the lock on the invoice row, is   *)
(* one step.  A request in flight may also end without an effect: its      *)
(* transaction is refused and rolled back, or the process dies.            *)
(*                                                                         *)
(* The invoices of the module are all on one unit of one company, have a   *)
(* payment plan, and have been sent.  Posting to the ledger is on, and the *)
(* month is open.                                                          *)
(*                                                                         *)
(* AvailableNow, AtApproval, VerifiedToo and LiveSchedules stand for       *)
(* plausible mistakes in the operator that follows them.                   *)
(***************************************************************************)
EXTENDS PaymentAllocation, FiniteSetsExt

CONSTANTS
  Invoice,        \* invoices raised on the unit
  Receipt,        \* proofs of payment the buyers may upload
  ReceiptOf,      \* the invoice each proof is for
  Reference,      \* references an approver may type
  Principal,      \* per invoice: the principal of each schedule, in due order
  DueDay,         \* per invoice: the day each schedule falls due
  Quantity,       \* per invoice: the units it is for
  Stock,          \* units of the configuration there are
  Amounts,        \* amounts that may be credited
  Discounts,      \* per invoice: discount and approved credit it may be granted
  Thresholds,     \* hold policies: paid at which the units are held (0: any)
  DefaultFee,     \* what one fee period charges (a flat fee)
  Grace,          \* grace period, in days
  FeeEvery,       \* days between fee periods (FEE_RECURRENCE_DAYS)
  ExpiryDay,      \* day from which an unpaid invoice may expire
  MaxDay,         \* bound: the last day of the run
  MaxInFlight     \* bound: requests in flight at once

ASSUME AmountsArePositive ==
  /\ Amounts \subseteq Nat \ {0}
  /\ Discounts \in [Invoice -> SUBSET Nat]
  /\ Thresholds \subseteq Nat
  /\ DefaultFee \in Nat
  /\ Stock \in Nat
  /\ Quantity \in [Invoice -> Nat \ {0}]
  /\ ReceiptOf \in [Receipt -> Invoice]

ASSUME SchedulesAreDue ==
  /\ Principal \in [Invoice -> Seq(Nat)]
  /\ DueDay \in [Invoice -> Seq(Int)]
  /\ \A i \in Invoice : Len(DueDay[i]) = Len(Principal[i])
  /\ Grace \in Nat
  /\ FeeEvery \in Nat \ {0}

VARIABLES
  invoices,       \* the status of each invoice
  plans,          \* the status and the credit balance of its payment plan
  schedules,      \* the schedules of the plan
  discount,       \* the discount and approved credit granted on it
  payments,       \* approved payments with their allocation lines
  receipts,       \* proofs of payment
  holds,          \* units held for each invoice
  refunds,        \* refunds raised for surpluses, by the payment's reference
  books,          \* the cash book's total, and the bank account of the ledger
  threshold,      \* the company's hold policy
  today,
  inFlight        \* requests that have read and not yet written

vars == <<invoices, plans, schedules, discount, payments, receipts, holds, refunds,
          books, threshold, today, inFlight>>

money == <<invoices, plans, schedules, payments, holds, refunds, books>>

setup == <<discount, threshold, today>>

NoReference == <<"no reference">>

(* markInvoicePaid makes its reference from the invoice's own.             *)
AdminApproved(i) == <<"ADMIN-APPROVED", i>>

References == Reference \union {AdminApproved(i) : i \in Invoice}

ASSUME ReferencesAreReal == NoReference \notin Reference

InvoiceStatus ==
  {"sent", "payment_under_review", "partially_paid", "paid", "cancelled", "expired"}

Closed == {"cancelled", "expired"}

PlanStatus == {"active", "in_default", "completed", "cancelled"}

ReceiptStatus == {"none", "pending", "verified", "rejected", "cancelled"}

RefundStatus == {"none", "pending_approval", "approved", "rejected", "paid"}

NewSchedule(principal) ==
  [outstanding |-> principal, discount |-> 0, fee |-> 0, periods |-> 0,
   timing |-> "upcoming", settlement |-> "unpaid"]

Init ==
  /\ invoices = [i \in Invoice |-> "sent"]
  /\ plans = [i \in Invoice |-> [status |-> "active", credit |-> 0]]
  /\ schedules =
       [i \in Invoice |-> [k \in DOMAIN Principal[i] |-> NewSchedule(Principal[i][k])]]
  /\ discount = [i \in Invoice |-> 0]
  /\ payments = {}
  /\ receipts = [r \in Receipt |-> [status |-> "none", payment |-> NoReference]]
  /\ holds = [i \in Invoice |-> "none"]
  /\ refunds = [ref \in References |-> "none"]
  /\ books = [cash |-> 0, bank |-> 0]
  /\ threshold \in Thresholds
  /\ today = 0
  /\ inFlight = {}

-----------------------------------------------------------------------------
PaymentsOn(i) == {p \in payments : p.invoice = i}

Paid(i) == SumFunction([p \in PaymentsOn(i) |-> p.amount])

(* availabilityFor: the configured units less the unreleased holds.        *)
AvailableNow == Stock

HoldingUnits == {i \in Invoice : holds[i] = "active"}

Available == Greater(Stock - SumFunctionOnSet(Quantity, HoldingUnits), 0)

PendingOn(i, others) ==
  \E r \in Receipt \ others : ReceiptOf[r] = i /\ receipts[r].status = "pending"

-----------------------------------------------------------------------------
(* evaluateHold: units already secured stay as they are; otherwise they    *)
(* are secured by the policy, or by having been paid for in full.          *)
Secures(i, amount, after) ==
  /\ holds[i] # "active"
  /\ PolicySecures(Paid(i) + amount, threshold, AllPaid(after))

(* A reference is used once in the company, whatever the invoice.          *)
Fresh(i, ref) == \A p \in payments : p.reference # ref

(* applyApprovedPayment is one transaction under the lock on the invoice.  *)
(* It first records the money: refused, and rolled back, when the invoice  *)
(* is closed or the reference was used.  The payment is posted, and so is  *)
(* its surplus.                                                            *)
RecordMoney(i, amount, ref) ==
  LET left == Surplus(amount, schedules[i])
  IN  /\ invoices[i] \notin Closed
      /\ Fresh(i, ref)
      /\ payments' = payments \union
           {[reference |-> ref, invoice |-> i, amount |-> amount,
             lines |-> Lines(amount, schedules[i]), surplus |-> left]}
      /\ books' = [cash |-> books.cash + amount, bank |-> books.bank + amount + left]

(* It then settles the schedules, keeps the surplus as credit, raises its  *)
(* refund, and holds the units: rolled back when they are no longer there. *)
SettleInvoice(i, amount, ref) ==
  LET after == Allocated(amount, schedules[i])
      left  == Surplus(amount, schedules[i])
      hold  == Secures(i, amount, after)
  IN  /\ hold => Quantity[i] <= Available
      /\ schedules' = [schedules EXCEPT ![i] = after]
      /\ plans' = [plans EXCEPT ![i] = [status |-> PlanStatusFor(after), credit |-> @.credit + left]]
      /\ invoices' = [invoices EXCEPT ![i] = InvoiceStatusFor(after)]
      /\ refunds' = IF left > 0 THEN [refunds EXCEPT ![ref] = "pending_approval"] ELSE refunds
      /\ holds' = IF hold THEN [holds EXCEPT ![i] = "active"] ELSE holds

ApplyApprovedPayment(i, amount, ref) ==
  RecordMoney(i, amount, ref) /\ SettleInvoice(i, amount, ref)

-----------------------------------------------------------------------------
(* A request that has been admitted and has done its reading.              *)
HasRoom == Cardinality(inFlight) < MaxInFlight

Admit(q) ==
  /\ HasRoom
  /\ q \notin inFlight
  /\ inFlight' = inFlight \union {q}
  /\ UNCHANGED <<money, receipts, setup>>

Served(q) ==
  /\ q \in inFlight
  /\ inFlight' = inFlight \ {q}

(* Refused in its transaction and rolled back, or lost with its process.   *)
EndsWithoutEffect ==
  \E q \in inFlight :
    /\ Served(q)
    /\ UNCHANGED <<money, receipts, setup>>

-----------------------------------------------------------------------------
(* submitInvoiceReceipt.                                                   *)
SubmitReads ==
  \E r \in Receipt :
    /\ receipts[r].status = "none"
    /\ invoices[ReceiptOf[r]] \in {"sent", "payment_under_review", "partially_paid"}
    /\ Admit([op |-> "submit", receipt |-> r])

Submit ==
  \E r \in Receipt :
    /\ Served([op |-> "submit", receipt |-> r])
    /\ receipts' = [receipts EXCEPT ![r].status = "pending"]
    /\ invoices' = [invoices EXCEPT ![ReceiptOf[r]] = "payment_under_review"]
    /\ UNCHANGED <<plans, schedules, payments, holds, refunds, books, setup>>

(* verifyReceipt and rejectReceipt act on a pending proof; the buyer may   *)
(* act on a pending or a rejected one (BUYER_EDITABLE).                    *)
VerifiedToo(op) == {"pending", "rejected", "verified"}

ActsOn(op) ==
  IF op \in {"verify", "reject"} THEN {"pending"} ELSE {"pending", "rejected"}

DecisionReads ==
  \E r \in Receipt, op \in {"verify", "reject", "resubmit", "withdraw"} :
    /\ receipts[r].status \in ActsOn(op)
    /\ Admit([op |-> op, receipt |-> r, seen |-> receipts[r].status])

(* The payment and the receipt in one transaction; the approver may        *)
(* correct the amount and types the reference.                             *)
Verify ==
  \E q \in inFlight, amount \in Amounts, ref \in Reference :
    /\ q.op = "verify"
    /\ Served(q)
    /\ ApplyApprovedPayment(ReceiptOf[q.receipt], amount, ref)
    /\ receipts' = [receipts EXCEPT ![q.receipt] = [status |-> "verified", payment |-> ref]]
    /\ UNCHANGED setup

(* releaseInvoiceIfNothingPending: an invoice nobody is reviewing any more *)
(* goes back to where its payments put it.                                 *)
Released(r) ==
  LET i == ReceiptOf[r]
  IN  IF invoices[i] = "payment_under_review" /\ ~PendingOn(i, {r})
      THEN [invoices EXCEPT ![i] = IF Paid(i) > 0 THEN "partially_paid" ELSE "sent"]
      ELSE invoices

Refuse ==
  \E q \in inFlight :
    /\ q.op \in {"reject", "withdraw"}
    /\ Served(q)
    /\ receipts' =
         [receipts EXCEPT ![q.receipt].status = IF q.op = "reject" THEN "rejected" ELSE "cancelled"]
    /\ invoices' = Released(q.receipt)
    /\ UNCHANGED <<plans, schedules, payments, holds, refunds, books, setup>>

(* updateOwnReceipt: a corrected rejection goes back into the queue.       *)
Resubmit ==
  \E q \in inFlight :
    /\ q.op = "resubmit"
    /\ Served(q)
    /\ IF q.seen = "rejected"
       THEN /\ receipts' = [receipts EXCEPT ![q.receipt].status = "pending"]
            /\ invoices' = [invoices EXCEPT ![ReceiptOf[q.receipt]] =
                              IF @ \in {"sent", "partially_paid"} THEN "payment_under_review" ELSE @]
       ELSE UNCHANGED <<receipts, invoices>>
    /\ UNCHANGED <<plans, schedules, payments, holds, refunds, books, setup>>

-----------------------------------------------------------------------------
(* payInvoice and markInvoicePaid read the balance first; the second       *)
(* always pays what it read, under a reference of its own.                 *)
PayReads ==
  \E i \in Invoice :
    /\ BalanceOf(schedules[i]) > 0
    /\ \E amount \in Amounts \union {BalanceOf(schedules[i])} :
         Admit([op |-> "pay", invoice |-> i, amount |-> amount,
                whole |-> amount = BalanceOf(schedules[i])])

PayInvoice ==
  \E q \in inFlight, ref \in Reference :
    /\ q.op = "pay"
    /\ Served(q)
    /\ ApplyApprovedPayment(q.invoice, q.amount, ref)
    /\ UNCHANGED <<receipts, setup>>

MarkInvoicePaid ==
  \E q \in inFlight :
    /\ q.op = "pay"
    /\ q.whole
    /\ Served(q)
    /\ ApplyApprovedPayment(q.invoice, q.amount, AdminApproved(q.invoice))
    /\ UNCHANGED <<receipts, setup>>

-----------------------------------------------------------------------------
(* cancelInvoice, and expireStaleInvoices for each invoice its query       *)
(* found: the invoice and its plan close, the units are released.  The     *)
(* payments stay.                                                          *)
CancelReads ==
  \E i \in Invoice :
    /\ invoices[i] \notin Closed
    /\ Admit([op |-> "close", invoice |-> i, as |-> "cancelled"])

Stale(i) ==
  /\ invoices[i] \in {"sent", "payment_under_review"}
  /\ PaymentsOn(i) = {}

ExpiryReads ==
  /\ today >= ExpiryDay
  /\ \E i \in Invoice :
       /\ Stale(i)
       /\ Admit([op |-> "close", invoice |-> i, as |-> "expired"])

CloseInvoice ==
  \E q \in inFlight :
    /\ q.op = "close"
    /\ Served(q)
    /\ invoices' = [invoices EXCEPT ![q.invoice] = q.as]
    /\ plans' = [plans EXCEPT ![q.invoice].status = "cancelled"]
    /\ holds' = [holds EXCEPT ![q.invoice] = IF @ = "active" THEN "released" ELSE @]
    /\ UNCHANGED <<schedules, payments, refunds, books, receipts, setup>>

-----------------------------------------------------------------------------
(* An edited discount, or an approved credit note: applyInvoiceDiscount    *)
(* spreads the whole of it from a clean slate.  It reads and writes in one *)
(* transaction, and so does the waiver that follows.                       *)
GrantDiscount ==
  \E i \in Invoice : \E wanted \in Discounts[i] :
    /\ HasRoom
    /\ discount' = [discount EXCEPT ![i] = wanted]
    /\ schedules' = [schedules EXCEPT ![i] = SpreadDiscount(wanted, @)]
    /\ UNCHANGED <<invoices, plans, payments, holds, refunds, books, receipts, threshold, today,
                   inFlight>>

(* waiveScheduleFee: the whole unpaid fee.                                 *)
WaiveFee ==
  \E i \in Invoice : \E k \in DOMAIN schedules[i] :
    LET s == schedules[i][k]
    IN  /\ HasRoom
        /\ s.fee > 0
        /\ schedules' = [schedules EXCEPT ![i][k] =
             [s EXCEPT !.fee = 0,
                       !.settlement = IF s.outstanding = 0 THEN "paid"
                                      ELSE IF s.outstanding < Principal[i][k]
                                           THEN "partially_paid" ELSE @]]
        /\ UNCHANGED <<invoices, plans, payments, holds, refunds, books, receipts, setup, inFlight>>

(* approveRefund, rejectRefund, markRefundPaid: each reads the refund,     *)
(* then writes.  Marked paid, it comes off the credit balance, never below *)
(* zero.  Its journal is keyed by the second it is posted in, so a second  *)
(* attempt may post again.                                                 *)
RefundReads ==
  \E p \in payments, next \in {"approved", "rejected", "paid"} :
    /\ refunds[p.reference] = IF next = "paid" THEN "approved" ELSE "pending_approval"
    /\ Admit([op |-> "refund", payment |-> p.reference, next |-> next])

AtApproval(next, surplus) == IF next = "approved" THEN surplus ELSE 0

PaidBack(next, surplus) == IF next = "paid" THEN surplus ELSE 0

DecideRefund ==
  \E q \in inFlight, p \in payments :
    /\ q.op = "refund"
    /\ q.payment = p.reference
    /\ Served(q)
    /\ LET out == PaidBack(q.next, p.surplus)
       IN  /\ refunds' = [refunds EXCEPT ![p.reference] = q.next]
           /\ plans' = [plans EXCEPT ![p.invoice].credit = Greater(@ - out, 0)]
           /\ \E posted \in IF refunds[p.reference] = "paid" THEN {0, out} ELSE {out} :
                books' = [cash |-> books.cash - out, bank |-> books.bank - posted]
    /\ UNCHANGED <<invoices, schedules, payments, holds, receipts, setup>>

ChangeHoldPolicy ==
  \E t \in Thresholds :
    /\ threshold' = t
    /\ t # threshold
    /\ UNCHANGED <<money, receipts, discount, today, inFlight>>

-----------------------------------------------------------------------------
(* The daily sweep: the rows are read once, then each is evaluated in a    *)
(* transaction of its own, then the statuses of the plans it touched.      *)
TimingFor(due, day) ==
  IF due > day THEN "upcoming"
  ELSE IF due = day THEN "due"
  ELSE IF day - due <= Grace THEN "in_grace"
  ELSE "overdue"

(* Fee periods triggered by a day: one when grace has elapsed, one more    *)
(* every FeeEvery days.                                                    *)
PeriodsDue(due, day) ==
  LET ends == due + Grace + 1
  IN  IF day < ends THEN 0 ELSE (day - ends) \div FeeEvery + 1

LiveSchedules ==
  {row \in UNION {{i} \X DOMAIN schedules[i] : i \in Invoice} : invoices[row[1]] \notin Closed}

DueSchedules ==
  {row \in UNION {{i} \X DOMAIN schedules[i] : i \in Invoice} :
     /\ schedules[row[1]][row[2]].settlement # "paid"
     /\ plans[row[1]].status \in {"active", "in_default"}
     /\ invoices[row[1]] \notin Closed}

(* A fee period is charged once: the second insert of the same period on   *)
(* the same schedule fails.                                                *)
Evaluated(s, due, day) ==
  LET fresh == Greater(PeriodsDue(due, day) - s.periods, 0)
  IN  [s EXCEPT !.timing = TimingFor(due, day),
                !.periods = @ + fresh,
                !.fee = @ + fresh * DefaultFee]

(* A sweep that would find no row to move is left out.                     *)
SweepReads ==
  /\ \A q \in inFlight : q.op # "sweep"
  /\ \E row \in DueSchedules :
       LET s   == schedules[row[1]][row[2]]
           due == DueDay[row[1]][row[2]]
       IN  Evaluated(s, due, today) # s
  /\ Admit([op |-> "sweep", day |-> today, rows |-> DueSchedules,
            touched |-> {row[1] : row \in DueSchedules}])

SweepRow ==
  \E q \in inFlight :
    /\ q.op = "sweep"
    /\ \E row \in q.rows :
         /\ \A other \in q.rows :
              DueDay[row[1]][row[2]] <= DueDay[other[1]][other[2]]
         /\ schedules' = [schedules EXCEPT ![row[1]][row[2]] =
              Evaluated(@, DueDay[row[1]][row[2]], q.day)]
         /\ inFlight' = (inFlight \ {q}) \union {[q EXCEPT !.rows = @ \ {row}]}
    /\ UNCHANGED <<invoices, plans, payments, holds, refunds, books, receipts, setup>>

SweepPlans ==
  \E q \in inFlight :
    /\ q.op = "sweep"
    /\ q.rows = {}
    /\ Served(q)
    /\ plans' = [i \in Invoice |->
         IF i \in q.touched
         THEN [plans[i] EXCEPT !.status = PlanStatusFor(schedules[i])]
         ELSE plans[i]]
    /\ UNCHANGED <<invoices, schedules, payments, holds, refunds, books, receipts, setup>>

NextDay ==
  /\ today < MaxDay
  /\ today' = today + 1
  /\ UNCHANGED <<money, receipts, discount, threshold, inFlight>>

-----------------------------------------------------------------------------
Next ==
  \/ SubmitReads \/ Submit
  \/ DecisionReads \/ Verify \/ Refuse \/ Resubmit
  \/ PayReads \/ PayInvoice \/ MarkInvoicePaid
  \/ CancelReads \/ ExpiryReads \/ CloseInvoice
  \/ GrantDiscount \/ WaiveFee
  \/ RefundReads \/ DecideRefund
  \/ ChangeHoldPolicy
  \/ SweepReads \/ SweepRow \/ SweepPlans
  \/ NextDay
  \/ EndsWithoutEffect

Spec == Init /\ [][Next]_vars

-----------------------------------------------------------------------------
Schedule ==
  [outstanding : Nat, discount : Nat, fee : Nat, periods : Nat,
   timing : Timing, settlement : Settlement]

Row == Invoice \X Nat

Request ==
  [op : {"submit"}, receipt : Receipt]
    \union [op : {"verify", "reject", "resubmit", "withdraw"}, receipt : Receipt,
            seen : {"pending", "rejected"}]
    \union [op : {"pay"}, invoice : Invoice, amount : Nat, whole : BOOLEAN]
    \union [op : {"close"}, invoice : Invoice, as : Closed]
    \union [op : {"refund"}, payment : References, next : {"approved", "rejected", "paid"}]
    \union [op : {"sweep"}, day : Nat, rows : SUBSET Row, touched : SUBSET Invoice]

Payment ==
  [reference : References, invoice : Invoice, amount : Nat,
   lines : Seq([fee : Nat, principal : Nat]), surplus : Nat]

(* Every variable keeps its declared type, and a payment's reference is    *)
(* the only one of its kind in the company.                                *)
TypeOK ==
  /\ invoices \in [Invoice -> InvoiceStatus]
  /\ plans \in [Invoice -> [status : PlanStatus, credit : Nat]]
  /\ schedules \in [Invoice -> Seq(Schedule)]
  /\ \A i \in Invoice : discount[i] \in Discounts[i] \union {0}
  /\ payments \subseteq Payment
  /\ \A p, q \in payments : p.reference = q.reference => p = q
  /\ receipts \in
       [Receipt -> [status : ReceiptStatus, payment : References \union {NoReference}]]
  /\ holds \in [Invoice -> {"none", "active", "released"}]
  /\ refunds \in [References -> RefundStatus]
  /\ books \in [cash : Int, bank : Int]
  /\ threshold \in Thresholds
  /\ today \in 0..MaxDay
  /\ inFlight \subseteq Request

Principals(i, k) == SumFunction([p \in PaymentsOn(i) |-> p.lines[k].principal])

Lined(p) ==
  Total([k \in DOMAIN p.lines |-> p.lines[k].fee + p.lines[k].principal])

(* Every unit of an approved payment is on an allocation line or in the    *)
(* surplus, and what a schedule still owes is its principal less the       *)
(* lines on it: allocate and applyApprovedPayment write the payment, its   *)
(* lines and the schedules to agree (FRD 8.2, 8.4).                        *)
MoneyPlaced ==
  /\ \A p \in payments : p.amount = Lined(p) + p.surplus
  /\ \A i \in Invoice : \A k \in DOMAIN schedules[i] :
       LET s == schedules[i][k]
       IN  /\ Principals(i, k) <= Principal[i][k]
           /\ s.outstanding > 0 => s.outstanding + Principals(i, k) = Principal[i][k]

(* The units held for all invoices together never exceed the units there   *)
(* are, whichever payments are approved first and whatever the hold policy *)
(* is changed to (placeHold's check under lock, FRD 10.4).                 *)
NoOversell == SumFunctionOnSet(Quantity, HoldingUnits) <= Stock

LeftOver == [p \in payments |-> IF refunds[p.reference] = "paid" THEN 0 ELSE p.surplus]

(* A plan's credit balance is what its payments left over less what was    *)
(* refunded: neither approving nor refusing a refund moves it              *)
(* (refundController.markRefundPaid).                                      *)
CreditHeld ==
  \A i \in Invoice : plans[i].credit = SumFunctionOnSet(LeftOver, PaymentsOn(i))

(* A receipt that has produced a payment is verified and stays verified,   *)
(* and a verified receipt has its payment (verifyReceipt, BUYER_EDITABLE). *)
ReceiptAgreesWithPayment ==
  \A r \in Receipt :
    /\ receipts[r].status = "verified" <=> receipts[r].payment # NoReference
    /\ receipts[r].payment # NoReference =>
         \E p \in payments : p.reference = receipts[r].payment /\ p.invoice = ReceiptOf[r]

(* An invoice paid in full holds its units, whatever the hold policy was   *)
(* or has become (evaluateHold, step 2).                                   *)
PaidIsSecured ==
  \A i \in Invoice : invoices[i] = "paid" => holds[i] = "active"

(* A settled schedule owes no principal, and a live invoice that is paid   *)
(* has no other schedule (allocate, invoiceStatusFor): no correction,      *)
(* discount or sweep opens one again.                                      *)
PaidIsSettled ==
  \A i \in Invoice :
    /\ \A k \in DOMAIN schedules[i] :
         schedules[i][k].settlement = "paid" => schedules[i][k].outstanding = 0
    /\ invoices[i] = "paid" => AllPaid(schedules[i])

(* And it owes no fee: the sweep charges it nothing any more               *)
(* (dueSchedules).                                                         *)
PaidOwesNothing ==
  /\ PaidIsSettled
  /\ \A i \in Invoice : \A k \in DOMAIN schedules[i] :
       schedules[i][k].settlement = "paid" => schedules[i][k].fee = 0

(* A schedule carries no more discount than it still owes, also when the   *)
(* discount is granted again between payments: what is over would silently *)
(* be lost to the buyer (spreadDiscount, outstandingOf).                   *)
DiscountCovered ==
  \A i \in Invoice : \A k \in DOMAIN schedules[i] :
    LET s == schedules[i][k]
    IN  s.outstanding > 0 => s.discount <= s.outstanding

(* The ledger's bank account and the cash book record the same money       *)
(* (applyApprovedPayment posts each payment to both).                      *)
BankAgreesWithCashBook == books.bank = books.cash

(* What discounts have taken off the schedules of an invoice, settled and  *)
(* open, is never more than the most that was granted on it                *)
(* (applyInvoiceDiscount).                                                 *)
DiscountGrantedOnce ==
  \A i \in Invoice :
    Total([k \in DOMAIN schedules[i] |->
             LET s == schedules[i][k]
             IN  IF s.settlement = "paid" THEN Principal[i][k] - Principals(i, k)
                 ELSE s.discount])
      <= Max(Discounts[i] \union {0})

(* A buyer who has sent all that was asked for has paid the invoice        *)
(* (outstandingOf, invoiceStatusFor).                                      *)
NothingDueIsPaid ==
  \A i \in Invoice :
    (invoices[i] \notin Closed /\ \A k \in DOMAIN schedules[i] : Collectable(schedules[i][k]) = 0)
      => invoices[i] = "paid"
=============================================================================
