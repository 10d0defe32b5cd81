----------------------- MODULE InvoicePayments_proofs -----------------------
(***************************************************************************)
(* The invariants of InvoicePayments for any invoices, plans, proofs,      *)
(* references, amounts and hold policies.  With any number of requests at  *)
(* once: PaidIsSecured, PaidIsSettled, NoOversell, MoneyPlaced and         *)
(* DiscountCovered.  With one request at a time: CreditHeld,               *)
(* ReceiptAgreesWithPayment and PaidOwesNothing, which requests that       *)
(* overlap may break.                                                      *)
(***************************************************************************)
EXTENDS InvoicePayments, Money_proofs

-----------------------------------------------------------------------------
(* A sweep in flight is known by its fields: a row it has done is taken    *)
(* off it.                                                                 *)
SweepsTyped ==
  \A q \in inFlight : q.op = "sweep" =>
    q = [op |-> "sweep", day |-> q.day, rows |-> q.rows, touched |-> q.touched]

StatusesTyped ==
  /\ invoices = [i \in Invoice |-> invoices[i]]
  /\ holds = [i \in Invoice |-> holds[i]]

ClosesAs(q) == q.op = "close" => q.as \in Closed

SecuredInv ==
  /\ StatusesTyped
  /\ SweepsTyped
  /\ PaidIsSecured
  /\ \A q \in inFlight : ClosesAs(q)

LEMMA SecuredInit == Init => SecuredInv
BY DEF Init, SecuredInv, StatusesTyped, SweepsTyped, PaidIsSecured

(* A payment that settles the last schedule secures the units with it.     *)
LEMMA PaymentSecures ==
  ASSUME StatusesTyped, PaidIsSecured, NEW i, NEW amount, NEW ref,
         SettleInvoice(i, amount, ref)
  PROVE  (StatusesTyped /\ PaidIsSecured)'
<1> DEFINE after  == Allocated(amount, schedules[i])
           status == InvoiceStatusFor(after)
           hold   == Secures(i, amount, after)
<1>1. /\ invoices' = [invoices EXCEPT ![i] = status]
      /\ holds' = IF hold THEN [holds EXCEPT ![i] = "active"] ELSE holds
  BY DEF SettleInvoice
<1>2. status = "paid" => hold \/ holds[i] = "active"
  BY DEF InvoiceStatusFor, Secures, PolicySecures
<1> HIDE DEF status, hold
<1>3. StatusesTyped'
  BY <1>1 DEF StatusesTyped
<1>4. ASSUME NEW j \in Invoice, invoices'[j] = "paid" PROVE holds'[j] = "active"
  BY <1>1, <1>2, <1>4 DEF StatusesTyped, PaidIsSecured
<1> QED
  BY <1>3, <1>4 DEF PaidIsSecured

(* The requests left are the ones there were, or a sweep with a row less.  *)
LEMMA ServedLeaves ==
  ASSUME NEW q, Served(q), SweepsTyped, \A r \in inFlight : ClosesAs(r)
  PROVE  (SweepsTyped /\ \A r \in inFlight : ClosesAs(r))'
BY DEF Served, SweepsTyped, ClosesAs

LEMMA AdmitSecured ==
  ASSUME SecuredInv, NEW q, Admit(q), ClosesAs(q),
         q.op = "sweep" =>
           q = [op |-> "sweep", day |-> q.day, rows |-> q.rows, touched |-> q.touched]
  PROVE  SecuredInv'
BY DEF SecuredInv, Admit, money, StatusesTyped, SweepsTyped, PaidIsSecured, ClosesAs

(* Every handler that reads before it writes.                              *)
Reads ==
  SubmitReads \/ DecisionReads \/ PayReads \/ CancelReads \/ ExpiryReads \/ RefundReads \/ SweepReads

(* What each asks for.                                                     *)
Asks(q) ==
  \/ \E r \in Receipt : receipts[r].status = "none" /\ q = [op |-> "submit", receipt |-> r]
  \/ \E r \in Receipt, op \in {"verify", "reject", "resubmit", "withdraw"} :
       /\ receipts[r].status \in ActsOn(op)
       /\ q = [op |-> op, receipt |-> r, seen |-> receipts[r].status]
  \/ q.op = "pay" /\ q.invoice \in Invoice /\ q.amount \in Nat
  \/ q.op = "close" /\ q.as \in Closed
  \/ /\ q.op = "refund"
     /\ refunds[q.payment] = IF q.next = "paid" THEN "approved" ELSE "pending_approval"
  \/ \E touched :
       q = [op |-> "sweep", day |-> today, rows |-> DueSchedules, touched |-> touched]

LEMMA BalanceIsWhole ==
  ASSUME NEW plan, BalanceOf(plan) > 0 PROVE BalanceOf(plan) \in Nat
<1>1. \A amounts : Total(amounts) \in Int
  BY DEF Total, AsMinor
<1> QED
  BY <1>1 DEF BalanceOf, Greater

LEMMA ReadsAdmit == ASSUME Reads PROVE \E q : Admit(q) /\ Asks(q)
<1>1. CASE SubmitReads
  BY <1>1 DEF SubmitReads, Asks
<1>2. CASE DecisionReads
  BY <1>2 DEF DecisionReads, Asks
<1>3. CASE PayReads
  <2>1. PICK i, amount :
          /\ i \in Invoice
          /\ BalanceOf(schedules[i]) > 0
          /\ amount \in Amounts \union {BalanceOf(schedules[i])}
          /\ Admit([op |-> "pay", invoice |-> i, amount |-> amount,
                    whole |-> amount = BalanceOf(schedules[i])])
    BY <1>3 DEF PayReads
  <2>2. amount \in Nat
    BY <2>1, BalanceIsWhole, AmountsArePositive
  <2> QED
    BY <2>1, <2>2 DEF Asks
<1>4. CASE CancelReads \/ ExpiryReads
  <2>1. PICK i \in Invoice, as \in Closed : Admit([op |-> "close", invoice |-> i, as |-> as])
    BY <1>4 DEF CancelReads, ExpiryReads, Closed
  <2>2. Asks([op |-> "close", invoice |-> i, as |-> as])
    BY DEF Asks
  <2> QED
    BY <2>1, <2>2
<1>5. CASE RefundReads
  <2>1. PICK ref, next :
          /\ refunds[ref] = IF next = "paid" THEN "approved" ELSE "pending_approval"
          /\ Admit([op |-> "refund", payment |-> ref, next |-> next])
    BY <1>5 DEF RefundReads
  <2> QED
    BY <2>1 DEF Asks
<1>6. CASE SweepReads
  <2>1. \E touched :
          Admit([op |-> "sweep", day |-> today, rows |-> DueSchedules, touched |-> touched])
    BY <1>6 DEF SweepReads
  <2> QED
    BY <2>1 DEF Asks
<1> QED
  BY <1>1, <1>2, <1>3, <1>4, <1>5, <1>6 DEF Reads

LEMMA RowDone ==
  ASSUME NEW q, NEW rows,
         q = [op |-> "sweep", day |-> q.day, rows |-> q.rows, touched |-> q.touched]
  PROVE  [q EXCEPT !.rows = rows]
           = [op |-> "sweep", day |-> q.day, rows |-> rows, touched |-> q.touched]
OBVIOUS

LEMMA SecuredStep == SecuredInv /\ [Next]_vars => SecuredInv'
<1> SUFFICES ASSUME SecuredInv, [Next]_vars PROVE SecuredInv'
  OBVIOUS
<1> USE DEF SecuredInv
<1>1. CASE Reads
  <2>1. PICK q : Admit(q) /\ Asks(q)
    BY <1>1, ReadsAdmit
  <2>2. /\ ClosesAs(q)
        /\ q.op = "sweep" =>
             q = [op |-> "sweep", day |-> q.day, rows |-> q.rows, touched |-> q.touched]
    BY <2>1 DEF Asks, ClosesAs
  <2> QED
    BY <2>1, <2>2, AdmitSecured
<1>2. CASE Submit
  <2>1. PICK r \in Receipt : Submit!(r)
    BY <1>2 DEF Submit
  <2>2. (StatusesTyped /\ PaidIsSecured)'
    BY <2>1 DEF StatusesTyped, PaidIsSecured
  <2> QED
    BY <2>1, <2>2, ServedLeaves
<1>3. CASE Refuse
  <2>1. PICK q \in inFlight : Refuse!(q)
    BY <1>3 DEF Refuse
  <2>2. (StatusesTyped /\ PaidIsSecured)'
    BY <2>1 DEF StatusesTyped, PaidIsSecured, Released
  <2> QED
    BY <2>1, <2>2, ServedLeaves
<1>4. CASE Resubmit
  <2>1. PICK q \in inFlight : Resubmit!(q)
    BY <1>4 DEF Resubmit
  <2>2. (StatusesTyped /\ PaidIsSecured)'
    BY <2>1 DEF StatusesTyped, PaidIsSecured
  <2> QED
    BY <2>1, <2>2, ServedLeaves
<1>5. CASE Verify \/ PayInvoice \/ MarkInvoicePaid
  <2>1. PICK q, i, amount, ref : Served(q) /\ ApplyApprovedPayment(i, amount, ref)
    BY <1>5 DEF Verify, PayInvoice, MarkInvoicePaid
  <2>2. (StatusesTyped /\ PaidIsSecured)'
    BY <2>1, PaymentSecures DEF ApplyApprovedPayment
  <2> QED
    BY <2>1, <2>2, ServedLeaves
<1>6. CASE CloseInvoice
  <2>1. PICK q \in inFlight : CloseInvoice!(q)
    BY <1>6 DEF CloseInvoice
  <2>2. q.as \in Closed
    BY <2>1 DEF ClosesAs
  <2>3. (StatusesTyped /\ PaidIsSecured)'
    BY <2>1, <2>2 DEF StatusesTyped, PaidIsSecured, Closed
  <2> QED
    BY <2>1, <2>3, ServedLeaves
<1>7. CASE DecideRefund \/ SweepPlans \/ EndsWithoutEffect
  <2>1. PICK q : Served(q) /\ UNCHANGED <<invoices, holds>>
    BY <1>7 DEF DecideRefund, SweepPlans, EndsWithoutEffect, money
  <2>2. (StatusesTyped /\ PaidIsSecured)'
    BY <2>1 DEF StatusesTyped, PaidIsSecured
  <2> QED
    BY <2>1, <2>2, ServedLeaves
<1>8. CASE SweepRow
  <2>1. PICK q, row :
          /\ q \in inFlight
          /\ q.op = "sweep"
          /\ inFlight' = (inFlight \ {q}) \union {[q EXCEPT !.rows = q.rows \ {row}]}
    BY <1>8 DEF SweepRow
  <2>2. [q EXCEPT !.rows = q.rows \ {row}]
          = [op |-> "sweep", day |-> q.day, rows |-> q.rows \ {row}, touched |-> q.touched]
    BY <2>1, RowDone DEF SweepsTyped
  <2>3. UNCHANGED <<invoices, holds>>
    BY <1>8 DEF SweepRow
  <2> QED
    BY <2>1, <2>2, <2>3 DEF StatusesTyped, PaidIsSecured, SweepsTyped, ClosesAs
<1>9. CASE GrantDiscount \/ WaiveFee \/ ChangeHoldPolicy \/ NextDay \/ UNCHANGED vars
  <2>1. UNCHANGED <<invoices, holds, inFlight>>
    BY <1>9 DEF GrantDiscount, WaiveFee, ChangeHoldPolicy, NextDay, vars, money
  <2> QED
    BY <2>1 DEF StatusesTyped, PaidIsSecured, SweepsTyped, ClosesAs
<1> QED
  BY <1>1, <1>2, <1>3, <1>4, <1>5, <1>6, <1>7, <1>8, <1>9 DEF Next, Reads

(* An invoice paid in full holds its units (evaluateHold), however         *)
(* payments, proofs, cancellations, expiries and changes of the policy     *)
(* overlap: the payment that settles the last schedule places the hold or  *)
(* is rolled back, and what releases a hold closes the invoice with it.    *)
THEOREM PaidInvoicesAreSecured == Spec => []PaidIsSecured
<1>1. SecuredInv => PaidIsSecured
  BY DEF SecuredInv
<1> QED
  BY <1>1, SecuredInit, SecuredStep, PTL DEF Spec
-----------------------------------------------------------------------------
(* Units are held by one payment at a time, for one invoice; what closes   *)
(* an invoice lets them go.                                                *)
HoldsInv ==
  /\ StatusesTyped
  /\ IsFiniteSet(HoldingUnits)
  /\ NoOversell

LEMMA HoldsInit == Init => HoldsInv
<1> SUFFICES ASSUME Init PROVE HoldsInv
  OBVIOUS
<1>1. HoldingUnits = {}
  BY DEF Init, HoldingUnits
<1> QED
  BY <1>1, SumOfNone, FS_EmptySet, AmountsArePositive DEF Init, HoldsInv, StatusesTyped, NoOversell

(* Any units held for some invoices are whole, and fewer for fewer.        *)
LEMMA UnitsHeld ==
  ASSUME NEW S \in SUBSET Invoice, IsFiniteSet(S), NEW A \in SUBSET S
  PROVE  /\ WholeOn(Quantity, S)
         /\ SumFunctionOnSet(Quantity, A) \in Nat
         /\ SumFunctionOnSet(Quantity, A) <= SumFunctionOnSet(Quantity, S)
<1>1. \A i \in S : Quantity[i] \in Nat
  BY AmountsArePositive
<1> QED
  BY <1>1, SumOfPart DEF WholeOn

LEMMA HoldPlaced ==
  ASSUME HoldsInv, NEW i \in Invoice, holds[i] # "active", Quantity[i] <= Available,
         holds' = [holds EXCEPT ![i] = "active"]
  PROVE  IsFiniteSet(HoldingUnits') /\ NoOversell'
<1>1. HoldingUnits' = HoldingUnits \union {i} /\ i \notin HoldingUnits
  BY DEF HoldsInv, StatusesTyped, HoldingUnits
<1>2. IsFiniteSet(HoldingUnits \union {i}) /\ HoldingUnits \union {i} \in SUBSET Invoice
  BY FS_AddElement DEF HoldsInv, HoldingUnits
<1>3. WholeOn(Quantity, HoldingUnits \union {i}) /\ SumFunctionOnSet(Quantity, HoldingUnits) \in Nat
  BY <1>2, UnitsHeld
<1>4. SumFunctionOnSet(Quantity, HoldingUnits \union {i})
        = SumFunctionOnSet(Quantity, HoldingUnits) + Quantity[i]
  BY <1>1, <1>3, SumWith DEF HoldsInv
<1>5. Quantity[i] \in Nat \ {0} /\ Stock \in Nat
  BY AmountsArePositive
<1> QED
  BY <1>1, <1>2, <1>3, <1>4, <1>5 DEF NoOversell, Available, Greater

LEMMA HoldsLetGo ==
  ASSUME HoldsInv, HoldingUnits' \subseteq HoldingUnits
  PROVE  IsFiniteSet(HoldingUnits') /\ NoOversell'
<1>1. HoldingUnits \in SUBSET Invoice /\ HoldingUnits' \in SUBSET HoldingUnits
  BY DEF HoldingUnits
<1>2. IsFiniteSet(HoldingUnits')
  BY <1>1, FS_Subset DEF HoldsInv
<1>3. /\ SumFunctionOnSet(Quantity, HoldingUnits') <= SumFunctionOnSet(Quantity, HoldingUnits)
      /\ SumFunctionOnSet(Quantity, HoldingUnits') \in Nat
      /\ SumFunctionOnSet(Quantity, HoldingUnits) \in Nat
  BY <1>1, UnitsHeld DEF HoldsInv
<1> QED
  BY <1>2, <1>3, AmountsArePositive DEF HoldsInv, NoOversell

LEMMA PaymentHolds ==
  ASSUME HoldsInv, NEW i, NEW amount, NEW ref, SettleInvoice(i, amount, ref)
  PROVE  HoldsInv'
<1> DEFINE after  == Allocated(amount, schedules[i])
           status == InvoiceStatusFor(after)
           hold   == Secures(i, amount, after)
<1>1. /\ invoices' = [invoices EXCEPT ![i] = status]
      /\ holds' = IF hold THEN [holds EXCEPT ![i] = "active"] ELSE holds
      /\ hold => holds[i] # "active" /\ Quantity[i] <= Available
  BY DEF SettleInvoice, Secures
<1> HIDE DEF status, hold
<1>2. StatusesTyped'
  BY <1>1 DEF HoldsInv, StatusesTyped
<1>3. CASE i \in Invoice /\ hold
  BY <1>1, <1>2, <1>3, HoldPlaced DEF HoldsInv
<1>4. CASE ~(i \in Invoice /\ hold)
  <2>1. HoldingUnits' \subseteq HoldingUnits
    BY <1>1, <1>4 DEF HoldsInv, StatusesTyped, HoldingUnits
  <2> QED
    BY <1>2, <2>1, HoldsLetGo DEF HoldsInv
<1> QED
  BY <1>3, <1>4

LEMMA HoldsStep == HoldsInv /\ [Next]_vars => HoldsInv'
<1> SUFFICES ASSUME HoldsInv, [Next]_vars PROVE HoldsInv'
  OBVIOUS
<1>1. CASE Verify \/ PayInvoice \/ MarkInvoicePaid
  <2>1. PICK i, amount, ref : ApplyApprovedPayment(i, amount, ref)
    BY <1>1 DEF Verify, PayInvoice, MarkInvoicePaid
  <2> QED
    BY <2>1, PaymentHolds DEF ApplyApprovedPayment
<1>2. CASE CloseInvoice
  <2>1. PICK q \in inFlight : CloseInvoice!(q)
    BY <1>2 DEF CloseInvoice
  <2>2. StatusesTyped'
    BY <2>1 DEF HoldsInv, StatusesTyped
  <2>3. HoldingUnits' \subseteq HoldingUnits
    BY <2>1 DEF HoldsInv, StatusesTyped, HoldingUnits
  <2> QED
    BY <2>2, <2>3, HoldsLetGo DEF HoldsInv
<1>3. ASSUME UNCHANGED holds, invoices' = [i \in Invoice |-> invoices'[i]] PROVE HoldsInv'
  <2>1. StatusesTyped' /\ HoldingUnits' \subseteq HoldingUnits
    BY <1>3 DEF HoldsInv, StatusesTyped, HoldingUnits
  <2> QED
    BY <2>1, HoldsLetGo DEF HoldsInv
<1>4. CASE Submit \/ Refuse \/ Resubmit
  <2>1. CASE Submit
    BY <1>3, <2>1 DEF Submit, HoldsInv, StatusesTyped
  <2>2. CASE Refuse
    BY <1>3, <2>2 DEF Refuse, Released, HoldsInv, StatusesTyped
  <2>3. CASE Resubmit
    BY <1>3, <2>3 DEF Resubmit, HoldsInv, StatusesTyped
  <2> QED
    BY <1>4, <2>1, <2>2, <2>3
<1>5. CASE Reads
  <2>1. UNCHANGED <<invoices, holds>>
    BY <1>5, ReadsAdmit DEF Admit, money
  <2> QED
    BY <1>3, <2>1 DEF HoldsInv, StatusesTyped
<1>6. CASE \/ DecideRefund \/ SweepPlans \/ EndsWithoutEffect \/ SweepRow \/ GrantDiscount
           \/ WaiveFee \/ ChangeHoldPolicy \/ NextDay \/ UNCHANGED vars
  <2>1. UNCHANGED <<invoices, holds>>
    BY <1>6 DEF DecideRefund, SweepPlans, EndsWithoutEffect, SweepRow, GrantDiscount,
                WaiveFee, ChangeHoldPolicy, NextDay, vars, money
  <2> QED
    BY <1>3, <2>1 DEF HoldsInv, StatusesTyped
<1> QED
  BY <1>1, <1>2, <1>4, <1>5, <1>6 DEF Next, Reads

(* No more units are held than there are (placeHold), however payments,    *)
(* approvals, cancellations and expiries overlap, for any stock, for       *)
(* invoices of any size and under any hold policy: a payment that would    *)
(* hold units that are gone is rolled back with everything it recorded.    *)
THEOREM UnitsAreNotOversold == Spec => []NoOversell
<1>1. HoldsInv => NoOversell
  BY DEF HoldsInv
<1> QED
  BY <1>1, HoldsInit, HoldsStep, PTL DEF Spec
-----------------------------------------------------------------------------
(* The money queues over the schedules: what has been taken by the first m *)
(* is the amount, or all they could take.                                  *)
Owed(queue) == [k \in DOMAIN queue |-> Collectable(queue[k])]

Reach(amount, queue) ==
  [k \in DOMAIN queue |->
     Lesser(Reaching(amount, queue, k), Collectable(queue[k]))]

IsQueue(queue) ==
  /\ Len(queue) \in Nat
  /\ DOMAIN queue = 1..Len(queue)
  /\ \A k \in DOMAIN queue :
       queue[k].fee \in Nat /\ queue[k].outstanding \in Nat /\ queue[k].discount \in Nat

LEMMA OwedIsWhole ==
  ASSUME NEW queue, IsQueue(queue), NEW k \in DOMAIN queue
  PROVE  /\ PrincipalDue(queue[k]) \in Nat
         /\ Owed(queue)[k] = Collectable(queue[k])
         /\ Collectable(queue[k]) \in Nat
BY DEF IsQueue, Owed, Collectable, PrincipalDue, Greater

LEMMA PrefixIsFinite ==
  ASSUME NEW n \in Nat
  PROVE  IsFiniteSet(1..n) /\ IsFiniteSet(1..(n + 1)) /\ n + 1 \notin 1..n
         /\ 1..(n + 1) = (1..n) \union {n + 1} /\ 1..0 = {}
<1>1. IsFiniteSet(1..n) /\ IsFiniteSet(1..(n + 1))
  BY FS_Interval
<1> QED
  BY <1>1

(* The running sum of a queue, one schedule further.                       *)
LEMMA PrefixSum ==
  ASSUME NEW f, NEW n \in Nat, WholeOn(f, 1..(n + 1))
  PROVE  /\ SumFunctionOnSet(f, 1..n) \in Int
         /\ SumFunctionOnSet(f, 1..(n + 1)) = SumFunctionOnSet(f, 1..n) + f[n + 1]
<1>1. IsFiniteSet(1..n) /\ n + 1 \notin 1..n /\ 1..(n + 1) = (1..n) \union {n + 1}
  BY PrefixIsFinite
<1>2. WholeOn(f, (1..n) \union {n + 1}) /\ WholeOn(f, 1..n)
  BY <1>1 DEF WholeOn
<1> DEFINE S == 1..n
           x == n + 1
<1>3. IsFiniteSet(S) /\ x \notin S /\ WholeOn(f, S \union {x}) /\ WholeOn(f, S)
  BY <1>1, <1>2
<1> HIDE DEF S, x
<1>4. SumFunctionOnSet(f, S \union {x}) = SumFunctionOnSet(f, S) + f[x]
  BY <1>3, SumWith
<1>5. SumFunctionOnSet(f, S) \in Int
  BY <1>3, SumIsInteger
<1> QED
  BY <1>1, <1>4, <1>5 DEF S, x

LEMMA ReachingIsLeft ==
  ASSUME NEW amount \in Nat, NEW queue, IsQueue(queue), NEW k \in 1..(Len(queue) + 1)
  PROVE  /\ SumFunctionOnSet(Owed(queue), 1..(k - 1)) \in Nat
         /\ Reaching(amount, queue, k) =
              Greater(amount - SumFunctionOnSet(Owed(queue), 1..(k - 1)), 0)
<1> DEFINE owed  == Owed(queue)
           first == [j \in 1..(k - 1) |-> Collectable(queue[j])]
<1>1. k - 1 \in Nat /\ 1..(k - 1) \subseteq DOMAIN queue /\ IsFiniteSet(1..(k - 1))
  <2>1. k - 1 \in Nat /\ 1..(k - 1) \subseteq DOMAIN queue
    BY DEF IsQueue
  <2> QED
    BY <2>1, PrefixIsFinite
<1>2. \A j \in 1..(k - 1) : owed[j] \in Nat /\ first[j] = owed[j]
  BY <1>1, OwedIsWhole
<1>3. SumFunctionOnSet(owed, 1..(k - 1)) \in Nat
  <2> HIDE DEF owed, first
  <2>1. 1..(k - 1) \in SUBSET (1..(k - 1))
    OBVIOUS
  <2> QED
    BY <1>1, <1>2, <2>1, SumOfPart
<1>4. SumFunction(first) = SumFunctionOnSet(owed, 1..(k - 1))
  <2>1. DOMAIN first = 1..(k - 1) /\ SumFunction(first) = SumFunctionOnSet(first, 1..(k - 1))
    BY DEF SumFunction
  <2>2. WholeOn(owed, 1..(k - 1)) /\ \A j \in 1..(k - 1) : first[j] = owed[j]
    BY <1>2 DEF WholeOn
  <2> HIDE DEF owed, first
  <2> QED
    BY <1>1, <2>1, <2>2, SumAgrees
<1> QED
  BY <1>3, <1>4 DEF Reaching, Total, AsMinor

LEMMA ReachIsWhole ==
  ASSUME NEW amount \in Nat, NEW queue, IsQueue(queue), NEW k \in DOMAIN queue
  PROVE  Reach(amount, queue)[k] \in Nat
         /\ Reach(amount, queue)[k] <= Collectable(queue[k])
<1>1. k \in 1..(Len(queue) + 1)
  BY DEF IsQueue
<1>2. Reaching(amount, queue, k) \in Nat
  <2> DEFINE before == SumFunctionOnSet(Owed(queue), 1..(k - 1))
  <2>1. before \in Nat /\ Reaching(amount, queue, k) = Greater(amount - before, 0)
    BY <1>1, ReachingIsLeft
  <2> HIDE DEF before
  <2> QED
    BY <2>1 DEF Greater
<1> QED
  BY <1>2, OwedIsWhole DEF Reach, Lesser

LEMMA TakenInTurn ==
  ASSUME NEW amount \in Nat, NEW queue, IsQueue(queue), NEW m \in 0..Len(queue)
  PROVE  SumFunctionOnSet(Reach(amount, queue), 1..m) =
           Lesser(amount, SumFunctionOnSet(Owed(queue), 1..m))
<1> DEFINE n     == Len(queue)
           owed  == Owed(queue)
           reach == Reach(amount, queue)
           T     == {x \in Nat : x <= n => SumFunctionOnSet(reach, 1..x)
                                             = Lesser(amount, SumFunctionOnSet(owed, 1..x))}
<1>1. 0 \in T
  <2>1. 1..0 = {}
    OBVIOUS
  <2>2. SumFunctionOnSet(reach, 1..0) = 0 /\ SumFunctionOnSet(owed, 1..0) = 0
    BY <2>1, SumOfNone
  <2> QED
    BY <2>2 DEF Lesser
<1>2. ASSUME NEW x \in T, x + 1 <= n PROVE x + 1 \in T
  <2>1. x \in Nat /\ x + 1 \in DOMAIN queue /\ x + 1 \in 1..(n + 1)
        /\ 1..(x + 1) \subseteq DOMAIN queue
    BY <1>2 DEF IsQueue
  <2>2. \A j \in 1..(x + 1) : owed[j] \in Nat /\ reach[j] \in Nat
    BY <2>1, OwedIsWhole, ReachIsWhole
  <2>3. WholeOn(owed, 1..(x + 1)) /\ WholeOn(reach, 1..(x + 1))
    BY <2>2 DEF WholeOn
  <2>4. /\ SumFunctionOnSet(owed, 1..x) \in Nat
        /\ Reaching(amount, queue, x + 1) = Greater(amount - SumFunctionOnSet(owed, 1..x), 0)
    BY <2>1, ReachingIsLeft
  <2>5. reach[x + 1] = Lesser(Reaching(amount, queue, x + 1), owed[x + 1])
    BY <2>1 DEF Reach, Owed
  <2>6. SumFunctionOnSet(reach, 1..x) = Lesser(amount, SumFunctionOnSet(owed, 1..x))
    BY <1>2, <2>1
  <2>7. owed[x + 1] \in Nat
    BY <2>1, <2>2
  <2> HIDE DEF owed, reach
  <2>8. /\ SumFunctionOnSet(owed, 1..(x + 1)) = SumFunctionOnSet(owed, 1..x) + owed[x + 1]
        /\ SumFunctionOnSet(reach, 1..(x + 1)) = SumFunctionOnSet(reach, 1..x) + reach[x + 1]
    BY <2>1, <2>3, PrefixSum
  <2> QED
    BY <2>1, <2>4, <2>5, <2>6, <2>7, <2>8 DEF Greater, Lesser
<1>3. T = Nat
  <2>1. \A x \in T : x + 1 \in T
    <3> SUFFICES ASSUME NEW x \in T, ~(x + 1 <= n) PROVE x + 1 \in T
      BY <1>2
    <3> QED
      OBVIOUS
  <2>2. T \subseteq Nat
    OBVIOUS
  <2> HIDE DEF T
  <2> QED
    BY <1>1, <2>1, <2>2, ByInduction
<1>4. m \in T /\ m <= n
  BY <1>3 DEF IsQueue
<1> QED
  BY <1>4

(* What one schedule takes: no more than its fee and what it still owes.   *)
LEMMA LineFigures ==
  ASSUME NEW amount \in Nat, NEW queue, IsQueue(queue), NEW k \in DOMAIN queue
  PROVE  LET line == LineOf(amount, queue, k)
             s    == queue[k]
         IN  /\ line = [fee |-> line.fee, principal |-> line.principal]
             /\ line.fee \in Nat /\ line.principal \in Nat
             /\ line.fee + line.principal = Reach(amount, queue)[k]
             /\ line.fee <= s.fee
             /\ line.principal <= PrincipalDue(s)
             /\ s.settlement = "paid" => line.fee = 0 /\ line.principal = 0
             /\ line.principal > 0 => line.fee = s.fee
<1>1. Reach(amount, queue)[k] = Lesser(Reaching(amount, queue, k), Collectable(queue[k]))
  BY DEF Reach
<1> DEFINE reach == Lesser(Reaching(amount, queue, k), Collectable(queue[k]))
           s     == queue[k]
           due   == PrincipalDue(s)
<1>2. reach \in Nat /\ reach <= Collectable(s)
  BY <1>1, ReachIsWhole
<1>3. LineOf(amount, queue, k) = [fee |-> Lesser(reach, s.fee), principal |-> reach - Lesser(reach, s.fee)]
  BY DEF LineOf
<1>4. due \in Nat /\ s.fee \in Nat
  BY OwedIsWhole DEF IsQueue
<1>5. Collectable(s) = IF s.settlement = "paid" THEN 0 ELSE s.fee + due
  BY DEF Collectable
<1> HIDE DEF reach, due
<1>6. Reach(amount, queue)[k] = reach
  BY <1>1 DEF reach
<1> QED
  BY <1>2, <1>3, <1>4, <1>5, <1>6 DEF Lesser, due

(* An amount is on the lines it was split over, and the surplus: nothing   *)
(* is made or lost (allocate, FRD 8.2).                                    *)
LEMMA NothingIsLost ==
  ASSUME NEW amount \in Nat, NEW queue, IsQueue(queue)
  PROVE  LET lines == Lines(amount, queue)
         IN  /\ Surplus(amount, queue) \in Nat
             /\ amount = Total([k \in DOMAIN lines |-> lines[k].fee + lines[k].principal])
                           + Surplus(amount, queue)
<1> DEFINE n     == Len(queue)
           lines == Lines(amount, queue)
           taken == [k \in DOMAIN lines |-> lines[k].fee + lines[k].principal]
           owed  == Owed(queue)
           reach == Reach(amount, queue)
<1>1. n \in 0..n /\ n + 1 \in 1..(n + 1) /\ (n + 1) - 1 = n /\ DOMAIN queue = 1..n
  BY DEF IsQueue
<1>2. DOMAIN taken = 1..n /\ \A k \in 1..n : taken[k] = reach[k]
  BY <1>1, LineFigures DEF Lines
<1>3. WholeOn(reach, 1..n) /\ IsFiniteSet(1..n)
  <2>1. \A k \in 1..n : reach[k] \in Nat
    BY <1>1, ReachIsWhole
  <2>2. IsFiniteSet(1..n)
    BY PrefixIsFinite DEF IsQueue
  <2> HIDE DEF reach, n
  <2> QED
    BY <2>1, <2>2 DEF WholeOn
<1>4. SumFunction(taken) = SumFunctionOnSet(reach, 1..n)
  <2> HIDE DEF taken, reach
  <2> QED
    BY <1>2, <1>3, SumAgrees DEF SumFunction
<1>5. SumFunctionOnSet(reach, 1..n) = Lesser(amount, SumFunctionOnSet(owed, 1..n))
  BY <1>1, TakenInTurn
<1>6. /\ SumFunctionOnSet(owed, 1..n) \in Nat
      /\ Surplus(amount, queue) = Greater(amount - SumFunctionOnSet(owed, 1..n), 0)
  BY <1>1, ReachingIsLeft DEF Surplus
<1> HIDE DEF taken, reach, owed
<1>7. Total(taken) = Lesser(amount, SumFunctionOnSet(owed, 1..n))
  BY <1>4, <1>5, <1>6 DEF Total, AsMinor, Lesser
<1> QED
  BY <1>6, <1>7 DEF taken, Greater, Lesser

-----------------------------------------------------------------------------
(* A schedule whose figures are whole, and whose discount it still owes.   *)
Sound(s) ==
  /\ s \in Schedule
  /\ s.outstanding > 0 => s.discount <= s.outstanding

OwesNoFee(s) == s.settlement = "paid" => s.fee = 0

LEMMA AfterLineSound ==
  ASSUME NEW s, Sound(s), NEW line, line.fee \in Nat, line.principal \in Nat,
         line.fee <= s.fee, line.principal <= PrincipalDue(s)
  PROVE  LET t == AfterLine(s, line)
         IN  /\ Sound(t)
             /\ t.outstanding > 0 => t.outstanding + line.principal = s.outstanding
             /\ OwesNoFee(s) => OwesNoFee(t)
<1> DEFINE fee    == s.fee - line.fee
           left   == PrincipalDue(s) - line.principal
           owed   == IF left = 0 THEN 0 ELSE left + s.discount
           status == IF fee = 0 /\ left = 0 THEN "paid" ELSE "partially_paid"
           t      == [s EXCEPT !.fee = fee, !.outstanding = owed, !.settlement = status]
<1>1. AfterLine(s, line) = IF line.fee = 0 /\ line.principal = 0 THEN s ELSE t
  BY DEF AfterLine
<1>2. s.fee \in Nat /\ s.outstanding \in Nat /\ s.discount \in Nat
  BY DEF Sound, Schedule
<1>3. fee \in Nat /\ status \in Settlement /\ (status = "paid" => fee = 0)
  BY <1>2 DEF Settlement
<1>4. owed \in Nat /\ (owed > 0 => owed + line.principal = s.outstanding /\ s.discount <= owed)
  BY <1>2 DEF PrincipalDue, Greater, Sound
<1> HIDE DEF fee, left, owed, status
<1>5. t \in Schedule /\ t.fee = fee /\ t.outstanding = owed /\ t.settlement = status
      /\ t.discount = s.discount
  BY <1>3, <1>4 DEF Sound, Schedule
<1> HIDE DEF t
<1>6. line.fee = 0 /\ line.principal = 0 => s.outstanding + line.principal = s.outstanding
  BY <1>2
<1> QED
  BY <1>1, <1>3, <1>4, <1>5, <1>6 DEF Sound, OwesNoFee

(* A sweep moves timings along and charges whole fees.                     *)
LEMMA EvaluatedSound ==
  ASSUME NEW s, Sound(s), NEW due \in Int, NEW day \in Int
  PROVE  LET t == Evaluated(s, due, day)
         IN  /\ Sound(t)
             /\ t.outstanding = s.outstanding /\ t.settlement = s.settlement
<1> DEFINE fresh   == Greater(PeriodsDue(due, day) - s.periods, 0)
           timing  == TimingFor(due, day)
           periods == s.periods + fresh
           fee     == s.fee + fresh * DefaultFee
           t       == [s EXCEPT !.timing = timing, !.periods = periods, !.fee = fee]
<1>1. Evaluated(s, due, day) = t
  BY DEF Evaluated
<1>2. s.fee \in Nat /\ s.periods \in Nat
  BY DEF Sound, Schedule
<1>3. PeriodsDue(due, day) \in Int
  BY SchedulesAreDue, Division DEF PeriodsDue
<1>4. fresh \in Nat
  BY <1>2, <1>3 DEF Greater
<1> HIDE DEF fresh
<1>5. periods \in Nat /\ fee \in Nat
  BY <1>2, <1>4, AmountsArePositive
<1>6. timing \in Timing
  BY DEF TimingFor, Timing
<1> HIDE DEF timing, periods, fee
<1> QED
  BY <1>1, <1>5, <1>6 DEF Sound, Schedule

LEMMA WaivedSound ==
  ASSUME NEW s, Sound(s), NEW status \in Settlement
  PROVE  LET t == [s EXCEPT !.fee = 0, !.settlement = status]
         IN  Sound(t) /\ t.outstanding = s.outstanding /\ t.fee = 0
BY DEF Sound, Schedule

LEMMA ShareSound ==
  ASSUME NEW s, Sound(s), NEW share \in Nat, share <= s.outstanding
  PROVE  LET t == [s EXCEPT !.discount = share]
         IN  /\ Sound(t)
             /\ t.outstanding = s.outstanding /\ t.fee = s.fee /\ t.settlement = s.settlement
BY DEF Sound, Schedule

(* A discount is spread within what each schedule still owes.              *)
SoundPlan(plan, n) ==
  /\ plan = [k \in 1..n |-> plan[k]]
  /\ \A k \in 1..n : Sound(plan[k])

LEMMA SpreadSound ==
  ASSUME NEW n \in Nat, NEW plan, SoundPlan(plan, n), NEW wanted \in Nat
  PROVE  LET after == SpreadDiscount(wanted, plan)
         IN  /\ SoundPlan(after, n)
             /\ \A k \in 1..n : /\ after[k].outstanding = plan[k].outstanding
                                /\ after[k].settlement = plan[k].settlement
                                /\ after[k].fee = plan[k].fee
<1> DEFINE owed  == [k \in 1..n |-> plan[k].outstanding]
           sum   == SumFunction(owed)
           total == Lesser(Greater(wanted, 0), Total(owed))
           share == AllocateByWeight(total, owed)
<1>1. DOMAIN plan = 1..n /\ IsFiniteSet(1..n) /\ \A k \in 1..n : owed[k] \in Nat
  <2>1. DOMAIN plan = 1..n /\ \A k \in 1..n : plan[k].outstanding \in Nat
    BY DEF SoundPlan, Sound, Schedule
  <2> QED
    BY <2>1, PrefixIsFinite
<1>2. AsWeights(owed) = owed
  BY <1>1 DEF AsWeights, AsMinor, Greater
<1>3. sum \in Nat /\ SumFunction(owed) = SumFunctionOnSet(owed, 1..n)
  <2>1. SumFunction(owed) = SumFunctionOnSet(owed, 1..n)
    BY DEF SumFunction
  <2>2. 1..n \in SUBSET (1..n)
    OBVIOUS
  <2> HIDE DEF owed
  <2> QED
    BY <1>1, <2>1, <2>2, SumOfPart
<1>4. Total(owed) = sum
  BY <1>3 DEF Total, AsMinor
<1>5. total \in Nat /\ total <= sum
  BY <1>3, <1>4 DEF Lesser, Greater
<1>6. SpreadDiscount(wanted, plan) = [k \in 1..n |-> [plan[k] EXCEPT !.discount = share[k]]]
  BY <1>1 DEF SpreadDiscount
<1>7. \A k \in 1..n : share[k] \in Nat /\ share[k] <= owed[k]
  <2>1. DOMAIN owed = 1..n
    OBVIOUS
  <2>2. CASE sum = 0
    <3>1. AllocateByWeight(total, owed) = [k \in DOMAIN AsWeights(owed) |-> 0]
      <4>1. total = 0
        BY <1>3, <1>5, <2>2
      <4> HIDE DEF total
      <4> QED
        BY <4>1 DEF AllocateByWeight, AsWeights, AsMinor
    <3> HIDE DEF owed, total
    <3>2. \A k \in 1..n : AllocateByWeight(total, owed)[k] = 0
      BY <1>2, <2>1, <3>1
    <3> QED
      BY <1>1, <3>2
  <2>3. CASE sum > 0
    <3>1. IsWeighting(owed)
      BY <1>1, <1>3, <2>1, <2>3 DEF IsWeighting
    <3>2. IsWeighting(AsWeights(owed)) /\ total \in Nat /\ total <= SumFunction(AsWeights(owed))
      BY <1>2, <1>5, <3>1
    <3> HIDE DEF owed, total
    <3>3. \A k \in DOMAIN owed : /\ AllocateByWeight(total, owed)[k] \in Nat
                                  /\ AllocateByWeight(total, owed)[k] <= AsWeights(owed)[k]
      BY <3>2, ShareWithinWeight
    <3> QED
      BY <1>2, <2>1, <3>3
  <2> QED
    BY <1>3, <2>2, <2>3
<1>8. \A k \in 1..n : Sound(plan[k]) /\ share[k] <= plan[k].outstanding
  BY <1>7 DEF SoundPlan
<1> DEFINE after == [k \in 1..n |-> [plan[k] EXCEPT !.discount = share[k]]]
<1> HIDE DEF share
<1>9. ASSUME NEW k \in 1..n
      PROVE  /\ Sound(after[k])
             /\ after[k].outstanding = plan[k].outstanding
             /\ after[k].settlement = plan[k].settlement
             /\ after[k].fee = plan[k].fee
  <2> DEFINE s == plan[k]
             d == share[k]
  <2>1. Sound(s) /\ d \in Nat /\ d <= s.outstanding
    BY <1>7, <1>8
  <2>2. after[k] = [s EXCEPT !.discount = d]
    OBVIOUS
  <2> HIDE DEF s, d, after
  <2>3. LET t == [s EXCEPT !.discount = d]
        IN  Sound(t) /\ t.outstanding = s.outstanding /\ t.fee = s.fee /\ t.settlement = s.settlement
    BY <2>1, ShareSound
  <2> QED
    BY <2>2, <2>3 DEF s
<1>10. SpreadDiscount(wanted, plan) = after
  BY <1>6
<1>11. after = [k \in 1..n |-> after[k]]
  OBVIOUS
<1> HIDE DEF after
<1> QED
  BY <1>9, <1>10, <1>11 DEF SoundPlan

-----------------------------------------------------------------------------
(* Where the money is: what a schedule still owes is its principal less    *)
(* the lines on it, and requests name what there is.                       *)
IsPayment(p) ==
  /\ p.reference \in References /\ p.invoice \in Invoice /\ p.surplus \in Nat
  /\ \A k \in DOMAIN Principal[p.invoice] : p.lines[k].principal \in Nat
  /\ p.amount = Lined(p) + p.surplus

SchedulesSound ==
  /\ schedules = [i \in Invoice |-> schedules[i]]
  /\ \A i \in Invoice :
       /\ schedules[i] = [k \in DOMAIN Principal[i] |-> schedules[i][k]]
       /\ \A k \in DOMAIN Principal[i] : Sound(schedules[i][k])

Placed(i, k) ==
  /\ Principals(i, k) \in Nat
  /\ Principals(i, k) <= Principal[i][k]
  /\ schedules[i][k].outstanding > 0 =>
       schedules[i][k].outstanding + Principals(i, k) = Principal[i][k]

NamesWhatIs(q) ==
  /\ q.op = "verify" => q.receipt \in Receipt
  /\ q.op = "pay" => q.invoice \in Invoice /\ q.amount \in Nat
  /\ q.op = "sweep" =>
       /\ q.day \in Nat
       /\ \A row \in q.rows : row[1] \in Invoice /\ row[2] \in DOMAIN Principal[row[1]]

RequestsSane ==
  /\ SweepsTyped
  /\ today \in Nat
  /\ \A q \in inFlight : NamesWhatIs(q)

MoneyInv ==
  /\ RequestsSane
  /\ IsFiniteSet(payments)
  /\ \A p \in payments : IsPayment(p)
  /\ SchedulesSound
  /\ \A i \in Invoice : \A k \in DOMAIN Principal[i] : Placed(i, k)

LEMMA PrincipalIsASequence ==
  ASSUME NEW i \in Invoice
  PROVE  /\ Len(Principal[i]) \in Nat
         /\ DOMAIN Principal[i] = 1..Len(Principal[i]) /\ DOMAIN DueDay[i] = DOMAIN Principal[i]
         /\ \A k \in DOMAIN Principal[i] : Principal[i][k] \in Nat /\ DueDay[i][k] \in Int
<1>1. Principal[i] \in Seq(Nat) /\ DueDay[i] \in Seq(Int) /\ Len(DueDay[i]) = Len(Principal[i])
  BY SchedulesAreDue
<1> QED
  BY <1>1

(* A plan in the order its schedules fall due.                             *)
LEMMA PlanIsAQueue ==
  ASSUME SchedulesSound, NEW i \in Invoice
  PROVE  /\ IsQueue(schedules[i])
         /\ DOMAIN schedules[i] = DOMAIN Principal[i]
         /\ \A k \in DOMAIN schedules[i] : Sound(schedules[i][k])
<1> DEFINE plan == schedules[i]
           n    == Len(Principal[i])
<1>1. n \in Nat /\ DOMAIN Principal[i] = 1..n
  BY PrincipalIsASequence
<1>2. plan = [k \in 1..n |-> plan[k]] /\ \A k \in 1..n : Sound(plan[k])
  BY <1>1 DEF SchedulesSound
<1> HIDE DEF plan, n
<1>3. \A k \in 1..n : /\ plan[k] \in Schedule
                       /\ plan[k].fee \in Nat /\ plan[k].outstanding \in Nat /\ plan[k].discount \in Nat
  BY <1>2 DEF Sound, Schedule
<1>4. plan \in Seq(Schedule) /\ Len(plan) = n /\ DOMAIN plan = 1..n
  BY <1>1, <1>2, <1>3
<1> QED
  BY <1>1, <1>2, <1>3, <1>4 DEF IsQueue, plan

LEMMA PrincipalsAre ==
  ASSUME NEW A, IsFiniteSet(A), NEW k, \A p \in A : p.lines[k].principal \in Nat
  PROVE  /\ SumFunction([p \in A |-> p.lines[k].principal]) \in Nat
         /\ \A q : q \notin A /\ q.lines[k].principal \in Nat =>
              SumFunction([p \in A \union {q} |-> p.lines[k].principal])
                = SumFunction([p \in A |-> p.lines[k].principal]) + q.lines[k].principal
<1> DEFINE f == [p \in A |-> p.lines[k].principal]
<1>1. SumFunction(f) \in Nat
  <2>1. DOMAIN f = A /\ A \in SUBSET A /\ \A p \in A : f[p] \in Nat
    OBVIOUS
  <2> HIDE DEF f
  <2> QED
    BY <2>1, SumOfPart DEF SumFunction
<1>2. ASSUME NEW q, q \notin A, q.lines[k].principal \in Nat
      PROVE  SumFunction([p \in A \union {q} |-> p.lines[k].principal])
               = SumFunction(f) + q.lines[k].principal
  <2> DEFINE g == [p \in A \union {q} |-> p.lines[k].principal]
  <2>1. /\ DOMAIN g = A \union {q} /\ DOMAIN f = A /\ g[q] = q.lines[k].principal
        /\ \A p \in A : g[p] = f[p] /\ f[p] \in Int
        /\ \A p \in A \union {q} : g[p] \in Int
    BY <1>2
  <2> HIDE DEF f, g
  <2>2. WholeOn(f, A) /\ WholeOn(g, A \union {q})
    BY <2>1 DEF WholeOn
  <2>3. SumFunctionOnSet(g, A \union {q}) = SumFunctionOnSet(g, A) + g[q]
    BY <1>2, <2>2, SumWith
  <2>4. SumFunctionOnSet(f, A) = SumFunctionOnSet(g, A)
    BY <2>1, <2>2, SumAgrees
  <2> QED
    BY <2>1, <2>3, <2>4 DEF SumFunction, g
<1> QED
  BY <1>1, <1>2

(* A payment more, on one invoice.                                         *)
LEMMA PrincipalsGrow ==
  ASSUME IsFiniteSet(payments), \A p \in payments : IsPayment(p),
         NEW pay, IsPayment(pay), pay \notin payments, payments' = payments \union {pay},
         NEW i \in Invoice, NEW k \in DOMAIN Principal[i]
  PROVE  Principals(i, k)' = Principals(i, k) + IF pay.invoice = i THEN pay.lines[k].principal ELSE 0
<1> DEFINE A == PaymentsOn(i)
<1>1. IsFiniteSet(A) /\ pay \notin A /\ A' = IF pay.invoice = i THEN A \union {pay} ELSE A
  BY FS_Subset DEF PaymentsOn
<1>2. \A p \in A : p.lines[k].principal \in Nat
  BY DEF PaymentsOn, IsPayment
<1>3. pay.invoice = i => pay.lines[k].principal \in Nat
  BY DEF IsPayment
<1>4. /\ Principals(i, k) = SumFunction([p \in A |-> p.lines[k].principal])
      /\ Principals(i, k)' = SumFunction([p \in A' |-> p.lines[k].principal])
  BY DEF Principals
<1>5. SumFunction([p \in A |-> p.lines[k].principal]) \in Nat
  BY <1>1, <1>2, PrincipalsAre
<1> HIDE DEF A
<1>6. CASE pay.invoice = i
  <2>1. A' = A \union {pay}
    BY <1>1, <1>6
  <2>2. SumFunction([p \in A \union {pay} |-> p.lines[k].principal])
          = SumFunction([p \in A |-> p.lines[k].principal]) + pay.lines[k].principal
    BY <1>1, <1>2, <1>3, <1>6, PrincipalsAre
  <2> QED
    BY <1>4, <1>6, <2>1, <2>2
<1>7. CASE pay.invoice # i
  <2>1. A' = A
    BY <1>1, <1>7
  <2> QED
    BY <1>4, <1>5, <1>7, <2>1
<1> QED
  BY <1>6, <1>7

LEMMA MoneyInit == Init => MoneyInv
<1> SUFFICES ASSUME Init PROVE MoneyInv
  OBVIOUS
<1>1. /\ payments = {} /\ inFlight = {} /\ today = 0
      /\ schedules = [i \in Invoice |-> [k \in DOMAIN Principal[i] |-> NewSchedule(Principal[i][k])]]
  BY DEF Init
<1>2. ASSUME NEW i \in Invoice, NEW k \in DOMAIN Principal[i]
      PROVE  /\ Sound(schedules[i][k]) /\ schedules[i][k].outstanding = Principal[i][k]
             /\ Principal[i][k] \in Nat
  <2>1. Principal[i][k] \in Nat
    BY PrincipalIsASequence
  <2>2. schedules[i][k] = NewSchedule(Principal[i][k])
    BY <1>1
  <2> QED
    BY <2>1, <2>2 DEF NewSchedule, Sound, Schedule, Timing, Settlement
<1>3. SchedulesSound
  BY <1>1, <1>2 DEF SchedulesSound
<1>4. ASSUME NEW i \in Invoice, NEW k \in DOMAIN Principal[i] PROVE Principals(i, k) = 0
  <2> DEFINE f == [p \in PaymentsOn(i) |-> p.lines[k].principal]
  <2>1. DOMAIN f = {}
    BY <1>1 DEF PaymentsOn
  <2>2. Principals(i, k) = SumFunctionOnSet(f, DOMAIN f)
    BY DEF Principals, SumFunction
  <2> HIDE DEF f
  <2> QED
    BY <2>1, <2>2, SumOfNone
<1>5. ASSUME NEW i \in Invoice, NEW k \in DOMAIN Principal[i] PROVE Placed(i, k)
  BY <1>2, <1>4 DEF Placed
<1>6. RequestsSane
  BY <1>1 DEF RequestsSane, SweepsTyped
<1> QED
  BY <1>1, <1>3, <1>5, <1>6, FS_EmptySet DEF MoneyInv

(* Schedules are written and no payment is.                                *)
LEMMA SchedulesWritten ==
  ASSUME MoneyInv, RequestsSane', UNCHANGED payments, SchedulesSound',
         \A i \in Invoice : \A k \in DOMAIN Principal[i] :
           schedules'[i][k].outstanding = schedules[i][k].outstanding
  PROVE  MoneyInv'
<1>1. ASSUME NEW i \in Invoice, NEW k \in DOMAIN Principal[i] PROVE Placed(i, k)'
  <2>1. Principals(i, k)' = Principals(i, k)
    BY DEF Principals, PaymentsOn
  <2>2. Placed(i, k)
    BY DEF MoneyInv
  <2> QED
    BY <2>1, <2>2 DEF Placed
<1> QED
  BY <1>1 DEF MoneyInv, IsPayment, Lined

LEMMA NothingWritten ==
  ASSUME MoneyInv, RequestsSane', UNCHANGED <<payments, schedules>> PROVE MoneyInv'
<1>1. SchedulesSound'
  BY DEF MoneyInv, SchedulesSound
<1> QED
  BY <1>1, SchedulesWritten

(* The whole plan of an invoice is written.                                *)
LEMMA PlanWritten ==
  ASSUME SchedulesSound, NEW i \in Invoice, NEW after,
         schedules' = [schedules EXCEPT ![i] = after],
         after = [k \in DOMAIN Principal[i] |-> after[k]],
         \A k \in DOMAIN Principal[i] : Sound(after[k])
  PROVE  /\ SchedulesSound'
         /\ schedules'[i] = after
         /\ \A j \in Invoice \ {i} : schedules'[j] = schedules[j]
<1>1. schedules' = [j \in Invoice |-> IF j = i THEN after ELSE schedules[j]]
  BY DEF SchedulesSound
<1> QED
  BY <1>1 DEF SchedulesSound

(* One schedule is written.                                                *)
Writes(i, k, s) == schedules' = [schedules EXCEPT ![i][k] = s]

IsRow(i, k) == i \in Invoice /\ k \in DOMAIN Principal[i]

OnlyRow(i, k, s) ==
  \A j \in Invoice : \A n \in DOMAIN Principal[j] :
    schedules'[j][n] = IF j = i /\ n = k THEN s ELSE schedules[j][n]

LEMMA RowWritten ==
  ASSUME SchedulesSound, NEW i, NEW k, IsRow(i, k), NEW s, Writes(i, k, s), Sound(s)
  PROVE  SchedulesSound' /\ OnlyRow(i, k, s)
<1>0. i \in Invoice /\ k \in DOMAIN Principal[i] /\ schedules' = [schedules EXCEPT ![i][k] = s]
  BY DEF IsRow, Writes
<1> DEFINE after == [schedules[i] EXCEPT ![k] = s]
<1>1. schedules[i] = [n \in DOMAIN Principal[i] |-> schedules[i][n]]
  BY <1>0 DEF SchedulesSound
<1>2. after = [n \in DOMAIN Principal[i] |-> IF n = k THEN s ELSE schedules[i][n]]
  BY <1>1
<1>3. schedules' = [schedules EXCEPT ![i] = after]
  BY <1>0 DEF SchedulesSound
<1>4. after = [n \in DOMAIN Principal[i] |-> after[n]]
      /\ \A n \in DOMAIN Principal[i] : after[n] = IF n = k THEN s ELSE schedules[i][n]
  BY <1>2
<1> HIDE DEF after
<1>5. \A n \in DOMAIN Principal[i] : Sound(after[n])
  BY <1>0, <1>4 DEF SchedulesSound
<1>6. /\ SchedulesSound'
      /\ schedules'[i] = after
      /\ \A j \in Invoice \ {i} : schedules'[j] = schedules[j]
  BY <1>0, <1>3, <1>4, <1>5, PlanWritten
<1> QED
  BY <1>4, <1>6 DEF OnlyRow

LEMMA PaymentPlaces ==
  ASSUME MoneyInv, RequestsSane', NEW i \in Invoice, NEW amount \in Nat, NEW ref \in References,
         ApplyApprovedPayment(i, amount, ref)
  PROVE  MoneyInv'
<1> DEFINE plan  == schedules[i]
           after == Allocated(amount, plan)
           pay   == [reference |-> ref, invoice |-> i, amount |-> amount,
                     lines |-> Lines(amount, plan), surplus |-> Surplus(amount, plan)]
<1>1. /\ IsQueue(plan) /\ DOMAIN plan = DOMAIN Principal[i]
      /\ \A k \in DOMAIN plan : Sound(plan[k])
  BY PlanIsAQueue DEF MoneyInv
<1>2. payments' = payments \union {pay} /\ schedules' = [schedules EXCEPT ![i] = after]
  BY DEF ApplyApprovedPayment, RecordMoney, SettleInvoice
<1>3. pay \notin payments
  BY DEF ApplyApprovedPayment, RecordMoney, Fresh
<1>4. /\ pay.reference = ref /\ pay.invoice = i /\ pay.amount = amount
      /\ pay.lines = Lines(amount, plan) /\ pay.surplus = Surplus(amount, plan)
  OBVIOUS
<1> HIDE DEF pay
<1>5. ASSUME NEW k \in DOMAIN plan
      PROVE  LET line == pay.lines[k]
             IN  /\ line.fee \in Nat /\ line.principal \in Nat
                 /\ line.fee <= plan[k].fee /\ line.principal <= PrincipalDue(plan[k])
                 /\ after[k] = AfterLine(plan[k], line)
  <2>1. pay.lines[k] = LineOf(amount, plan, k)
    BY <1>4 DEF Lines
  <2>2. after[k] = AfterLine(plan[k], LineOf(amount, plan, k))
    BY DEF Allocated
  <2> HIDE DEF plan, after
  <2> QED
    BY <1>1, <2>1, <2>2, LineFigures
<1>6. IsPayment(pay)
  <2>1. Surplus(amount, plan) \in Nat /\ amount = Lined(pay) + Surplus(amount, plan)
    BY <1>1, <1>4, NothingIsLost DEF Lined
  <2> QED
    BY <1>1, <1>4, <1>5, <2>1 DEF IsPayment
<1>7. \A p \in payments' : IsPayment(p)'
  BY <1>2, <1>6 DEF MoneyInv, IsPayment, Lined
<1>8. ASSUME NEW k \in DOMAIN plan
      PROVE  /\ Sound(after[k])
             /\ after[k].outstanding > 0 => after[k].outstanding + pay.lines[k].principal = plan[k].outstanding
  <2> HIDE DEF plan, after
  <2> QED
    BY <1>1, <1>5, AfterLineSound
<1>9. after = [k \in DOMAIN Principal[i] |-> after[k]]
  BY <1>1 DEF Allocated
<1> HIDE DEF after
<1>10. /\ SchedulesSound' /\ schedules'[i] = after
       /\ \A j \in Invoice \ {i} : schedules'[j] = schedules[j]
  BY <1>1, <1>2, <1>8, <1>9, PlanWritten DEF MoneyInv
<1>11. ASSUME NEW j \in Invoice, NEW k \in DOMAIN Principal[j] PROVE Placed(j, k)'
  <2>1. Principals(j, k)' = Principals(j, k) + IF pay.invoice = j THEN pay.lines[k].principal ELSE 0
    BY <1>2, <1>3, <1>6, PrincipalsGrow DEF MoneyInv
  <2>2. Placed(j, k)
    BY DEF MoneyInv
  <2>3. CASE j # i
    BY <1>4, <1>10, <2>1, <2>2, <2>3 DEF Placed
  <2>4. CASE j = i
    <3>1. /\ after[k].outstanding \in Nat /\ plan[k].outstanding \in Nat
          /\ plan[k].discount \in Nat /\ Principal[i][k] \in Nat
      BY <1>1, <1>8, <2>4, PrincipalIsASequence DEF Sound, Schedule
    <3>2. /\ pay.lines[k].principal \in Nat /\ pay.lines[k].principal <= PrincipalDue(plan[k])
          /\ after[k].outstanding > 0 => after[k].outstanding + pay.lines[k].principal = plan[k].outstanding
      BY <1>1, <1>5, <1>8, <2>4
    <3>3. PrincipalDue(plan[k]) \in Nat /\ PrincipalDue(plan[k]) <= plan[k].outstanding
      BY <3>1 DEF PrincipalDue, Greater
    <3>4. Principals(i, k)' = Principals(i, k) + pay.lines[k].principal
      BY <1>4, <2>1, <2>4
    <3>5. schedules'[i][k] = after[k]
      BY <1>10
    <3>6. Principals(i, k) \in Nat /\ Principals(i, k) <= Principal[i][k]
          /\ (plan[k].outstanding > 0 => plan[k].outstanding + Principals(i, k) = Principal[i][k])
      BY <2>2, <2>4 DEF Placed
    <3> DEFINE before == Principals(i, k)
               now    == Principals(i, k)'
    <3> HIDE DEF plan, before, now
    <3>7. /\ now \in Nat /\ now <= Principal[i][k]
          /\ after[k].outstanding > 0 => after[k].outstanding + now = Principal[i][k]
      BY <3>1, <3>2, <3>3, <3>4, <3>6 DEF before, now
    <3> QED
      BY <2>4, <3>5, <3>7 DEF Placed, now
  <2> QED
    BY <2>3, <2>4
<1>12. IsFiniteSet(payments')
  BY <1>2, FS_AddElement DEF MoneyInv
<1> QED
  BY <1>7, <1>10, <1>11, <1>12 DEF MoneyInv

LEMMA DueRows ==
  ASSUME SchedulesSound, NEW row \in DueSchedules
  PROVE  /\ row[1] \in Invoice /\ row[2] \in DOMAIN Principal[row[1]]
         /\ schedules[row[1]][row[2]].settlement # "paid"
<1>1. PICK i \in Invoice : row \in {i} \X DOMAIN schedules[i]
  BY DEF DueSchedules
<1>2. DOMAIN schedules[i] = DOMAIN Principal[i]
  BY DEF SchedulesSound
<1> QED
  BY <1>1, <1>2 DEF DueSchedules

(* A row done is taken off the sweep.                                      *)
LEMMA SweepGoesOn ==
  ASSUME RequestsSane, SweepRow
  PROVE  \E q, left :
           /\ q \in inFlight
           /\ q.op = "sweep" /\ NamesWhatIs(q)
           /\ inFlight' = (inFlight \ {q}) \union {left}
           /\ left = [op |-> "sweep", day |-> left.day, rows |-> left.rows, touched |-> left.touched]
           /\ left.op = "sweep" /\ left.day = q.day /\ left.rows \subseteq q.rows
           /\ \E row \in q.rows :
                schedules' = [schedules EXCEPT ![row[1]][row[2]] =
                  Evaluated(schedules[row[1]][row[2]], DueDay[row[1]][row[2]], q.day)]
<1>1. PICK q, row :
        /\ q \in inFlight
        /\ q.op = "sweep" /\ row \in q.rows
        /\ schedules' = [schedules EXCEPT ![row[1]][row[2]] =
             Evaluated(schedules[row[1]][row[2]], DueDay[row[1]][row[2]], q.day)]
        /\ inFlight' = (inFlight \ {q}) \union {[q EXCEPT !.rows = q.rows \ {row}]}
  BY DEF SweepRow
<1> DEFINE left == [op |-> "sweep", day |-> q.day, rows |-> q.rows \ {row}, touched |-> q.touched]
<1>2. inFlight' = (inFlight \ {q}) \union {left}
  BY <1>1, RowDone DEF RequestsSane, SweepsTyped
<1>3. /\ left = [op |-> "sweep", day |-> left.day, rows |-> left.rows, touched |-> left.touched]
      /\ left.op = "sweep" /\ left.day = q.day /\ left.rows \subseteq q.rows
  OBVIOUS
<1> HIDE DEF left
<1> QED
  BY <1>1, <1>2, <1>3 DEF RequestsSane

LEMMA RequestsStep == MoneyInv /\ [Next]_vars => RequestsSane'
<1> SUFFICES ASSUME MoneyInv, [Next]_vars PROVE RequestsSane'
  OBVIOUS
<1> USE DEF MoneyInv
<1>1. ASSUME inFlight' \subseteq inFlight, UNCHANGED today PROVE RequestsSane'
  BY <1>1 DEF RequestsSane, SweepsTyped, NamesWhatIs
<1>2. CASE Reads
  <2>1. PICK q : Admit(q) /\ Asks(q)
    BY <1>2, ReadsAdmit
  <2>2. inFlight' = inFlight \union {q} /\ UNCHANGED today
    BY <2>1 DEF Admit, setup
  <2>3. q.op = "sweep" =>
          /\ q = [op |-> "sweep", day |-> q.day, rows |-> q.rows, touched |-> q.touched]
          /\ q.day = today /\ q.rows = DueSchedules
    BY <2>1 DEF Asks
  <2>4. (q.op = "verify" => q.receipt \in Receipt)
        /\ (q.op = "pay" => q.invoice \in Invoice /\ q.amount \in Nat)
    BY <2>1 DEF Asks
  <2>5. NamesWhatIs(q)
    BY <2>3, <2>4, DueRows DEF NamesWhatIs, RequestsSane
  <2> QED
    BY <2>2, <2>3, <2>5 DEF RequestsSane, SweepsTyped, NamesWhatIs
<1>3. CASE SweepRow
  <2>1. PICK q, left :
          /\ q \in inFlight
          /\ q.op = "sweep" /\ NamesWhatIs(q)
          /\ inFlight' = (inFlight \ {q}) \union {left}
          /\ left = [op |-> "sweep", day |-> left.day, rows |-> left.rows, touched |-> left.touched]
          /\ left.op = "sweep" /\ left.day = q.day /\ left.rows \subseteq q.rows
    BY <1>3, SweepGoesOn
  <2>2. NamesWhatIs(left)
    BY <2>1 DEF NamesWhatIs
  <2>3. UNCHANGED today
    BY <1>3 DEF SweepRow, setup
  <2> QED
    BY <2>1, <2>2, <2>3 DEF RequestsSane, SweepsTyped, NamesWhatIs
<1>4. CASE NextDay
  BY <1>4 DEF NextDay, RequestsSane, SweepsTyped, NamesWhatIs
<1>5. CASE \/ Submit \/ Verify \/ Refuse \/ Resubmit \/ PayInvoice \/ MarkInvoicePaid \/ CloseInvoice
           \/ DecideRefund \/ SweepPlans \/ EndsWithoutEffect
  <2>1. UNCHANGED today /\ \E q : Served(q)
    BY <1>5 DEF Submit, Verify, Refuse, Resubmit, PayInvoice, MarkInvoicePaid, CloseInvoice,
                DecideRefund, SweepPlans, EndsWithoutEffect, setup
  <2> QED
    BY <1>1, <2>1 DEF Served
<1>6. CASE GrantDiscount \/ WaiveFee \/ ChangeHoldPolicy \/ UNCHANGED vars
  BY <1>1, <1>6 DEF GrantDiscount, WaiveFee, ChangeHoldPolicy, vars, setup
<1> QED
  BY <1>2, <1>3, <1>4, <1>5, <1>6 DEF Next, Reads

LEMMA DiscountPlaces == ASSUME MoneyInv, RequestsSane', GrantDiscount PROVE MoneyInv'
<1>1. PICK i \in Invoice, wanted \in Nat :
        /\ schedules' = [schedules EXCEPT ![i] = SpreadDiscount(wanted, schedules[i])]
        /\ UNCHANGED payments
  BY AmountsArePositive DEF GrantDiscount
<1> DEFINE n     == Len(Principal[i])
           plan  == schedules[i]
           after == SpreadDiscount(wanted, plan)
<1>2. n \in Nat /\ DOMAIN Principal[i] = 1..n
  BY PrincipalIsASequence
<1>3. SoundPlan(plan, n) /\ SchedulesSound
  BY <1>2 DEF MoneyInv, SchedulesSound, SoundPlan
<1>4. schedules' = [schedules EXCEPT ![i] = after]
  BY <1>1
<1> HIDE DEF n, plan
<1>5. /\ SoundPlan(after, n)
      /\ \A k \in 1..n : after[k].outstanding = plan[k].outstanding
  BY <1>2, <1>3, SpreadSound
<1> HIDE DEF after
<1>6. /\ after = [k \in DOMAIN Principal[i] |-> after[k]]
      /\ \A k \in DOMAIN Principal[i] : Sound(after[k])
  BY <1>2, <1>5 DEF SoundPlan
<1>7. /\ SchedulesSound' /\ schedules'[i] = after
      /\ \A j \in Invoice \ {i} : schedules'[j] = schedules[j]
  BY <1>3, <1>4, <1>6, PlanWritten
<1> QED
  BY <1>1, <1>2, <1>5, <1>7, SchedulesWritten DEF plan

LEMMA WaiverPlaces == ASSUME MoneyInv, RequestsSane', WaiveFee PROVE MoneyInv'
<1>1. PICK i, k :
        /\ i \in Invoice /\ k \in DOMAIN schedules[i]
        /\ schedules' = [schedules EXCEPT ![i][k] =
             [schedules[i][k] EXCEPT
                !.fee = 0,
                !.settlement = IF schedules[i][k].outstanding = 0 THEN "paid"
                               ELSE IF schedules[i][k].outstanding < Principal[i][k]
                                    THEN "partially_paid" ELSE schedules[i][k].settlement]]
        /\ UNCHANGED payments
  BY DEF WaiveFee
<1> DEFINE s      == schedules[i][k]
           status == IF s.outstanding = 0 THEN "paid"
                     ELSE IF s.outstanding < Principal[i][k] THEN "partially_paid" ELSE s.settlement
           t      == [s EXCEPT !.fee = 0, !.settlement = status]
<1>2. SchedulesSound /\ k \in DOMAIN Principal[i] /\ Sound(s)
  <2>1. SchedulesSound
    BY DEF MoneyInv
  <2>2. DOMAIN schedules[i] = DOMAIN Principal[i]
    BY <1>1, <2>1, PlanIsAQueue
  <2> QED
    BY <1>1, <2>1, <2>2 DEF SchedulesSound
<1>3. status \in Settlement
  BY <1>2 DEF Sound, Schedule, Settlement
<1>4. Writes(i, k, t) /\ IsRow(i, k)
  BY <1>1, <1>2 DEF Writes, IsRow
<1> HIDE DEF s, status
<1>5. Sound(t) /\ t.outstanding = s.outstanding
  BY <1>2, <1>3, WaivedSound
<1> HIDE DEF t
<1>6. SchedulesSound' /\ OnlyRow(i, k, t)
  BY <1>2, <1>4, <1>5, RowWritten
<1> QED
  BY <1>1, <1>5, <1>6, SchedulesWritten DEF s, OnlyRow

LEMMA SweepPlaces == ASSUME MoneyInv, RequestsSane', SweepRow PROVE MoneyInv'
<1>1. PICK q, row :
        /\ q.op = "sweep" /\ NamesWhatIs(q) /\ row \in q.rows
        /\ schedules' = [schedules EXCEPT ![row[1]][row[2]] =
             Evaluated(schedules[row[1]][row[2]], DueDay[row[1]][row[2]], q.day)]
  BY SweepGoesOn DEF MoneyInv
<1> DEFINE i == row[1]
           k == row[2]
           t == Evaluated(schedules[i][k], DueDay[i][k], q.day)
<1>2. i \in Invoice /\ k \in DOMAIN Principal[i] /\ q.day \in Int
  BY <1>1 DEF NamesWhatIs
<1>3. SchedulesSound /\ Sound(schedules[i][k]) /\ DueDay[i][k] \in Int
  BY <1>2, PrincipalIsASequence DEF MoneyInv, SchedulesSound
<1>4. Writes(i, k, t) /\ IsRow(i, k)
  BY <1>1, <1>2 DEF Writes, IsRow
<1> HIDE DEF i, k
<1>5. Sound(t) /\ t.outstanding = schedules[i][k].outstanding
  BY <1>2, <1>3, EvaluatedSound
<1> HIDE DEF t
<1>6. SchedulesSound' /\ OnlyRow(i, k, t)
  BY <1>3, <1>4, <1>5, RowWritten
<1>7. UNCHANGED payments
  BY DEF SweepRow
<1> QED
  BY <1>5, <1>6, <1>7, SchedulesWritten DEF OnlyRow

(* Which payment is made, and on what.                                     *)
LEMMA PaymentNames ==
  ASSUME RequestsSane, Verify \/ PayInvoice \/ MarkInvoicePaid
  PROVE  \E i \in Invoice, amount \in Nat, ref \in References : ApplyApprovedPayment(i, amount, ref)
<1>1. CASE Verify
  <2>1. PICK q \in inFlight, amount \in Amounts, ref \in Reference :
          q.op = "verify" /\ ApplyApprovedPayment(ReceiptOf[q.receipt], amount, ref)
    BY <1>1 DEF Verify
  <2>2. ReceiptOf[q.receipt] \in Invoice /\ amount \in Nat /\ ref \in References
    BY <2>1, AmountsArePositive DEF RequestsSane, NamesWhatIs, References
  <2> QED
    BY <2>1, <2>2
<1>2. CASE PayInvoice
  <2>1. PICK q \in inFlight, ref \in Reference :
          q.op = "pay" /\ ApplyApprovedPayment(q.invoice, q.amount, ref)
    BY <1>2 DEF PayInvoice, Served
  <2>2. q.invoice \in Invoice /\ q.amount \in Nat /\ ref \in References
    BY <2>1 DEF RequestsSane, NamesWhatIs, References
  <2> QED
    BY <2>1, <2>2
<1>3. CASE MarkInvoicePaid
  <2>1. PICK q \in inFlight :
          q.op = "pay" /\ ApplyApprovedPayment(q.invoice, q.amount, AdminApproved(q.invoice))
    BY <1>3 DEF MarkInvoicePaid, Served
  <2>2. q.invoice \in Invoice /\ q.amount \in Nat /\ AdminApproved(q.invoice) \in References
    BY <2>1 DEF RequestsSane, NamesWhatIs, References
  <2> QED
    BY <2>1, <2>2
<1> QED
  BY <1>1, <1>2, <1>3

LEMMA MoneyStep == MoneyInv /\ [Next]_vars => MoneyInv'
<1> SUFFICES ASSUME MoneyInv, [Next]_vars PROVE MoneyInv'
  OBVIOUS
<1>1. RequestsSane'
  BY RequestsStep
<1>2. CASE Verify \/ PayInvoice \/ MarkInvoicePaid
  BY <1>1, <1>2, PaymentNames, PaymentPlaces DEF MoneyInv
<1>3. CASE GrantDiscount
  BY <1>1, <1>3, DiscountPlaces
<1>4. CASE WaiveFee
  BY <1>1, <1>4, WaiverPlaces
<1>5. CASE SweepRow
  BY <1>1, <1>5, SweepPlaces
<1>6. CASE Reads
  <2>1. UNCHANGED <<payments, schedules>>
    BY <1>6, ReadsAdmit DEF Admit, money
  <2> QED
    BY <1>1, <2>1, NothingWritten
<1>7. CASE \/ Submit \/ Refuse \/ Resubmit \/ CloseInvoice \/ DecideRefund \/ ChangeHoldPolicy
           \/ SweepPlans \/ NextDay \/ EndsWithoutEffect \/ UNCHANGED vars
  <2>1. UNCHANGED <<payments, schedules>>
    BY <1>7 DEF Submit, Refuse, Resubmit, CloseInvoice, DecideRefund, ChangeHoldPolicy,
                SweepPlans, NextDay, EndsWithoutEffect, vars, money
  <2> QED
    BY <1>1, <2>1, NothingWritten
<1> QED
  BY <1>2, <1>3, <1>4, <1>5, <1>6, <1>7 DEF Next, Reads

LEMMA MoneyAlways == Spec => []MoneyInv
  BY MoneyInit, MoneyStep, PTL DEF Spec

(* Every kobo of an approved payment is on an allocation line or in its    *)
(* surplus, and what a schedule owes is its principal less the lines on    *)
(* it, for plans of any length and principals, payments of any amount, and *)
(* however payments, discounts, waivers and sweeps overlap.                *)
THEOREM MoneyIsPlaced == Spec => []MoneyPlaced
<1>1. MoneyInv => MoneyPlaced
  BY DEF MoneyInv, MoneyPlaced, IsPayment, SchedulesSound, Placed
<1> QED
  BY <1>1, MoneyAlways, PTL

(* No schedule carries more discount than it still owes, whatever is       *)
(* granted and however often, before, between and after payments.          *)
THEOREM DiscountsAreCovered == Spec => []DiscountCovered
<1>1. MoneyInv => DiscountCovered
  BY DEF MoneyInv, DiscountCovered, SchedulesSound, Sound
<1> QED
  BY <1>1, MoneyAlways, PTL
-----------------------------------------------------------------------------
(* One request at a time.                                                  *)
Serial == MaxInFlight = 1

OneRequest ==
  /\ IsFiniteSet(inFlight)
  /\ \A q1, q2 \in inFlight : q1 = q2

ReceiptsTyped ==
  /\ receipts = [r \in Receipt |-> receipts[r]]
  /\ \A r \in Receipt :
       receipts[r] = [status |-> receipts[r].status, payment |-> receipts[r].payment]

(* The request in flight finds the proof as it read it: without a payment. *)
StillOpen(q) ==
  /\ q.op = "submit" => q.receipt \in Receipt /\ receipts[q.receipt].status = "none"
  /\ q.op \in {"verify", "reject", "resubmit", "withdraw"} =>
       q.receipt \in Receipt /\ receipts[q.receipt].status \in {"pending", "rejected"}

ReceiptInv ==
  /\ ReceiptsTyped
  /\ SweepsTyped
  /\ OneRequest
  /\ ReceiptAgreesWithPayment
  /\ \A q \in inFlight : StillOpen(q)

LEMMA ReceiptInit == Init => ReceiptInv
BY FS_EmptySet DEF Init, ReceiptInv, ReceiptsTyped, SweepsTyped, OneRequest, ReceiptAgreesWithPayment

LEMMA RoomForOne == ASSUME Serial, IsFiniteSet(inFlight), HasRoom PROVE inFlight = {}
<1>1. Cardinality(inFlight) = 0
  BY FS_CardinalityType DEF Serial, HasRoom
<1> QED
  BY <1>1, FS_EmptySet

LEMMA NothingElse == ASSUME OneRequest, NEW q, Served(q) PROVE inFlight' = {}
BY DEF OneRequest, Served

LEMMA ServedReceipt ==
  ASSUME ReceiptInv, NEW q, Served(q), (ReceiptsTyped /\ ReceiptAgreesWithPayment)'
  PROVE  ReceiptInv'
BY NothingElse, FS_EmptySet DEF ReceiptInv, SweepsTyped, OneRequest

(* A proof without a payment changes its status.                           *)
LEMMA StatusMoves ==
  ASSUME ReceiptsTyped, ReceiptAgreesWithPayment, NEW r \in Receipt, NEW status,
         receipts[r].status # "verified", status # "verified",
         receipts' = [receipts EXCEPT ![r].status = status], UNCHANGED payments
  PROVE  (ReceiptsTyped /\ ReceiptAgreesWithPayment)'
<1>1. /\ receipts'[r] = [status |-> status, payment |-> receipts[r].payment]
      /\ \A other \in Receipt \ {r} : receipts'[other] = receipts[other]
      /\ receipts' = [other \in Receipt |-> receipts'[other]]
  BY DEF ReceiptsTyped
<1>2. receipts'[r].status = status /\ receipts'[r].payment = receipts[r].payment
  BY <1>1
<1>3. ReceiptsTyped'
  <2>1. ASSUME NEW other \in Receipt
        PROVE  receipts'[other] =
                 [status |-> receipts'[other].status, payment |-> receipts'[other].payment]
    BY <1>1, <1>2 DEF ReceiptsTyped
  <2> QED
    BY <2>1, <1>1 DEF ReceiptsTyped
<1> QED
  BY <1>1, <1>2, <1>3 DEF ReceiptAgreesWithPayment

(* Payments are only added.                                                *)
LEMMA ReceiptsStay ==
  ASSUME ReceiptsTyped, ReceiptAgreesWithPayment, UNCHANGED receipts, payments \subseteq payments'
  PROVE  (ReceiptsTyped /\ ReceiptAgreesWithPayment)'
BY DEF ReceiptsTyped, ReceiptAgreesWithPayment

LEMMA VerifyAgrees ==
  ASSUME ReceiptInv, Verify PROVE (ReceiptsTyped /\ ReceiptAgreesWithPayment)'
<1>1. PICK q \in inFlight, amount \in Amounts, ref \in Reference : Verify!(q, amount, ref)
  BY DEF Verify
<1> DEFINE r    == q.receipt
           paid == [reference |-> ref, invoice |-> ReceiptOf[r], amount |-> amount,
                    lines |-> Lines(amount, schedules[ReceiptOf[r]]),
                    surplus |-> Surplus(amount, schedules[ReceiptOf[r]])]
<1>2. r \in Receipt
  BY <1>1 DEF ReceiptInv, StillOpen
<1>3. payments' = payments \union {paid}
  BY <1>1 DEF ApplyApprovedPayment, RecordMoney
<1>4. paid.reference = ref /\ paid.invoice = ReceiptOf[r]
  OBVIOUS
<1> HIDE DEF paid
<1>5. /\ receipts'[r] = [status |-> "verified", payment |-> ref]
      /\ \A other \in Receipt \ {r} : receipts'[other] = receipts[other]
      /\ receipts' = [other \in Receipt |-> receipts'[other]]
  BY <1>1, <1>2 DEF ReceiptInv, ReceiptsTyped
<1>6. ref # NoReference
  BY ReferencesAreReal
<1>7. receipts'[r].status = "verified" /\ receipts'[r].payment = ref
  BY <1>5
<1>8. ReceiptsTyped'
  <2>1. ASSUME NEW other \in Receipt
        PROVE  receipts'[other] =
                 [status |-> receipts'[other].status, payment |-> receipts'[other].payment]
    BY <1>5, <1>7 DEF ReceiptInv, ReceiptsTyped
  <2> QED
    BY <2>1, <1>5 DEF ReceiptsTyped
<1> QED
  BY <1>2, <1>3, <1>4, <1>5, <1>6, <1>7, <1>8 DEF ReceiptInv, ReceiptAgreesWithPayment

LEMMA ReceiptStep == ASSUME Serial PROVE ReceiptInv /\ [Next]_vars => ReceiptInv'
<1> SUFFICES ASSUME ReceiptInv, [Next]_vars PROVE ReceiptInv'
  OBVIOUS
<1> USE DEF ReceiptInv
<1>1. CASE Reads
  <2>1. PICK q : Admit(q) /\ Asks(q)
    BY <1>1, ReadsAdmit
  <2>2. inFlight' = {q} /\ UNCHANGED <<receipts, payments>>
    <3>1. inFlight = {}
      BY <2>1, RoomForOne DEF Admit, OneRequest
    <3> QED
      BY <2>1, <3>1 DEF Admit, money
  <2>3. StillOpen(q)
    BY <2>1 DEF Asks, StillOpen, ActsOn
  <2>4. q.op = "sweep" =>
          q = [op |-> "sweep", day |-> q.day, rows |-> q.rows, touched |-> q.touched]
    BY <2>1 DEF Asks
  <2>5. (ReceiptsTyped /\ ReceiptAgreesWithPayment)'
    BY <2>2, ReceiptsStay
  <2> QED
    BY <2>2, <2>3, <2>4, <2>5, FS_Singleton DEF StillOpen, SweepsTyped, OneRequest
<1>2. CASE Submit
  <2>1. PICK r \in Receipt : Submit!(r)
    BY <1>2 DEF Submit
  <2>2. receipts[r].status = "none"
    BY <2>1 DEF Served, StillOpen
  <2>3. (ReceiptsTyped /\ ReceiptAgreesWithPayment)'
    BY <2>1, <2>2, StatusMoves
  <2> QED
    BY <2>1, <2>3, ServedReceipt
<1>3. CASE Refuse
  <2>1. PICK q \in inFlight : Refuse!(q)
    BY <1>3 DEF Refuse
  <2>2. q.receipt \in Receipt /\ receipts[q.receipt].status # "verified"
    BY <2>1 DEF StillOpen
  <2>3. \E status : /\ status # "verified"
                    /\ receipts' = [receipts EXCEPT ![q.receipt].status = status]
    BY <2>1
  <2>4. (ReceiptsTyped /\ ReceiptAgreesWithPayment)'
    BY <2>1, <2>2, <2>3, StatusMoves
  <2> QED
    BY <2>1, <2>4, ServedReceipt
<1>4. CASE Resubmit
  <2>1. PICK q \in inFlight : Resubmit!(q)
    BY <1>4 DEF Resubmit
  <2>2. q.receipt \in Receipt /\ receipts[q.receipt].status # "verified"
    BY <2>1 DEF StillOpen
  <2>3. (ReceiptsTyped /\ ReceiptAgreesWithPayment)'
    <3>1. CASE UNCHANGED receipts
      BY <2>1, <3>1, ReceiptsStay
    <3>2. CASE receipts' = [receipts EXCEPT ![q.receipt].status = "pending"]
      BY <2>1, <2>2, <3>2, StatusMoves
    <3> QED
      BY <2>1, <3>1, <3>2
  <2> QED
    BY <2>1, <2>3, ServedReceipt
<1>5. CASE Verify
  <2>1. PICK q \in inFlight : Served(q)
    BY <1>5 DEF Verify
  <2> QED
    BY <1>5, <2>1, VerifyAgrees, ServedReceipt
<1>6. CASE PayInvoice \/ MarkInvoicePaid \/ CloseInvoice \/ DecideRefund \/ SweepPlans \/ EndsWithoutEffect
  <2>1. PICK q : Served(q)
    BY <1>6 DEF PayInvoice, MarkInvoicePaid, CloseInvoice, DecideRefund, SweepPlans, EndsWithoutEffect
  <2>2. UNCHANGED receipts /\ payments \subseteq payments'
    BY <1>6 DEF PayInvoice, MarkInvoicePaid, CloseInvoice, DecideRefund, SweepPlans,
                EndsWithoutEffect, ApplyApprovedPayment, RecordMoney, money
  <2> QED
    BY <2>1, <2>2, ReceiptsStay, ServedReceipt
<1>7. CASE SweepRow
  <2>1. PICK q, row :
          /\ q \in inFlight
          /\ q.op = "sweep"
          /\ inFlight' = (inFlight \ {q}) \union {[q EXCEPT !.rows = q.rows \ {row}]}
    BY <1>7 DEF SweepRow
  <2> DEFINE left == [op |-> "sweep", day |-> q.day, rows |-> q.rows \ {row}, touched |-> q.touched]
  <2>2. inFlight' = {left}
    BY <2>1, RowDone DEF SweepsTyped, OneRequest
  <2>3. UNCHANGED receipts /\ payments \subseteq payments'
    BY <1>7 DEF SweepRow
  <2>4. (ReceiptsTyped /\ ReceiptAgreesWithPayment)'
    BY <2>3, ReceiptsStay
  <2>5. /\ left.op = "sweep"
        /\ left = [op |-> "sweep", day |-> left.day, rows |-> left.rows, touched |-> left.touched]
    OBVIOUS
  <2> HIDE DEF left
  <2>6. (SweepsTyped /\ \A other \in inFlight : StillOpen(other))'
    BY <2>2, <2>5 DEF StillOpen, SweepsTyped
  <2>7. OneRequest'
    BY <2>2, FS_Singleton DEF OneRequest
  <2> QED
    BY <2>4, <2>6, <2>7
<1>8. CASE GrantDiscount \/ WaiveFee \/ ChangeHoldPolicy \/ NextDay \/ UNCHANGED vars
  <2>1. UNCHANGED <<receipts, payments, inFlight>>
    BY <1>8 DEF GrantDiscount, WaiveFee, ChangeHoldPolicy, NextDay, vars, money
  <2> QED
    BY <2>1 DEF ReceiptsTyped, ReceiptAgreesWithPayment, SweepsTyped, OneRequest, StillOpen
<1> QED
  BY <1>1, <1>2, <1>3, <1>4, <1>5, <1>6, <1>7, <1>8 DEF Next, Reads

(* With requests that do not overlap a proof is verified exactly when it   *)
(* has produced a payment, on its own invoice, and stays so                *)
(* (verifyReceipt, rejectReceipt, BUYER_EDITABLE).                         *)
THEOREM ReceiptsAgree == ASSUME Serial PROVE Spec => []ReceiptAgreesWithPayment
<1>1. ReceiptInv /\ [Next]_vars => ReceiptInv'
  BY ReceiptStep
<1>2. ReceiptInv => ReceiptAgreesWithPayment
  BY DEF ReceiptInv
<1> QED
  BY <1>1, <1>2, ReceiptInit, PTL DEF Spec

-----------------------------------------------------------------------------
(* The credit of a plan.  A refund in flight stands where it was read.     *)
PlansTyped ==
  /\ plans = [i \in Invoice |-> plans[i]]
  /\ \A i \in Invoice : plans[i] = [status |-> plans[i].status, credit |-> plans[i].credit]

RefundAsRead(q) ==
  q.op = "refund" =>
    refunds[q.payment] = IF q.next = "paid" THEN "approved" ELSE "pending_approval"

ReferencesApart == \A p, q \in payments : p.reference = q.reference => p = q

CreditInv ==
  /\ PlansTyped
  /\ refunds = [ref \in References |-> refunds[ref]]
  /\ ReferencesApart
  /\ SweepsTyped
  /\ OneRequest
  /\ \A q \in inFlight : RefundAsRead(q)
  /\ CreditHeld

LEMMA CreditInit == Init => CreditInv
<1> SUFFICES ASSUME Init PROVE CreditInv
  OBVIOUS
<1>1. payments = {} /\ inFlight = {}
  BY DEF Init
<1>2. plans = [i \in Invoice |-> [status |-> "active", credit |-> 0]]
      /\ refunds = [ref \in References |-> "none"]
  BY DEF Init
<1>3. CreditHeld
  <2>1. \A i \in Invoice : PaymentsOn(i) = {} /\ plans[i].credit = 0
    BY <1>1, <1>2 DEF PaymentsOn
  <2> QED
    BY <2>1, SumOfNone DEF CreditHeld
<1> QED
  BY <1>1, <1>2, <1>3, FS_EmptySet
  DEF CreditInv, PlansTyped, ReferencesApart, SweepsTyped, OneRequest

(* Neither the payments nor the refunds change, nor does a credit.         *)
CreditsStay ==
  /\ UNCHANGED <<payments, refunds>>
  /\ PlansTyped'
  /\ \A i \in Invoice : plans'[i].credit = plans[i].credit

LEMMA CreditStays ==
  ASSUME CreditInv, CreditsStay
  PROVE  /\ (PlansTyped /\ ReferencesApart /\ CreditHeld)'
         /\ refunds' = [ref \in References |-> refunds'[ref]]
<1>1. LeftOver' = LeftOver /\ \A i : PaymentsOn(i)' = PaymentsOn(i)
  BY DEF CreditsStay, LeftOver, PaymentsOn
<1>2. CreditHeld'
  BY <1>1 DEF CreditInv, CreditsStay, CreditHeld
<1> QED
  BY <1>2 DEF CreditInv, CreditsStay, ReferencesApart

LEMMA LeftOverIsWhole ==
  ASSUME IsFiniteSet(payments), \A p \in payments : IsPayment(p), NEW i
  PROVE  /\ IsFiniteSet(PaymentsOn(i)) /\ PaymentsOn(i) \subseteq payments
         /\ \A p \in payments : LeftOver[p] \in Nat
         /\ WholeOn(LeftOver, PaymentsOn(i))
<1>1. IsFiniteSet(PaymentsOn(i)) /\ PaymentsOn(i) \subseteq payments
  BY FS_Subset DEF PaymentsOn
<1>2. \A p \in payments : LeftOver[p] \in Nat
  BY DEF LeftOver, IsPayment
<1> QED
  BY <1>1, <1>2 DEF WholeOn

(* A payment leaves its surplus on the plan.                               *)
LEMMA PaymentCredits ==
  ASSUME MoneyInv, CreditInv, NEW i \in Invoice, NEW amount \in Nat, NEW ref \in References,
         ApplyApprovedPayment(i, amount, ref)
  PROVE  /\ (PlansTyped /\ ReferencesApart /\ CreditHeld)'
         /\ refunds' = [r \in References |-> refunds'[r]]
<1> DEFINE plan == schedules[i]
           left == Surplus(amount, plan)
           pay  == [reference |-> ref, invoice |-> i, amount |-> amount,
                    lines |-> Lines(amount, plan), surplus |-> left]
           status == PlanStatusFor(Allocated(amount, plan))
<1>1. /\ payments' = payments \union {pay}
      /\ plans' = [plans EXCEPT ![i] = [status |-> status, credit |-> plans[i].credit + left]]
      /\ refunds' = IF left > 0 THEN [refunds EXCEPT ![ref] = "pending_approval"] ELSE refunds
  BY DEF ApplyApprovedPayment, RecordMoney, SettleInvoice
<1>2. \A p \in payments : p.reference # ref
  BY DEF ApplyApprovedPayment, RecordMoney, Fresh
<1>3. left \in Nat
  BY PlanIsAQueue, NothingIsLost DEF MoneyInv
<1>4. pay.reference = ref /\ pay.invoice = i /\ pay.surplus = left
  OBVIOUS
<1> HIDE DEF plan, left, pay, status
<1>5. /\ plans'[i].credit = plans[i].credit + left
      /\ \A j \in Invoice \ {i} : plans'[j] = plans[j]
      /\ PlansTyped'
  <2>1. plans' = [j \in Invoice |-> IF j = i THEN [status |-> status, credit |-> plans[i].credit + left]
                                    ELSE plans[j]]
    BY <1>1 DEF CreditInv, PlansTyped
  <2> QED
    BY <2>1 DEF CreditInv, PlansTyped
<1>6. /\ refunds' = [r \in References |-> refunds'[r]]
      /\ \A r \in References \ {ref} : refunds'[r] = refunds[r]
      /\ left > 0 => refunds'[ref] # "paid"
  BY <1>1 DEF CreditInv
<1>7. /\ \A p \in payments : LeftOver'[p] = LeftOver[p]
      /\ LeftOver'[pay] = left
  <2>1. ASSUME NEW p \in payments PROVE LeftOver'[p] = LeftOver[p]
    <3>1. p.reference \in References \ {ref}
      BY <1>2 DEF MoneyInv, IsPayment
    <3> QED
      BY <1>1, <1>6, <3>1 DEF LeftOver
  <2>2. LeftOver'[pay] = IF refunds'[ref] = "paid" THEN 0 ELSE left
    BY <1>1, <1>4 DEF LeftOver
  <2>3. left > 0 \/ left = 0
    BY <1>3
  <2> QED
    BY <1>6, <2>1, <2>2, <2>3
<1>8. ReferencesApart'
  BY <1>1, <1>2, <1>4 DEF CreditInv, ReferencesApart
<1>9. ASSUME NEW j \in Invoice
      PROVE  plans'[j].credit = SumFunctionOnSet(LeftOver', PaymentsOn(j)')
  <2> DEFINE S == PaymentsOn(j)
  <2>1. /\ IsFiniteSet(S) /\ S \subseteq payments
        /\ WholeOn(LeftOver, S)
    BY LeftOverIsWhole DEF MoneyInv
  <2>2. plans[j].credit = SumFunctionOnSet(LeftOver, S)
    BY DEF CreditInv, CreditHeld
  <2>3. PaymentsOn(j)' = IF j = i THEN S \union {pay} ELSE S
    BY <1>1, <1>4 DEF PaymentsOn
  <2>4. pay \notin S
    BY <1>2, <1>4, <2>1
  <2> HIDE DEF S
  <2>5. WholeOn(LeftOver', S \union {pay}) /\ \A p \in S : LeftOver'[p] = LeftOver[p]
    BY <1>3, <1>7, <2>1 DEF WholeOn
  <2>6. SumFunctionOnSet(LeftOver, S) = SumFunctionOnSet(LeftOver', S)
    BY <2>1, <2>5, SumAgrees
  <2>7. SumFunctionOnSet(LeftOver', S \union {pay}) = SumFunctionOnSet(LeftOver', S) + LeftOver'[pay]
    BY <2>1, <2>4, <2>5, SumWith
  <2> QED
    BY <1>5, <1>7, <2>2, <2>3, <2>6, <2>7
<1>10. CreditHeld'
  BY <1>9 DEF CreditHeld
<1> QED
  BY <1>5, <1>6, <1>8, <1>10

(* A refund marked paid takes its surplus off the plan, and no other.      *)
LEMMA RefundCredits ==
  ASSUME MoneyInv, CreditInv, DecideRefund
  PROVE  /\ (PlansTyped /\ ReferencesApart /\ CreditHeld)'
         /\ refunds' = [r \in References |-> refunds'[r]]
<1>1. PICK q \in inFlight, p \in payments :
        /\ q.op = "refund" /\ q.payment = p.reference
        /\ refunds' = [refunds EXCEPT ![p.reference] = q.next]
        /\ plans' = [plans EXCEPT ![p.invoice].credit =
                       Greater(plans[p.invoice].credit - PaidBack(q.next, p.surplus), 0)]
        /\ UNCHANGED payments
  BY DEF DecideRefund
<1> DEFINE i    == p.invoice
           out  == PaidBack(q.next, p.surplus)
           left == Greater(plans[i].credit - out, 0)
<1>2. i \in Invoice /\ p.reference \in References /\ p.surplus \in Nat
  BY DEF MoneyInv, IsPayment
<1>3. refunds[p.reference] # "paid"
  BY <1>1 DEF CreditInv, RefundAsRead
<1>4. plans' = [plans EXCEPT ![i].credit = left]
  BY <1>1
<1> HIDE DEF i, left
<1>5. /\ plans'[i].credit = left
      /\ \A j \in Invoice \ {i} : plans'[j] = plans[j]
      /\ PlansTyped'
  <2>1. plans' = [j \in Invoice |-> IF j = i THEN [plans[i] EXCEPT !.credit = left] ELSE plans[j]]
    BY <1>4 DEF CreditInv, PlansTyped
  <2>2. [plans[i] EXCEPT !.credit = left] = [status |-> plans[i].status, credit |-> left]
    BY <1>2 DEF CreditInv, PlansTyped
  <2> QED
    BY <1>2, <2>1, <2>2 DEF CreditInv, PlansTyped
<1>6. /\ refunds' = [r \in References |-> refunds'[r]]
      /\ refunds'[p.reference] = q.next
      /\ \A r \in References \ {p.reference} : refunds'[r] = refunds[r]
  BY <1>1, <1>2 DEF CreditInv
<1>7. /\ LeftOver[p] = p.surplus /\ LeftOver'[p] = p.surplus - out
      /\ \A other \in payments \ {p} : LeftOver'[other] = LeftOver[other]
  <2>1. LeftOver[p] = p.surplus
    BY <1>3 DEF LeftOver
  <2>2. LeftOver'[p] = IF q.next = "paid" THEN 0 ELSE p.surplus
    BY <1>1, <1>6 DEF LeftOver
  <2>3. ASSUME NEW other \in payments \ {p} PROVE LeftOver'[other] = LeftOver[other]
    <3>1. other.reference \in References \ {p.reference}
      BY DEF MoneyInv, IsPayment, CreditInv, ReferencesApart
    <3> QED
      BY <1>1, <1>6, <3>1 DEF LeftOver
  <2> QED
    BY <1>2, <2>1, <2>2, <2>3 DEF PaidBack
<1>8. out \in Nat /\ out <= p.surplus
  BY <1>2 DEF PaidBack
<1> HIDE DEF out
<1>9. ASSUME NEW j \in Invoice
      PROVE  plans'[j].credit = SumFunctionOnSet(LeftOver', PaymentsOn(j)')
  <2> DEFINE S == PaymentsOn(j)
  <2>1. /\ IsFiniteSet(S) /\ S \subseteq payments
        /\ WholeOn(LeftOver, S) /\ \A x \in S : LeftOver[x] \in Nat
    BY LeftOverIsWhole DEF MoneyInv
  <2>2. plans[j].credit = SumFunctionOnSet(LeftOver, S) /\ PaymentsOn(j)' = S
    BY <1>1 DEF CreditInv, CreditHeld, PaymentsOn
  <2>3. j = i <=> p \in S
    BY DEF PaymentsOn, i
  <2> HIDE DEF S
  <2>4. WholeOn(LeftOver', S)
    BY <1>2, <1>7, <1>8, <2>1 DEF WholeOn
  <2>5. CASE j # i
    <3>1. \A x \in S : LeftOver'[x] = LeftOver[x]
      BY <1>7, <2>1, <2>3, <2>5
    <3>2. SumFunctionOnSet(LeftOver, S) = SumFunctionOnSet(LeftOver', S)
      BY <2>1, <3>1, SumAgrees
    <3> QED
      BY <1>5, <2>2, <2>5, <3>2
  <2>6. CASE j = i
    <3> DEFINE before == SumFunctionOnSet(LeftOver, S)
               rest   == SumFunctionOnSet(LeftOver, S \ {p})
    <3>1. p \in S /\ S \ {p} \in SUBSET S
      BY <2>3, <2>6
    <3>2. SumFunctionOnSet(LeftOver', S) = before + LeftOver'[p] - LeftOver[p]
      <4>1. \A x \in S \ {p} : LeftOver'[x] = LeftOver[x]
        BY <1>7, <2>1
      <4> QED
        BY <2>1, <2>4, <3>1, <4>1, SumChanged
    <3>3. before = LeftOver[p] + rest
      BY <2>1, <3>1, SumWithout
    <3>4. rest \in Nat
      BY <2>1, <3>1, SumOfPart
    <3> HIDE DEF before, rest
    <3>5. before \in Nat /\ before - out >= 0 /\ before - out = before + LeftOver'[p] - LeftOver[p]
      BY <1>2, <1>7, <1>8, <3>3, <3>4
    <3>6. left = before - out
      BY <1>8, <2>2, <2>6, <3>5 DEF left, before, Greater
    <3> QED
      BY <1>5, <2>2, <2>6, <3>2, <3>5, <3>6
  <2> QED
    BY <2>5, <2>6
<1>10. CreditHeld'
  BY <1>9 DEF CreditHeld
<1>11. ReferencesApart'
  BY <1>1 DEF CreditInv, ReferencesApart
<1> QED
  BY <1>5, <1>6, <1>10, <1>11

LEMMA ClosingKeepsCredit ==
  ASSUME CreditInv, CloseInvoice \/ SweepPlans PROVE CreditsStay
<1>1. UNCHANGED <<payments, refunds>>
  BY DEF CloseInvoice, SweepPlans
<1>2. /\ plans' = [i \in Invoice |-> plans'[i]]
      /\ \A i \in Invoice : \/ plans'[i] = plans[i]
                           \/ \E status : plans'[i] = [plans[i] EXCEPT !.status = status]
  <2>1. CASE CloseInvoice
    <3>1. PICK i : plans' = [plans EXCEPT ![i].status = "cancelled"]
      BY <2>1 DEF CloseInvoice
    <3>2. plans' = [j \in Invoice |-> IF j = i THEN [plans[j] EXCEPT !.status = "cancelled"] ELSE plans[j]]
      BY <3>1 DEF CreditInv, PlansTyped
    <3> QED
      BY <3>2
  <2>2. CASE SweepPlans
    <3>1. PICK q : plans' = [i \in Invoice |->
            IF i \in q.touched THEN [plans[i] EXCEPT !.status = PlanStatusFor(schedules[i])] ELSE plans[i]]
      BY <2>2 DEF SweepPlans
    <3> QED
      BY <3>1
  <2> QED
    BY <2>1, <2>2
<1>3. ASSUME NEW i \in Invoice
      PROVE  /\ plans'[i] = [status |-> plans'[i].status, credit |-> plans'[i].credit]
             /\ plans'[i].credit = plans[i].credit
  <2> DEFINE old == plans[i]
  <2>1. old = [status |-> old.status, credit |-> old.credit]
    BY DEF CreditInv, PlansTyped
  <2>2. plans'[i] = old \/ \E status : plans'[i] = [old EXCEPT !.status = status]
    BY <1>2
  <2> HIDE DEF old
  <2>3. ASSUME NEW status PROVE [old EXCEPT !.status = status] = [status |-> status, credit |-> old.credit]
    BY <2>1
  <2> QED
    BY <2>1, <2>2, <2>3 DEF old
<1> QED
  BY <1>1, <1>2, <1>3 DEF CreditsStay, PlansTyped

LEMMA CreditStep == ASSUME Serial PROVE MoneyInv /\ CreditInv /\ [Next]_vars => CreditInv'
<1> SUFFICES ASSUME MoneyInv, CreditInv, [Next]_vars PROVE CreditInv'
  OBVIOUS
<1> DEFINE Good == /\ PlansTyped /\ ReferencesApart /\ CreditHeld
                   /\ refunds = [ref \in References |-> refunds[ref]]
           Quiet == SweepsTyped /\ OneRequest /\ \A q \in inFlight : RefundAsRead(q)
<1>1. ASSUME NEW q, Served(q) PROVE Quiet'
  <2>1. inFlight' = {}
    BY <1>1, NothingElse DEF CreditInv
  <2> QED
    BY <2>1, FS_EmptySet DEF SweepsTyped, OneRequest
<1>2. ASSUME UNCHANGED <<payments, refunds, plans>> PROVE Good'
  <2>1. CreditsStay
    BY <1>2 DEF CreditsStay, CreditInv, PlansTyped
  <2> QED
    BY <2>1, CreditStays
<1>3. CASE Reads
  <2>1. PICK q : Admit(q) /\ Asks(q)
    BY <1>3, ReadsAdmit
  <2>2. inFlight' = {q} /\ UNCHANGED <<payments, refunds, plans>>
    <3>1. inFlight = {}
      BY <2>1, RoomForOne DEF Admit, CreditInv, OneRequest
    <3> QED
      BY <2>1, <3>1 DEF Admit, money
  <2>3. RefundAsRead(q)
    BY <2>1 DEF Asks, RefundAsRead
  <2>4. q.op = "sweep" =>
          q = [op |-> "sweep", day |-> q.day, rows |-> q.rows, touched |-> q.touched]
    BY <2>1 DEF Asks
  <2>5. Quiet'
    BY <2>2, <2>3, <2>4, FS_Singleton DEF SweepsTyped, OneRequest, RefundAsRead
  <2> QED
    BY <1>2, <2>2, <2>5 DEF CreditInv
<1>4. CASE Verify \/ PayInvoice \/ MarkInvoicePaid
  <2>1. \E q : Served(q)
    BY <1>4 DEF Verify, PayInvoice, MarkInvoicePaid
  <2>2. PICK i \in Invoice, amount \in Nat, ref \in References : ApplyApprovedPayment(i, amount, ref)
    BY <1>4, PaymentNames DEF MoneyInv
  <2>3. Good'
    BY <2>2, PaymentCredits
  <2> QED
    BY <1>1, <2>1, <2>3 DEF CreditInv
<1>5. CASE DecideRefund
  <2>1. \E q : Served(q)
    BY <1>5 DEF DecideRefund
  <2>2. Good'
    BY <1>5, RefundCredits
  <2> QED
    BY <1>1, <2>1, <2>2 DEF CreditInv
<1>6. CASE CloseInvoice \/ SweepPlans
  <2>1. \E q : Served(q)
    BY <1>6 DEF CloseInvoice, SweepPlans
  <2>2. Good'
    BY <1>6, ClosingKeepsCredit, CreditStays
  <2> QED
    BY <1>1, <2>1, <2>2 DEF CreditInv
<1>7. CASE Submit \/ Refuse \/ Resubmit \/ EndsWithoutEffect
  <2>1. (\E q : Served(q)) /\ UNCHANGED <<payments, refunds, plans>>
    BY <1>7 DEF Submit, Refuse, Resubmit, EndsWithoutEffect, money
  <2> QED
    BY <1>1, <1>2, <2>1 DEF CreditInv
<1>8. CASE GrantDiscount \/ WaiveFee \/ ChangeHoldPolicy \/ NextDay \/ UNCHANGED vars
  <2>1. UNCHANGED <<payments, refunds, plans, inFlight>>
    BY <1>8 DEF GrantDiscount, WaiveFee, ChangeHoldPolicy, NextDay, vars, money
  <2>2. Quiet'
    BY <2>1 DEF CreditInv, SweepsTyped, OneRequest, RefundAsRead
  <2> QED
    BY <1>2, <2>1, <2>2 DEF CreditInv
<1>9. CASE SweepRow
  <2>1. PICK q, left :
          /\ q \in inFlight
          /\ left.op = "sweep"
          /\ inFlight' = (inFlight \ {q}) \union {left}
          /\ left = [op |-> "sweep", day |-> left.day, rows |-> left.rows, touched |-> left.touched]
    BY <1>9, SweepGoesOn DEF MoneyInv
  <2>2. inFlight' = {left}
    BY <2>1 DEF CreditInv, OneRequest
  <2>3. Quiet'
    BY <2>1, <2>2, FS_Singleton DEF SweepsTyped, OneRequest, RefundAsRead
  <2>4. UNCHANGED <<payments, refunds, plans>>
    BY <1>9 DEF SweepRow
  <2> QED
    BY <1>2, <2>3, <2>4 DEF CreditInv
<1> QED
  BY <1>3, <1>4, <1>5, <1>6, <1>7, <1>8, <1>9 DEF Next, Reads

(* A plan's credit balance is what its payments left over less what was    *)
(* refunded, for any payments and refunds one request at a time.           *)
THEOREM CreditIsHeld == ASSUME Serial PROVE Spec => []CreditHeld
<1>1. MoneyInv /\ CreditInv /\ [Next]_vars => CreditInv'
  BY CreditStep
<1>2. CreditInv => CreditHeld
  BY DEF CreditInv
<1> QED
  BY <1>1, <1>2, CreditInit, MoneyInit, MoneyStep, PTL DEF Spec

-----------------------------------------------------------------------------
(* A schedule has its fields, whatever their values.                       *)
IsSchedule(s) ==
  /\ s = [x \in DOMAIN s |-> s[x]]
  /\ {"outstanding", "discount", "fee", "periods", "timing", "settlement"} \subseteq DOMAIN s

SettledWhole(s) == s.settlement = "paid" => s.outstanding = 0

SchedulesTyped ==
  /\ schedules = [i \in Invoice |-> schedules[i]]
  /\ \A i \in Invoice :
       /\ schedules[i] = [k \in DOMAIN schedules[i] |-> schedules[i][k]]
       /\ \A k \in DOMAIN schedules[i] : IsSchedule(schedules[i][k])

SettledInv == SchedulesTyped /\ PaidIsSettled

(* What writing its fields one after the other leaves of a schedule.       *)
LEMMA FieldsWritten ==
  ASSUME NEW s, IsSchedule(s), NEW x
  PROVE  /\ LET t == [s EXCEPT !.outstanding = x]
            IN  IsSchedule(t) /\ t.outstanding = x /\ t.settlement = s.settlement
         /\ LET t == [s EXCEPT !.settlement = x]
            IN  IsSchedule(t) /\ t.outstanding = s.outstanding /\ t.settlement = x
BY DEF IsSchedule

LEMMA OthersWritten ==
  ASSUME NEW s, IsSchedule(s), NEW x
  PROVE  /\ LET t == [s EXCEPT !.fee = x]
            IN  IsSchedule(t) /\ t.outstanding = s.outstanding /\ t.settlement = s.settlement
         /\ LET t == [s EXCEPT !.discount = x]
            IN  IsSchedule(t) /\ t.outstanding = s.outstanding /\ t.settlement = s.settlement
         /\ LET t == [s EXCEPT !.timing = x]
            IN  IsSchedule(t) /\ t.outstanding = s.outstanding /\ t.settlement = s.settlement
         /\ LET t == [s EXCEPT !.periods = x]
            IN  IsSchedule(t) /\ t.outstanding = s.outstanding /\ t.settlement = s.settlement
BY DEF IsSchedule

LEMMA SettlementWritten ==
  ASSUME NEW s, IsSchedule(s), NEW x, NEW t, t = [s EXCEPT !.settlement = x]
  PROVE  IsSchedule(t) /\ t.outstanding = s.outstanding /\ t.settlement = x
BY DEF IsSchedule

(* A line settles a schedule only by clearing its principal.               *)
LEMMA AfterLineSettles ==
  ASSUME NEW s, IsSchedule(s), SettledWhole(s), NEW line
  PROVE  IsSchedule(AfterLine(s, line)) /\ SettledWhole(AfterLine(s, line))
<1> DEFINE fee    == s.fee - line.fee
           left   == PrincipalDue(s) - line.principal
           owed   == IF left = 0 THEN 0 ELSE left + s.discount
           status == IF fee = 0 /\ left = 0 THEN "paid" ELSE "partially_paid"
           t1     == [s EXCEPT !.fee = fee]
           t2     == [t1 EXCEPT !.outstanding = owed]
           t3     == [t2 EXCEPT !.settlement = status]
<1>1. AfterLine(s, line) = IF line.fee = 0 /\ line.principal = 0 THEN s ELSE t3
  BY DEF AfterLine
<1>2. status = "paid" => owed = 0
  OBVIOUS
<1> HIDE DEF fee, left, owed, status
<1>3. IsSchedule(t1)
  BY OthersWritten
<1> HIDE DEF t1
<1>4. IsSchedule(t2) /\ t2.outstanding = owed
  BY <1>3, FieldsWritten
<1> HIDE DEF t2
<1>5. IsSchedule(t3) /\ t3.outstanding = owed /\ t3.settlement = status
  BY <1>4, FieldsWritten
<1> HIDE DEF t3
<1> QED
  BY <1>1, <1>2, <1>5 DEF SettledWhole

(* A sweep moves no principal and settles nothing.                         *)
LEMMA EvaluatedStays ==
  ASSUME NEW s, IsSchedule(s), NEW due, NEW day
  PROVE  LET t == Evaluated(s, due, day)
         IN  IsSchedule(t) /\ t.outstanding = s.outstanding /\ t.settlement = s.settlement
<1> DEFINE fresh   == Greater(PeriodsDue(due, day) - s.periods, 0)
           timing  == TimingFor(due, day)
           periods == s.periods + fresh
           fee     == s.fee + fresh * DefaultFee
           t1      == [s EXCEPT !.timing = timing]
           t2      == [t1 EXCEPT !.periods = periods]
           t3      == [t2 EXCEPT !.fee = fee]
<1>1. Evaluated(s, due, day) = t3
  BY DEF Evaluated
<1> HIDE DEF fresh, timing, periods, fee
<1>2. IsSchedule(t1) /\ t1.outstanding = s.outstanding /\ t1.settlement = s.settlement
  BY OthersWritten
<1> HIDE DEF t1
<1>3. IsSchedule(t2) /\ t2.outstanding = s.outstanding /\ t2.settlement = s.settlement
  BY <1>2, OthersWritten
<1> HIDE DEF t2
<1>4. IsSchedule(t3) /\ t3.outstanding = s.outstanding /\ t3.settlement = s.settlement
  BY <1>3, OthersWritten
<1> HIDE DEF t3
<1> QED
  BY <1>1, <1>4

(* One schedule changes: it stays settled if it was, and is settled only   *)
(* with nothing outstanding.                                               *)
LEMMA OneChanges ==
  ASSUME SettledInv, NEW i, NEW k, NEW s,
         schedules' = [schedules EXCEPT ![i][k] = s],
         UNCHANGED invoices,
         i \in Invoice /\ k \in DOMAIN schedules[i] =>
           /\ IsSchedule(s)
           /\ SettledWhole(s)
           /\ schedules[i][k].settlement = "paid" => s.settlement = "paid"
  PROVE  SettledInv'
<1>1. schedules = [j \in Invoice |-> schedules[j]]
  BY DEF SettledInv, SchedulesTyped
<1>2. schedules' = [j \in Invoice |-> schedules'[j]]
  BY <1>1
<1>3. ASSUME NEW j \in Invoice
      PROVE  /\ DOMAIN schedules'[j] = DOMAIN schedules[j]
             /\ schedules'[j] = [n \in DOMAIN schedules[j] |-> schedules'[j][n]]
             /\ \A n \in DOMAIN schedules[j] :
                  schedules'[j][n] = IF j = i /\ n = k THEN s ELSE schedules[j][n]
  <2>1. schedules[j] = [n \in DOMAIN schedules[j] |-> schedules[j][n]]
    BY DEF SettledInv, SchedulesTyped
  <2>2. CASE j = i
    <3>1. schedules'[j] = [schedules[j] EXCEPT ![k] = s]
      BY <1>1, <2>2
    <3> QED
      BY <2>1, <2>2, <3>1
  <2>3. CASE j # i
    <3>1. schedules'[j] = schedules[j]
      BY <1>1, <2>3
    <3> QED
      BY <2>1, <2>3, <3>1
  <2> QED
    BY <2>2, <2>3
<1>4. ASSUME NEW j \in Invoice, NEW n \in DOMAIN schedules[j]
      PROVE  /\ IsSchedule(schedules'[j][n])
             /\ SettledWhole(schedules'[j][n])
             /\ schedules[j][n].settlement = "paid" => schedules'[j][n].settlement = "paid"
  <2>1. IsSchedule(schedules[j][n]) /\ SettledWhole(schedules[j][n])
    BY DEF SettledInv, SchedulesTyped, PaidIsSettled, SettledWhole
  <2>2. CASE j = i /\ n = k
    BY <1>3, <2>2
  <2>3. CASE ~(j = i /\ n = k)
    <3>1. schedules'[j][n] = schedules[j][n]
      BY <1>3, <2>3
    <3> QED
      BY <2>1, <3>1
  <2> QED
    BY <2>2, <2>3
<1>5. SchedulesTyped'
  BY <1>2, <1>3, <1>4 DEF SchedulesTyped
<1>6. PaidIsSettled'
  BY <1>3, <1>4 DEF SettledInv, PaidIsSettled, AllPaid, SettledWhole
<1> QED
  BY <1>5, <1>6 DEF SettledInv

(* The invoices change and the schedules do not: none becomes paid.        *)
LEMMA NoneIsPaid ==
  ASSUME SettledInv, UNCHANGED schedules,
         \A i \in Invoice : invoices'[i] = "paid" => invoices[i] = "paid"
  PROVE  SettledInv'
BY DEF SettledInv, SchedulesTyped, PaidIsSettled

LEMMA PaymentSettles ==
  ASSUME SecuredInv, SettledInv, NEW i, NEW amount, NEW ref, SettleInvoice(i, amount, ref)
  PROVE  SettledInv'
<1> DEFINE after  == Allocated(amount, schedules[i])
           status == InvoiceStatusFor(after)
<1>1. /\ invoices' = [invoices EXCEPT ![i] = status]
      /\ schedules' = [schedules EXCEPT ![i] = after]
  BY DEF SettleInvoice
<1>2. status = "paid" => AllPaid(after)
  BY DEF InvoiceStatusFor
<1>3. after = [k \in DOMAIN after |-> after[k]]
  BY DEF Allocated
<1>4. ASSUME i \in Invoice, NEW k \in DOMAIN after
      PROVE  IsSchedule(after[k]) /\ SettledWhole(after[k])
  <2>1. k \in DOMAIN schedules[i] /\ IsSchedule(schedules[i][k]) /\ SettledWhole(schedules[i][k])
    BY <1>4 DEF Allocated, SettledInv, SchedulesTyped, PaidIsSettled, SettledWhole
  <2>2. after[k] = AfterLine(schedules[i][k], LineOf(amount, schedules[i], k))
    BY <2>1 DEF Allocated
  <2> QED
    BY <2>1, <2>2, AfterLineSettles
<1> HIDE DEF after, status
<1>5. /\ schedules' = [j \in Invoice |-> IF j = i THEN after ELSE schedules[j]]
      /\ invoices' = [j \in Invoice |-> IF j = i THEN status ELSE invoices[j]]
  BY <1>1 DEF SettledInv, SchedulesTyped, SecuredInv, StatusesTyped
<1> QED
  BY <1>2, <1>3, <1>4, <1>5 DEF SettledInv, SchedulesTyped, PaidIsSettled, SettledWhole

LEMMA DiscountStays == ASSUME SettledInv, GrantDiscount PROVE SettledInv'
<1>1. PICK i, wanted :
        /\ i \in Invoice
        /\ schedules' = [schedules EXCEPT ![i] = SpreadDiscount(wanted, schedules[i])]
        /\ UNCHANGED invoices
  BY DEF GrantDiscount
<1> DEFINE after == SpreadDiscount(wanted, schedules[i])
<1>2. /\ after = [k \in DOMAIN schedules[i] |-> after[k]]
      /\ \A k \in DOMAIN schedules[i] : \E share : after[k] = [schedules[i][k] EXCEPT !.discount = share]
  BY DEF SpreadDiscount
<1>3. schedules' = [schedules EXCEPT ![i] = after]
  BY <1>1
<1> HIDE DEF after
<1>4. ASSUME NEW k \in DOMAIN schedules[i]
      PROVE  /\ IsSchedule(after[k])
             /\ after[k].outstanding = schedules[i][k].outstanding
             /\ after[k].settlement = schedules[i][k].settlement
  <2>1. IsSchedule(schedules[i][k])
    BY <1>1 DEF SettledInv, SchedulesTyped
  <2>2. PICK share : after[k] = [schedules[i][k] EXCEPT !.discount = share]
    BY <1>2
  <2> DEFINE s == schedules[i][k]
             t == [s EXCEPT !.discount = share]
  <2>3. IsSchedule(s)
    BY <2>1
  <2> HIDE DEF s
  <2>4. IsSchedule(t) /\ t.outstanding = s.outstanding /\ t.settlement = s.settlement
    BY <2>3, OthersWritten
  <2> QED
    BY <2>2, <2>4 DEF s
<1>5. schedules' = [j \in Invoice |-> IF j = i THEN after ELSE schedules[j]]
  BY <1>3 DEF SettledInv, SchedulesTyped
<1> QED
  BY <1>1, <1>2, <1>4, <1>5 DEF SettledInv, SchedulesTyped, PaidIsSettled, AllPaid

LEMMA WaiverStays == ASSUME SettledInv, WaiveFee PROVE SettledInv'
<1>1. PICK i, k :
        /\ i \in Invoice
        /\ k \in DOMAIN schedules[i]
        /\ schedules' = [schedules EXCEPT ![i][k] =
             [schedules[i][k] EXCEPT
                !.fee = 0,
                !.settlement = IF schedules[i][k].outstanding = 0 THEN "paid"
                               ELSE IF schedules[i][k].outstanding < Principal[i][k]
                                    THEN "partially_paid" ELSE schedules[i][k].settlement]]
        /\ UNCHANGED invoices
  BY DEF WaiveFee
<1> DEFINE s      == schedules[i][k]
           status == IF s.outstanding = 0 THEN "paid"
                     ELSE IF s.outstanding < Principal[i][k] THEN "partially_paid" ELSE s.settlement
           t1     == [s EXCEPT !.fee = 0]
           t2     == [t1 EXCEPT !.settlement = status]
<1>2. schedules' = [schedules EXCEPT ![i][k] = t2] /\ UNCHANGED invoices
  BY <1>1
<1>3. IsSchedule(s) /\ SettledWhole(s)
  BY <1>1 DEF SettledInv, SchedulesTyped, PaidIsSettled, SettledWhole
<1>4. (status = "paid" => s.outstanding = 0) /\ (s.settlement = "paid" => status = "paid")
  BY <1>3 DEF SettledWhole
<1> HIDE DEF status, s
<1>5. IsSchedule(t1) /\ t1.outstanding = s.outstanding
  BY <1>3, OthersWritten
<1> HIDE DEF t1
<1>6. IsSchedule(t2) /\ t2.outstanding = s.outstanding /\ t2.settlement = status
  <2>1. t2 = [t1 EXCEPT !.settlement = status]
    OBVIOUS
  <2> HIDE DEF t2
  <2>2. IsSchedule(t2) /\ t2.outstanding = t1.outstanding /\ t2.settlement = status
    BY ONLY <1>5, <2>1, SettlementWritten
  <2> QED
    BY <1>5, <2>2
<1> HIDE DEF t2
<1> QED
  BY <1>2, <1>4, <1>6, OneChanges DEF SettledWhole, s

LEMMA SettledInit == Init => SettledInv
<1> SUFFICES ASSUME Init PROVE SettledInv
  OBVIOUS
<1>1. \A p : IsSchedule(NewSchedule(p)) /\ NewSchedule(p).settlement = "unpaid"
  BY DEF IsSchedule, NewSchedule
<1>2. schedules = [i \in Invoice |-> [k \in DOMAIN Principal[i] |-> NewSchedule(Principal[i][k])]]
  BY DEF Init
<1>3. \A i \in Invoice : invoices[i] = "sent"
  BY DEF Init
<1> QED
  BY <1>1, <1>2, <1>3 DEF SettledInv, SchedulesTyped, PaidIsSettled

LEMMA SettledStep == SecuredInv /\ SettledInv /\ [Next]_vars => SettledInv'
<1> SUFFICES ASSUME SecuredInv, SettledInv, [Next]_vars PROVE SettledInv'
  OBVIOUS
<1>1. CASE Submit \/ Refuse \/ Resubmit \/ CloseInvoice
  <2>1. UNCHANGED schedules
    BY <1>1 DEF Submit, Refuse, Resubmit, CloseInvoice
  <2>2. ASSUME NEW i \in Invoice, invoices'[i] = "paid" PROVE invoices[i] = "paid"
    <3>1. CASE Submit
      BY <2>2, <3>1 DEF Submit, SecuredInv, StatusesTyped
    <3>2. CASE Refuse
      BY <2>2, <3>2 DEF Refuse, Released, SecuredInv, StatusesTyped
    <3>3. CASE Resubmit
      BY <2>2, <3>3 DEF Resubmit, SecuredInv, StatusesTyped
    <3>4. CASE CloseInvoice
      <4>1. PICK q \in inFlight : q.op = "close" /\ invoices' = [invoices EXCEPT ![q.invoice] = q.as]
        BY <3>4 DEF CloseInvoice
      <4>2. q.as \in Closed
        BY <4>1 DEF SecuredInv, ClosesAs
      <4> QED
        BY <2>2, <4>1, <4>2 DEF SecuredInv, StatusesTyped, Closed
    <3> QED
      BY <1>1, <3>1, <3>2, <3>3, <3>4
  <2> QED
    BY <2>1, <2>2, NoneIsPaid
<1>2. CASE Verify \/ PayInvoice \/ MarkInvoicePaid
  <2>1. PICK i, amount, ref : ApplyApprovedPayment(i, amount, ref)
    BY <1>2 DEF Verify, PayInvoice, MarkInvoicePaid
  <2> QED
    BY <2>1, PaymentSettles DEF ApplyApprovedPayment
<1>3. CASE SweepRow
  <2>1. PICK row, due, day :
          /\ schedules' = [schedules EXCEPT ![row[1]][row[2]] =
               Evaluated(schedules[row[1]][row[2]], due, day)]
          /\ UNCHANGED invoices
    BY <1>3 DEF SweepRow
  <2> DEFINE i == row[1]
             k == row[2]
             t == Evaluated(schedules[i][k], due, day)
  <2>2. i \in Invoice /\ k \in DOMAIN schedules[i] =>
          /\ IsSchedule(t)
          /\ t.outstanding = schedules[i][k].outstanding
          /\ t.settlement = schedules[i][k].settlement
    BY EvaluatedStays DEF SettledInv, SchedulesTyped
  <2>3. schedules' = [schedules EXCEPT ![i][k] = t] /\ UNCHANGED invoices
    BY <2>1
  <2> HIDE DEF t, i, k
  <2> QED
    BY <2>2, <2>3, OneChanges DEF SettledInv, PaidIsSettled, SettledWhole
<1>4. CASE Reads \/ DecideRefund \/ ChangeHoldPolicy \/ SweepPlans \/ NextDay \/ EndsWithoutEffect
           \/ UNCHANGED vars
  <2>1. UNCHANGED <<invoices, schedules>>
    <3>1. CASE Reads
      BY <3>1, ReadsAdmit DEF Admit, money
    <3> QED
      BY <1>4, <3>1 DEF DecideRefund, ChangeHoldPolicy, SweepPlans, NextDay, EndsWithoutEffect, vars, money
  <2> QED
    BY <2>1, NoneIsPaid
<1> QED
  BY <1>1, <1>2, <1>3, <1>4, DiscountStays, WaiverStays DEF Next, Reads

(* A settled schedule owes no principal and a paid invoice has no other,   *)
(* however payments, corrections, discounts, waivers, sweeps and           *)
(* cancellations overlap.                                                  *)
THEOREM PaidStaysSettled == Spec => []PaidIsSettled
<1>1. SettledInv => PaidIsSettled
  BY DEF SettledInv
<1> QED
  BY <1>1, SecuredInit, SecuredStep, SettledInit, SettledStep, PTL DEF Spec

-----------------------------------------------------------------------------
(* Settled schedules owe no fee: a sweep in flight has only rows it may    *)
(* still charge.                                                           *)
NoFeesLeft == \A i \in Invoice : \A k \in DOMAIN Principal[i] : OwesNoFee(schedules[i][k])

ChargesTheUnpaid(q) ==
  q.op = "sweep" => \A row \in q.rows : schedules[row[1]][row[2]].settlement # "paid"

FeelessInv ==
  /\ OneRequest
  /\ NoFeesLeft
  /\ \A q \in inFlight : ChargesTheUnpaid(q)

LEMMA FeelessInit == Init => FeelessInv
<1> SUFFICES ASSUME Init PROVE FeelessInv
  OBVIOUS
<1>1. schedules = [i \in Invoice |-> [k \in DOMAIN Principal[i] |-> NewSchedule(Principal[i][k])]]
      /\ inFlight = {}
  BY DEF Init
<1>2. \A p : NewSchedule(p).settlement = "unpaid"
  BY DEF NewSchedule
<1> QED
  BY <1>1, <1>2, FS_EmptySet DEF FeelessInv, OneRequest, NoFeesLeft, OwesNoFee

(* A payment settles a schedule only when its fee is covered too.          *)
LEMMA PaymentLeavesNoFee ==
  ASSUME SchedulesSound, NoFeesLeft, NEW i \in Invoice, NEW amount \in Nat, NEW ref,
         ApplyApprovedPayment(i, amount, ref)
  PROVE  NoFeesLeft'
<1> DEFINE plan  == schedules[i]
           after == Allocated(amount, plan)
<1>1. /\ IsQueue(plan) /\ DOMAIN plan = DOMAIN Principal[i]
      /\ \A k \in DOMAIN plan : Sound(plan[k])
  BY PlanIsAQueue
<1>2. schedules' = [schedules EXCEPT ![i] = after]
  BY DEF ApplyApprovedPayment, SettleInvoice
<1>3. ASSUME NEW k \in DOMAIN plan PROVE OwesNoFee(after[k])
  <2> DEFINE line == LineOf(amount, plan, k)
  <2>1. after[k] = AfterLine(plan[k], line)
    BY DEF Allocated
  <2>2. OwesNoFee(plan[k])
    BY <1>1 DEF NoFeesLeft
  <2> HIDE DEF plan, after
  <2>3. /\ line.fee \in Nat /\ line.principal \in Nat
        /\ line.fee <= plan[k].fee /\ line.principal <= PrincipalDue(plan[k])
    BY <1>1, LineFigures
  <2> HIDE DEF line
  <2> QED
    BY <1>1, <2>1, <2>2, <2>3, AfterLineSound
<1> HIDE DEF after
<1>4. schedules'[i] = after /\ \A j \in Invoice \ {i} : schedules'[j] = schedules[j]
  BY <1>2 DEF SchedulesSound
<1> QED
  BY <1>1, <1>3, <1>4 DEF NoFeesLeft

LEMMA DiscountLeavesNoFee ==
  ASSUME SchedulesSound, NoFeesLeft, GrantDiscount PROVE NoFeesLeft'
<1>1. PICK i \in Invoice, wanted \in Nat :
        schedules' = [schedules EXCEPT ![i] = SpreadDiscount(wanted, schedules[i])]
  BY AmountsArePositive DEF GrantDiscount
<1> DEFINE n     == Len(Principal[i])
           plan  == schedules[i]
           after == SpreadDiscount(wanted, plan)
<1>2. n \in Nat /\ DOMAIN Principal[i] = 1..n
  BY PrincipalIsASequence
<1>3. SoundPlan(plan, n)
  BY <1>2 DEF SchedulesSound, SoundPlan
<1>4. schedules' = [schedules EXCEPT ![i] = after]
  BY <1>1
<1>5. \A k \in DOMAIN Principal[i] : OwesNoFee(plan[k])
  BY DEF NoFeesLeft
<1> HIDE DEF n, plan
<1>6. \A k \in 1..n : after[k].fee = plan[k].fee /\ after[k].settlement = plan[k].settlement
  BY <1>2, <1>3, SpreadSound
<1> HIDE DEF after
<1>7. \A k \in DOMAIN Principal[i] : OwesNoFee(after[k])
  BY <1>2, <1>5, <1>6 DEF OwesNoFee
<1>8. schedules'[i] = after /\ \A j \in Invoice \ {i} : schedules'[j] = schedules[j]
  BY <1>4 DEF SchedulesSound
<1> QED
  BY <1>7, <1>8 DEF NoFeesLeft

LEMMA WaiverLeavesNoFee ==
  ASSUME SchedulesSound, NoFeesLeft, WaiveFee PROVE NoFeesLeft'
<1>1. PICK i, k :
        /\ i \in Invoice /\ k \in DOMAIN schedules[i]
        /\ schedules' = [schedules EXCEPT ![i][k] =
             [schedules[i][k] EXCEPT
                !.fee = 0,
                !.settlement = IF schedules[i][k].outstanding = 0 THEN "paid"
                               ELSE IF schedules[i][k].outstanding < Principal[i][k]
                                    THEN "partially_paid" ELSE schedules[i][k].settlement]]
  BY DEF WaiveFee
<1> DEFINE s      == schedules[i][k]
           status == IF s.outstanding = 0 THEN "paid"
                     ELSE IF s.outstanding < Principal[i][k] THEN "partially_paid" ELSE s.settlement
           t      == [s EXCEPT !.fee = 0, !.settlement = status]
<1>2. k \in DOMAIN Principal[i] /\ Sound(s)
  <2>1. DOMAIN schedules[i] = DOMAIN Principal[i]
    BY <1>1, PlanIsAQueue
  <2> QED
    BY <1>1, <2>1 DEF SchedulesSound
<1>3. status \in Settlement
  BY <1>2 DEF Sound, Schedule, Settlement
<1>4. Writes(i, k, t) /\ IsRow(i, k)
  BY <1>1, <1>2 DEF Writes, IsRow
<1> HIDE DEF s, status
<1>5. Sound(t) /\ t.fee = 0
  BY <1>2, <1>3, WaivedSound
<1> HIDE DEF t
<1>6. OnlyRow(i, k, t)
  BY <1>4, <1>5, RowWritten
<1> QED
  BY <1>5, <1>6 DEF NoFeesLeft, OwesNoFee, OnlyRow

(* A sweep charges what it found unpaid and settles nothing.               *)
LEMMA SweepLeavesNoFee ==
  ASSUME MoneyInv, FeelessInv, SweepRow PROVE FeelessInv'
<1>1. PICK q, left, row :
        /\ q \in inFlight
        /\ q.op = "sweep" /\ NamesWhatIs(q) /\ row \in q.rows
        /\ inFlight' = (inFlight \ {q}) \union {left}
        /\ left.rows \subseteq q.rows
        /\ schedules' = [schedules EXCEPT ![row[1]][row[2]] =
             Evaluated(schedules[row[1]][row[2]], DueDay[row[1]][row[2]], q.day)]
  BY SweepGoesOn DEF MoneyInv
<1> DEFINE i == row[1]
           k == row[2]
           t == Evaluated(schedules[i][k], DueDay[i][k], q.day)
<1>2. i \in Invoice /\ k \in DOMAIN Principal[i] /\ q.day \in Int
  BY <1>1 DEF NamesWhatIs
<1>3. SchedulesSound /\ Sound(schedules[i][k]) /\ DueDay[i][k] \in Int
  BY <1>2, PrincipalIsASequence DEF MoneyInv, SchedulesSound
<1>4. Writes(i, k, t) /\ IsRow(i, k)
  BY <1>1, <1>2 DEF Writes, IsRow
<1>5. schedules[i][k].settlement # "paid"
  BY <1>1 DEF FeelessInv, ChargesTheUnpaid
<1> HIDE DEF i, k
<1>6. Sound(t) /\ t.settlement = schedules[i][k].settlement
  BY <1>2, <1>3, EvaluatedSound
<1> HIDE DEF t
<1>7. OnlyRow(i, k, t)
  BY <1>3, <1>4, <1>6, RowWritten
<1>8. NoFeesLeft'
  BY <1>5, <1>6, <1>7 DEF FeelessInv, NoFeesLeft, OwesNoFee, OnlyRow
<1>9. inFlight' = {left}
  BY <1>1 DEF FeelessInv, OneRequest
<1>10. ChargesTheUnpaid(left)'
  <2>1. ASSUME NEW other \in left.rows
        PROVE  schedules'[other[1]][other[2]].settlement # "paid"
    <3>1. other[1] \in Invoice /\ other[2] \in DOMAIN Principal[other[1]]
      BY <1>1, <2>1 DEF NamesWhatIs
    <3>2. schedules[other[1]][other[2]].settlement # "paid"
      BY <1>1, <2>1 DEF FeelessInv, ChargesTheUnpaid
    <3> QED
      BY <1>5, <1>6, <1>7, <3>1, <3>2 DEF OnlyRow
  <2> QED
    BY <2>1 DEF ChargesTheUnpaid
<1> QED
  BY <1>8, <1>9, <1>10, FS_Singleton DEF FeelessInv, OneRequest

LEMMA FeelessStep == ASSUME Serial PROVE MoneyInv /\ FeelessInv /\ [Next]_vars => FeelessInv'
<1> SUFFICES ASSUME MoneyInv, FeelessInv, [Next]_vars PROVE FeelessInv'
  OBVIOUS
<1>0. SchedulesSound /\ NoFeesLeft
  BY DEF MoneyInv, FeelessInv
<1>1. ASSUME NEW q, Served(q), NoFeesLeft' PROVE FeelessInv'
  <2>1. inFlight' = {}
    BY <1>1, NothingElse DEF FeelessInv
  <2> QED
    BY <1>1, <2>1, FS_EmptySet DEF FeelessInv, OneRequest
<1>2. ASSUME UNCHANGED schedules PROVE NoFeesLeft'
  BY <1>2 DEF FeelessInv, NoFeesLeft
<1>3. ASSUME HasRoom, UNCHANGED inFlight, NoFeesLeft' PROVE FeelessInv'
  <2>1. inFlight' = {}
    BY <1>3, RoomForOne DEF FeelessInv, OneRequest
  <2> QED
    BY <1>3, <2>1, FS_EmptySet DEF FeelessInv, OneRequest
<1>4. CASE Reads
  <2>1. PICK q : Admit(q) /\ Asks(q)
    BY <1>4, ReadsAdmit
  <2>2. inFlight' = {q} /\ UNCHANGED schedules
    <3>1. inFlight = {}
      BY <2>1, RoomForOne DEF Admit, FeelessInv, OneRequest
    <3> QED
      BY <2>1, <3>1 DEF Admit, money
  <2>3. ChargesTheUnpaid(q)
    BY <2>1 DEF Asks, ChargesTheUnpaid, DueSchedules
  <2> QED
    BY <1>2, <2>2, <2>3, FS_Singleton DEF FeelessInv, OneRequest, ChargesTheUnpaid
<1>5. CASE Verify \/ PayInvoice \/ MarkInvoicePaid
  <2>1. \E q : Served(q)
    BY <1>5 DEF Verify, PayInvoice, MarkInvoicePaid
  <2>2. PICK i \in Invoice, amount \in Nat, ref \in References : ApplyApprovedPayment(i, amount, ref)
    BY <1>5, PaymentNames DEF MoneyInv
  <2> QED
    BY <1>0, <1>1, <2>1, <2>2, PaymentLeavesNoFee
<1>6. CASE GrantDiscount
  <2>1. HasRoom /\ UNCHANGED inFlight
    BY <1>6 DEF GrantDiscount
  <2> QED
    BY <1>0, <1>3, <1>6, <2>1, DiscountLeavesNoFee
<1>7. CASE WaiveFee
  <2>1. HasRoom /\ UNCHANGED inFlight
    BY <1>7 DEF WaiveFee
  <2> QED
    BY <1>0, <1>3, <1>7, <2>1, WaiverLeavesNoFee
<1>8. CASE \/ Submit \/ Refuse \/ Resubmit \/ CloseInvoice \/ DecideRefund \/ SweepPlans
           \/ EndsWithoutEffect
  <2>1. (\E q : Served(q)) /\ UNCHANGED schedules
    BY <1>8 DEF Submit, Refuse, Resubmit, CloseInvoice, DecideRefund, SweepPlans, EndsWithoutEffect, money
  <2> QED
    BY <1>1, <1>2, <2>1
<1>9. CASE ChangeHoldPolicy \/ NextDay \/ UNCHANGED vars
  <2>1. UNCHANGED <<schedules, inFlight>>
    BY <1>9 DEF ChangeHoldPolicy, NextDay, vars, money
  <2> QED
    BY <1>2, <2>1 DEF FeelessInv, OneRequest, ChargesTheUnpaid
<1>10. CASE SweepRow
  BY <1>10, SweepLeavesNoFee
<1> QED
  BY <1>4, <1>5, <1>6, <1>7, <1>8, <1>9, <1>10 DEF Next, Reads

(* A settled schedule owes neither principal nor fee, and a paid invoice   *)
(* has no other, one request at a time.  A sweep that overlaps a waiver    *)
(* charges a schedule that was settled after it was read.                  *)
THEOREM PaidOwesNoFee == ASSUME Serial PROVE Spec => []PaidOwesNothing
<1>1. MoneyInv /\ FeelessInv /\ [Next]_vars => FeelessInv'
  BY FeelessStep
<1>2. MoneyInv /\ FeelessInv /\ SettledInv => PaidOwesNothing
  BY DEF MoneyInv, SchedulesSound, FeelessInv, NoFeesLeft, OwesNoFee, SettledInv, PaidOwesNothing
<1> QED
  BY <1>1, <1>2, FeelessInit, MoneyInit, MoneyStep, SecuredInit, SecuredStep, SettledInit,
     SettledStep, PTL DEF Spec
=============================================================================
