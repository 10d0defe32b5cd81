-------------------- MODULE CommissionSettlement_proofs --------------------
(***************************************************************************)
(* What holds of CommissionSettlement for every family of deals, realtors, *)
(* entitlements, plans and bounds.                                         *)
(***************************************************************************)
EXTENDS CommissionSettlement, Money_proofs, TLAPS

LEMMA ProRataBound ==
  ASSUME NEW a \in Nat, NEW m \in Nat, NEW b \in Nat \ {0}, m <= b
  PROVE  (a * m) \div b \in 0..a
<1>1. a * m <= a * b
  OBVIOUS
<1>2. (a * m) \div b \in Nat
  OBVIOUS
<1>3. (a * m) \div b <= a
  BY <1>1
<1> QED
  BY <1>2, <1>3

(* What a trigger vests is never negative and never above the entitlement. *)
LEMMA VestedBound ==
  ASSUME NEW p \in Plan, NEW entitled \in Nat, NEW base \in Nat \ {0}, NEW received \in Nat
  PROVE  VestedOnMoney(p, entitled, base, received) \in 0..entitled
<1>1. Lesser(received, base) \in Nat /\ Lesser(received, base) <= base
  BY DEF Lesser
<1>2. (entitled * Lesser(received, base)) \div base \in 0..entitled
  BY <1>1, ProRataBound
<1>3. p.trigger \in MoneyTriggers
  BY DEF Plan
<1> QED
  BY <1>2, <1>3 DEF VestedOnMoney, MoneyTriggers

LEMMA PayableBound ==
  ASSUME NEW p \in Plan, NEW entitled \in Nat, NEW base \in Nat \ {0}, NEW received \in Nat
  PROVE  Payable(p, entitled, base, received) \in 0..entitled
<1> DEFINE vested == IF entitled <= 0 THEN 0 ELSE VestedOnMoney(p, entitled, base, received)
<1>1. vested \in 0..entitled
  BY VestedBound
<1>2. CeilDiv(entitled * p.holdback, 100) \in Int
  BY DEF CeilDiv, Plan
<1>3. AfterHoldback(p, vested, entitled) \in 0..entitled
  <2> HIDE DEF vested
  <2> QED
    BY <1>1, <1>2 DEF AfterHoldback, Greater, Lesser
<1> HIDE DEF vested
<1>4. Lesser(AfterHoldback(p, vested, entitled), entitled) \in 0..entitled
  BY <1>3 DEF Lesser
<1> USE DEF vested
<1> QED
  BY <1>4 DEF Payable

(* Whatever a deal is revised to, what is cancelled, offset and clawed     *)
(* back are amounts.                                                       *)
LEMMA ReverseLineType ==
  ASSUME NEW entitled \in Nat, NEW given \in Nat, NEW taken \in Nat, NEW revised \in Nat
  PROVE  ReverseLine(entitled, given, taken, revised) \in Outcome
  BY DEF ReverseLine, Outcome, Greater, Lesser, Cancellable, Offsettable

LEMMA RecoveryType ==
  ASSUME NEW p \in Plan, NEW payout, NEW owed
  PROVE  RecoveryFromPayout(payout, owed, p) \in Nat
<1> DEFINE a == AsMinor(payout)
           b == AsMinor(owed)
           percent == IF p.recovery = 0 THEN 100 ELSE p.recovery
<1>1. a \in Int /\ b \in Int
  BY DEF AsMinor
<1>2. percent \in 1..100
  BY DEF Plan
<1> HIDE DEF a, b, percent
<1>3. CASE a <= 0 \/ b <= 0
  BY <1>3 DEF RecoveryFromPayout, a, b
<1>4. CASE a > 0 /\ b > 0
  <2>1. a * percent \in Nat
    BY <1>1, <1>2, <1>4
  <2>2. (a * percent) \div 100 \in Nat
    BY <2>1
  <2>3. Lesser(b, (a * percent) \div 100) \in Nat
    BY <1>1, <1>4, <2>2 DEF Lesser
  <2> QED
    BY <1>1, <1>4, <2>3 DEF RecoveryFromPayout, a, b, percent
<1> QED
  BY <1>1, <1>3, <1>4

(* A division of an amount by weights gives every recipient an amount.     *)
LEMMA AllocateType ==
  ASSUME NEW totalMinor, NEW weights, AsMinor(totalMinor) >= 0
  PROVE  \A i \in DOMAIN weights : AllocateByWeight(totalMinor, weights)[i] \in Nat
<1> DEFINE total    == AsMinor(totalMinor)
           v        == [i \in DOMAIN weights |-> Greater(AsMinor(weights[i]), 0)]
           sum      == Total(v)
           floor(i) == (total * v[i]) \div sum
           residual == total - Total([i \in DOMAIN v |-> floor(i)])
           place(i) == Cardinality({j \in DOMAIN v : ServedBefore(total, v, j, i)})
<1> SUFFICES ASSUME NEW i \in DOMAIN weights
             PROVE  AllocateByWeight(totalMinor, weights)[i] \in Nat
  OBVIOUS
<1>1. total \in Nat
  BY DEF AsMinor
<1>2. v[i] \in Nat
  BY DEF AsMinor, Greater
<1>3. sum \in Int
  BY DEF Total, AsMinor
<1>4. AllocateByWeight(totalMinor, weights)[i] =
        IF sum <= 0 \/ total = 0 THEN 0
        ELSE floor(i) + (IF place(i) < residual THEN 1 ELSE 0)
  BY DEF AllocateByWeight
<1>5. sum > 0 => floor(i) \in Nat
  <2> HIDE DEF total, v, sum
  <2>1. total * v[i] \in Nat
    BY <1>1, <1>2
  <2> QED
    BY <1>3, <2>1
<1>6. (IF place(i) < residual THEN 1 ELSE 0) \in Nat
  OBVIOUS
<1> HIDE DEF total, v, sum, floor, residual, place
<1> QED
  BY <1>3, <1>4, <1>5, <1>6

LEMMA RedistributedType ==
  ASSUME NEW pot, NEW order, NEW weight
  PROVE  \A e \in Range(order) : Redistributed(pot, order, weight)[e] \in Nat
<1> DEFINE amount == AsMinor(pot)
           weights == [i \in DOMAIN order |-> weight[order[i]]]
           shares == AllocateByWeight(amount, weights)
<1> SUFFICES ASSUME NEW e \in Range(order)
             PROVE  Redistributed(pot, order, weight)[e] \in Nat
  OBVIOUS
<1>1. amount \in Int /\ AsMinor(amount) = amount
  BY DEF AsMinor
<1>2. PICK i \in DOMAIN order : i = CHOOSE n \in DOMAIN order : order[n] = e
  BY DEF Range
<1>3. Redistributed(pot, order, weight)[e] = IF amount <= 0 THEN 0 ELSE shares[i]
  BY <1>2 DEF Redistributed
<1>4. amount > 0 => shares[i] \in Nat
  <2> HIDE DEF amount
  <2>1. i \in DOMAIN weights
    OBVIOUS
  <2> QED
    BY <1>1, <2>1, AllocateType
<1> QED
  BY <1>1, <1>3, <1>4

(* The record a request in flight carries is the one of its kind.          *)
LEMMA JobKinds ==
  ASSUME TypeOK, NEW w \in Worker
  PROVE  /\ job[w].kind = "raise" => job[w].deal \in Deal /\ job[w].received \in Nat
         /\ job[w].kind = "release" =>
              /\ job[w].received \in Nat /\ job[w].lines \subseteq Entitlement
              /\ job[w].entitled \in Amounts /\ job[w].already \in Amounts
              /\ job[w].active \subseteq Realtor
         /\ job[w].kind = "build" =>
              job[w].lines \subseteq Entitlement /\ job[w].amount \in Amounts
         /\ job[w].kind = "pay" => job[w].payout \in PayoutId
         /\ job[w].kind = "revise" =>
              /\ job[w].lines \subseteq Entitlement
              /\ job[w].outcome \in [Entitlement -> Outcome]
              /\ job[w].already \in Amounts
  BY DEF TypeOK, Job

(* Posting to the ledger adds amounts to amounts.                          *)
LEMMA BookingType ==
  ASSUME TypeOK, NEW type \in EntryType, NEW S, NEW amount, NEW key,
         \A e \in Entitlement : e \in S => amount[e] \in Nat
  PROVE  Booking(type, S, amount, key) \in Amounts
<1>1. booked[type] \in [Entitlement -> Nat]
  BY DEF TypeOK, Amounts
<1>2. \A e \in Entitlement :
        (IF e \in S /\ key[e] \notin posted THEN booked[type][e] + amount[e] ELSE booked[type][e])
          \in Nat
  BY <1>1
<1> QED
  BY <1>2 DEF Booking, Amounts

-----------------------------------------------------------------------------
(***************************************************************************)
(* Types                                                                   *)
(***************************************************************************)
LEMMA TypeInit == Init => TypeOK
  BY FamilyAssumption, AmountAssumption, BoundAssumption
  DEF Init, TypeOK, Amounts, NoLines, Idle, Job, Status, PayoutStatus, Receivable

LEMMA TypeAccrueAndRead ==
  ASSUME TypeOK, NEW w \in Worker, AccrueAndRead(w)
  PROVE  TypeOK'
<1> DEFINE d     == job[w].deal
           fresh == {e \in OnDeal(d) : status[e] = "NONE"}
           key   == [e \in Entitlement |-> <<"accrual", e, 0>>]
           lines == {e \in OnDeal(d) : status'[e] \in {"ACCRUED", "PARTIALLY_RELEASED"}}
<1>1. /\ Booking("ACCRUAL", fresh \ NonCash, Entitled, key) \in Amounts
      /\ Booking("AWARD", fresh \cap NonCash, Entitled, key) \in Amounts
  <2>1. "ACCRUAL" \in EntryType /\ "AWARD" \in EntryType
    BY DEF EntryType
  <2>2. \A e \in Entitlement : Entitled[e] \in Nat
    BY AmountAssumption
  <2> QED
    BY <2>1, <2>2, BookingType
<1>2. booked' \in [EntryType -> Amounts]
  BY <1>1 DEF AccrueAndRead, TypeOK
<1>3. status' \in [Entitlement -> Status] /\ constrained' \in Amounts
  BY AmountAssumption DEF AccrueAndRead, TypeOK, Amounts, Status
<1>4. job' \in [Worker -> Job]
  <2>1. job[w].deal \in Deal /\ job[w].received \in Nat
    BY JobKinds DEF AccrueAndRead
  <2>2. [kind |-> "release", deal |-> d, received |-> job[w].received, lines |-> lines,
         entitled |-> constrained', already |-> released, active |-> active] \in Job
    BY <1>3, <2>1 DEF Job, OnDeal, TypeOK
  <2>3. Idle \in Job
    BY DEF Job, Idle
  <2> QED
    BY <2>2, <2>3 DEF AccrueAndRead, TypeOK
<1> QED
  BY <1>2, <1>3, <1>4 DEF AccrueAndRead, TypeOK, marketVars, payoutVars

(* What a release pass computes from the rows it read.                     *)
LEMMA ReleaseFigures ==
  ASSUME TypeOK, NEW w \in Worker, job[w].kind = "release"
  PROVE  LET j == job[w]
         IN  /\ Due(j) \subseteq Entitlement
             /\ \A e \in Entitlement : Vested(j)[e] \in 0..j.entitled[e]
             /\ \A e \in Due(j) : StepOf(j)[e] \in Nat /\ Lost(j)[e] \in Nat
             /\ \A e \in Entitlement : Gain(j)[e] \in Nat
<1> DEFINE j == job[w]
<1>1. /\ j.received \in Nat /\ j.lines \subseteq Entitlement
      /\ j.entitled \in Amounts /\ j.already \in Amounts
  BY JobKinds
<1>2. Due(j) \subseteq Entitlement
  BY <1>1 DEF Due
<1>3. \A e \in Entitlement : Vested(j)[e] \in 0..j.entitled[e]
  BY <1>1, PayableBound, AmountAssumption DEF TypeOK, Amounts, Vested
<1>4. \A e \in Due(j) : StepOf(j)[e] \in Nat /\ Lost(j)[e] \in Nat
  BY <1>1, <1>2, <1>3 DEF Amounts, LostOnLapse, Greater, Due, StepOf, Lost
<1>5. \A e \in Entitlement : Gain(j)[e] \in Nat
  <2>1. Heirs(j) \subseteq Entitlement
    BY <1>1 DEF Heirs
  <2> QED
    BY <2>1, FamilyAssumption, RedistributedType DEF Gain
<1> QED
  BY <1>2, <1>3, <1>4, <1>5

LEMMA TypeCommitRelease ==
  ASSUME TypeOK, NEW w \in Worker, CommitRelease(w)
  PROVE  TypeOK'
<1> DEFINE j      == job[w]
           relKey == [e \in Entitlement |-> ReleaseKey(e, Vested(j)[e])]
           adjKey == [e \in Entitlement |-> <<"redistribute", e, Pot(j)>>]
           newKey == [e \in Entitlement |-> <<"forfeit", e, forfeited[e] + Lost(j)[e]>>]
           held   == IF OnHold THEN Lapsed(j) ELSE {}
           lost   == Lapsed(j) \ held
<1>1. j.kind = "release"
  BY DEF CommitRelease
<1>2. /\ Due(j) \subseteq Entitlement
      /\ \A e \in Entitlement : Vested(j)[e] \in Nat
      /\ \A e \in Due(j) : StepOf(j)[e] \in Nat /\ Lost(j)[e] \in Nat
      /\ \A e \in Entitlement : Gain(j)[e] \in Nat
  BY <1>1, ReleaseFigures, JobKinds DEF Amounts
<1>3. Vests(j) \subseteq Due(j) /\ Lapsed(j) \subseteq Due(j)
  BY DEF Vests, Lapsed
<1>4. constrained' \in Amounts
  BY <1>2 DEF CommitRelease, TypeOK, Amounts
<1>5. released' \in Amounts
  BY <1>2 DEF CommitRelease, TypeOK, Amounts
<1>6. forfeited' \in Amounts
  BY <1>2, <1>3 DEF CommitRelease, TypeOK, Amounts
<1>7. status' \in [Entitlement -> Status]
  BY DEF CommitRelease, TypeOK, Status
<1>8. booked' \in [EntryType -> Amounts]
  <2>1. /\ "RELEASE" \in EntryType /\ "FORFEIT" \in EntryType
        /\ "HOLD" \in EntryType /\ "ADJUSTMENT" \in EntryType
    BY DEF EntryType
  <2>2. Booking("RELEASE", Vests(j), StepOf(j), relKey) \in Amounts
    BY <1>2, <1>3, <2>1, BookingType
  <2>3. /\ Booking("FORFEIT", lost, Lost(j), newKey) \in Amounts
        /\ Booking("HOLD", held, Lost(j), newKey) \in Amounts
    BY <1>2, <1>3, <2>1, BookingType
  <2>4. Booking("ADJUSTMENT", Heirs(j), Gain(j), adjKey) \in Amounts
    BY <1>2, <2>1, BookingType
  <2>5. booked' = [booked EXCEPT
                     !["RELEASE"] = Booking("RELEASE", Vests(j), StepOf(j), relKey),
                     !["FORFEIT"] = Booking("FORFEIT", lost, Lost(j), newKey),
                     !["HOLD"] = Booking("HOLD", held, Lost(j), newKey),
                     !["ADJUSTMENT"] = Booking("ADJUSTMENT", Heirs(j), Gain(j), adjKey)]
    BY DEF CommitRelease
  <2> QED
    BY <2>2, <2>3, <2>4, <2>5 DEF TypeOK
<1>9. job' \in [Worker -> Job]
  BY DEF CommitRelease, TypeOK, Job, Idle
<1> QED
  BY <1>4, <1>5, <1>6, <1>7, <1>8, <1>9 DEF CommitRelease, TypeOK, marketVars, payoutVars

LEMMA TypeReadPayable ==
  ASSUME TypeOK, NEW w \in Worker, ReadPayable(w)
  PROVE  TypeOK'
<1>1. PICK lines \in SUBSET PayableLines :
        job' = [job EXCEPT ![w] =
                  [kind |-> "build", lines |-> lines,
                   amount |-> [e \in Entitlement |->
                                 IF e \in lines THEN released[e] - paid[e] ELSE 0]]]
  BY DEF ReadPayable
<1>2. [e \in Entitlement |-> IF e \in lines THEN released[e] - paid[e] ELSE 0] \in Amounts
  BY DEF TypeOK, Amounts, PayableLines
<1>3. lines \subseteq Entitlement
  BY DEF PayableLines
<1> QED
  BY <1>1, <1>2, <1>3 DEF ReadPayable, TypeOK, Job, marketVars, entVars, ledgerVars, payoutVars

LEMMA TypeCommitPayouts ==
  ASSUME TypeOK, NEW w \in Worker, CommitPayouts(w)
  PROVE  TypeOK'
<1> DEFINE share(r) == [e \in Entitlement |-> IF OwnerOf[e] = r THEN job[w].amount[e] ELSE 0]
           recovered(r) == RecoveryFromPayout(Gross(share(r)) - WithheldOn(share(r)),
                                              OwedBy(r), plan)
           draft(r) == [status |-> "DRAFT", amount |-> share(r), recovered |-> recovered(r)]
<1>1. job[w].amount \in Amounts
  BY JobKinds DEF CommitPayouts
<1>2. \A r \in Realtor : share(r) \in Amounts
  BY <1>1 DEF Amounts
<1>3. \A r \in Realtor : recovered(r) \in Nat
  BY RecoveryType DEF TypeOK
<1>4. \A r \in Realtor :
        draft(r) \in [status : PayoutStatus, amount : Amounts, recovered : Nat]
  BY <1>2, <1>3 DEF PayoutStatus
<1>5. payouts' \in [PayoutId -> [status : PayoutStatus, amount : Amounts, recovered : Nat]]
  <2>1. payouts' = [p \in PayoutId |->
                      IF p[1] = counts.runs + 1 /\ p[2] \in {OwnerOf[e] : e \in job[w].lines}
                      THEN draft(p[2]) ELSE payouts[p]]
    BY DEF CommitPayouts
  <2>2. \A p \in PayoutId : p[2] \in Realtor
    BY DEF PayoutId
  <2> HIDE DEF draft
  <2> QED
    BY <1>4, <2>1, <2>2 DEF TypeOK
<1>6. counts' \in [runs : Nat, revisions : Nat, standings : Nat, plans : Nat]
  BY DEF CommitPayouts, TypeOK
<1>7. job' \in [Worker -> Job]
  BY DEF CommitPayouts, TypeOK, Job, Idle
<1> QED
  BY <1>5, <1>6, <1>7 DEF CommitPayouts, TypeOK, marketVars, entVars, ledgerVars

(* What a payment takes from a receivable leaves an amount recovered.      *)
LEMMA TakeType ==
  ASSUME TypeOK, NEW i \in Receivable, NEW recovered
  PROVE  /\ Take(i, recovered) \in Int
         /\ receivables[i].recovered + Take(i, recovered) \in Nat
         /\ Take(i, recovered) <= receivables[i].amount - receivables[i].recovered
<1>1. Outstanding(i, recovered) \in Nat
  BY DEF Outstanding, Greater, AsMinor
<1>2. receivables[i].amount \in Nat /\ receivables[i].recovered \in Nat
  BY DEF TypeOK
<1>3. Remaining[i] = receivables[i].amount - receivables[i].recovered
  BY DEF Remaining
<1> QED
  BY <1>1, <1>2, <1>3 DEF Take, Lesser

LEMMA TypeRecordPaid ==
  ASSUME TypeOK, NEW w \in Worker, RecordPaid(w)
  PROVE  TypeOK'
<1> DEFINE p == job[w].payout
           key == [e \in Entitlement |-> PayoutKey(p, e)]
<1>1. p \in PayoutId
  BY JobKinds DEF RecordPaid
<1>2. payouts[p].amount \in [Entitlement -> Nat] /\ payouts[p].recovered \in Nat
  BY <1>1 DEF TypeOK, Amounts
<1>3. paid' \in Amounts
  BY <1>2 DEF RecordPaid, TypeOK, Amounts
<1>4. status' \in [Entitlement -> Status]
  BY DEF RecordPaid, TypeOK, Status
<1>5. receivables' \in [Receivable -> [amount : Nat, recovered : Nat]]
  <2>1. \A i \in Receivable :
          [receivables[i] EXCEPT !.recovered = @ + Take(i, payouts[p].recovered)]
            \in [amount : Nat, recovered : Nat]
    BY TakeType DEF TypeOK
  <2>2. receivables' = [i \in Receivable |->
           IF OwnerOf[i[2]] = p[2]
           THEN [receivables[i] EXCEPT !.recovered = @ + Take(i, payouts[p].recovered)]
           ELSE receivables[i]]
    BY DEF RecordPaid
  <2> QED
    BY <2>1, <2>2 DEF TypeOK
<1>6. booked' \in [EntryType -> Amounts]
  <2>1. "PAYOUT" \in EntryType
    BY DEF EntryType
  <2>2. Booking("PAYOUT", Lines(p), payouts[p].amount, key) \in Amounts
    BY <1>2, <2>1, BookingType
  <2> QED
    BY <2>2 DEF RecordPaid, TypeOK
<1>7. payouts' \in [PayoutId -> [status : PayoutStatus, amount : Amounts, recovered : Nat]]
  BY <1>1 DEF RecordPaid, TypeOK, PayoutStatus
<1>8. cashBook' \subseteq PayoutId
  BY <1>1 DEF RecordPaid, TypeOK
<1>9. job' \in [Worker -> Job]
  BY DEF RecordPaid, TypeOK, Job, Idle
<1> QED
  BY <1>3, <1>4, <1>5, <1>6, <1>7, <1>8, <1>9 DEF RecordPaid, TypeOK, marketVars

LEMMA TypeReadForRevision ==
  ASSUME TypeOK, NEW w \in Worker, NEW d \in Deal, NEW f \in Revised, ReadForRevision(w, d, f)
  PROVE  TypeOK'
<1>1. [e \in Entitlement |-> ReverseLine(constrained[e], released[e], paid[e], f)]
        \in [Entitlement -> Outcome]
  BY ReverseLineType, AmountAssumption DEF TypeOK, Amounts
<1>2. job' \in [Worker -> Job]
  BY <1>1 DEF ReadForRevision, TypeOK, Job, OnDeal
<1> QED
  BY <1>2 DEF ReadForRevision, TypeOK, marketVars, entVars, ledgerVars, payoutVars

LEMMA TypeCommitRevision ==
  ASSUME TypeOK, NEW w \in Worker, CommitRevision(w)
  PROVE  TypeOK'
<1> DEFINE j      == job[w]
           shrunk == {e \in j.lines : ~j.outcome[e].unchanged}
           claw   == [e \in Entitlement |-> IF plan.clawback THEN j.outcome[e].clawback ELSE 0]
           taken  == [e \in Entitlement |-> j.outcome[e].cancel + j.outcome[e].offset + claw[e]]
           revKey == [e \in Entitlement |-> <<"reversal", e, j.outcome[e].revised>>]
           dueKey == [e \in Entitlement |-> <<"receivable", e, claw[e]>>]
           raised == {e \in shrunk : claw[e] > 0 /\ dueKey[e] \notin posted}
           nth    == counts.revisions + 1
<1>1. j.lines \subseteq Entitlement /\ j.already \in [Entitlement -> Nat]
  BY JobKinds DEF CommitRevision, Amounts
<1>2. \A e \in Entitlement :
        /\ j.outcome[e].revised \in Nat /\ j.outcome[e].cancel \in Nat
        /\ j.outcome[e].offset \in Nat /\ j.outcome[e].clawback \in Nat
  BY JobKinds DEF CommitRevision, Outcome
<1>3. \A e \in Entitlement : claw[e] \in Nat /\ taken[e] \in Nat
  BY <1>2
<1>4. constrained' \in Amounts
  BY <1>2, SMTT(30) DEF CommitRevision, TypeOK, Amounts
<1>5. released' \in Amounts
  BY <1>1, <1>2, SMTT(30) DEF CommitRevision, TypeOK, Amounts, Greater
<1>6. clawedBack' \in Amounts
  BY <1>2 DEF CommitRevision, TypeOK, Amounts
<1>7. status' \in [Entitlement -> Status]
  BY DEF CommitRevision, TypeOK, Status
<1>8. booked' \in [EntryType -> Amounts]
  <2>1. "REVERSAL" \in EntryType
    BY DEF EntryType
  <2>2. Booking("REVERSAL", shrunk, taken, revKey) \in Amounts
    BY <1>3, <2>1, BookingType
  <2>3. booked' = [booked EXCEPT !["REVERSAL"] = Booking("REVERSAL", shrunk, taken, revKey)]
    BY DEF CommitRevision
  <2> QED
    BY <2>2, <2>3 DEF TypeOK
<1>9. receivables' \in [Receivable -> [amount : Nat, recovered : Nat]]
  <2>1. receivables' = [i \in Receivable |->
                          IF i[1] = nth /\ i[2] \in raised
                          THEN [amount |-> claw[i[2]], recovered |-> 0]
                          ELSE receivables[i]]
    BY DEF CommitRevision
  <2>2. \A i \in Receivable : i[2] \in Entitlement
    BY DEF Receivable
  <2>3. \A i \in Receivable :
          (IF i[1] = nth /\ i[2] \in raised
           THEN [amount |-> claw[i[2]], recovered |-> 0]
           ELSE receivables[i]) \in [amount : Nat, recovered : Nat]
    <3> HIDE DEF claw, raised
    <3> QED
      BY <1>3, <2>2 DEF TypeOK
  <2> QED
    BY <2>1, <2>3
<1>10. counts' \in [runs : Nat, revisions : Nat, standings : Nat, plans : Nat]
  <2>1. counts' = [counts EXCEPT !.revisions = counts.revisions + 1]
    BY DEF CommitRevision
  <2> QED
    BY <2>1 DEF TypeOK
<1>11. job' \in [Worker -> Job]
  BY DEF CommitRevision, TypeOK, Job, Idle
<1> QED
  BY <1>4, <1>5, <1>6, <1>7, <1>8, <1>9, <1>10, <1>11 DEF CommitRevision, TypeOK, marketVars

LEMMA TypeNext == TypeOK /\ [Next]_vars => TypeOK'
<1> SUFFICES ASSUME TypeOK, [Next]_vars
             PROVE  TypeOK'
  OBVIOUS
<1>1. CASE UNCHANGED vars
  BY <1>1 DEF vars, marketVars, entVars, ledgerVars, payoutVars, TypeOK
<1>2. ASSUME NEW w \in Worker, NEW d \in Deal, PaymentApproved(w, d)
      PROVE  TypeOK'
  <2>1. receipts[d] + 1 \in Nat
    BY DEF TypeOK
  <2>2. job' \in [Worker -> Job]
    BY <1>2, <2>1 DEF PaymentApproved, TypeOK, Job
  <2> QED
    BY <1>2, <2>1, <2>2 DEF PaymentApproved, TypeOK, entVars, ledgerVars, payoutVars
<1>3. ASSUME NEW w \in Worker, NEW d \in Deal, RecalculateInvoiceCommission(w, d)
      PROVE  TypeOK'
  <2>1. job' \in [Worker -> Job]
    BY <1>3 DEF RecalculateInvoiceCommission, TypeOK, Job
  <2> QED
    BY <1>3, <2>1
    DEF RecalculateInvoiceCommission, TypeOK, marketVars, entVars, ledgerVars, payoutVars
<1>4. ASSUME NEW w \in Worker, RaiseFlatRate(w)
      PROVE  TypeOK'
  <2>1. job[w].deal \in Deal
    BY <1>4, JobKinds DEF RaiseFlatRate
  <2>2. job' \in [Worker -> Job]
    BY <1>4 DEF RaiseFlatRate, TypeOK, Job, Idle
  <2> QED
    BY <1>4, <2>1, <2>2 DEF RaiseFlatRate, TypeOK, entVars, ledgerVars, payoutVars
<1>5. ASSUME NEW w \in Worker, NEW p \in PayoutId, CheckPayout(w, p)
      PROVE  TypeOK'
  <2>1. job' \in [Worker -> Job]
    BY <1>5 DEF CheckPayout, TypeOK, Job
  <2> QED
    BY <1>5, <2>1 DEF CheckPayout, TypeOK, marketVars, entVars, ledgerVars, payoutVars
<1>6. ASSUME NEW w \in Worker, RollBack(w)
      PROVE  TypeOK'
  <2>1. job' \in [Worker -> Job]
    BY <1>6 DEF RollBack, TypeOK, Job, Idle
  <2> QED
    BY <1>6, <2>1 DEF RollBack, TypeOK, marketVars, entVars, ledgerVars, payoutVars
<1>7. ASSUME NEW p \in PayoutId, ApprovePayout(p) \/ CancelPayout(p)
      PROVE  TypeOK'
  <2>1. PICK s \in PayoutStatus : payouts' = [payouts EXCEPT ![p].status = s]
    BY <1>7 DEF ApprovePayout, CancelPayout, PayoutStatus
  <2>2. payouts' \in [PayoutId -> [status : PayoutStatus, amount : Amounts, recovered : Nat]]
    BY <2>1 DEF TypeOK
  <2>3. UNCHANGED <<marketVars, entVars, ledgerVars, receivables, cashBook, job, counts>>
    BY <1>7 DEF ApprovePayout, CancelPayout
  <2> QED
    BY <2>2, <2>3 DEF TypeOK, marketVars, entVars, ledgerVars
<1>8. ASSUME NEW r \in Realtor, ChangeStanding(r)
      PROVE  TypeOK'
  <2>1. counts' \in [runs : Nat, revisions : Nat, standings : Nat, plans : Nat]
    BY <1>8 DEF ChangeStanding, TypeOK
  <2>2. active' \subseteq Realtor
    BY <1>8 DEF ChangeStanding, TypeOK
  <2> QED
    BY <1>8, <2>1, <2>2 DEF ChangeStanding, TypeOK, entVars, ledgerVars, payoutVars
<1>9. CASE ChangePlan
  <2>1. counts' \in [runs : Nat, revisions : Nat, standings : Nat, plans : Nat]
    BY <1>9 DEF ChangePlan, TypeOK
  <2> QED
    BY <1>9, <2>1 DEF ChangePlan, TypeOK, entVars, ledgerVars, payoutVars
<1> QED
  BY <1>1, <1>2, <1>3, <1>4, <1>5, <1>6, <1>7, <1>8, <1>9, TypeAccrueAndRead,
     TypeCommitRelease, TypeReadPayable, TypeCommitPayouts, TypeRecordPaid,
     TypeReadForRevision, TypeCommitRevision
  DEF Next

(* Every row and every request in flight keeps its type: in particular no  *)
(* amount of an entitlement, a receivable or the ledger is ever negative,  *)
(* however the requests interleave.                                        *)
THEOREM TypeCorrect == Spec => []TypeOK
  BY TypeInit, TypeNext, PTL DEF Spec

(* However the requests interleave, a receivable is never recovered beyond *)
(* what it was raised for.                                                 *)
THEOREM RecoveryCorrect == Spec => []RecoveredWithinOwed
<1>1. Init => RecoveredWithinOwed
  BY DEF Init, RecoveredWithinOwed
<1>2. TypeOK /\ RecoveredWithinOwed /\ [Next]_vars => RecoveredWithinOwed'
  <2> SUFFICES ASSUME TypeOK, RecoveredWithinOwed, [Next]_vars
               PROVE  RecoveredWithinOwed'
    OBVIOUS
  <2>1. ASSUME NEW w \in Worker, RecordPaid(w)
        PROVE  RecoveredWithinOwed'
    <3> DEFINE p == job[w].payout
    <3>1. receivables' = [i \in Receivable |->
             IF OwnerOf[i[2]] = p[2]
             THEN [receivables[i] EXCEPT !.recovered = @ + Take(i, payouts[p].recovered)]
             ELSE receivables[i]]
      BY <2>1 DEF RecordPaid
    <3> SUFFICES ASSUME NEW i \in Receivable
                 PROVE  receivables'[i].recovered <= receivables'[i].amount
      BY DEF RecoveredWithinOwed
    <3>2. receivables[i] \in [amount : Nat, recovered : Nat]
      BY DEF TypeOK
    <3>3. receivables[i].recovered <= receivables[i].amount
      BY DEF RecoveredWithinOwed
    <3> QED
      BY <3>1, <3>2, <3>3, TakeType
  <2>2. ASSUME NEW w \in Worker, CommitRevision(w)
        PROVE  RecoveredWithinOwed'
    <3> DEFINE claw == [e \in Entitlement |->
                          IF plan.clawback THEN job[w].outcome[e].clawback ELSE 0]
    <3>1. \A e \in Entitlement : claw[e] \in Nat
      BY <2>2, JobKinds DEF CommitRevision, Outcome
    <3> SUFFICES ASSUME NEW i \in Receivable
                 PROVE  receivables'[i].recovered <= receivables'[i].amount
      BY DEF RecoveredWithinOwed
    <3>2. \/ receivables'[i] = receivables[i]
          \/ receivables'[i] = [amount |-> claw[i[2]], recovered |-> 0]
      BY <2>2 DEF CommitRevision
    <3>3. claw[i[2]] \in Nat
      BY <3>1 DEF Receivable
    <3> QED
      BY <3>2, <3>3 DEF RecoveredWithinOwed
  <2>3. ASSUME UNCHANGED receivables
        PROVE  RecoveredWithinOwed'
    BY <2>3 DEF RecoveredWithinOwed
  <2>4. ASSUME Next, ~\E w \in Worker : RecordPaid(w) \/ CommitRevision(w)
        PROVE  UNCHANGED receivables
    BY <2>4
    DEF Next, PaymentApproved, RecalculateInvoiceCommission, AccrueAndRead, RaiseFlatRate,
        CommitRelease, ReadPayable, CommitPayouts, CheckPayout, ReadForRevision, RollBack,
        ApprovePayout, CancelPayout, ChangeStanding, ChangePlan, payoutVars
  <2> QED
    BY <2>1, <2>2, <2>3, <2>4 DEF vars, payoutVars
<1> QED
  BY <1>1, <1>2, TypeCorrect, PTL DEF Spec

-----------------------------------------------------------------------------
(***************************************************************************)
(* What holds when the requests of the store follow one another            *)
(***************************************************************************)
Serial == \A v, w \in Worker : v = w

(* A line that is not recorded yet holds nothing.                          *)
FreshIsEmpty ==
  \A e \in Entitlement : status[e] = "NONE" => released[e] = 0 /\ paid[e] = 0

(* A payout run that has not happened has drafted nothing.                 *)
LaterRunsAreEmpty ==
  \A p \in PayoutId : p[1] > counts.runs => payouts[p].status = "NONE"

(* A payout that posted a payment is closed for good.                      *)
PostedIsClosed ==
  \A p \in PayoutId, e \in Entitlement :
    PayoutKey(p, e) \in posted => payouts[p].status \in {"PAID", "CANCELLED"}

(* What a request has read is still true when it writes.                   *)
ReleaseIsCurrent(w) ==
  job[w].kind = "release" =>
    /\ job[w].entitled = constrained /\ job[w].already = released
    /\ \A e \in job[w].lines : status[e] # "NONE"

BuildIsCurrent(w) ==
  job[w].kind = "build" =>
    /\ \A e \in Entitlement : job[w].amount[e] > 0 => e \in job[w].lines
    /\ \A e \in job[w].lines : ~Claimed(e)

PaymentIsCurrent(w) ==
  job[w].kind = "pay" =>
    LET p == job[w].payout
    IN  /\ payouts[p].status \in {"APPROVED", "CANCELLED"}
        /\ \A e \in Entitlement : /\ payouts[p].amount[e] <= released[e] - paid[e]
                                  /\ PayoutKey(p, e) \notin posted

RevisionIsCurrent(w) ==
  job[w].kind = "revise" =>
    /\ job[w].already = released
    /\ \A e \in Entitlement : \E f \in Nat :
         job[w].outcome[e] = ReverseLine(constrained[e], released[e], paid[e], f)

Rows ==
  /\ PaidWithinReleased /\ OneOpenPayout /\ PayoutsAgreeWithLedger
  /\ FreshIsEmpty /\ LaterRunsAreEmpty /\ PostedIsClosed

Current(w) ==
  /\ ReleaseIsCurrent(w) /\ BuildIsCurrent(w)
  /\ PaymentIsCurrent(w) /\ RevisionIsCurrent(w)

IInv == TypeOK /\ Rows /\ \A w \in Worker : Current(w)

LEMMA IInvInit == Init => IInv
<1> SUFFICES ASSUME Init
             PROVE  IInv
  OBVIOUS
<1>1. TypeOK
  BY TypeInit
<1>2. PaidWithinReleased /\ FreshIsEmpty
  BY AmountAssumption DEF Init, PaidWithinReleased, FreshIsEmpty, NoLines, Greater
<1>3. OneOpenPayout /\ LaterRunsAreEmpty
  BY DEF Init, OneOpenPayout, LaterRunsAreEmpty, Open
<1>4. PayoutsAgreeWithLedger /\ PostedIsClosed
  BY DEF Init, PayoutsAgreeWithLedger, PostedIsClosed, NoLines, EntryType
<1>5. \A w \in Worker : Current(w)
  BY DEF Init, Idle, Current, ReleaseIsCurrent, BuildIsCurrent, PaymentIsCurrent,
         RevisionIsCurrent
<1> QED
  BY <1>1, <1>2, <1>3, <1>4, <1>5 DEF IInv, Rows

(* A step that touches no row keeps what the rows say.                     *)
LEMMA RowsUnchanged ==
  ASSUME Rows, UNCHANGED <<entVars, ledgerVars, payouts, counts>>
  PROVE  Rows'
  BY DEF Rows, PaidWithinReleased, OneOpenPayout, PayoutsAgreeWithLedger, FreshIsEmpty,
         LaterRunsAreEmpty, PostedIsClosed, entVars, ledgerVars, Open, Lines

(* Serially, a request that ends leaves no other in flight.                *)
LEMMA NoneInFlight ==
  ASSUME Serial, TypeOK, NEW w \in Worker, job' = [job EXCEPT ![w] = Idle]
  PROVE  \A v \in Worker : Current(v)'
<1> SUFFICES ASSUME NEW v \in Worker
             PROVE  Current(v)'
  OBVIOUS
<1>1. job'[v].kind = "idle"
  BY DEF Serial, TypeOK, Idle
<1> QED
  BY <1>1 DEF Current, ReleaseIsCurrent, BuildIsCurrent, PaymentIsCurrent, RevisionIsCurrent

(* A request that only reads keeps the rows.                               *)
LEMMA StepReading ==
  ASSUME Serial, IInv, NEW w \in Worker,
         \/ \E d \in Deal : PaymentApproved(w, d) \/ RecalculateInvoiceCommission(w, d)
         \/ RaiseFlatRate(w) \/ RollBack(w) \/ ReadPayable(w)
         \/ \E p \in PayoutId : CheckPayout(w, p)
         \/ \E d \in Deal, f \in Revised : ReadForRevision(w, d, f)
  PROVE  Rows' /\ \A v \in Worker : Current(v)'
<1>1. Rows'
  <2>1. UNCHANGED <<entVars, ledgerVars, payouts, counts>>
    BY DEF PaymentApproved, RecalculateInvoiceCommission, RaiseFlatRate, RollBack,
           ReadPayable, CheckPayout, ReadForRevision, payoutVars
  <2> QED
    BY <2>1, RowsUnchanged DEF IInv
<1> SUFFICES \A v \in Worker : Current(v)'
  BY <1>1
<1>2. CASE \E d \in Deal : PaymentApproved(w, d) \/ RecalculateInvoiceCommission(w, d)
  <2>1. \A v \in Worker : job'[v].kind = "raise"
    BY <1>2 DEF PaymentApproved, RecalculateInvoiceCommission, Serial, IInv, TypeOK
  <2> QED
    BY <2>1 DEF Current, ReleaseIsCurrent, BuildIsCurrent, PaymentIsCurrent, RevisionIsCurrent
<1>3. CASE RaiseFlatRate(w) \/ RollBack(w)
  BY <1>3, NoneInFlight DEF RaiseFlatRate, RollBack, IInv
<1>4. CASE ReadPayable(w)
  <2>1. PICK lines \in SUBSET PayableLines :
          job' = [job EXCEPT ![w] =
                    [kind |-> "build", lines |-> lines,
                     amount |-> [e \in Entitlement |->
                                   IF e \in lines THEN released[e] - paid[e] ELSE 0]]]
    BY <1>4 DEF ReadPayable
  <2>2. \A v \in Worker :
          /\ job'[v].kind = "build" /\ job'[v].lines = lines
          /\ \A e \in Entitlement : job'[v].amount[e] > 0 => e \in lines
    BY <2>1 DEF Serial, IInv, TypeOK
  <2>3. \A e \in lines : ~Claimed(e)'
    BY <1>4 DEF PayableLines, ReadPayable, Claimed, Open, Lines, payoutVars
  <2> QED
    BY <2>2, <2>3
    DEF Current, ReleaseIsCurrent, BuildIsCurrent, PaymentIsCurrent, RevisionIsCurrent
<1>5. ASSUME NEW p \in PayoutId, CheckPayout(w, p)
      PROVE  \A v \in Worker : Current(v)'
  <2>1. \A v \in Worker : job'[v].kind = "pay" /\ job'[v].payout = p
    BY <1>5 DEF CheckPayout, Serial, IInv, TypeOK
  <2>2. payouts'[p].status = "APPROVED"
    BY <1>5 DEF CheckPayout, payoutVars
  <2>3. \A e \in Entitlement : payouts'[p].amount[e] <= released'[e] - paid'[e]
    <3> SUFFICES ASSUME NEW e \in Entitlement
                 PROVE  payouts[p].amount[e] <= released[e] - paid[e]
      BY <1>5 DEF CheckPayout, payoutVars, entVars
    <3>1. payouts[p].amount[e] \in Nat /\ released[e] \in Nat /\ paid[e] \in Nat
      BY DEF IInv, TypeOK, Amounts
    <3>2. CASE e \in Lines(p)
      BY <1>5, <3>1, <3>2 DEF CheckPayout
    <3>3. CASE e \notin Lines(p)
      BY <3>1, <3>3 DEF Lines, IInv, Rows, PaidWithinReleased
    <3> QED
      BY <3>2, <3>3
  <2>4. \A e \in Entitlement : PayoutKey(p, e)' \notin posted'
    BY <1>5 DEF CheckPayout, ledgerVars, PayoutKey, IInv, Rows, PostedIsClosed
  <2> QED
    BY <2>1, <2>2, <2>3, <2>4
    DEF Current, ReleaseIsCurrent, BuildIsCurrent, PaymentIsCurrent, RevisionIsCurrent
<1>6. ASSUME NEW d \in Deal, NEW f \in Revised, ReadForRevision(w, d, f)
      PROVE  \A v \in Worker : Current(v)'
  <2>1. \A v \in Worker :
          /\ job'[v].kind = "revise" /\ job'[v].already = released
          /\ job'[v].outcome = [e \in Entitlement |->
                                  ReverseLine(constrained[e], released[e], paid[e], f)]
    BY <1>6 DEF ReadForRevision, Serial, IInv, TypeOK
  <2>2. f \in Nat
    BY AmountAssumption
  <2>3. UNCHANGED <<constrained, released, paid>>
    BY <1>6 DEF ReadForRevision, entVars
  <2> QED
    BY <2>1, <2>2, <2>3
    DEF Current, ReleaseIsCurrent, BuildIsCurrent, PaymentIsCurrent, RevisionIsCurrent
<1> QED
  BY <1>2, <1>3, <1>4, <1>5, <1>6

LEMMA StepAccrueAndRead ==
  ASSUME Serial, IInv, NEW w \in Worker, AccrueAndRead(w)
  PROVE  Rows' /\ \A v \in Worker : Current(v)'
<1> DEFINE fresh == {e \in OnDeal(job[w].deal) : status[e] = "NONE"}
           key   == [e \in Entitlement |-> <<"accrual", e, 0>>]
           lines == {e \in OnDeal(job[w].deal) :
                       status'[e] \in {"ACCRUED", "PARTIALLY_RELEASED"}}
<1>1. /\ UNCHANGED <<released, paid, payouts, counts>>
      /\ constrained' = [e \in Entitlement |->
                            IF e \in fresh THEN Entitled[e] ELSE constrained[e]]
      /\ status' = [e \in Entitlement |-> IF e \in fresh THEN "ACCRUED" ELSE status[e]]
      /\ posted' = posted \cup Keys(fresh, key)
  BY DEF AccrueAndRead, payoutVars
<1>2. PaidWithinReleased'
  <2> SUFFICES ASSUME NEW e \in Entitlement
               PROVE  paid[e] <= released[e] /\ released[e] <= Greater(constrained'[e], paid[e])
    BY <1>1 DEF PaidWithinReleased
  <2>1. CASE e \in fresh
    <3>1. released[e] = 0 /\ paid[e] = 0
      BY <2>1 DEF IInv, Rows, FreshIsEmpty
    <3>2. constrained'[e] \in Nat
      BY <1>1, <2>1, AmountAssumption
    <3> QED
      BY <3>1, <3>2 DEF Greater
  <2>2. CASE e \notin fresh
    BY <1>1, <2>2 DEF IInv, Rows, PaidWithinReleased
  <2> QED
    BY <2>1, <2>2
<1>3. FreshIsEmpty'
  BY <1>1 DEF IInv, Rows, FreshIsEmpty
<1>4. OneOpenPayout' /\ LaterRunsAreEmpty'
  BY <1>1 DEF IInv, Rows, OneOpenPayout, LaterRunsAreEmpty, Open, Lines
<1>5. PayoutsAgreeWithLedger'
  <2>1. booked'["PAYOUT"] = booked["PAYOUT"]
    BY DEF AccrueAndRead, IInv, TypeOK, EntryType
  <2> QED
    BY <1>1, <2>1 DEF IInv, Rows, PayoutsAgreeWithLedger
<1>6. PostedIsClosed'
  <2>1. \A p \in PayoutId, e \in Entitlement : PayoutKey(p, e) \notin Keys(fresh, key)
    BY DEF PayoutKey, Keys, OnDeal
  <2> QED
    BY <1>1, <2>1 DEF IInv, Rows, PostedIsClosed, PayoutKey
<1>7. ASSUME NEW v \in Worker
      PROVE  Current(v)'
  <2>1. \/ job'[v].kind = "idle"
        \/ /\ job'[v].kind = "release" /\ job'[v].lines = lines
           /\ job'[v].entitled = constrained' /\ job'[v].already = released
    BY DEF AccrueAndRead, Serial, IInv, TypeOK, Idle
  <2> QED
    BY <1>1, <2>1
    DEF Current, ReleaseIsCurrent, BuildIsCurrent, PaymentIsCurrent, RevisionIsCurrent
<1> QED
  BY <1>2, <1>3, <1>4, <1>5, <1>6, <1>7 DEF Rows

LEMMA StepCommitRelease ==
  ASSUME Serial, IInv, NEW w \in Worker, CommitRelease(w)
  PROVE  Rows' /\ \A v \in Worker : Current(v)'
<1> DEFINE j      == job[w]
           relKey == [e \in Entitlement |-> ReleaseKey(e, Vested(j)[e])]
           adjKey == [e \in Entitlement |-> <<"redistribute", e, Pot(j)>>]
           newKey == [e \in Entitlement |-> <<"forfeit", e, forfeited[e] + Lost(j)[e]>>]
<1>1. /\ UNCHANGED <<paid, payouts, counts>>
      /\ job' = [job EXCEPT ![w] = Idle]
      /\ j.kind = "release"
      /\ constrained' = [e \in Entitlement |-> constrained[e] + Gain(j)[e]]
      /\ released' = [e \in Entitlement |->
                        IF e \in Vests(j) THEN Vested(j)[e] ELSE released[e]]
  BY DEF CommitRelease, payoutVars
<1>2. /\ j.entitled = constrained /\ j.already = released
      /\ \A e \in j.lines : status[e] # "NONE"
  BY <1>1 DEF IInv, Current, ReleaseIsCurrent
<1>3. /\ Due(j) \subseteq Entitlement
      /\ \A e \in Entitlement : Vested(j)[e] \in 0..constrained[e] /\ Gain(j)[e] \in Nat
      /\ \A e \in Due(j) : StepOf(j)[e] \in Nat
  BY <1>1, <1>2, ReleaseFigures DEF IInv
<1>4. Vests(j) \subseteq Due(j) /\ Due(j) \subseteq j.lines /\ Lapsed(j) \subseteq Due(j)
  BY DEF Vests, Due, Lapsed
<1>5. PaidWithinReleased'
  <2> SUFFICES ASSUME NEW e \in Entitlement
               PROVE  /\ paid[e] <= released'[e]
                      /\ released'[e] <= Greater(constrained'[e], paid[e])
    BY <1>1 DEF PaidWithinReleased
  <2>1. /\ paid[e] \in Nat /\ released[e] \in Nat /\ constrained[e] \in Nat
        /\ paid[e] <= released[e] /\ released[e] <= Greater(constrained[e], paid[e])
    BY DEF IInv, TypeOK, Amounts, Rows, PaidWithinReleased
  <2>2. CASE e \in Vests(j)
    <3>1. Vested(j)[e] - released[e] > 0
      BY <1>2, <1>3, <1>4, <2>2 DEF Due, StepOf
    <3> QED
      BY <1>1, <1>3, <2>1, <2>2, <3>1 DEF Greater
  <2>3. CASE e \notin Vests(j)
    BY <1>1, <1>3, <2>1, <2>3 DEF Greater
  <2> QED
    BY <2>2, <2>3
<1>6. FreshIsEmpty'
  <2>1. \A e \in Entitlement :
          status'[e] = "NONE" => status[e] = "NONE" /\ e \notin Vests(j)
    BY DEF CommitRelease
  <2> QED
    BY <1>1, <2>1 DEF IInv, Rows, FreshIsEmpty
<1>7. OneOpenPayout' /\ LaterRunsAreEmpty'
  BY <1>1 DEF IInv, Rows, OneOpenPayout, LaterRunsAreEmpty, Open, Lines
<1>8. PayoutsAgreeWithLedger'
  <2>1. booked'["PAYOUT"] = booked["PAYOUT"]
    BY DEF CommitRelease, IInv, TypeOK, EntryType
  <2> QED
    BY <1>1, <2>1 DEF IInv, Rows, PayoutsAgreeWithLedger
<1>9. PostedIsClosed'
  <2>1. posted' = posted \cup Keys(Vests(j), relKey) \cup Keys(Lapsed(j), newKey)
                         \cup Keys(Heirs(j), adjKey)
    BY DEF CommitRelease
  <2>2. \A p \in PayoutId, e \in Entitlement :
          /\ PayoutKey(p, e) \notin Keys(Vests(j), relKey)
          /\ PayoutKey(p, e) \notin Keys(Lapsed(j), newKey)
    BY <1>3, <1>4 DEF PayoutKey, Keys, ReleaseKey
  <2>3. \A p \in PayoutId, e \in Entitlement : PayoutKey(p, e) \notin Keys(Heirs(j), adjKey)
    <3>1. Heirs(j) \subseteq Entitlement
      BY <1>1, JobKinds DEF Heirs, IInv
    <3> QED
      BY <3>1 DEF PayoutKey, Keys
  <2> QED
    BY <1>1, <2>1, <2>2, <2>3 DEF IInv, Rows, PostedIsClosed, PayoutKey
<1>10. \A v \in Worker : Current(v)'
  BY <1>1, NoneInFlight DEF IInv
<1> QED
  BY <1>5, <1>6, <1>7, <1>8, <1>9, <1>10 DEF Rows

LEMMA StepCommitPayouts ==
  ASSUME Serial, IInv, NEW w \in Worker, CommitPayouts(w)
  PROVE  Rows' /\ \A v \in Worker : Current(v)'
<1> DEFINE j == job[w]
           run == counts.runs + 1
           owners == {OwnerOf[e] : e \in j.lines}
<1>1. /\ UNCHANGED <<entVars, ledgerVars>>
      /\ job' = [job EXCEPT ![w] = Idle]
      /\ j.kind = "build"
      /\ counts' = [counts EXCEPT !.runs = run]
  BY DEF CommitPayouts
<1>2. \A p \in PayoutId :
        \/ payouts'[p] = payouts[p]
        \/ /\ p[1] = run /\ payouts'[p].status = "DRAFT"
           /\ \A e \in Entitlement :
                payouts'[p].amount[e] > 0 => OwnerOf[e] = p[2] /\ e \in j.lines
  <2> SUFFICES ASSUME NEW p \in PayoutId, payouts'[p] # payouts[p]
               PROVE  /\ p[1] = run /\ payouts'[p].status = "DRAFT"
                      /\ \A e \in Entitlement :
                           payouts'[p].amount[e] > 0 => OwnerOf[e] = p[2] /\ e \in j.lines
    OBVIOUS
  <2>1. /\ p[1] = run /\ payouts'[p].status = "DRAFT"
        /\ payouts'[p].amount =
             [e \in Entitlement |-> IF OwnerOf[e] = p[2] THEN j.amount[e] ELSE 0]
    BY DEF CommitPayouts
  <2>2. \A e \in Entitlement : j.amount[e] > 0 => e \in j.lines
    BY <1>1 DEF IInv, Current, BuildIsCurrent
  <2> QED
    BY <2>1, <2>2
<1>3. counts.runs \in Nat /\ counts'.runs = run
  BY <1>1 DEF IInv, TypeOK
<1>4. \A p \in PayoutId : p[1] = run => payouts[p].status = "NONE"
  BY <1>3 DEF IInv, Rows, LaterRunsAreEmpty
<1>5. PaidWithinReleased' /\ PayoutsAgreeWithLedger' /\ FreshIsEmpty'
  BY <1>1 DEF IInv, Rows, PaidWithinReleased, PayoutsAgreeWithLedger, FreshIsEmpty,
              entVars, ledgerVars
<1>6. LaterRunsAreEmpty'
  <2>1. \A p \in PayoutId : p[1] \in Nat
    BY BoundAssumption DEF PayoutId
  <2> QED
    BY <1>2, <1>3, <2>1 DEF IInv, Rows, LaterRunsAreEmpty
<1>7. PostedIsClosed'
  BY <1>1, <1>2, <1>4 DEF IInv, Rows, PostedIsClosed, PayoutKey, ledgerVars
<1>8. OneOpenPayout'
  <2> SUFFICES ASSUME NEW p \in PayoutId, NEW q \in PayoutId, p # q, Open(p)', Open(q)',
                      NEW e \in Entitlement, e \in Lines(p)', e \in Lines(q)'
               PROVE  FALSE
    BY DEF OneOpenPayout, Lines
  <2>1. ASSUME NEW a \in PayoutId, NEW b \in PayoutId, payouts'[a] = payouts[a],
               payouts'[b] # payouts[b], Open(a)', e \in Lines(a)', e \in Lines(b)'
        PROVE  FALSE
    <3>1. e \in j.lines
      BY <1>2, <2>1 DEF Lines
    <3>2. Claimed(e)
      BY <2>1 DEF Claimed, Open, Lines
    <3> QED
      BY <1>1, <3>1, <3>2 DEF IInv, Current, BuildIsCurrent
  <2>2. CASE payouts'[p] = payouts[p] /\ payouts'[q] = payouts[q]
    BY <2>2 DEF IInv, Rows, OneOpenPayout, Open, Lines
  <2>3. CASE payouts'[p] # payouts[p] /\ payouts'[q] # payouts[q]
    <3>1. p[1] = q[1] /\ p[2] = q[2]
      BY <1>2, <2>3 DEF Lines
    <3> QED
      BY <3>1 DEF PayoutId
  <2> QED
    BY <2>1, <2>2, <2>3
<1>9. \A v \in Worker : Current(v)'
  BY <1>1, NoneInFlight DEF IInv
<1> QED
  BY <1>5, <1>6, <1>7, <1>8, <1>9 DEF Rows

LEMMA StepRecordPaid ==
  ASSUME Serial, IInv, NEW w \in Worker, RecordPaid(w)
  PROVE  Rows' /\ \A v \in Worker : Current(v)'
<1> DEFINE p == job[w].payout
           key == [e \in Entitlement |-> PayoutKey(p, e)]
<1>1. /\ UNCHANGED <<constrained, released, counts>>
      /\ job' = [job EXCEPT ![w] = Idle]
      /\ job[w].kind = "pay"
      /\ paid' = [e \in Entitlement |-> paid[e] + payouts[p].amount[e]]
      /\ status' = [e \in Entitlement |-> IF e \in Lines(p) THEN "PAID" ELSE status[e]]
      /\ posted' = posted \cup Keys(Lines(p), key)
      /\ payouts' = [payouts EXCEPT ![p].status = IF @ = "APPROVED" THEN "PAID" ELSE @]
      /\ booked' = [booked EXCEPT
                      !["PAYOUT"] = Booking("PAYOUT", Lines(p), payouts[p].amount, key)]
  BY DEF RecordPaid
<1>2. /\ p \in PayoutId
      /\ payouts[p].status \in {"APPROVED", "CANCELLED"}
      /\ \A e \in Entitlement : /\ payouts[p].amount[e] <= released[e] - paid[e]
                                /\ PayoutKey(p, e) \notin posted
  BY <1>1, JobKinds DEF IInv, Current, PaymentIsCurrent
<1>3. \A e \in Entitlement : /\ payouts[p].amount[e] \in Nat /\ paid[e] \in Nat
                            /\ released[e] \in Nat /\ constrained[e] \in Nat
  BY <1>2 DEF IInv, TypeOK, Amounts
<1>4. PaidWithinReleased'
  <2> SUFFICES ASSUME NEW e \in Entitlement
               PROVE  /\ paid'[e] <= released[e]
                      /\ released[e] <= Greater(constrained[e], paid'[e])
    BY <1>1 DEF PaidWithinReleased
  <2>1. released[e] <= Greater(constrained[e], paid[e])
    BY DEF IInv, Rows, PaidWithinReleased
  <2> QED
    BY <1>1, <1>2, <1>3, <2>1 DEF Greater
<1>5. FreshIsEmpty'
  <2> SUFFICES ASSUME NEW e \in Entitlement, status'[e] = "NONE"
               PROVE  released[e] = 0 /\ paid'[e] = 0
    BY <1>1 DEF FreshIsEmpty
  <2>1. status[e] = "NONE" /\ e \notin Lines(p)
    BY <1>1
  <2> QED
    BY <1>1, <1>3, <2>1 DEF IInv, Rows, FreshIsEmpty, Lines
<1>6. \A q \in PayoutId :
        /\ payouts'[q].amount = payouts[q].amount
        /\ q # p => payouts'[q] = payouts[q]
        /\ payouts'[p].status \in {"PAID", "CANCELLED"}
  BY <1>1, <1>2 DEF IInv, TypeOK
<1>7. OneOpenPayout'
  <2>1. \A q \in PayoutId : Lines(q)' = Lines(q) /\ (Open(q)' => Open(q))
    BY <1>6 DEF Lines, Open
  <2> QED
    BY <2>1 DEF IInv, Rows, OneOpenPayout
<1>8. LaterRunsAreEmpty'
  BY <1>1, <1>2, <1>6 DEF IInv, Rows, LaterRunsAreEmpty
<1>9. PostedIsClosed'
  <2> SUFFICES ASSUME NEW q \in PayoutId, NEW e \in Entitlement, PayoutKey(q, e) \in posted'
               PROVE  payouts'[q].status \in {"PAID", "CANCELLED"}
    BY DEF PostedIsClosed, PayoutKey
  <2>1. CASE q = p
    BY <1>6, <2>1
  <2>2. CASE q # p
    <3>1. PayoutKey(q, e) \notin Keys(Lines(p), key)
      BY <2>2 DEF PayoutKey, Keys, Lines
    <3>2. PayoutKey(q, e) \in posted
      BY <1>1, <3>1
    <3> QED
      BY <1>6, <2>2, <3>2 DEF IInv, Rows, PostedIsClosed
  <2> QED
    BY <2>1, <2>2
<1>10. PayoutsAgreeWithLedger'
  <2> SUFFICES ASSUME NEW e \in Entitlement
               PROVE  booked'["PAYOUT"][e] = paid'[e]
    BY DEF PayoutsAgreeWithLedger
  <2>1. booked["PAYOUT"][e] = paid[e]
    BY DEF IInv, Rows, PayoutsAgreeWithLedger
  <2>2. booked'["PAYOUT"][e] = Booking("PAYOUT", Lines(p), payouts[p].amount, key)[e]
    BY <1>1 DEF IInv, TypeOK, EntryType
  <2>3. Booking("PAYOUT", Lines(p), payouts[p].amount, key)[e] =
          IF e \in Lines(p) THEN booked["PAYOUT"][e] + payouts[p].amount[e]
          ELSE booked["PAYOUT"][e]
    BY <1>2, SMTT(30) DEF Booking
  <2>4. e \notin Lines(p) => payouts[p].amount[e] = 0
    BY <1>3 DEF Lines
  <2> QED
    BY <1>1, <1>3, <2>1, <2>2, <2>3, <2>4
<1>11. \A v \in Worker : Current(v)'
  BY <1>1, NoneInFlight DEF IInv
<1> QED
  BY <1>4, <1>5, <1>7, <1>8, <1>9, <1>10, <1>11 DEF Rows

(* Taking back never reaches below what was paid, and leaves nothing       *)
(* released above the revised figure that was not paid already.            *)
LEMMA ReverseLineBound ==
  ASSUME NEW c \in Nat, NEW r \in Nat, NEW a \in Nat, NEW f \in Nat,
         a <= r, r <= Greater(c, a)
  PROVE  LET o == ReverseLine(c, r, a, f)
         IN  ~o.unchanged =>
               /\ a <= Greater(r - o.offset, 0)
               /\ Greater(r - o.offset, 0) <= Greater(o.revised, a)
               /\ o.offset \in Nat /\ o.offset <= r
  BY DEF ReverseLine, Greater, Lesser, Cancellable, Offsettable

LEMMA StepCommitRevision ==
  ASSUME Serial, IInv, NEW w \in Worker, CommitRevision(w)
  PROVE  Rows' /\ \A v \in Worker : Current(v)'
<1> DEFINE j      == job[w]
           shrunk == {e \in j.lines : ~j.outcome[e].unchanged}
           claw   == [e \in Entitlement |-> IF plan.clawback THEN j.outcome[e].clawback ELSE 0]
           revKey == [e \in Entitlement |-> <<"reversal", e, j.outcome[e].revised>>]
           dueKey == [e \in Entitlement |-> <<"receivable", e, claw[e]>>]
           raised == {e \in shrunk : claw[e] > 0 /\ dueKey[e] \notin posted}
<1>1. /\ UNCHANGED <<paid, payouts>>
      /\ job' = [job EXCEPT ![w] = Idle]
      /\ j.kind = "revise"
      /\ counts' = [counts EXCEPT !.revisions = counts.revisions + 1]
      /\ constrained' = [e \in Entitlement |->
                           IF e \in shrunk THEN j.outcome[e].revised ELSE constrained[e]]
      /\ released' = [e \in Entitlement |->
                        IF e \in shrunk THEN Greater(j.already[e] - j.outcome[e].offset, 0)
                        ELSE released[e]]
      /\ status' = [e \in Entitlement |->
                      IF e \in shrunk /\ j.outcome[e].revised = 0 THEN "REVERSED" ELSE status[e]]
      /\ posted' = posted \cup Keys(shrunk, revKey) \cup Keys(raised, dueKey)
  BY DEF CommitRevision
<1>2. /\ j.already = released
      /\ \A e \in Entitlement : \E f \in Nat :
           j.outcome[e] = ReverseLine(constrained[e], released[e], paid[e], f)
      /\ j.lines \subseteq Entitlement
  BY <1>1, JobKinds DEF IInv, Current, RevisionIsCurrent
<1>3. ASSUME NEW e \in Entitlement
      PROVE  /\ paid[e] \in Nat /\ released[e] \in Nat /\ constrained[e] \in Nat
             /\ paid[e] <= released[e] /\ released[e] <= Greater(constrained[e], paid[e])
             /\ ~j.outcome[e].unchanged =>
                  /\ paid[e] <= Greater(released[e] - j.outcome[e].offset, 0)
                  /\ Greater(released[e] - j.outcome[e].offset, 0)
                       <= Greater(j.outcome[e].revised, paid[e])
                  /\ j.outcome[e].offset \in Nat /\ j.outcome[e].offset <= released[e]
  <2>1. /\ paid[e] \in Nat /\ released[e] \in Nat /\ constrained[e] \in Nat
        /\ paid[e] <= released[e] /\ released[e] <= Greater(constrained[e], paid[e])
    BY DEF IInv, TypeOK, Amounts, Rows, PaidWithinReleased
  <2>2. PICK f \in Nat : j.outcome[e] = ReverseLine(constrained[e], released[e], paid[e], f)
    BY <1>2
  <2> QED
    BY <2>1, <2>2, ReverseLineBound
<1>4. PaidWithinReleased'
  BY <1>1, <1>2, <1>3 DEF PaidWithinReleased
<1>5. FreshIsEmpty'
  <2> SUFFICES ASSUME NEW e \in Entitlement, status'[e] = "NONE"
               PROVE  released'[e] = 0 /\ paid[e] = 0
    BY <1>1 DEF FreshIsEmpty
  <2>1. status[e] = "NONE"
    BY <1>1
  <2>2. released[e] = 0 /\ paid[e] = 0
    BY <2>1 DEF IInv, Rows, FreshIsEmpty
  <2> QED
    BY <1>1, <1>2, <1>3, <2>2 DEF Greater
<1>6. OneOpenPayout' /\ LaterRunsAreEmpty'
  <2>1. counts'.runs = counts.runs
    BY <1>1 DEF IInv, TypeOK
  <2> QED
    BY <1>1, <2>1 DEF IInv, Rows, OneOpenPayout, LaterRunsAreEmpty, Open, Lines
<1>7. PayoutsAgreeWithLedger'
  <2>1. booked'["PAYOUT"] = booked["PAYOUT"]
    BY DEF CommitRevision, IInv, TypeOK, EntryType
  <2> QED
    BY <1>1, <2>1 DEF IInv, Rows, PayoutsAgreeWithLedger
<1>8. PostedIsClosed'
  <2>1. \A p \in PayoutId, e \in Entitlement :
          PayoutKey(p, e) \notin Keys(shrunk, revKey) /\ PayoutKey(p, e) \notin Keys(raised, dueKey)
    <3>1. shrunk \subseteq Entitlement /\ raised \subseteq Entitlement
      BY <1>2
    <3> HIDE DEF shrunk, raised, claw
    <3> QED
      BY <3>1 DEF PayoutKey, Keys
  <2> QED
    BY <1>1, <2>1 DEF IInv, Rows, PostedIsClosed, PayoutKey
<1>9. \A v \in Worker : Current(v)'
  BY <1>1, NoneInFlight DEF IInv
<1> QED
  BY <1>4, <1>5, <1>6, <1>7, <1>8, <1>9 DEF Rows

(* Approving or cancelling a payout opens nothing, and what a request has  *)
(* read of the other rows stays true.                                      *)
LEMMA StepClosing ==
  ASSUME IInv, NEW p \in PayoutId, ApprovePayout(p) \/ CancelPayout(p)
  PROVE  Rows' /\ \A v \in Worker : Current(v)'
<1>1. /\ UNCHANGED <<entVars, ledgerVars, job, counts>>
      /\ payouts[p].status \in {"DRAFT", "APPROVED"}
      /\ payouts'[p].status \in {"APPROVED", "CANCELLED"}
      /\ payouts[p].status = "APPROVED" => payouts'[p].status = "CANCELLED"
      /\ \A q \in PayoutId : payouts'[q].amount = payouts[q].amount
                             /\ (q # p => payouts'[q] = payouts[q])
  BY DEF ApprovePayout, CancelPayout, Open, IInv, TypeOK
<1>2. \A q \in PayoutId : Lines(q)' = Lines(q) /\ (Open(q)' => Open(q))
  BY <1>1 DEF Lines, Open
<1>3. PaidWithinReleased' /\ PayoutsAgreeWithLedger' /\ FreshIsEmpty'
  BY <1>1 DEF IInv, Rows, PaidWithinReleased, PayoutsAgreeWithLedger, FreshIsEmpty,
              entVars, ledgerVars
<1>4. OneOpenPayout'
  BY <1>2 DEF IInv, Rows, OneOpenPayout
<1>5. LaterRunsAreEmpty'
  BY <1>1 DEF IInv, Rows, LaterRunsAreEmpty
<1>6. PostedIsClosed'
  BY <1>1 DEF IInv, Rows, PostedIsClosed, PayoutKey, ledgerVars
<1>7. ASSUME NEW v \in Worker
      PROVE  Current(v)'
  <2>1. ReleaseIsCurrent(v)' /\ RevisionIsCurrent(v)'
    BY <1>1 DEF IInv, Current, ReleaseIsCurrent, RevisionIsCurrent, entVars
  <2>2. BuildIsCurrent(v)'
    BY <1>1, <1>2 DEF IInv, Current, BuildIsCurrent, Claimed
  <2>3. PaymentIsCurrent(v)'
    <3> SUFFICES ASSUME job[v].kind = "pay"
                 PROVE  LET q == job[v].payout
                        IN  /\ payouts'[q].status \in {"APPROVED", "CANCELLED"}
                            /\ \A e \in Entitlement :
                                 /\ payouts'[q].amount[e] <= released[e] - paid[e]
                                 /\ PayoutKey(q, e) \notin posted
      BY <1>1 DEF PaymentIsCurrent, PayoutKey, entVars, ledgerVars
    <3>1. job[v].payout \in PayoutId
      BY JobKinds DEF IInv
    <3> QED
      BY <1>1, <3>1 DEF IInv, Current, PaymentIsCurrent
  <2> QED
    BY <2>1, <2>2, <2>3 DEF Current
<1> QED
  BY <1>3, <1>4, <1>5, <1>6, <1>7 DEF Rows

LEMMA StepElsewhere ==
  ASSUME IInv, UNCHANGED <<entVars, ledgerVars, payouts, job>>, counts'.runs = counts.runs
  PROVE  Rows' /\ \A v \in Worker : Current(v)'
<1>1. Rows'
  BY DEF IInv, Rows, PaidWithinReleased, OneOpenPayout, PayoutsAgreeWithLedger, FreshIsEmpty,
         LaterRunsAreEmpty, PostedIsClosed, PayoutKey, entVars, ledgerVars, Open, Lines
<1>2. ASSUME NEW v \in Worker
      PROVE  Current(v)'
  <2>1. Current(v)
    BY DEF IInv
  <2>2. ReleaseIsCurrent(v)' /\ RevisionIsCurrent(v)'
    BY <2>1 DEF Current, ReleaseIsCurrent, RevisionIsCurrent, entVars
  <2>3. BuildIsCurrent(v)' /\ PaymentIsCurrent(v)'
    BY <2>1 DEF Current, BuildIsCurrent, PaymentIsCurrent, PayoutKey, Claimed, Open, Lines,
                entVars, ledgerVars
  <2> QED
    BY <2>2, <2>3 DEF Current
<1> QED
  BY <1>1, <1>2

LEMMA IInvNext == ASSUME Serial PROVE IInv /\ [Next]_vars => IInv'
<1> SUFFICES ASSUME IInv, [Next]_vars
             PROVE  IInv'
  OBVIOUS
<1>1. TypeOK'
  BY TypeNext DEF IInv
<1>2. CASE UNCHANGED vars
  BY <1>1, <1>2, StepElsewhere DEF IInv, vars, payoutVars
<1>3. CASE (\E r \in Realtor : ChangeStanding(r)) \/ ChangePlan
  <2>1. /\ UNCHANGED <<entVars, ledgerVars, payouts, job>>
        /\ counts'.runs = counts.runs
    BY <1>3 DEF ChangeStanding, ChangePlan, payoutVars, IInv, TypeOK
  <2> QED
    BY <1>1, <2>1, StepElsewhere DEF IInv
<1> QED
  BY <1>1, <1>2, <1>3, StepReading, StepAccrueAndRead, StepCommitRelease, StepCommitPayouts,
     StepRecordPaid, StepCommitRevision, StepClosing
  DEF IInv, Next

LEMMA IInvAlways == ASSUME Serial PROVE Spec => []IInv
<1>1. IInv /\ [Next]_vars => IInv'
  BY IInvNext
<1> QED
  BY IInvInit, <1>1, PTL DEF Spec

(* While the requests of the store follow one another, whatever the order  *)
(* of payments, releases, payout runs, cancellations, revisions, lapses    *)
(* and failures, a realtor is never paid more than was released to them,   *)
(* nor is more released than they are entitled to, but for what had been   *)
(* paid when the entitlement was revised below it.                         *)
THEOREM PaidIsReleased ==
  ASSUME Serial PROVE Spec => []PaidWithinReleased
<1>1. IInv => PaidWithinReleased
  BY DEF IInv, Rows
<1> QED
  BY <1>1, IInvAlways, PTL

(* Nor is a released line ever claimed by two payouts that are open.       *)
THEOREM PayoutsAreApart ==
  ASSUME Serial PROVE Spec => []OneOpenPayout
<1>1. IInv => OneOpenPayout
  BY DEF IInv, Rows
<1> QED
  BY <1>1, IInvAlways, PTL

(* And the ledger says of every payment what the entitlement says, although *)
(* an entry whose key is already posted is skipped without a word: no      *)
(* payment of a line is ever skipped.                                      *)
THEOREM LedgerSaysWhatIsPaid ==
  ASSUME Serial PROVE Spec => []PayoutsAgreeWithLedger
<1>1. IInv => PayoutsAgreeWithLedger
  BY DEF IInv, Rows
<1> QED
  BY <1>1, IInvAlways, PTL

-----------------------------------------------------------------------------
(***************************************************************************)
(* What a deal may still come to release.  A line that is not recorded yet *)
(* may release what it will be allocated; one that a release can touch,    *)
(* what it holds now; any other line has released what it ever will.       *)
(***************************************************************************)
CanRelease(e) == status[e] \in {"ACCRUED", "PARTIALLY_RELEASED"}

Ceiling(e) ==
  IF status[e] = "NONE" THEN Entitled[e]
  ELSE IF CanRelease(e) THEN Greater(constrained[e], released[e])
  ELSE released[e]

Ceilings == [e \in Entitlement |-> Ceiling(e)]

CeilingsHold ==
  \A d \in Deal :
    SumFunctionOnSet(Ceilings, OnDeal(d)) <= SumFunctionOnSet(Entitled, OnDeal(d))

ReleaseIsOpen(w) ==
  job[w].kind = "release" =>
    /\ job[w].lines \subseteq OnDeal(job[w].deal)
    /\ \A e \in job[w].lines : CanRelease(e)

DealInv == IInv /\ CeilingsHold /\ \A w \in Worker : ReleaseIsOpen(w)

LEMMA RowsAreFinite == IsFiniteSet(Entitlement) /\ \A d : IsFiniteSet(OnDeal(d))
<1>1. Rank \in Surjection(1..Len(Rank), Entitlement)
  BY FamilyAssumption DEF Surjection, Range
<1>2. IsFiniteSet(1..Len(Rank))
  BY FamilyAssumption, FS_Interval
<1>3. IsFiniteSet(Entitlement)
  BY <1>1, <1>2, FS_Surjection
<1> QED
  BY <1>3, FS_Subset DEF OnDeal

LEMMA CeilingsAreWhole ==
  ASSUME TypeOK PROVE \A d : WholeOn(Ceilings, OnDeal(d)) /\ WholeOn(Entitled, OnDeal(d))
BY AmountAssumption DEF TypeOK, Amounts, WholeOn, Ceilings, Ceiling, Greater, OnDeal

LEMMA CeilingsInit == Init => DealInv
<1> SUFFICES ASSUME Init PROVE DealInv
  OBVIOUS
<1>1. IInv /\ TypeOK
  BY IInvInit DEF IInv
<1>2. \A e \in Entitlement : Ceilings[e] = Entitled[e]
  BY DEF Init, Ceilings, Ceiling
<1>3. ASSUME NEW d \in Deal
      PROVE  SumFunctionOnSet(Ceilings, OnDeal(d)) <= SumFunctionOnSet(Entitled, OnDeal(d))
  <2>1. SumFunctionOnSet(Ceilings, OnDeal(d)) = SumFunctionOnSet(Entitled, OnDeal(d))
    BY <1>1, <1>2, RowsAreFinite, CeilingsAreWhole, SumAgrees DEF OnDeal
  <2>2. SumFunctionOnSet(Entitled, OnDeal(d)) \in Int
    BY <1>1, RowsAreFinite, CeilingsAreWhole, SumIsInteger
  <2> QED
    BY <2>1, <2>2
<1>4. \A w \in Worker : ReleaseIsOpen(w)
  BY DEF Init, Idle, ReleaseIsOpen
<1> QED
  BY <1>1, <1>3, <1>4 DEF DealInv, CeilingsHold

(* Lower ceilings hold where higher ones did.                              *)
LEMMA CeilingsLower ==
  ASSUME TypeOK, TypeOK', CeilingsHold, \A e \in Entitlement : Ceilings'[e] <= Ceilings[e]
  PROVE  CeilingsHold'
<1> SUFFICES ASSUME NEW d \in Deal
             PROVE  SumFunctionOnSet(Ceilings', OnDeal(d)) <= SumFunctionOnSet(Entitled, OnDeal(d))
  BY DEF CeilingsHold, OnDeal
<1> DEFINE before == Ceilings
           after  == Ceilings'
           D      == OnDeal(d)
<1>1. IsFiniteSet(D) /\ WholeOn(before, D) /\ WholeOn(Entitled, D)
  BY RowsAreFinite, CeilingsAreWhole
<1>2. WholeOn(after, D)
  BY AmountAssumption DEF TypeOK, Amounts, WholeOn, Ceilings, Ceiling, Greater, OnDeal
<1>3. \A e \in D : after[e] <= before[e]
  BY DEF OnDeal
<1>4. SumFunctionOnSet(before, D) <= SumFunctionOnSet(Entitled, D)
  BY DEF CeilingsHold
<1> HIDE DEF before, after, D
<1>5. SumFunctionOnSet(after, D) <= SumFunctionOnSet(before, D)
  BY <1>1, <1>2, <1>3, SumAtMost
<1>6. /\ SumFunctionOnSet(after, D) \in Int /\ SumFunctionOnSet(before, D) \in Int
      /\ SumFunctionOnSet(Entitled, D) \in Int
  BY <1>1, <1>2, SumIsInteger
<1> QED
  BY <1>4, <1>5, <1>6 DEF before, after, D

(* What the heirs gain is what was divided, at most.                       *)
LEMMA PotIsShared ==
  ASSUME TypeOK, NEW w \in Worker, job[w].kind = "release", ReleaseIsOpen(w),
         NEW D, D = OnDeal(job[w].deal)
  PROVE  LET j == job[w]
         IN  /\ Pot(j) \in Nat
             /\ SumFunctionOnSet(Gain(j), D) <= Pot(j)
<1> DEFINE j      == job[w]
           H      == Heirs(j)
           lost   == Lost(j)
           gain   == Gain(j)
           weight == HeirWeight(j)
           pot    == Pot(j)
           weights == [i \in DOMAIN Rank |-> weight[Rank[i]]]
           shares == AllocateByWeight(pot, weights)
           place  == [e \in Entitlement |-> CHOOSE i \in DOMAIN Rank : Rank[i] = e]
           S      == DOMAIN Rank
<1>1. /\ j.lines \subseteq Entitlement /\ j.lines \subseteq D /\ IsFiniteSet(D)
      /\ j.entitled \in [Entitlement -> Nat] /\ D \subseteq Entitlement
  BY JobKinds, RowsAreFinite DEF ReleaseIsOpen, Amounts, OnDeal
<1>2. /\ Lapsed(j) \subseteq j.lines /\ H \subseteq j.lines
      /\ \A e \in Lapsed(j) : lost[e] \in Nat
      /\ \A e \in Entitlement : gain[e] \in Nat
  BY ReleaseFigures DEF Lapsed, Due, Heirs
<1>3. IsFiniteSet(Lapsed(j)) /\ Lapsed(j) \in SUBSET Lapsed(j)
  BY <1>1, <1>2, FS_Subset
<1>4. pot \in Nat
  <2> HIDE DEF j, lost
  <2>1. SumFunctionOnSet(lost, Lapsed(j)) \in Nat
    BY <1>2, <1>3, SumOfPart
  <2> QED
    BY <2>1 DEF Pot, lost
<1>5. H \in SUBSET D /\ IsFiniteSet(H) /\ WholeOn(gain, D) /\ WholeOn(gain, H)
  BY <1>1, <1>2, FS_Subset DEF WholeOn
<1>6. \A e \in D \ H : gain[e] = 0
  BY <1>1 DEF Gain
<1>7. SumFunctionOnSet(gain, D) = SumFunctionOnSet(gain, H)
  <2> HIDE DEF gain, H
  <2> QED
    BY <1>1, <1>5, <1>6, SumOfSupport
<1>8. CASE H = {}
  <2>1. SumFunctionOnSet(gain, H) = 0
    BY <1>8, SumOfNone
  <2> QED
    BY <1>4, <1>7, <2>1
<1>9. CASE H # {}
  <2>1. \A i \in S : Rank[i] \in Entitlement
    BY FamilyAssumption
  <2>2. \A e \in Entitlement : place[e] \in S /\ Rank[place[e]] = e
    BY FamilyAssumption DEF Range
  <2>3. IsFiniteSet(S) /\ S \subseteq Int
    BY FamilyAssumption, FS_Interval
  <2>4. \A e \in Entitlement : weight[e] = IF e \in H THEN j.entitled[e] ELSE 0
    BY DEF HeirWeight
  <2>5. \A i \in S : weights[i] \in Nat
    BY <1>1, <2>1, <2>4
  <2>6. PICK x \in S : weights[x] > 0
    <3>1. PICK e \in H : e \in Entitlement /\ j.entitled[e] > 0
      BY <1>1, <1>2, <1>9 DEF Heirs
    <3> QED
      BY <2>2, <2>4, <3>1
  <2>7. AsWeights(weights) = weights
    BY <2>5 DEF AsWeights, AsMinor, Greater
  <2>8. IsWeighting(weights)
    <3> HIDE DEF weights, S
    <3>1. DOMAIN weights = S /\ weights = [i \in S |-> weights[i]]
      BY DEF weights, S
    <3>2. SumFunctionOnSet(weights, S) \in Nat /\ SumFunctionOnSet(weights, {x}) <= SumFunctionOnSet(weights, S)
      <4>1. S \in SUBSET S /\ {x} \in SUBSET S
        BY <2>6
      <4> QED
        BY <2>3, <2>5, <4>1, SumOfPart
    <3>3. SumFunctionOnSet(weights, {x}) = weights[x]
      <4>1. IsFiniteSet({x}) /\ WholeOn(weights, {x}) /\ x \in {x} /\ {x} \ {x} = {}
        BY <2>5, <2>6, FS_Singleton DEF WholeOn
      <4>2. SumFunctionOnSet(weights, {x}) = weights[x] + SumFunctionOnSet(weights, {x} \ {x})
        BY <4>1, SumWithout
      <4>3. SumFunctionOnSet(weights, {x} \ {x}) = 0
        BY <4>1, SumOfNone
      <4> QED
        BY <2>5, <2>6, <4>2, <4>3
    <3>4. SumFunction(weights) = SumFunctionOnSet(weights, S)
      BY <3>1 DEF SumFunction
    <3>5. weights \in [S -> Nat]
      BY <2>5, <3>1
    <3> QED
      BY <2>3, <2>5, <2>6, <3>1, <3>2, <3>3, <3>4, <3>5 DEF IsWeighting
  <2>9. shares \in [S -> Int] /\ SumFunction(shares) = pot
    <3>1. DOMAIN weights = S
      OBVIOUS
    <3> HIDE DEF weights, pot, S
    <3>2. IsWeighting(AsWeights(weights)) /\ pot \in Int
      BY <1>4, <2>7, <2>8
    <3>3. /\ AllocateByWeight(pot, weights) \in [DOMAIN weights -> Int]
          /\ SumFunction(AllocateByWeight(pot, weights)) = pot
      BY ONLY <3>2, AllocationIsExact
    <3> QED
      BY ONLY <3>1, <3>3
  <2>10. \A i \in S : shares[i] \in Nat
    <3>1. DOMAIN weights = S /\ AsMinor(pot) >= 0
      BY <1>4 DEF AsMinor
    <3> HIDE DEF weights, pot, S
    <3> QED
      BY <3>1, AllocateType
  <2>11. \A e \in H : gain[e] = IF pot <= 0 THEN 0 ELSE shares[place[e]]
    <3>1. AsMinor(pot) = pot
      BY <1>4 DEF AsMinor
    <3>2. \A e \in Entitlement :
            Redistributed(pot, Rank, weight)[e] = IF pot <= 0 THEN 0 ELSE shares[place[e]]
      <4> HIDE DEF pot, weight
      <4> QED
        BY <3>1, FamilyAssumption DEF Redistributed
    <3>3. \A e \in H : gain[e] = Redistributed(pot, Rank, weight)[e]
      BY <1>1, <1>2 DEF Gain
    <3> HIDE DEF pot, weight, gain, H
    <3> QED
      BY <1>1, <1>2, <3>2, <3>3
  <2>12. CASE pot <= 0
    <3>1. \A e \in D \ {} : gain[e] = 0
      BY <1>6, <2>11, <2>12
    <3>2. {} \in SUBSET D /\ SumFunctionOnSet(gain, {}) = 0
      BY SumOfNone
    <3> HIDE DEF gain
    <3>3. SumFunctionOnSet(gain, D) = SumFunctionOnSet(gain, {})
      BY <1>1, <1>5, <3>1, <3>2, SumOfSupport
    <3> HIDE DEF pot, H
    <3>4. SumFunctionOnSet(gain, D) <= pot
      BY <1>4, <3>2, <3>3
    <3> QED
      BY <1>4, <3>4 DEF pot, gain
  <2>13. CASE pot > 0
    <3> DEFINE image == {place[e] : e \in H}
    <3>1. image \in SUBSET S /\ \A e \in H : shares[place[e]] = gain[e]
      <4> HIDE DEF S, H, gain, shares, pot, place
      <4>1. \A e \in H : e \in Entitlement
        BY <1>1, <1>2
      <4> QED
        BY <1>4, <2>2, <2>11, <2>13, <4>1
    <3>2. \A a, b \in H : place[a] = place[b] => a = b
      BY <1>1, <1>2, <2>2
    <3>3. SumFunction(shares) = SumFunctionOnSet(shares, S)
      BY <2>9 DEF SumFunction
    <3>4. SumFunctionOnSet(shares, image) = SumFunctionOnSet(gain, H)
      <4> HIDE DEF shares, gain, place, H
      <4> QED
        BY <1>5, <3>1, <3>2, SumCarriedOver
    <3> HIDE DEF shares, image, S, gain, H, pot
    <3>5. SumFunctionOnSet(shares, image) <= SumFunctionOnSet(shares, S)
      BY <2>3, <2>10, <3>1, SumOfPart
    <3>6. SumFunctionOnSet(gain, D) <= pot
      BY <1>7, <2>9, <3>3, <3>4, <3>5
    <3> QED
      BY <1>4, <3>6 DEF pot, gain
  <2> QED
    BY <1>4, <2>12, <2>13
<1> QED
  BY <1>8, <1>9

(* A release moves each ceiling of the deal down by what the line lost and *)
(* up by what it gained.                                                   *)
LEMMA ReleaseCeiling ==
  ASSUME DealInv, NEW w \in Worker, CommitRelease(w), NEW e \in Entitlement
  PROVE  LET j    == job[w]
             lost == IF e \in Lapsed(j) THEN Lost(j)[e] ELSE 0
         IN  /\ Ceilings'[e] + lost <= Ceilings[e] + Gain(j)[e]
             /\ e \notin OnDeal(j.deal) => Ceilings'[e] <= Ceilings[e]
<1> DEFINE j == job[w]
<1>1. /\ j.kind = "release" /\ j.lines \subseteq OnDeal(j.deal)
      /\ j.entitled = constrained /\ j.already = released
      /\ \A f \in j.lines : CanRelease(f)
  BY DEF CommitRelease, DealInv, IInv, Current, ReleaseIsCurrent, ReleaseIsOpen
<1>2. /\ constrained[e] \in Nat /\ released[e] \in Nat /\ Entitled[e] \in Nat
      /\ Vested(j)[e] \in 0..constrained[e] /\ Gain(j)[e] \in Nat
      /\ e \in Due(j) => StepOf(j)[e] \in Nat /\ Lost(j)[e] \in Nat
  BY <1>1, ReleaseFigures, AmountAssumption DEF DealInv, IInv, TypeOK, Amounts
<1>3. /\ constrained'[e] = constrained[e] + Gain(j)[e]
      /\ released'[e] = IF e \in Vests(j) THEN Vested(j)[e] ELSE released[e]
      /\ status'[e] = IF e \in Lapsed(j) THEN IF OnHold THEN "HELD" ELSE "FORFEITED"
                      ELSE IF e \notin Vests(j) THEN status[e]
                      ELSE IF Vested(j)[e] >= constrained[e] THEN "RELEASED"
                      ELSE "PARTIALLY_RELEASED"
  BY DEF CommitRelease
<1>4. /\ e \in Vests(j) => e \in Due(j) /\ e \notin Lapsed(j)
      /\ e \in Lapsed(j) => e \in Due(j)
      /\ e \in Due(j) => e \in j.lines
      /\ e \notin j.lines => e \notin Heirs(j)
  BY DEF Vests, Lapsed, Due, Heirs
<1>5. /\ Ceilings[e] = Ceiling(e)
      /\ Ceilings'[e] = IF status'[e] = "NONE" THEN Entitled[e]
                        ELSE IF status'[e] \in {"ACCRUED", "PARTIALLY_RELEASED"}
                        THEN Greater(constrained'[e], released'[e]) ELSE released'[e]
  BY DEF Ceilings, Ceiling, CanRelease
<1>6. CASE e \notin j.lines
  <2>1. Gain(j)[e] = 0
    BY <1>4, <1>6 DEF Gain
  <2>2. Ceilings'[e] = Ceilings[e] /\ Ceilings[e] \in Int
    BY <1>2, <1>3, <1>4, <1>5, <1>6, <2>1 DEF Ceiling, CanRelease, Greater
  <2> QED
    BY <1>4, <1>6, <2>1, <2>2
<1>7. CASE e \in j.lines
  <2>1. e \in OnDeal(j.deal)
    BY <1>1, <1>7
  <2>2. Ceilings[e] = Greater(constrained[e], released[e]) /\ status[e] # "NONE"
    BY <1>1, <1>5, <1>7 DEF Ceiling, CanRelease
  <2>3. CASE e \in Lapsed(j)
    <3>1. Ceilings'[e] = released[e]
      BY <1>3, <1>4, <1>5, <2>3
    <3>2. Lost(j)[e] <= Greater(constrained[e] - released[e], 0)
      BY <1>1, <1>2, <2>3 DEF Lost, LostOnLapse, Greater
    <3> QED
      BY <1>2, <1>4, <2>1, <2>2, <2>3, <3>1, <3>2 DEF Greater
  <2>4. CASE e \in Vests(j)
    BY <1>2, <1>3, <1>4, <1>5, <2>1, <2>2, <2>4 DEF Greater
  <2>5. CASE e \notin Lapsed(j) /\ e \notin Vests(j)
    BY <1>1, <1>2, <1>3, <1>5, <1>7, <2>1, <2>2, <2>5 DEF Greater, CanRelease
  <2> QED
    BY <2>3, <2>4, <2>5
<1> QED
  BY <1>6, <1>7

LEMMA ReleaseWithin ==
  ASSUME DealInv, TypeOK', NEW w \in Worker, CommitRelease(w)
  PROVE  CeilingsHold'
<1> SUFFICES ASSUME NEW d \in Deal
             PROVE  SumFunctionOnSet(Ceilings', OnDeal(d)) <= SumFunctionOnSet(Entitled, OnDeal(d))
  BY DEF CeilingsHold, OnDeal
<1> DEFINE j      == job[w]
           D      == OnDeal(d)
           before == Ceilings
           after  == Ceilings'
           gain   == Gain(j)
           lost   == Lost(j)
           fall   == [e \in Entitlement |-> IF e \in Lapsed(j) THEN lost[e] ELSE 0]
           left   == [e \in Entitlement |-> after[e] + fall[e]]
           right  == [e \in Entitlement |-> before[e] + gain[e]]
<1>1. /\ IsFiniteSet(D) /\ D \subseteq Entitlement
      /\ WholeOn(before, D) /\ WholeOn(Entitled, D)
  BY RowsAreFinite, CeilingsAreWhole DEF OnDeal, DealInv, IInv
<1>2. WholeOn(after, D)
  BY AmountAssumption DEF TypeOK, Amounts, WholeOn, Ceilings, Ceiling, Greater, OnDeal
<1>3. SumFunctionOnSet(before, D) <= SumFunctionOnSet(Entitled, D)
  BY DEF DealInv, CeilingsHold
<1>4. /\ \A e \in D : after[e] + fall[e] <= before[e] + gain[e]
      /\ d # j.deal => \A e \in D : after[e] <= before[e]
  BY <1>1, ReleaseCeiling DEF OnDeal
<1>5. /\ SumFunctionOnSet(after, D) \in Int /\ SumFunctionOnSet(before, D) \in Int
      /\ SumFunctionOnSet(Entitled, D) \in Int
  <2> HIDE DEF after, before, D
  <2> QED
    BY <1>1, <1>2, SumIsInteger
<1>6. CASE d # j.deal
  <2>1. \A e \in D : after[e] <= before[e]
    BY <1>4, <1>6
  <2> HIDE DEF after, before, D
  <2>2. SumFunctionOnSet(after, D) <= SumFunctionOnSet(before, D)
    BY <1>1, <1>2, <2>1, SumAtMost
  <2> QED
    BY <1>3, <1>5, <2>2 DEF after, before, D
<1>7. CASE d = j.deal
  <2>1. /\ TypeOK /\ j.kind = "release" /\ ReleaseIsOpen(w) /\ D = OnDeal(j.deal)
        /\ j.lines \subseteq D
    BY <1>7 DEF DealInv, IInv, CommitRelease, ReleaseIsOpen
  <2>2. /\ \A e \in Entitlement : gain[e] \in Nat
        /\ Lapsed(j) \in SUBSET D /\ \A e \in Lapsed(j) : lost[e] \in Nat
    BY <2>1, ReleaseFigures DEF Lapsed, Due
  <2>3. Pot(j) \in Nat /\ SumFunctionOnSet(gain, D) <= Pot(j)
    BY <2>1, PotIsShared
  <2>4. WholeOn(fall, D) /\ WholeOn(gain, D) /\ WholeOn(left, D) /\ WholeOn(right, D)
    BY <1>1, <1>2, <2>2 DEF WholeOn
  <2>5. SumFunctionOnSet(fall, D) = Pot(j)
    <3>1. \A e \in D \ Lapsed(j) : fall[e] = 0
      BY <1>1
    <3>2. SumFunctionOnSet(fall, D) = SumFunctionOnSet(fall, Lapsed(j))
      <4> HIDE DEF fall, D, j
      <4> QED
        BY <1>1, <2>2, <2>4, <3>1, SumOfSupport
    <3>3. IsFiniteSet(Lapsed(j)) /\ WholeOn(lost, Lapsed(j))
          /\ \A e \in Lapsed(j) : fall[e] = lost[e]
      BY <1>1, <2>2, FS_Subset DEF WholeOn
    <3>4. SumFunctionOnSet(lost, Lapsed(j)) = SumFunctionOnSet(fall, Lapsed(j))
      <4> HIDE DEF fall, lost, j
      <4> QED
        BY <3>3, SumAgrees
    <3> QED
      BY <3>2, <3>4 DEF Pot
  <2>6. /\ \A e \in D : left[e] = after[e] + fall[e]
        /\ \A e \in D : right[e] = before[e] + gain[e]
        /\ \A e \in D : left[e] <= right[e]
    BY <1>1, <1>4
  <2> HIDE DEF left, right, after, before, gain, fall, D
  <2>7. SumFunctionOnSet(left, D) <= SumFunctionOnSet(right, D)
    BY <1>1, <2>4, <2>6, SumAtMost
  <2>8. SumFunctionOnSet(left, D) = SumFunctionOnSet(after, D) + SumFunctionOnSet(fall, D)
    BY <1>1, <1>2, <2>4, <2>6, SumOfSums
  <2>9. SumFunctionOnSet(right, D) = SumFunctionOnSet(before, D) + SumFunctionOnSet(gain, D)
    BY <1>1, <2>4, <2>6, SumOfSums
  <2>10. SumFunctionOnSet(gain, D) \in Int
    BY <1>1, <2>4, SumIsInteger
  <2>11. SumFunctionOnSet(after, D) <= SumFunctionOnSet(Entitled, D)
    BY <1>3, <1>5, <2>3, <2>5, <2>7, <2>8, <2>9, <2>10
  <2> QED
    BY <2>11 DEF after, D
<1> QED
  BY <1>6, <1>7

(* No other request raises a ceiling.                                      *)
LEMMA AccrualCeilings ==
  ASSUME DealInv, NEW w \in Worker, AccrueAndRead(w)
  PROVE  \A e \in Entitlement : Ceilings'[e] <= Ceilings[e]
<1> SUFFICES ASSUME NEW e \in Entitlement PROVE Ceilings'[e] <= Ceilings[e]
  OBVIOUS
<1>1. /\ released' = released
      /\ constrained'[e] = IF status[e] = "NONE" /\ e \in OnDeal(job[w].deal)
                           THEN Entitled[e] ELSE constrained[e]
      /\ status'[e] = IF status[e] = "NONE" /\ e \in OnDeal(job[w].deal)
                      THEN "ACCRUED" ELSE status[e]
  BY DEF AccrueAndRead, OnDeal
<1>2. /\ constrained[e] \in Nat /\ released[e] \in Nat /\ Entitled[e] \in Nat
      /\ status[e] = "NONE" => released[e] = 0
  BY AmountAssumption DEF DealInv, IInv, TypeOK, Amounts, Rows, FreshIsEmpty
<1>3. /\ Ceilings[e] = Ceiling(e)
      /\ Ceilings'[e] = IF status'[e] = "NONE" THEN Entitled[e]
                        ELSE IF status'[e] \in {"ACCRUED", "PARTIALLY_RELEASED"}
                        THEN Greater(constrained'[e], released'[e]) ELSE released'[e]
  BY DEF Ceilings, Ceiling, CanRelease
<1> QED
  BY <1>1, <1>2, <1>3 DEF Ceiling, CanRelease, Greater

LEMMA PaymentCeilings ==
  ASSUME DealInv, NEW w \in Worker, RecordPaid(w)
  PROVE  \A e \in Entitlement : Ceilings'[e] <= Ceilings[e]
<1> SUFFICES ASSUME NEW e \in Entitlement PROVE Ceilings'[e] <= Ceilings[e]
  OBVIOUS
<1> DEFINE p == job[w].payout
<1>1. /\ UNCHANGED <<constrained, released>>
      /\ status'[e] = IF e \in Lines(p) THEN "PAID" ELSE status[e]
  BY DEF RecordPaid
<1>2. /\ constrained[e] \in Nat /\ released[e] \in Nat /\ paid[e] \in Nat /\ Entitled[e] \in Nat
      /\ status[e] = "NONE" => released[e] = 0
  BY AmountAssumption DEF DealInv, IInv, TypeOK, Amounts, Rows, FreshIsEmpty
<1>3. /\ Ceilings[e] = Ceiling(e)
      /\ Ceilings'[e] = IF status'[e] = "NONE" THEN Entitled[e]
                        ELSE IF status'[e] \in {"ACCRUED", "PARTIALLY_RELEASED"}
                        THEN Greater(constrained'[e], released'[e]) ELSE released'[e]
  BY DEF Ceilings, Ceiling, CanRelease
<1> HIDE DEF p
<1> QED
  BY <1>1, <1>2, <1>3 DEF Ceiling, CanRelease, Greater

LEMMA RevisionCeilings ==
  ASSUME DealInv, NEW w \in Worker, CommitRevision(w)
  PROVE  \A e \in Entitlement : Ceilings'[e] <= Ceilings[e]
<1> SUFFICES ASSUME NEW e \in Entitlement PROVE Ceilings'[e] <= Ceilings[e]
  OBVIOUS
<1> DEFINE j == job[w]
           shrunk == {f \in j.lines : ~j.outcome[f].unchanged}
<1>1. /\ constrained'[e] = IF e \in shrunk THEN j.outcome[e].revised ELSE constrained[e]
      /\ released'[e] = IF e \in shrunk THEN Greater(j.already[e] - j.outcome[e].offset, 0)
                        ELSE released[e]
      /\ status'[e] = IF e \in shrunk /\ j.outcome[e].revised = 0 THEN "REVERSED" ELSE status[e]
  BY DEF CommitRevision
<1>2. j.kind = "revise" /\ j.already = released
  BY DEF CommitRevision, DealInv, IInv, Current, RevisionIsCurrent
<1>3. PICK f \in Nat : j.outcome[e] = ReverseLine(constrained[e], released[e], paid[e], f)
  BY <1>2 DEF DealInv, IInv, Current, RevisionIsCurrent
<1>4. /\ constrained[e] \in Nat /\ released[e] \in Nat /\ paid[e] \in Nat /\ Entitled[e] \in Nat
      /\ status[e] = "NONE" => released[e] = 0
      /\ paid[e] <= released[e]
  BY AmountAssumption DEF DealInv, IInv, TypeOK, Amounts, Rows, FreshIsEmpty, PaidWithinReleased
<1>5. ~j.outcome[e].unchanged =>
        /\ j.outcome[e].revised \in Nat /\ j.outcome[e].revised <= constrained[e]
        /\ j.outcome[e].offset \in Nat
  BY <1>3, <1>4 DEF ReverseLine, Cancellable, Offsettable, Greater, Lesser
<1>6. /\ Ceilings[e] = Ceiling(e)
      /\ Ceilings'[e] = IF status'[e] = "NONE" THEN Entitled[e]
                        ELSE IF status'[e] \in {"ACCRUED", "PARTIALLY_RELEASED"}
                        THEN Greater(constrained'[e], released'[e]) ELSE released'[e]
  BY DEF Ceilings, Ceiling, CanRelease
<1>7. e \in shrunk => ~j.outcome[e].unchanged
  OBVIOUS
<1> HIDE DEF j, shrunk
<1>8. CASE e \in shrunk
  <2>1. released'[e] \in Nat /\ released'[e] <= released[e]
    BY <1>1, <1>2, <1>4, <1>5, <1>7, <1>8 DEF Greater
  <2>2. constrained'[e] \in Nat /\ constrained'[e] <= constrained[e]
    BY <1>1, <1>5, <1>7, <1>8
  <2>3. status'[e] \in {"REVERSED", status[e]}
    BY <1>1
  <2> QED
    BY <1>4, <1>6, <2>1, <2>2, <2>3 DEF Ceiling, CanRelease, Greater
<1>9. CASE e \notin shrunk
  BY <1>1, <1>4, <1>6, <1>9 DEF Ceiling, CanRelease, Greater
<1> QED
  BY <1>8, <1>9

LEMMA OtherCeilings ==
  ASSUME DealInv, UNCHANGED entVars
  PROVE  \A e \in Entitlement : Ceilings'[e] <= Ceilings[e]
<1>1. Ceilings' = Ceilings
  BY DEF entVars, Ceilings, Ceiling, CanRelease
<1>2. \A e \in Entitlement : Ceilings[e] \in Int
  BY AmountAssumption DEF DealInv, IInv, TypeOK, Amounts, Ceilings, Ceiling, Greater
<1> QED
  BY <1>1, <1>2

LEMMA DealNext == ASSUME Serial PROVE DealInv /\ [Next]_vars => DealInv'
<1> SUFFICES ASSUME DealInv, [Next]_vars PROVE DealInv'
  OBVIOUS
<1>1. IInv' /\ TypeOK /\ TypeOK' /\ CeilingsHold
  BY IInvNext DEF DealInv, IInv
<1>2. CeilingsHold' /\ \A v \in Worker : ReleaseIsOpen(v)'
  <2>1. ASSUME UNCHANGED <<entVars, job>> PROVE CeilingsHold' /\ \A v \in Worker : ReleaseIsOpen(v)'
    BY <1>1, <2>1, OtherCeilings, CeilingsLower DEF DealInv, ReleaseIsOpen, CanRelease, OnDeal, entVars
  <2>2. ASSUME NEW w \in Worker, NEW j, j.kind # "release", job' = [job EXCEPT ![w] = j]
        PROVE  \A v \in Worker : ReleaseIsOpen(v)'
    BY <1>1, <2>2 DEF Serial, ReleaseIsOpen, TypeOK
  <2>3. ASSUME NEW w \in Worker, AccrueAndRead(w)
        PROVE  CeilingsHold' /\ \A v \in Worker : ReleaseIsOpen(v)'
    <3>1. CeilingsHold'
      BY <1>1, <2>3, AccrualCeilings, CeilingsLower
    <3>2. \/ job'[w].kind = "idle"
          \/ /\ job'[w].deal = job[w].deal
             /\ job'[w].lines = {e \in OnDeal(job[w].deal) :
                                   status'[e] \in {"ACCRUED", "PARTIALLY_RELEASED"}}
      BY <1>1, <2>3 DEF AccrueAndRead, TypeOK, Idle
    <3>3. ReleaseIsOpen(w)'
      BY <3>2 DEF ReleaseIsOpen, CanRelease, OnDeal
    <3> QED
      BY <3>1, <3>3 DEF Serial
  <2>4. ASSUME NEW w \in Worker, CommitRelease(w)
        PROVE  CeilingsHold' /\ \A v \in Worker : ReleaseIsOpen(v)'
    BY <1>1, <2>2, <2>4, ReleaseWithin DEF CommitRelease, Idle
  <2>5. ASSUME NEW w \in Worker, RecordPaid(w)
        PROVE  CeilingsHold' /\ \A v \in Worker : ReleaseIsOpen(v)'
    BY <1>1, <2>2, <2>5, PaymentCeilings, CeilingsLower DEF RecordPaid, Idle
  <2>6. ASSUME NEW w \in Worker, CommitRevision(w)
        PROVE  CeilingsHold' /\ \A v \in Worker : ReleaseIsOpen(v)'
    BY <1>1, <2>2, <2>6, RevisionCeilings, CeilingsLower DEF CommitRevision, Idle
  <2>7. ASSUME NEW w \in Worker,
               \/ \E d \in Deal : PaymentApproved(w, d) \/ RecalculateInvoiceCommission(w, d)
               \/ RaiseFlatRate(w) \/ RollBack(w) \/ ReadPayable(w) \/ CommitPayouts(w)
               \/ \E p \in PayoutId : CheckPayout(w, p)
               \/ \E d \in Deal, f \in Revised : ReadForRevision(w, d, f)
        PROVE  CeilingsHold' /\ \A v \in Worker : ReleaseIsOpen(v)'
    <3>1. UNCHANGED entVars
      BY <2>7 DEF PaymentApproved, RecalculateInvoiceCommission, RaiseFlatRate, RollBack,
                  ReadPayable, CommitPayouts, CheckPayout, ReadForRevision
    <3>2. \E j : j.kind # "release" /\ job' = [job EXCEPT ![w] = j]
      BY <2>7 DEF PaymentApproved, RecalculateInvoiceCommission, RaiseFlatRate, RollBack,
                  ReadPayable, CommitPayouts, CheckPayout, ReadForRevision, Idle
    <3> QED
      BY <1>1, <2>2, <3>1, <3>2, OtherCeilings, CeilingsLower
  <2>8. CASE \/ \E p \in PayoutId : ApprovePayout(p) \/ CancelPayout(p)
             \/ \E r \in Realtor : ChangeStanding(r)
             \/ ChangePlan \/ UNCHANGED vars
    BY <2>1, <2>8 DEF ApprovePayout, CancelPayout, ChangeStanding, ChangePlan, vars
  <2> QED
    BY <2>3, <2>4, <2>5, <2>6, <2>7, <2>8 DEF Next
<1> QED
  BY <1>1, <1>2 DEF DealInv

LEMMA DealAlways == ASSUME Serial PROVE Spec => []DealInv
<1>1. DealInv /\ [Next]_vars => DealInv'
  BY DealNext
<1> QED
  BY CeilingsInit, <1>1, PTL DEF Spec

(* And whatever lapses is shared out, a deal never releases more than was  *)
(* allocated on it: each ceiling bounds what its line has released.        *)
THEOREM DealsStayWithinAccrual ==
  ASSUME Serial PROVE Spec => []DealWithinAccrual
<1>1. ASSUME DealInv PROVE DealWithinAccrual
  <2> SUFFICES ASSUME NEW d \in Deal
               PROVE  SumFunctionOnSet(released, OnDeal(d)) <= SumFunctionOnSet(Entitled, OnDeal(d))
    BY DEF DealWithinAccrual
  <2> DEFINE D == OnDeal(d)
  <2>1. TypeOK /\ IsFiniteSet(D) /\ WholeOn(Ceilings, D) /\ WholeOn(Entitled, D)
    BY <1>1, RowsAreFinite, CeilingsAreWhole DEF DealInv, IInv
  <2>2. \A e \in D : released[e] \in Nat /\ released[e] <= Ceilings[e]
    BY <1>1, <2>1, AmountAssumption
    DEF DealInv, IInv, Rows, FreshIsEmpty, TypeOK, Amounts, Ceilings, Ceiling, Greater, OnDeal
  <2>3. SumFunctionOnSet(Ceilings, D) <= SumFunctionOnSet(Entitled, D)
    BY <1>1 DEF DealInv, CeilingsHold
  <2>4. WholeOn(released, D)
    BY <2>2 DEF WholeOn
  <2> HIDE DEF D
  <2>5. SumFunctionOnSet(released, D) <= SumFunctionOnSet(Ceilings, D)
    BY <2>1, <2>2, <2>4, SumAtMost
  <2>6. /\ SumFunctionOnSet(released, D) \in Int /\ SumFunctionOnSet(Ceilings, D) \in Int
        /\ SumFunctionOnSet(Entitled, D) \in Int
    BY <2>1, <2>4, SumIsInteger
  <2>7. SumFunctionOnSet(released, D) <= SumFunctionOnSet(Entitled, D)
    BY <2>3, <2>5, <2>6
  <2> QED
    BY <2>7 DEF D
<1> QED
  BY <1>1, DealAlways, PTL
=============================================================================
