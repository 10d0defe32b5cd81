----------------------- MODULE CommissionSettlement -----------------------
(***************************************************************************)
(* The life of a commission after a sale: accrued and released as the      *)
(* buyer's payments are approved, batched into payouts, approved, paid,    *)
(* cancelled, and taken back when a deal shrinks                           *)
(* (shared/src/commissionStore.js, driven by the payment path of           *)
(* services/finance-service through commissionBridge.js and by             *)
(* commissionReportController.js).                                         *)
(*                                                                         *)
(* The store keeps no lock.  A release, a payout run, a payment and a      *)
(* revision each READ rows first and write them LATER, in one transaction. *)
(* A job of a worker is one such request between its read and its write;   *)
(* with several workers the requests interleave at their awaits.           *)
(*                                                                         *)
(* ClaimedByDraft, TakeAll and CopiedPayoutKey are plausible mistakes in   *)
(* the operator that follows them, used only to confirm that a property    *)
(* notices them.                                                           *)
(***************************************************************************)
EXTENDS CommissionRules

CONSTANTS
  Deal, Realtor, Entitlement,
  Worker,            \* requests that can be in flight at once
  DealOf, OwnerOf,   \* of each entitlement
  Entitled,          \* what the engine allocates to each entitlement
  NonCash,           \* entitlements settled by handing over a prize
  Upline,            \* entitlements earned as somebody's sponsor
  Rank,              \* the order of the rows of a deal
  Base,              \* the commissionable base, and the price, of a deal
  Plans,             \* plan versions a deal may have been attributed to
  AtFirst,           \* whether the plan is in force when the first payment comes
  Revised,           \* figures a deal may be recomputed to
  MaxRuns,           \* bound: payout runs
  MaxRevisions,      \* bound: revisions of deals
  MaxStandings,      \* bound: changes of a realtor's standing
  MaxPlanChanges     \* bound: activations and archivings of the plan

ASSUME FamilyAssumption ==
  /\ DealOf \in [Entitlement -> Deal]
  /\ OwnerOf \in [Entitlement -> Realtor]
  /\ NonCash \subseteq Entitlement
  /\ Upline \subseteq Entitlement
  /\ Rank \in Seq(Entitlement) /\ Range(Rank) = Entitlement

ASSUME AmountAssumption ==
  /\ Entitled \in [Entitlement -> Nat]
  /\ Base \in Nat \ {0}
  /\ Plans \subseteq Plan
  /\ Revised \subseteq Nat
  /\ AtFirst \subseteq BOOLEAN

ASSUME BoundAssumption ==
  /\ MaxRuns \in Nat /\ MaxRevisions \in Nat
  /\ MaxStandings \in Nat /\ MaxPlanChanges \in Nat

VARIABLES
  plan,         \* the plan version in force at the attribution date
  planActive,   \* resolvePlanVersion finds it
  receipts,     \* [Deal -> Nat]: approved payments against the deal's invoice
  flatRate,     \* deals with a flat-rate payable from commissionService
  active,       \* realtors whose status is active
  constrained, released, forfeited, paid, clawedBack, status,  \* commission_entitlements
  booked,       \* commission_ledger_entries of an entitlement: the sum per type
  posted,       \* the idempotency keys of the ledger
  receivables,  \* commission_receivables, by the revision that raised them
  payouts,      \* commission_payouts with their lines
  cashBook,     \* payouts with a row in transactions
  job,          \* what each worker's request has read and not yet written
  counts        \* how often the bounded events have happened

entVars     == <<constrained, released, forfeited, paid, clawedBack, status>>
ledgerVars  == <<booked, posted>>
payoutVars  == <<receivables, payouts, cashBook>>
marketVars  == <<plan, planActive, receipts, flatRate, active>>
vars == <<marketVars, entVars, ledgerVars, payoutVars, job, counts>>

-----------------------------------------------------------------------------
Status == {"NONE", "ACCRUED", "PARTIALLY_RELEASED", "RELEASED", "HELD", "FORFEITED",
           "REVERSED", "PAID"}

OnDeal(d) == {e \in Entitlement : DealOf[e] = d}

(* The rows a payout run selects.                                          *)
Batchable(e) == status[e] \in {"RELEASED", "PARTIALLY_RELEASED"}

PayoutId == (1..MaxRuns) \X Realtor

PayoutStatus == {"NONE", "DRAFT", "APPROVED", "PAID", "CANCELLED"}

NoLines == [e \in Entitlement |-> 0]

Lines(p) == {e \in Entitlement : payouts[p].amount[e] > 0}

Open(p) == payouts[p].status \in {"DRAFT", "APPROVED"}

(* Claimed by a payout that is still open.                                 *)
ClaimedByDraft(e) == \E p \in PayoutId : payouts[p].status = "DRAFT" /\ e \in Lines(p)

Claimed(e) == \E p \in PayoutId : Open(p) /\ e \in Lines(p)

PayableLines ==
  {e \in Entitlement : /\ released[e] > paid[e]
                       /\ Batchable(e)
                       /\ e \notin NonCash
                       /\ ~Claimed(e)}

Gross(amount) == SumFunction(amount)

WithheldOn(amount) ==
  Deducted(Gross(amount), <<[basis |-> "GROSS", type |-> "PERCENTAGE", value |-> plan.withholding]>>)

Net(p) ==
  Gross(payouts[p].amount) - WithheldOn(payouts[p].amount) - payouts[p].recovered

(* A receivable is raised by a revision against an entitlement.            *)
Receivable == (1..MaxRevisions) \X Entitlement

Remaining == [i \in Receivable |-> receivables[i].amount - receivables[i].recovered]

Mine(r) == {i \in Receivable : OwnerOf[i[2]] = r}

(* openReceivablesFor: what a realtor still owes back, oldest first.       *)
OwedBy(r) == SumFunctionOnSet(Remaining, Mine(r))

OlderThan(i) ==
  {h \in Mine(OwnerOf[i[2]]) :
     \/ h[1] < i[1]
     \/ h[1] = i[1] /\ \E m, n \in DOMAIN Rank : m < n /\ Rank[m] = h[2] /\ Rank[n] = i[2]}

(* What is left of a payout's recovery when the loop over the receivables  *)
(* reaches i, and what it takes from i.                                    *)
Outstanding(i, recovered) ==
  Greater(AsMinor(recovered - SumFunctionOnSet(Remaining, OlderThan(i))), 0)

TakeAll(i, recovered) == Outstanding(i, recovered)

Take(i, recovered) == Lesser(Remaining[i], Outstanding(i, recovered))

EntryType == {"ACCRUAL", "AWARD", "RELEASE", "FORFEIT", "HOLD", "ADJUSTMENT", "REVERSAL",
              "PAYOUT"}

(* postLedger for the entitlements of S: an entry whose idempotency key is *)
(* already there is silently skipped.                                      *)
Booking(type, S, amount, key) ==
  [e \in Entitlement |->
     IF e \in S /\ key[e] \notin posted THEN booked[type][e] + amount[e] ELSE booked[type][e]]

Keys(S, key) == {key[e] : e \in S}

ReleaseKey(e, amount) == <<"release", e, amount>>

(* The key of the entry that records a line of payout p as paid.           *)
CopiedPayoutKey(p, e) == ReleaseKey(e, payouts[p].amount[e])

PayoutKey(p, e) == <<"payout", p, e>>

Idle == [kind |-> "idle"]

Busy(w) == job[w].kind # "idle"

-----------------------------------------------------------------------------
Init ==
  /\ plan \in Plans
  /\ planActive \in AtFirst
  /\ receipts = [d \in Deal |-> 0]
  /\ flatRate = {}
  /\ active = Realtor
  /\ constrained = NoLines /\ released = NoLines /\ forfeited = NoLines
  /\ paid = NoLines /\ clawedBack = NoLines
  /\ status = [e \in Entitlement |-> "NONE"]
  /\ booked = [t \in EntryType |-> NoLines]
  /\ posted = {}
  /\ receivables = [i \in Receivable |-> [amount |-> 0, recovered |-> 0]]
  /\ payouts = [p \in PayoutId |-> [status |-> "NONE", amount |-> NoLines, recovered |-> 0]]
  /\ cashBook = {}
  /\ job = [w \in Worker |-> Idle]
  /\ counts = [runs |-> 0, revisions |-> 0, standings |-> 0, plans |-> 0]

(***************************************************************************)
(* Accruing and releasing                                                  *)
(***************************************************************************)

(* A payment is approved and committed; its request goes on to raise the   *)
(* commission with the cumulative receipts it computed.                    *)
PaymentApproved(w, d) ==
  /\ ~Busy(w)
  /\ receipts[d] < Base
  /\ receipts' = [receipts EXCEPT ![d] = @ + 1]
  /\ job' = [job EXCEPT ![w] = [kind |-> "raise", deal |-> d, received |-> receipts[d] + 1]]
  /\ UNCHANGED <<plan, planActive, flatRate, active, entVars, ledgerVars, payoutVars, counts>>

(* An administrator recalculates the commission of an invoice that has     *)
(* approved payments.                                                      *)
RecalculateInvoiceCommission(w, d) ==
  /\ ~Busy(w)
  /\ receipts[d] > 0
  /\ job' = [job EXCEPT ![w] = [kind |-> "raise", deal |-> d, received |-> receipts[d]]]
  /\ UNCHANGED <<marketVars, entVars, ledgerVars, payoutVars, counts>>

(* handlePayment under a plan: accrue the lines that are not recorded yet, *)
(* one ledger entry each, then read the lines a release could touch and    *)
(* the standing of their owners.                                           *)
AccrueAndRead(w) ==
  LET d     == job[w].deal
      fresh == {e \in OnDeal(d) : status[e] = "NONE"}
      key   == [e \in Entitlement |-> <<"accrual", e, 0>>]
      lines == {e \in OnDeal(d) : status'[e] \in {"ACCRUED", "PARTIALLY_RELEASED"}}
  IN  /\ job[w].kind = "raise"
      /\ planActive
      /\ status' = [e \in Entitlement |-> IF e \in fresh THEN "ACCRUED" ELSE status[e]]
      /\ constrained' = [e \in Entitlement |-> IF e \in fresh THEN Entitled[e] ELSE constrained[e]]
      /\ booked' = [booked EXCEPT !["ACCRUAL"] = Booking("ACCRUAL", fresh \ NonCash, Entitled, key),
                                  !["AWARD"] = Booking("AWARD", fresh \cap NonCash, Entitled, key)]
      /\ posted' = posted \cup Keys(fresh, key)
      /\ job' = [job EXCEPT ![w] =
                   IF lines = {} THEN Idle
                   ELSE [kind |-> "release", deal |-> d, received |-> job[w].received,
                         lines |-> lines, entitled |-> constrained', already |-> released,
                         active |-> active]]
      /\ UNCHANGED <<marketVars, released, forfeited, paid, clawedBack, payoutVars, counts>>

(* No plan in force: the flat rate pays, once, when the sale is settled.   *)
RaiseFlatRate(w) ==
  /\ job[w].kind = "raise"
  /\ ~planActive
  /\ flatRate' = IF job[w].received >= Base THEN flatRate \cup {job[w].deal} ELSE flatRate
  /\ job' = [job EXCEPT ![w] = Idle]
  /\ UNCHANGED <<plan, planActive, receipts, active, entVars, ledgerVars, payoutVars, counts>>

(* What a release pass j decides, from the rows as it read them: the       *)
(* cumulative amount each line has vested and its step over what was       *)
(* released already; the lines whose owner was not active lose their step  *)
(* (or all that remains), and the others of the deal may inherit it.       *)
Vested(j) == [e \in Entitlement |-> Payable(plan, j.entitled[e], Base, j.received)]

StepOf(j) == [e \in Entitlement |-> Vested(j)[e] - j.already[e]]

Due(j) == {e \in j.lines : StepOf(j)[e] > 0}

Lapsed(j) == {e \in Due(j) : plan.enforced /\ OwnerOf[e] \notin j.active}

Vests(j) == Due(j) \ Lapsed(j)

Lost(j) ==
  [e \in Entitlement |-> LostOnLapse(plan, j.entitled[e], j.already[e], Vested(j)[e])]

Pot(j) == SumFunctionOnSet(Lost(j), Lapsed(j))

Heirs(j) ==
  IF plan.disposition = "REDISTRIBUTE" /\ Lapsed(j) # {}
  THEN {e \in j.lines \ Lapsed(j) : j.entitled[e] > 0}
  ELSE {}

(* The heirs share in the order of the rows; what is listed without a      *)
(* weight is allocated nothing.                                            *)
HeirWeight(j) == [e \in Entitlement |-> IF e \in Heirs(j) THEN j.entitled[e] ELSE 0]

Gain(j) ==
  [e \in Entitlement |->
     IF e \in Heirs(j) THEN Redistributed(Pot(j), Rank, HeirWeight(j))[e] ELSE 0]

OnHold == plan.disposition = "HOLD_PENDING_REINSTATEMENT"

(* The release transaction.                                                *)
CommitRelease(w) ==
  LET j      == job[w]
      relKey == [e \in Entitlement |-> ReleaseKey(e, Vested(j)[e])]
      adjKey == [e \in Entitlement |-> <<"redistribute", e, Pot(j)>>]
      \* keyed on the moment of the checkpoint, so never a duplicate
      newKey == [e \in Entitlement |-> <<"forfeit", e, forfeited[e] + Lost(j)[e]>>]
      held   == IF OnHold THEN Lapsed(j) ELSE {}
      lost   == Lapsed(j) \ held
  IN  /\ j.kind = "release"
      /\ constrained' = [e \in Entitlement |-> constrained[e] + Gain(j)[e]]
      /\ released' = [e \in Entitlement |->
                        IF e \in Vests(j) THEN Vested(j)[e] ELSE released[e]]
      /\ forfeited' = [e \in Entitlement |->
                         IF e \in Lapsed(j) THEN forfeited[e] + Lost(j)[e] ELSE forfeited[e]]
      /\ status' = [e \in Entitlement |->
                      IF e \in Lapsed(j) THEN IF OnHold THEN "HELD" ELSE "FORFEITED"
                      ELSE IF e \notin Vests(j) THEN status[e]
                      ELSE IF Vested(j)[e] >= constrained[e] THEN "RELEASED"
                      ELSE "PARTIALLY_RELEASED"]
      /\ booked' = [booked EXCEPT !["RELEASE"] = Booking("RELEASE", Vests(j), StepOf(j), relKey),
                                  !["FORFEIT"] = Booking("FORFEIT", lost, Lost(j), newKey),
                                  !["HOLD"] = Booking("HOLD", held, Lost(j), newKey),
                                  !["ADJUSTMENT"] = Booking("ADJUSTMENT", Heirs(j), Gain(j), adjKey)]
      /\ posted' = posted \cup Keys(Vests(j), relKey) \cup Keys(Lapsed(j), newKey)
                          \cup Keys(Heirs(j), adjKey)
      /\ job' = [job EXCEPT ![w] = Idle]
      /\ UNCHANGED <<marketVars, paid, clawedBack, payoutVars, counts>>

(***************************************************************************)
(* Paying                                                                  *)
(***************************************************************************)

(* buildPayoutsFor reads what is payable; the run's filters (realtors,     *)
(* release period, request queue, maturity) keep some of those lines.      *)
ReadPayable(w) ==
  /\ ~Busy(w)
  /\ counts.runs < MaxRuns
  /\ \E lines \in SUBSET PayableLines :
       /\ lines # {}
       /\ job' = [job EXCEPT ![w] =
                    [kind |-> "build", lines |-> lines,
                     amount |-> [e \in Entitlement |->
                                   IF e \in lines THEN released[e] - paid[e] ELSE 0]]]
  /\ UNCHANGED <<marketVars, entVars, ledgerVars, payoutVars, counts>>

(* ... and writes one DRAFT per realtor, with the recovery computed from   *)
(* the receivables that are open now.                                      *)
CommitPayouts(w) ==
  LET j       == job[w]
      run     == counts.runs + 1
      share(r) == [e \in Entitlement |-> IF OwnerOf[e] = r THEN j.amount[e] ELSE 0]
      owners  == {OwnerOf[e] : e \in j.lines}
      draft(r) == [status |-> "DRAFT", amount |-> share(r),
                   recovered |-> RecoveryFromPayout(Gross(share(r)) - WithheldOn(share(r)),
                                                    OwedBy(r), plan)]
  IN  /\ j.kind = "build"
      /\ run <= MaxRuns
      /\ payouts' = [p \in PayoutId |->
                       IF p[1] = run /\ p[2] \in owners THEN draft(p[2]) ELSE payouts[p]]
      /\ counts' = [counts EXCEPT !.runs = run]
      /\ job' = [job EXCEPT ![w] = Idle]
      /\ UNCHANGED <<marketVars, entVars, ledgerVars, receivables, cashBook>>

(* approvePayout and cancelPayout: one conditional UPDATE each.            *)
ApprovePayout(p) ==
  /\ payouts[p].status = "DRAFT"
  /\ payouts' = [payouts EXCEPT ![p].status = "APPROVED"]
  /\ UNCHANGED <<marketVars, entVars, ledgerVars, receivables, cashBook, job, counts>>

CancelPayout(p) ==
  /\ Open(p)
  /\ payouts' = [payouts EXCEPT ![p].status = "CANCELLED"]
  /\ UNCHANGED <<marketVars, entVars, ledgerVars, receivables, cashBook, job, counts>>

(* markPayoutPaid checks, before its transaction, that the payout is       *)
(* approved and that every line is still owed in full.                     *)
CheckPayout(w, p) ==
  /\ ~Busy(w)
  /\ payouts[p].status = "APPROVED"
  /\ \A e \in Lines(p) : released[e] - paid[e] >= payouts[p].amount[e]
  /\ job' = [job EXCEPT ![w] = [kind |-> "pay", payout |-> p]]
  /\ UNCHANGED <<marketVars, entVars, ledgerVars, payoutVars, counts>>

(* The payment transaction.  A recovery is applied to the receivables that *)
(* are still open; the payout is closed only if it is still APPROVED.      *)
RecordPaid(w) ==
  LET p      == job[w].payout
      r      == p[2]
      lines  == Lines(p)
      amount == payouts[p].amount
      payKey == [e \in Entitlement |-> PayoutKey(p, e)]
  IN  /\ job[w].kind = "pay"
      /\ paid' = [e \in Entitlement |-> paid[e] + amount[e]]
      /\ status' = [e \in Entitlement |-> IF e \in lines THEN "PAID" ELSE status[e]]
      /\ receivables' = [i \in Receivable |->
           IF OwnerOf[i[2]] = r
           THEN [receivables[i] EXCEPT !.recovered = @ + Take(i, payouts[p].recovered)]
           ELSE receivables[i]]
      /\ posted' = posted \cup Keys(lines, payKey)
      /\ booked' = [booked EXCEPT !["PAYOUT"] = Booking("PAYOUT", lines, amount, payKey)]
      /\ cashBook' = IF Net(p) > 0 THEN cashBook \cup {p} ELSE cashBook
      /\ payouts' = [payouts EXCEPT ![p].status = IF @ = "APPROVED" THEN "PAID" ELSE @]
      /\ job' = [job EXCEPT ![w] = Idle]
      /\ UNCHANGED <<marketVars, constrained, released, forfeited, clawedBack, counts>>

(***************************************************************************)
(* Taking back                                                             *)
(***************************************************************************)

(* reviseForDeal recomputes the deal under the plan and reads its rows;    *)
(* the engine now allocates f to every line it pays.                       *)
ReadForRevision(w, d, f) ==
  LET lines == {e \in OnDeal(d) : status[e] # "NONE" /\ (plan.cascades \/ e \notin Upline)}
  IN  /\ ~Busy(w)
      /\ planActive
      /\ counts.revisions < MaxRevisions
      /\ lines # {}
      /\ job' = [job EXCEPT ![w] =
                   [kind |-> "revise", lines |-> lines,
                    outcome |-> [e \in Entitlement |->
                                   ReverseLine(constrained[e], released[e], paid[e], f)],
                    already |-> released]]
      /\ UNCHANGED <<marketVars, entVars, ledgerVars, payoutVars, counts>>

(* Only a smaller figure takes anything back; past the clawback window     *)
(* paid money is final.                                                    *)
CommitRevision(w) ==
  LET j       == job[w]
      shrunk  == {e \in j.lines : ~j.outcome[e].unchanged}
      claw    == [e \in Entitlement |-> IF plan.clawback THEN j.outcome[e].clawback ELSE 0]
      taken   == [e \in Entitlement |->
                    j.outcome[e].cancel + j.outcome[e].offset + claw[e]]
      revKey  == [e \in Entitlement |-> <<"reversal", e, j.outcome[e].revised>>]
      dueKey  == [e \in Entitlement |-> <<"receivable", e, claw[e]>>]
      raised  == {e \in shrunk : claw[e] > 0 /\ dueKey[e] \notin posted}
      nth     == counts.revisions + 1
  IN  /\ j.kind = "revise"
      /\ nth <= MaxRevisions
      /\ constrained' = [e \in Entitlement |->
                           IF e \in shrunk THEN j.outcome[e].revised ELSE constrained[e]]
      /\ released' = [e \in Entitlement |->
                        IF e \in shrunk THEN Greater(j.already[e] - j.outcome[e].offset, 0)
                        ELSE released[e]]
      /\ clawedBack' = [e \in Entitlement |->
                          IF e \in shrunk THEN clawedBack[e] + claw[e] ELSE clawedBack[e]]
      /\ status' = [e \in Entitlement |->
                      IF e \in shrunk /\ j.outcome[e].revised = 0 THEN "REVERSED" ELSE status[e]]
      /\ booked' = [booked EXCEPT !["REVERSAL"] = Booking("REVERSAL", shrunk, taken, revKey)]
      /\ posted' = posted \cup Keys(shrunk, revKey) \cup Keys(raised, dueKey)
      /\ receivables' = [i \in Receivable |->
           IF i[1] = nth /\ i[2] \in raised
           THEN [amount |-> claw[i[2]], recovered |-> 0]
           ELSE receivables[i]]
      /\ counts' = [counts EXCEPT !.revisions = nth]
      /\ job' = [job EXCEPT ![w] = Idle]
      /\ UNCHANGED <<marketVars, forfeited, paid, payouts, cashBook>>

(***************************************************************************)
(* What happens around the store                                           *)
(***************************************************************************)

(* The request fails: its transaction rolls back, or the process stops     *)
(* before writing.  handlePayment swallows the error and nothing retries.  *)
RollBack(w) ==
  /\ Busy(w)
  /\ job' = [job EXCEPT ![w] = Idle]
  /\ UNCHANGED <<marketVars, entVars, ledgerVars, payoutVars, counts>>

(* A realtor is suspended or reinstated.                                   *)
ChangeStanding(r) ==
  /\ counts.standings < MaxStandings
  /\ active' = IF r \in active THEN active \ {r} ELSE active \cup {r}
  /\ counts' = [counts EXCEPT !.standings = @ + 1]
  /\ UNCHANGED <<plan, planActive, receipts, flatRate, entVars, ledgerVars, payoutVars, job>>

(* The company archives its plan, or activates one that was in force at    *)
(* the attribution date.                                                   *)
ChangePlan ==
  /\ counts.plans < MaxPlanChanges
  /\ planActive' = ~planActive
  /\ counts' = [counts EXCEPT !.plans = @ + 1]
  /\ UNCHANGED <<plan, receipts, flatRate, active, entVars, ledgerVars, payoutVars, job>>

-----------------------------------------------------------------------------
Next ==
  \/ \E w \in Worker :
       \/ \E d \in Deal : PaymentApproved(w, d) \/ RecalculateInvoiceCommission(w, d)
       \/ AccrueAndRead(w) \/ RaiseFlatRate(w) \/ CommitRelease(w)
       \/ ReadPayable(w) \/ CommitPayouts(w)
       \/ \E p \in PayoutId : CheckPayout(w, p)
       \/ RecordPaid(w)
       \/ \E d \in Deal, f \in Revised : ReadForRevision(w, d, f)
       \/ CommitRevision(w) \/ RollBack(w)
  \/ \E p \in PayoutId : ApprovePayout(p) \/ CancelPayout(p)
  \/ \E r \in Realtor : ChangeStanding(r)
  \/ ChangePlan

Spec == Init /\ [][Next]_vars

-----------------------------------------------------------------------------
(***************************************************************************)
(* Properties                                                              *)
(***************************************************************************)
Amounts == [Entitlement -> Nat]

Outcome == [unchanged : BOOLEAN, revised : Nat, cancel : Nat, offset : Nat, clawback : Nat]

Job ==
  [kind : {"idle"}]
    \cup [kind : {"raise"}, deal : Deal, received : Nat]
    \cup [kind : {"release"}, deal : Deal, received : Nat, lines : SUBSET Entitlement,
          entitled : Amounts, already : Amounts, active : SUBSET Realtor]
    \cup [kind : {"build"}, lines : SUBSET Entitlement, amount : Amounts]
    \cup [kind : {"pay"}, payout : PayoutId]
    \cup [kind : {"revise"}, lines : SUBSET Entitlement,
          outcome : [Entitlement -> Outcome], already : Amounts]

(* The type of the rows and of the requests in flight.                     *)
TypeOK ==
  /\ plan \in Plan /\ planActive \in BOOLEAN
  /\ receipts \in [Deal -> Nat] /\ flatRate \subseteq Deal /\ active \subseteq Realtor
  /\ constrained \in Amounts /\ released \in Amounts /\ forfeited \in Amounts
  /\ paid \in Amounts /\ clawedBack \in Amounts
  /\ status \in [Entitlement -> Status]
  /\ booked \in [EntryType -> Amounts]
  /\ receivables \in [Receivable -> [amount : Nat, recovered : Nat]]
  /\ payouts \in [PayoutId -> [status : PayoutStatus, amount : Amounts, recovered : Nat]]
  /\ cashBook \subseteq PayoutId
  /\ job \in [Worker -> Job]
  /\ counts \in [runs : Nat, revisions : Nat, standings : Nat, plans : Nat]

(* No realtor is paid more than was released to them, and nothing is       *)
(* released beyond the entitlement, except money that had already been     *)
(* paid when the entitlement was revised below it.                         *)
PaidWithinReleased ==
  \A e \in Entitlement :
    /\ paid[e] <= released[e]
    /\ released[e] <= Greater(constrained[e], paid[e])

(* A released line is claimed by at most one open payout, whatever the     *)
(* order of payout runs, payments and cancellations.                       *)
OneOpenPayout ==
  \A p, q \in PayoutId : p # q /\ Open(p) /\ Open(q) => Lines(p) \cap Lines(q) = {}

(* What the ledger says was paid on an entitlement is what the entitlement *)
(* says was paid on it, although a repeated entry is silently skipped.     *)
PayoutsAgreeWithLedger ==
  \A e \in Entitlement : booked["PAYOUT"][e] = paid[e]

(* Redistributing forfeited money never makes a deal pay out more than was *)
(* accrued on it.                                                          *)
DealWithinAccrual ==
  \A d \in Deal :
    SumFunctionOnSet(released, OnDeal(d)) <= SumFunctionOnSet(Entitled, OnDeal(d))

(* A payment takes from what a realtor owes no more than is owed, although *)
(* the draft fixed the figure long before, when another open draft of the  *)
(* realtor may have counted on the same receivable.                        *)
RecoveredWithinOwed ==
  \A i \in Receivable : receivables[i].recovered <= receivables[i].amount

(* Exactly one of the two commission systems pays for a sale.              *)
OneSystemPays ==
  \A d \in flatRate : \A e \in OnDeal(d) : status[e] = "NONE"

(* The pass that runs after an approved payment vests what the trigger now *)
(* allows: when it finds no line to release, every line of the deal that   *)
(* was not lost stands at the amount the receipts have vested.             *)
EveryPaymentVests ==
  [][\A w \in Worker :
       AccrueAndRead(w) /\ job'[w] = Idle
         => \A e \in OnDeal(job[w].deal) :
              \/ status[e] \in {"HELD", "FORFEITED", "REVERSED"}
              \/ released[e] >= Payable(plan, constrained[e], Base, job[w].received)]_vars
=============================================================================
