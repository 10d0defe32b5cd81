# Verification of the RealX8 core

RealX8 is a property sales platform: one Node process that hosts eight Express
services over one SQL database. This directory holds TLA+ models of the parts
that move money or decide who may act, the TLC runs that check them on small
instances, and proofs, checked by TLAPS, that hold for every instance. Paths
below are relative to the repository's root, `S/` is `shared/src/`, `F/` is
`services/finance-service/src/`.

1. [The system](#1-the-system) · 2. [Plan](#2-plan) · 3. [Modules](#3-modules) ·
4. [Runs](#4-runs) · 5. [Theorems](#5-theorems) · 6. [Abstractions](#6-abstractions) ·
7. [Not modelled](#7-not-modelled) · 8. [Promises the code does not keep](#8-promises-the-code-does-not-keep)

## 1. The system

| Part | State it keeps | Operations | Hard behaviour |
| --- | --- | --- | --- |
| Commission engine (`S/commission/*`) | none: one synchronous function from a sale, a plan and the people to lines | base, pool, participants, status gate, claims in dependency order, three constraint phases | rounding, order of payment, compression of vacant tiers |
| Commission store (`S/commissionStore.js`) | entitlements, ledger entries, receivables, payouts | accrue, release, build/approve/pay/cancel a payout, revise a deal | reads before the transaction, no locks, idempotency keys, recovery of money already paid |
| Commission bridge and flat rate (`F/services/commissionBridge.js`, `commissionService.js`) | a payable per sale | decide at each payment which system pays | plans archived between payments, swallowed failures |
| Invoices, receipts, payments (`F/controllers/financeController.js`, `F/services/allocationService.js`, `S/paymentAllocation.js`) | invoice and receipt statuses, approved payments with allocation lines | submit, correct, withdraw, reject, verify a proof; pay on a balance; mark paid | two requests on one proof, split of a payment, a status derived from schedules |
| Discounts, credit notes, refunds (`F/services/discountService.js`, `S/invoiceDiscount.js`, `refundController.js`) | discount per schedule, credit balance, refunds | spread, approve, reject, mark paid | re-spreading after a settlement, credit moved once |
| Schedules and the sweep (`paymentScheduleController.js`, `F/utils/scheduleJob.js`) | timing, fees, plan status | daily sweep, waiver, cancellation, expiry | rows listed once, acted on later |
| Unit inventory (`S/inventoryGateway.js`, `S/holdPolicy.js`) | holds | place, release | the last unit, a policy that changes |
| General ledger (`S/accounting/*`) | journals, periods | post, reverse, close | balance, idempotency, closed periods |
| Bank reconciliation (`F/controllers/bankRecController.js`, `S/accounting/bankMatch.js`) | statement lines, matches, locks | import, match, post, unmatch, lock, reopen | no transactions, a statement that proves its own amounts |
| Handover and project cost (`handoverController.js`, `developmentController.js`, `S/accounting/developmentCost.js`) | handovers, work in progress | record, sign, reverse, catch up, write down | the posting and the row are two commits, a pool that moves |
| Promotions (`S/promotionStore.js`, `S/promotions/*`) | versions, redemptions against limited allocations | checkout, confirm, release, edit | the last redemption, versions, frozen prices |
| Investments (`services/investment-service`, `S/investments/*`) | placements, what was accrued and raised | subscribe, fund, accrue, cash out | a run repeated after a crash, exits |
| Sessions (`services/auth-service`, `S/sessionRegistry.js`) | one session per account in a cache | login, refresh, switch, revoke, reset | requests in steps, a cache that forgets, time |
| Users, CRM, property, support, billing, notification services | records | forms and approvals | little beyond record keeping |
| Platform (`server.js`, `platform/*`), scheduled jobs, boot lock | process state | boot, route, run a job once | two processes at once |

They interact by calls inside one process and by rows of shared tables. After a
payment commits, the finance handlers call the commission bridge, which calls
the engine and the store in transactions of their own; a failure there is logged
and nothing retries it. Finance confirms and releases the redemptions of
`S/promotionStore.js` when it approves a payment or closes an invoice.
investment-service reads finance's payments and is told nothing. A handler posts
to the ledger in a transaction of its own, before or after it writes its row.
`PROJECT.json` lists every component with its status, and every hazard with its
line.

What makes each part correct, in a sentence:

- engine: every unit of a pool ends with a realtor or is reported; the strategies
  keep their promised precedence;
- store: paid <= released <= entitled; one open payout per line; ledger, payouts
  and entitlements agree; recoveries never exceed what is owed;
- payments: every unit of a payment is on a line or in the credit; a receipt and
  its payment agree; statuses follow the money; units are never oversold;
- ledger: journals balance, one event is posted once, a closed period is closed;
- bank: an entry is matched once, a locked line stays settled, what is imported is
  what the bank printed;
- handover: revenue is recognised once and moves with its cost; work in progress is
  the cost of the unsold units;
- promotions: redemptions never exceed the allocation, cancelled ones return, what
  was given is never restated;
- investments: nothing is raised twice, leaving never beats staying, the money comes
  back;
- sessions: nobody takes a session in use, an abandoned one lets its owner in, a
  passcode's window closes.

## 2. Plan

Done: 1. commission settlement (`Money`, `CommissionRules`,
`CommissionSettlement`, proofs); 2. engine (`CommissionEngine`,
proofs); 3. invoice
payments (`PaymentAllocation`, `InvoicePayments`, proofs); 4. general ledger
(`PostingRules`, `GeneralLedger`, proofs) and its abstract specification
(`Journal`); 5. bank reconciliation (proofs); 6. sessions
(proofs); 7. promotions
(`PromotionRules`, `Promotions`, proofs); 8. investments (`InvestmentTerms`,
`Investments`, proofs); 9. handover and project cost (`CostAllocation`, `Handover`,
proofs).

Left, in this order:

1. Payments of bills, supplier notes and refunds, whose keys carry the instant of the
   request; two companies, whose manual journals share keys; `GeneralLedger` composed
   with `InvoicePayments`, so that `BankAgreesWithCashBook` speaks of real journals.
2. Inventory beyond one unit, purchase requests, quantity edits of an invoice that
   already has payments.
3. Jobs, the boot lock and document numbers (two processes at once); notifications;
   billing and the suspension of a company.
4. Realtor ladders and the flat rate; the life of a lead; KYC.

Abstract specifications still to state: a purse per entitlement (entitled ->
released -> paid, back only by a revision) implemented by `CommissionSettlement`;
a debt per invoice implemented by `InvoicePayments`. Every invariant a run checks is
also a theorem. Theorems worth adding: how far monthly compounding may fall from one
day to the next (`TermsGrowDaily`, section 5); the properties that are *serial*, with an
allowance for each overlapping request in place of the condition.

## 3. Modules

| Module | Models | Notes |
| --- | --- | --- |
| `Money` | `S/money.js`: percentage rounding, largest-remainder allocation | integers in minor units |
| `CommissionRules` | `vesting.js`, `deductions.js`, `reversal.js` | pure operators |
| `CommissionSettlement` | `commissionStore.js`, `commissionBridge.js` | a request is a *job* of a worker between its read and its write |
| `CommissionEngine` | `commission/index.js` and the modules it runs | the stages of one synchronous call are steps, so that a property can speak of each |
| `PaymentAllocation` | `paymentAllocation.js`, `invoiceDiscount.js`, `holdPolicy.js`, the derived statuses | pure operators |
| `InvoicePayments` | the handlers of receipts, payments, refunds, discounts, cancellation, the sweep | a request in flight is a record of what it read |
| `PostingRules` | `S/accounting/rules.js`, the account pairs of `S/commissionAnalytics.js` | a rule maps amounts to lines |
| `Journal` | what the ledger promises: abstract | a journal that grows, months that close |
| `GeneralLedger` | `S/accounting/ledger.js`, `posting.js`, `periodClose.js`; `F/controllers/accountingController.js`, `periodsController.js`, the approval of a bill | a request is a record of what it is about to write; implements `Journal` |
| `BankReconciliation` | `bankRecController.js`, `S/accounting/bankMatch.js`, the bank check of `periodClose.js` | requests in two or three steps, crashes between them |
| `Sessions` | `S/sessionRegistry.js`, `sessionGuard.js`, `authController.js`, `passcodeController.js` | requests in steps; ages instead of times |
| `PromotionRules` | `S/promotions/*` | pure operators |
| `Promotions` | `S/promotionStore.js`, `promotionController.js`, `checkoutPurchase`, the steps of finance that settle a redemption | |
| `InvestmentTerms` | `S/investments/*` | pure operators |
| `Investments` | investment-service: its controller, `accrualRun.js`, `investmentEngine.js` | every write of the nightly run is a step |
| `CostAllocation` | `S/accounting/costAllocation.js` | pure operators |
| `Handover` | `handoverController.js`, `developmentController.js`, `developmentCost.js` | a handler goes in steps; stops between them |
| `MC_*` | instances for TLC | |
| `Money_proofs` | sums and largest-remainder allocation: lemmas and theorems the others cite | |
| `CommissionEngine_proofs`, `CommissionSettlement_proofs`, `InvoicePayments_proofs`, `GeneralLedger_proofs`, `Promotions_proofs` | theorems | those of `Journal` are in `GeneralLedger_proofs` |
| `BankAndInvestments_proofs`, `SessionsAndHandover_proofs` | theorems | of two machines each, which share no name and no state |

**Settlement.** `constrained, released, forfeited, paid,
clawedBack, status` are the columns of `commission_entitlements`; `booked` and
`posted` the ledger entries and their idempotency keys; `receivables`, `payouts`
and `cashBook` their tables. `PaymentApproved` and
`RecalculateInvoiceCommission` start a request; `AccrueAndRead`,
`CommitRelease`, `RaiseFlatRate` are handlePayment; `ReadPayable` and
`CommitPayouts` are buildPayoutsFor; `CheckPayout` and `RecordPaid` are the two
halves of markPayoutPaid; `ReadForRevision` and `CommitRevision` those of
reviseForDeal; `RollBack` is any failed or lost request.

**Engine.** `Participants` (base, pool, chain, gate), `ClaimNext` (one participant's
rules), `ConstrainExcess` or `ConstrainWithin`, `ApplyPeriodicCaps`,
`ApplyFloor`, `Record`. The loop of buildUplines is stated by what it leaves:
`Seated` are the sponsors it keeps, `GenerationOf` their numbers, `Vacated` the tiers
ROLL_UP carries on and `HeirTo` who takes one up; participants are a set, `PlaceOf`
giving the order of inDependencyOrder. `lines` is the list of entitlements with what is
claimed (`gross`) and what is left of it (`amount`), `left` what each stage kept.

**Invoices.** `invoices, plans, schedules, payments, receipts, holds, refunds`
are tables; `books` counts the cash book (`transactions`) and the bank account
of the ledger. `RecordMoney` and `SettleInvoice` are the two halves of one
transaction, applyApprovedPayment, which `Verify`, `PayInvoice` and
`MarkInvoicePaid` run. Actions called `...Reads` are the reading half of a
handler; `EndsWithoutEffect` is a refused or lost request. `SweepReads`,
`SweepRow` and `SweepPlans` are one run of the daily job.

**Ledger.** `chart`, `entries`, `periods` are `ledger_accounts`, `journal_entries` with
their lines, and `accounting_periods`; `copies` is the chart each process holds in
memory (`chartCache`); `happened` says whether and for which month a document was
recorded. An entry's `key` is its idempotency key before hashing, a month standing
for a date. `Post` is what `post` decides on reading: replayed, unresolvable, month
closed, or the entry it will write; `RecordEvent`, `WriteManualJournal` and
`ReverseEntry` run it, and `Commit` writes, the unique index deciding between two.
`StartClose` is the checklist, `PostYearEnd` and `SaveClose` the rest of closePeriod.
`CreateAccount`, `UpdateAccount` and `DeactivateAccount` forget the chart in
finance-service only. `Restart` loses a service's requests and its copy. That every
rule balances, whatever its amounts, is `RulesBalance`, evaluated with the instance.
`Promise == INSTANCE Journal` maps the entries and the closed months to the abstract
journal; `KeepsThePromise` says that every step of the ledger is one of its steps.

**Bank.** `lines` is `bank_statement_lines` by fingerprint, with the entry each is
matched to and the lock it is under; `entries` the journal's entries that move a bank
account; `locks` is `bank_reconciliations`; `closedTo` the closed months.
`ImportReads` walks the rows that print a balance (`Walk`), each `Checked` against the
one `Before` it, in both directions (`Drift`, `Best`), and `ImportWrites` inserts what is
fresh. `MatchReads`/`MatchWrites`,
`UnmatchReads`/`UnmatchWrites`, `PostLine`/`PostWrites`, `IgnoreLine` are the
handlers of a line; `LockReads`, `LockSaves`, `LockStamps` the three parts of
lockReconciliation. `Crash` loses what has not been written.

**Sessions.** `record` is the cache's record per account, `tokens` the refresh-token
rows a client can present, `held` what each client was given, `sinceLogin` the age of
`last_login_at`; `sinceProof` is history. `SignIn`, `SignInByPasscode`, `Refresh`,
`SwitchRole` and `SwitchCompany` go on with `IssueStarts` and `IssueAnswers`
(issueSession); `TouchReads`/`TouchWrites` is the guard's touch; `SignOut`,
`ResetPassword` with their deletions; `CacheLoses`, `TokenExpires`, `Crash`, `Tick`.

**Promotions.** `status` and `versions` are `promotions` and `promotion_versions`,
`redemptions` their table; `price` the units' configured prices; `shown` the preview on
a screen. `CheckoutReads`/`Checkout` is checkoutPurchase, which freezes price and
version; `ApprovePayment`, `CloseInvoice` and `EditInvoiceQuantity` are finance's
steps; `CreatePromotion`, `UpdatePromotion`, `SetStatus` the screens.

**Investments.** `offer` is the opportunity, `book` the investments with the sums of
their payouts, `sweep` where the run is: `SweepStarts`, `SweepLooks`, `SweepRaises`,
`SweepCounts`, `SweepReturnsCapital`, `SweepCountsCapital`, `SweepSettles`; its
queue is the set of investments still to look at, each step with `This`. `Stop`
ends it anywhere. `Subscribe`, `SyncFunding`, `RequestCashOut`, `ApproveCashOut`,
`RejectCashOut`, `EditInvestment`, `EditPlan` are the screens.

**Handover.** `journal` holds what an entry moves on work in progress and takes from
deferred revenue, `handovers` the rows, `policy` the property's basis and expected
proceeds, `handling` where each request is. `RecordReads`, `RecordHandover`,
`PostHandover`, `KeepFigures` are recordHandover and recogniseFor; `AttachReads`,
`AttachAcknowledgement` the late document; `ReverseReads`, `ReverseEntry`,
`ReverseHandover` the reversal; `CatchUpReads`, `PostCatchUp`, `CatchUpRows` and
`WriteDownReads`, `PostWriteDown` the cost screens. `answered` is history: the ledger
took one posting for another, of a catch-up or of a handover that is attached again.
`RecognisedOnce` allows one more recognition for each stop: a request stopped after its
posting and before its row has left the amount on the row as it was.

Some modules hold *plausible mistakes*: an operator stated just before the one it
would replace (`FeeForgotten` before `LineOf`). They are not used by any
specification; exchanging one for the right operator must make a named property
fail, which is how each property is shown to notice something. A few operators of
the MC modules (`MCNewestFirst`, `Capping`, `OneProfile`, `ByTheMonth`) serve section 8.

## 4. Runs

| Run | Result | What it shows | Bounds |
| --- | --- | --- | --- |
| `settlement` | holds | six invariants of the store, one request at a time | one sale, 4 lines of 2 or 3 units, two plans, 2 payout runs, 1 revision, 1 suspension, 1 change of plan |
| `settlement_paid_once` | violated | two markPayoutPaid requests pay one payout twice | two workers |
| `engine` | holds | money accounted for, proportion, precedence | 19 plans, 4 sales, sponsors with every combination of rate, qualification, standing |
| `invoices` | holds | seven invariants of payments, receipts, holds, refunds and the sweep | below |
| `ledger` | holds | balance, one posting per event, exact reversals, no suspense behind a close, a current chart, the promise of `Journal` | a sale of 2 and its payment, 2 months, 1 edit, 2 reversals, one request at a time |
| `bankrec` | holds | one match per entry, settled locks, misread rows refused, locked balances that agree | one account, a statement of 5 rows, 2 journal entries, 2 days, one request at a time, crashes |
| `sessions` | holds | a session in use stays, the passcode's window closes; an abandoned session lets its owner in (liveness) | two accounts, two clients, 3 session ids, windows of one tick, one request at a time, crashes |
| `promotions` | holds | limits, places, frozen terms, what a reward is worth | one campaign of 2 versions, 3 outright purchases by one buyer, 4 requests, 2 in flight |
| `investments` | holds | nothing raised twice but for a stop, exits; completion, and money that comes back (liveness) | one investment, two terms, 2 in flight, 1 stop, days 0, 31, 93, 276 |
| `investments_cap` | holds | the cap, but for subscriptions that overlap | 4 subscriptions, 2 in flight |
| `handover` | holds | revenue once, work in progress of the unsold units | two units, two sales, 2 handovers, 3 other postings, 1 stop, one handler |
| `handover_late_paper` | violated | a catch-up before the document leaves the revenue deferred for ever | same, no stop |

The violated runs are disagreements between the code and its own comments, quoted
under `findings` in `PROJECT.json`; section 8 has the others. The type invariants
`TypeOK` of the engine, invoices, ledger and promotions document their variables and
may be added to their configurations; the settlement's is run, and it and the engine's are
proved.

*Why the bounds are enough.* Settlement: four lines on one deal give a realtor both
something owed back and something to recover it from; two runs let a line be
claimed, cancelled and claimed again; one revision and one suspension let every
state be entered from before and after. Engine: an amount of 100 and a pool of 11
force every rounding; chains of one to three sponsors cover every compression
rule. Invoices: two buyers for one unit (`Stock = 1`) is the smallest oversell; one
of them has instalments of 1 and 2 and a proof, so that a payment of 2 covers one and a
part of the other, and a discount of 2 covers the first whole; a fee of 3 after day 0
can then be paid in part on a schedule that owes no principal; an expiry on day 1 meets
them all. There are two fee periods: the sweep
of day 2 reads a schedule that was charged on day 1, and a payment of 2 on it covers the
principal and part of the fee. Thresholds
0 and 9 are "any payment" and one no invoice reaches. One typed reference and one
`ADMIN-APPROVED` reference per invoice bound the payments to three. With a second proof
on the first invoice (`Receipt = {r1, r2}`, `Amounts = {2}`, `SYMMETRY AlikeReceipts`)
the invariants hold as well, in 2.5 million states.

Ledger: the seeded chart has lost its sales account, so the sale falls back to
suspense and no month can be closed before a person creates the account, moves the
amount by journal, or reverses the sale; the second month ends the year; one edit
gives the role to either of two accounts, takes an account away or switches posting
off. Two reversals allow the reversal of a reversal. Bank: five rows, two of them
carrying the balance forward, are the fewest that make the self-check speak; two equal
amounts let lines compete for one entry; one entry is offered to a line, one must be
named by hand; two days allow a lock, a reopening and a pair astride the date.
Sessions: two accounts let a passcode choose and a switch leave; with both clients
holding one id, three leave a new one always free. Promotions: one place and three
buyers of it; 7 drafts on 30 baskets reach every kind of benefit in the
preview. Investments: growth of 5/4 a quarter and 101/100 a month stay exact; the days
fall inside the window, after the lock-in, past one maturity and past the other, and
the run has one more night than a stop can cost. Handover: shares of 1 and 2 of a
pool of 7 or 5 leave remainders; a bill and a credit note move the pool both ways; one
sale is deferred and one is not; a closed month refuses a posting that is tried again.

*One request at a time.* `settlement`, `invoices`, `ledger`, `bankrec`, `sessions` and
`handover` serve one: their handlers take no lock, and with two their properties fail
in ways a reader of the code expects. `settlement_paid_once` is the run that shows one.
A request is interleaved with crashes and time all the same, and a
handler stopped between two steps leaves its half done. Where the code promises
something of overlapping requests the run has two (`promotions`, `investments`,
`investments_cap`), and the property says how much an overlap may cost. Many of
the properties of these runs are nevertheless proved for any number of requests
(section 5).

The largest state spaces are `handover` (4.64 million distinct states), `settlement`
(1.64), `invoices` (1.61), `bankrec` (1.37) and `ledger` (0.76); the engine has 472
thousand and `investments` 350.

`CHECK_DEADLOCK FALSE` everywhere: all bounded resources can be used up, after
which nobody has anything left to do.

*Fairness.* Sessions: `WF(Tick)`, time passes whatever the requests do.
Investments: `WF(NextDay)` and `WF` of the run's start and steps: the scheduler starts
it every night, and a handler that awaits the database goes on. Nothing else is
assumed: the other steps are taken by a person or after a person's request, and a
failed commission pass is not retried, so their properties are safety.

## 5. Theorems

All are checked by TLAPS for every value of the constants that satisfies the named
ASSUMEs of the module; the runs show the same formulas on one instance each. *Serial*
marks those that suppose one request at a time (`MaxInFlight = 1`, or one worker): that
is a condition of the deployment, not of the code, which takes no lock there. The
others hold for any number of overlapping requests.

`Money_proofs` (the amounts of `S/money.js`):

- sums over a finite set, whatever the order: what changes one amount changes the sum by
  as much (`SumChanged`, `SumOfMultiples` and their like). The folds that define a sum are
  followed by first-order induction, on the least counterexample of a well-founded
  relation; the induction theorems of the library take operators and cannot be used;
- `AllocationIsExact`: allocateByWeight divides any total over any weights, not all
  zero, without gaining or losing a unit. The units left by rounding down are fewer than
  the weights that were cut;
- `ShareWithinWeight`: a total no larger than the weights gives no share above its
  weight. `SharesFollowWeights`: every share is within one unit of its exact quota, and
  a larger weight never gets the smaller share.

`CommissionEngine_proofs`:

- `CalculationTyped`, `MoneyIsAccountedFor`: `EngineInv` adds to the types what each
  stage has kept so far (`KeptSoFar`), that a fixed pool is an amount, and `NothingLost`:
  after every constraint phase the lines and what was kept come to what there was to share
  (`Due`). One lemma per stage and per rule of the plan says what it does to the sum.
- `ExcessIsCutAlike` (`CutInProportion`) from `SharesFollowWeights`.
- `PrecedenceIsKept`: under PRIORITY_ORDER the last line that is reached takes what
  those ahead of it left, so a line behind one that was cut gets nothing; under
  PROTECT_DIRECT the pool is gone when the seller is cut.

`CommissionSettlement_proofs`:

- `TypeCorrect`: lemmas on vesting, reversal, recovery and allocation (`PayableBound`,
  `ReverseLineType`, ...) say that they return amounts.
- `RecoveryCorrect` (`RecoveredWithinOwed`): what a payment takes from a receivable is
  the lesser of what remains *now* and of what the draft still has to recover, so no
  strengthening is needed although the draft may be stale.
- `PaidIsReleased`, `PayoutsAreApart`, `LedgerSaysWhatIsPaid` (*serial*;
  `PaidWithinReleased`, `OneOpenPayout`, `PayoutsAgreeWithLedger`): `IInv` adds that what
  an open payout claims is still unpaid and released, that later payouts are empty, that
  a payout's key is in the ledger only once it is closed (`Rows`), and that a request in
  flight still sees the rows it read (`Current`). `settlement_paid_once` shows that the
  conclusion fails with two.
- `DealsStayWithinAccrual` (*serial*): `DealInv` bounds each line by the most it may
  still come to release (`Ceiling`); a redistribution raises the ceilings of the heirs by
  exactly what the lapsed lines give up, by `AllocationIsExact`.

`InvoicePayments_proofs`:

- `PaidInvoicesAreSecured`: the transaction that writes `paid` is the one that holds the
  units. `UnitsAreNotOversold`: of units and invoices in any number.
- `MoneyIsPlaced`, `DiscountsAreCovered`: `MoneyInv` says of every schedule that what it
  owes and what the allocation lines on it add up to its principal (`Placed`), with the
  discount and fee it carries within it; every writer of a schedule has its lemma.
- `PaidStaysSettled`: `PaidIsSettled`, the first half of `PaidOwesNothing`.
- `ReceiptsAgree`, `CreditIsHeld`, `PaidOwesNoFee` (*serial*): the request in flight still
  finds the proof, the payment, or the schedules it read. A sweep that overlaps a waiver
  charges a schedule settled since it was read; one that overlaps nothing charges only
  schedules that are open.

`GeneralLedger_proofs`:

- `EventsArePostedOnce`: keys contain the month, so besides the unique index `KeysInv`
  says that an event's entry has the month the event is recorded with, and that requests
  in flight for one event agree on it.
- `FinanceIsCurrent`, `BooksAlwaysBalance`: resolving a line keeps its amounts, and what
  does not balance is refused.
- `ReversalsCancel`: `MirrorInv` says that a reversal, written or about to be, mirrors its
  entry on every account that is still there. An inactive account still resolves, and a
  removed one never comes back (`ChartMovesOn`).
- `LedgerKeepsThePromise` (*serial*): the ledger implements `Journal`; the initial state
  maps to its initial state, every step to a step or a stutter. With two requests an
  entry can pass the check of its month before the month is closed and be written after.
  Hence `ThingsHaveOneEntry` and `ClosedMonthsStay` (*serial*), proved of `Journal`.
- `SuspenseStaysClear` (*serial*; `NoSuspenseBehindClose`): `ClearInv` says that closed
  months come first, that suspense has one account, that a month being closed is clear
  and all before it are closed, and that a year end names accounts that are there and
  finds retained earnings, so that nothing of it falls back to suspense. It supposes
  `ControlAccountsStay` (updateAccount would let an administrator move the two roles) and
  `MonthsMadeInOrder` (a month made by name may come before a closed one).

`SessionsAndHandover_proofs`, of `Handover`:

- `RevenueIsRecognisedOnce` (*serial*; `RecognisedOnce`): `RecordsInv` says that a sale has
  one recorded handover at most, that a request in flight still finds the rows it read
  (`AsRead`), and that an entry of a handover is the one its row names; `RevenueInv` that
  the row keeps what its standing entries took, but for a request between the two and for
  what a stop left behind, and that a row which keeps anything takes no more.
- `WorkInProgressStaysUnsold` (*serial*; `WorkInProgressIsUnsold`): `CostInv` says that what
  handovers and catch-ups moved out of work in progress is what the rows keep and what is
  in flight, until a stop or an answered posting; `ReversedInv` that a reversed row has
  nothing of its own standing. The shares add up to the pool by `AllocationIsExact`, so
  what remains is the shares of the units not handed over. It supposes `UnitsSoldOnce` (a
  catch-up raises every recorded row of a unit by all that the unit owes, so two sales of
  one unit row are charged twice) and `SomethingWeighs` (on either basis some unit has an
  area or a price: otherwise nothing is shared out).

`BankAndInvestments_proofs`, of `BankReconciliation`:

- `EntriesAreMatchedOnce`, `LockedStaysSettled` (*serial*): a match, an unmatch and a lock
  write what they read two steps before; `BankInv` adds that it still holds (`Current`).
  A crash only takes the request away.
- `LockedBalanceAgrees` (an action property): `BooksInv` says that settled lines have an
  entry that is there and that all amounts are whole. The balance a lock writes is then
  the statement's, if the pairs are as `Pairing` has them.
- `MisreadRowsAreRefused` (`ImportedAsPrinted`), for any number of requests and files.
  One misread row leaves a file of at least five balances agreeing on all its other rows
  oldest first, and on no more of them newest first, so the check speaks
  (`MisreadDisagrees`); `PrintedInv` carries this to what an import in flight is to write.
  It supposes of the files that print a balance what `bankrec`'s does: their rows run
  oldest first and add up, two checked rows move money, and nothing is misread within the
  kobo of slack (`BalancesAddUp`); and that a reference names one movement, which is checked
  wherever it is printed again (`RefsNameMovements`). Of a newest-first file the conclusion
  fails (section 8).

`Promotions_proofs`:

- `PlacesFollowPurchases`: payment and closing each settle what they find, so their order
  does not matter; `PlacesInv` adds that two checkouts never raise one invoice and that
  whatever closes or edits an invoice has found it.
- `LimitsAreKept`: `Demand` counts what stands of a campaign together with what is being
  checked out, from the moment it has looked: no more than a limit and the
  `MaxInFlight - 1` others that looked with it.
- `GivenStaysAsItWas` (`GivenAsItWas`): `GivenIInv` says that each discount, written or
  about to be, names its version and the prices of its day, that versions only grow, and
  that a version keeps its rules. What is given is one promotion, and it is never worth
  more than the purchase: `DiscountWithinBasket`, for any form and basket.
- `CompleteSetsEarn`: where the unit bought is the unit rewarded, a line earns one reward
  for each complete set and no more than the cap. `PreviewsAreAsAdvertised`
  (`RewardsAsAdvertised`) follows, for drafts that are open to all (`DraftsPromise`): one
  that asks for more than its set may well give nothing.

`BankAndInvestments_proofs`, of `Investments`, however many requests overlap:

- `CompletedOnlyWhenSettled` (an action property): `CountersInv` says of every row and of
  each place the run may be at that the counters of the row are what was raised, but for
  the payout in flight and one for each stop. The run's last step looks at them again.
- `NothingIsRaisedTwice`: `ReturnsInv` adds that what is paid of a return, with what is
  about to be, is no more than what had been earned at the last release. `LeavingIsNeverBetter`
  (`LeavingNeverBeatsStaying`): the penalty takes from the return still owed and from
  nothing else, so an exit is worth no more than what staying will have earned.
  Both suppose `TermsGrowDaily`: no day takes back what the one before had earned; the
  latter also `TenorsAreStated`, an investment without a tenor maturing at once.
  `SimpleGrowsDaily` proves the first of simple interest; of the compounding terms of
  `investments` TLC confirms it for a capital of up to 20000. In general it fails by one
  unit: compounded by the month, 577 at 12 % have earned 18 on day 91 and 17 on day 92,
  because the capital is rounded where a period ends and the days after it are floored;
  and both conclusions fail by as much (section 8).
- `CapIsKept` (`CapKeptButForOverlap`): what is committed and what is being subscribed keep
  to the highest cap, but for one subscription for each of the others that looked with it.

`SessionsAndHandover_proofs`, of `Sessions`:

- `PasscodesRunOut`: the code compares the age of `last_login_at`, the property that of
  the last proof; `AgesAgree` says that only a full sign-in moves either.
- `SessionsInUseAreKept` (*serial*): `SoleInv` adds that whoever holds a session is alone
  with it, that refresh tokens belong to sessions their client holds, and of each kind of
  request what it may rely on until it writes (`Allowed`).

*Assumptions.* Amounts are whole and not negative, thresholds and bounds are numbers,
references and names are apart from the values that stand for none. Beyond that:
`EventsAreDocuments` (events are recorded once or keep their date), `LinesAreAmounts` and
`ChartIsSeeded` (finitely many lines and accounts), `FilesAreRows`, `FormsAreFilledIn`,
`InputsAreFigures` and `InputsAreRead` (files, forms, plans, terms, units and sales have the
fields the code reads, and their figures are numbers). The theorems that suppose more
(`ControlAccountsStay`, `MonthsMadeInOrder`, `DraftsPromise`, `BalancesAddUp`,
`RefsNameMovements`, `TermsGrowDaily`, `TenorsAreStated`, `UnitsSoldOnce`,
`SomethingWeighs`) name it where they are stated; the instances of `bankrec`,
`investments` and `handover` satisfy what is supposed of them.

*Left to TLC.* All liveness (`AbandonedLetsGo`, `MoneyComesBack`), which with ENABLED is
outside the prover's reach; what compounding by the period earns from day to day
(`TermsGrowDaily`); that every posting rule balances (`RulesBalance`, evaluated with the
instance); and every property of section 8.

## 6. Abstractions

Commission settlement.
- PRO_RATA and allocateByWeight multiply floating-point numbers in the code; the
  model takes the exact floor. Percentages are whole.
- RECOVERY and DEDUCTION entries, the request queue, maturity and period filters of
  a payout run are folded into "the run may take any subset of the payable lines".
- Lines a redistribution skips are given to the allocation with no weight (`HeirWeight`).
- Receivables are taken oldest first by revision, then by row. The triggers
  MILESTONE and SCHEDULED exist only as operators.
- reviseForDeal has no caller outside the repository's scripts; it is modelled as
  an operation an administrator may run.

Engine. No co-agents and no contractual or matrix rates (computeForDeal supplies
none); incentive rules are left out; the per-participant cap is merged into the
role's cap; plan bands are taken to be in order. Participants and exclusions are sets;
the chain is stated in closed form, not walked.

Invoices.
- Only sent invoices of one company with a payment plan on one unit. The branch for
  invoices without a plan, drafts, quantity edits and editing of invoices are out.
- The default fee is flat and the percentage hold threshold an amount. Posting is
  on and the period open. Notifications, reminders, promotions and the commission
  that a payment raises (modelled elsewhere) are out.
- `HasRoom` bounds the sweep like a request: one at a time means that the sweep and the
  handlers do not overlap either.
- What runs under the lock on the invoice row is one step. The writing half of
  reject, withdraw and resubmit, with releaseInvoiceIfNothingPending, is one step as
  well, although the code writes it without a transaction.
- Discount and waiver are one step. A sweep that would move nothing is left out.
- A refund's journal is keyed by the time of posting: a second attempt may or may
  not post again.

Ledger.
- One company, months for dates, accounts named rather than coded; types and codes
  of accounts do not change and no period overlaps another.
- The lines of an entry are written with it: bills and year ends are posted without
  a transaction, and a crash between header and lines is left out. A checklist is
  read at one moment, and reading the chart is not interleaved with an edit of it.
- No bank has ever been reconciled and every development cost has a project, so
  those two checks pass (`BankReconciliation` has the first). No invoice is cancelled
  and no note approved.
- A payment is recorded after its invoice and may be dated before it, never after
  today.
- A manual journal or a reversal that is refused or replayed changes nothing; that
  it may fill the chart in memory is left out.

Bank reconciliation.
- How a cell becomes a date or an amount is a row's outcome: as printed, or, in one
  row, misread. The column mapping and the csv parsing are out, and so are the
  migration and journal imports.
- The journal is what its entries move on bank accounts. The queries of one lock are
  read at one moment. A statement balance typed by the person is what the books
  give, or it is refused.

Sessions.
- A password, a code or a proof is right where a handler goes on; refusals that
  change nothing modelled here (a wrong passcode and the lock it counts towards,
  two-factor, suspension) are out, as are one-time codes, the OAuth handoff, the
  set of companies a switch has proven and registration.
- The code lets a request pass whose session has no record (`OwnOrNone`): the model
  has it, so a lost cache signs nobody out.

Promotions.
- One company; row and current version are read and saved together. The listing price
  of a unit, the reports, and failures of a savepoint are out.
- Payment, cancellation, expiry and quantity edits of an invoice are what they do to
  its redemption and plan; `InvoicePayments` has the rest. The run buys
  outright: a payment plan (`Plan`, `Surcharge`) changes the total asked for, which only
  `PlanKeepsItsPromotion` reads.

Investments.
- Transactions listed and payouts recorded by hand (nothing reads them), alerts,
  deletion, the invoice, limits of one subscription, and two accrual runs at once are
  out. A reload of the row and the write computed from it are one step.
- Days stand for moments; growth factors are exact fractions.

Handover.
- The creation of a row is one step with the reads of recogniseFor. One request at a
  time: overlapping requests on one sale recognise it again.
- The posting switch and the chart (`GeneralLedger` has both), document numbers, cost
  types, several projects, more than one sale of a unit row, corrections of a
  handover's entry on the journal screen, and months closed out of order are out.
- Invoices are posted before the run and keep what they deferred.

## 7. Not modelled

See `PROJECT.json` for each component. The model covers the code that moves money and
the code that decides who is signed in. A quarter of the repository's lines are its own
`scripts/` (28 thousand of 109 thousand: migrations, seeds, and checks that drive
the services); much of the rest builds queries for lists and reports, validates forms, or
formats mail, receipts and csv files. They keep no state that an invariant would
relate, and are left out for good. The large controllers of users, properties, CRM and
support keep records by forms and approvals; the parts of them with behaviour (purchase
requests, KYC, the life of a lead, billing suspensions, the boot lock and document
numbers) are in the plan. Delivery of mail and pushes is not awaited by any handler.

## 8. Promises the code does not keep

While the models were written, TLC found these sentences of the repository violated.
Two are runs of their own (section 4). Each of the others is stated by a property of
its module; added to the named configuration, or checked with the constants given
there, it has a counterexample (drop `SYMMETRY` where there is one). *P* marks properties to be added
under `PROPERTY`, the rest are invariants.

| Property, configuration | Promise | What happens |
| --- | --- | --- |
| `EveryPaymentVests` *P*, `settlement.cfg` | a pass "runs after every approved payment and vests whatever the trigger now allows" (`S/commissionStore.js:587`) | markPayoutPaid (:1703) sets PAID on a line that is only partly released; releaseForDeal (:606) never selects it again |
| `OneSystemPays`, `settlement.cfg` | exactly one system runs: "If both run, everybody is paid twice" (`F/services/commissionBridge.js:12`) | handlePayment (:133) asks for a plan in force now, not for an accrual: a plan archived between two payments adds the flat rate to the plan's lines |
| `EarnedWithinPeriodicCap`, `engine.cfg` with `MaxDeals = 2`, `Plans <- Capping`, `Profiles <- OneProfile` | "A ceiling on what one realtor may earn in a month, quarter or year" (`S/commission/constraints.js:308`) | computeForDeal (`S/commissionStore.js:256`) never supplies `earned_so_far`: every deal is capped on its own |
| `PoolAccountedFor`, `engine.cfg` | "The money has to go somewhere explicit, because the alternative is a pool that quietly pays out less than it is configured to" (`S/commission/constraints.js:147`) | REDISTRIBUTE_PRORATA of a fixed pool nobody claims from, the realtors being inactive: applySurplus (:155) has no weight to divide by, pays nothing and reports no breakage |
| `BankAgreesWithCashBook`, `invoices.cfg` | cash book and ledger "can be reconciled against each other" (`F/services/allocationService.js:303`) | an overpayment (:459) is posted whole and its surplus again: the ledger's bank is debited twice |
| `DiscountGrantedOnce`, `invoices.cfg` | "Re-saving an invoice with the same discount must therefore be a no-op" (`F/services/discountService.js:22`) | the discount of settled schedules is set aside (:79) and the whole is spread over the rest |
| `NothingDueIsPaid`, `invoices.cfg` | "otherwise a buyer who paid exactly what they were asked for would leave a residue the size of their discount, and the installment would never reach `paid`" (`S/paymentAllocation.js:40`) | a discount may cover whole what is left of a schedule (`F/services/discountService.js:79`); no payment touches a schedule that asks for nothing, so it is never settled and the invoice stays `partially_paid`. waiveScheduleFee (`paymentScheduleController.js:448`) settles the last schedule and leaves the invoice alike |
| `ReceiptAgreesWithPayment`, `invoices.cfg` with `MaxInFlight = 2` | "a receipt can never end up verified without its payment — nor a payment recorded against a receipt that stayed pending" (`F/controllers/financeController.js:2651`) | rejectReceipt (:3495) writes over what verifyReceipt did since it read |
| `PostedToIsKept`, `ledger.cfg` with `Event = {"invoice", "deferred"}`, `Editable = {"deferred"}` and `Account`, `TypeOf`, `Seeded` of `MCSales` | "a journal line pointing at a row that is gone is a statement that cannot be reproduced" (`F/controllers/accountingController.js:124`) | deactivateAccount (:149) removes an account nothing is posted to and forgets the chart of its own process only; where services run apart (`docker-compose.split.yml`), property-service posts its next sale to it by the chart it holds |
| `NoSuspenseBehindClose`, `ledger.cfg` with `NamedMonths = {2}` | "Closing out of order leaves a month that can still change behind one that cannot" (`S/accounting/periodClose.js:212`) | earlierPeriodsClosed (:199) sees only periods that exist; a month whose period is made after a later one was closed is corrected behind it |
| `YearEndClearsResult`, `ledger.cfg` | "the income and expense accounts are zero" (`S/accounting/periodClose.js:263`) | postYearEnd (`F/controllers/periodsController.js:213`) takes the key of a reversed entry for a posted one |
| `ImportedAsPrinted`, `bankrec.cfg` with `Statements <- MCNewestFirst` | "a statement that prints its balance is a statement that can be made to prove the amounts were read correctly" (`F/controllers/bankRecController.js:466`) | newest first, the wrong row of a pair is compared (:673), so the check stays silent |
| `PlanKeepsItsPromotion`, `promotions.cfg` | an edit "changes the quantity and nothing else about the agreed terms" (`S/paymentPlanGateway.js:268`) | regeneratePaymentPlan (:282) quotes without the promotion's discount |
| `SweepIsSafeToRestart`, `investments.cfg` | "A deploy restarts mid-sweep ... must be safe" (`services/investment-service/src/services/accrualRun.js:18`) | the payout is raised before its counter is written (:137), without a transaction |
| `NothingRaisedTwice` and `LeavingNeverBeatsStaying`, `investments.cfg` with `Offers <- ByTheMonth`, `Amounts = {577}`, `Payments <- AtOnce`, `Days <- RoundingDays`, `LastFunding = 0`, `MaxStops = 0` | "flooring means the company never pays out more than it computed" (`S/investments/accrual.js:128`) | compounding rounds the capital up or down where a period ends (:109): what is released or paid to leave just before may be one unit more than the whole term comes to |
| `ApprovedMoneyFunds` *P*, `investments.cfg` | "The accrual run does this for everything nightly" (`services/investment-service/src/controllers/investmentController.js:524`) | fundedAgainstInvoice (`investmentEngine.js:42`) sums payments of status `verified`; finance writes `completed` (`F/services/allocationService.js:259`), and the run takes funded rows only |

Met while modelling the handover, without a property of their own: a reversal the
ledger refuses is swallowed and the handover is reversed all the same
(`handoverController.js:478`); a catch-up raises every row of a unit row with several
sales; a reversal after a catch-up keeps what the catch-up added; a second catch-up of
a day for the same amount posts nothing and raises the rows; a reversed bill stays in
the pool, the source of a reversal being neither capitalising nor releasing
(`S/accounting/developmentCost.js:50`).
