---------------------------- MODULE Investments ----------------------------
(***************************************************************************)
(* investment-service: opportunities, subscriptions, the nightly accrual   *)
(* run, cash-outs and the screens of an administrator.                     *)
(*                                                                         *)
(* The run takes one investment after the other and awaits every write, so *)
(* each of its writes is a step: the payout is raised before the counter   *)
(* that remembers it, and a stop between them leaves the one without the   *)
(* other.  A failure inside the run ends it the same way.                  *)
(*                                                                         *)
(* Finance approves payments and tells this service nothing: recordFunding *)
(* reads the invoice's payments.  The status it asks for is "verified";    *)
(* the one finance writes (allocationService.js) is "completed".  Money    *)
(* therefore gets into an investment by an administrator's edit of the     *)
(* row, which takes any body.                                              *)
(*                                                                         *)
(* Left out: the transactions an investment lists and the payouts recorded *)
(* by hand (nothing reads either), the limits on one subscription's        *)
(* amount, the invoice itself, deletion, alerts and notifications.         *)
(*                                                                         *)
(* Uncounted, OnlyRunning, FundedOnly and OnceMatured stand for plausible  *)
(* mistakes in the operator that follows them.                             *)
(***************************************************************************)
EXTENDS InvestmentTerms

CONSTANTS
  Offers,           \* what an opportunity may say: [status, terms, cap, opens, closes]
  Amounts,          \* what may be subscribed or funded
  Payments,         \* what finance may approve, and when: [amount, day]
  MaxInvestments,   \* bound: subscriptions made
  Followed,         \* bound: those to which anything happens afterwards
  MaxRequests,      \* bound: requests in flight at once
  MaxStops,         \* bound: stops of the service
  Days,             \* bound: the days of the run, from 0
  LastFunding       \* bound: the last day money arrives, its tenor still within Days

(* What the inputs are: whole amounts and days, and complete terms.        *)
InputsAreFigures ==
  /\ \A offer \in Offers : AreFigures(offer.terms) /\ GrowthAgrees(offer.terms) /\ offer.cap \in Nat
  /\ Amounts \subseteq Nat \ {0} /\ IsFiniteSet(Amounts) /\ Amounts # {}
  /\ Days \subseteq Nat
  /\ Payments \subseteq [amount : Nat \ {0}, day : Days]
  /\ {MaxInvestments, MaxRequests, MaxStops, LastFunding} \subseteq Nat /\ MaxRequests > 0

ASSUME InvestmentAssumptions == InputsAreFigures

VARIABLES
  offer,        \* the opportunity as it stands
  book,         \* the investments, by id, each with the sums of its payouts
  requests,     \* requests that have read and not yet written
  sweep,        \* the accrual run
  stops,
  today

investmentVars == <<offer, book, requests, sweep, stops, today>>

Idle == [at |-> "idle"]

InvestmentInit ==
  /\ offer \in Offers
  /\ book = <<>>
  /\ requests = {}
  /\ sweep = Idle
  /\ stops = 0
  /\ today = 0

-----------------------------------------------------------------------------
(* investmentEngine.                                                       *)
FundedOnly(i) == IF book[i].status = "cancelled" THEN 0 ELSE book[i].funded

Committed(i) == IF book[i].status = "cancelled" THEN 0 ELSE book[i].principal

RaisedSoFar == Total([i \in DOMAIN book |-> Committed(i)])

SubscriptionWindow(amount) ==
  /\ offer.status = "active"
  /\ today \in offer.opens..offer.closes
  /\ offer.cap > 0 => amount <= offer.cap - RaisedSoFar

FundedAgainstInvoice(i) ==
  LET verified == {p \in book[i].payments : p.status = "verified"}
  IN  [minor |-> Total([p \in verified |-> p.amount]),
       first |-> IF verified = {} THEN Never
                 ELSE (CHOOSE p \in verified : \A q \in verified : p.day <= q.day).day]

(* recordFunding: the tenor starts with the first money.                   *)
RecordFunding(i) ==
  LET paid == FundedAgainstInvoice(i)
      this == book[i]
  IN  IF paid.minor <= 0 \/ (paid.minor = this.funded /\ this.fundedAt # Never) THEN this
      ELSE [this EXCEPT !.funded = paid.minor,
                        !.fundedAt = IF @ = Never THEN paid.first ELSE @,
                        !.status = IF @ = "pending" THEN "active" ELSE @]

(* positionOf: what a payout is made from.                                 *)
PositionOf(this, asAt) ==
  [releasable |-> Releasable(this.terms, this.funded, this.fundedAt, asAt, this.returnPaid),
   capital    |-> Greater(this.funded - this.capitalPaid, 0),
   matured    |-> HasMatured(this.terms, this.fundedAt, asAt)]

ExitQuoteFor(this, asAt) ==
  QuoteExit(this.terms, this.status, this.funded, this.fundedAt, this.returnPaid, asAt)

-----------------------------------------------------------------------------
(* The opportunity's own screen: any of its terms, at any time somebody    *)
(* may still subscribe.                                                    *)
EditPlan ==
  \E other \in Offers :
    /\ other # offer
    /\ Len(book) < MaxInvestments
    /\ offer' = other
    /\ UNCHANGED <<book, requests, sweep, stops, today>>

Admit(q) ==
  /\ Cardinality(requests) < MaxRequests
  /\ q \notin requests
  /\ requests' = requests \union {q}
  /\ UNCHANGED <<offer, book, sweep, stops, today>>

Served(q) ==
  /\ q \in requests
  /\ requests' = requests \ {q}
  /\ UNCHANGED <<offer, sweep, stops, today>>

(* subscribeToPlan reads the opportunity and what was raised, and then     *)
(* writes the subscription, with a copy of the terms it read.              *)
SubscribeReads ==
  \E amount \in Amounts :
    /\ Len(book) + Cardinality({q \in requests : q.op = "subscribe"}) < MaxInvestments
    /\ SubscriptionWindow(amount)
    /\ Admit([op |-> "subscribe", amount |-> amount, terms |-> offer.terms, nth |-> Cardinality(requests)])

Subscribe ==
  \E q \in requests :
    /\ q.op = "subscribe"
    /\ Served(q)
    /\ book' = Append(book,
         [status |-> "pending", cashOut |-> "not_requested", terms |-> q.terms,
          principal |-> q.amount, funded |-> 0, fundedAt |-> Never,
          returnPaid |-> 0, capitalPaid |-> 0, payments |-> {},
          raised |-> [return |-> 0, capital |-> 0]])

Subjects == DOMAIN book \intersect Followed

(* Finance approves a payment of the subscription's invoice.               *)
ApprovePayment ==
  \E i \in Subjects, p \in Payments :
    /\ book[i].payments = {}
    /\ today = p.day
    /\ book' = [book EXCEPT ![i].payments = {[status |-> "completed", amount |-> p.amount, day |-> p.day]}]
    /\ UNCHANGED <<offer, requests, sweep, stops, today>>

SyncFunding ==
  \E i \in Subjects :
    /\ book' = [book EXCEPT ![i] = RecordFunding(i)]
    /\ UNCHANGED <<offer, requests, sweep, stops, today>>

(* The administrator's edit of the row: here, that more money has arrived, *)
(* and the investment runs again.                                          *)
EditInvestment ==
  \E i \in Subjects, amount \in Amounts :
    /\ today <= LastFunding
    /\ amount > book[i].funded
    /\ book[i].cashOut # "paid"
    /\ book' = [book EXCEPT ![i].funded = amount, ![i].status = "active",
                            ![i].fundedAt = IF @ = Never THEN today ELSE @]
    /\ UNCHANGED <<offer, requests, sweep, stops, today>>

(* activateInvestment asks for no status and no money.                     *)
ActivateInvestment ==
  \E i \in Subjects :
    /\ book' = [book EXCEPT ![i].status = "active"]
    /\ UNCHANGED <<offer, requests, sweep, stops, today>>

-----------------------------------------------------------------------------
(* Cash-outs: each handler looks at the status and then writes it.         *)
RequestCashOut ==
  \E i \in Subjects :
    /\ book[i].cashOut = "not_requested"
    /\ book' = [book EXCEPT ![i].cashOut = "requested"]
    /\ UNCHANGED <<offer, requests, sweep, stops, today>>

ReviewReads ==
  \E i \in Subjects, op \in {"approve", "reject"} :
    /\ book[i].cashOut = "requested"
    /\ Admit([op |-> op, id |-> i])

ApproveCashOut ==
  \E q \in requests :
    /\ q.op = "approve"
    /\ Served(q)
    /\ book' = [book EXCEPT ![q.id].cashOut = "paid", ![q.id].status = "completed"]

RejectCashOut ==
  \E q \in requests :
    /\ q.op = "reject"
    /\ Served(q)
    /\ book' = [book EXCEPT ![q.id].cashOut = "rejected"]

-----------------------------------------------------------------------------
(* runAccrual.                                                             *)
OnlyRunning(i) == book[i].status = "active" /\ ~HasMatured(book[i].terms, book[i].fundedAt, today)

Due(i) == book[i].status = "active"

DueInvestments ==
  {i \in DOMAIN book : Due(i) /\ book[i].funded > 0 /\ book[i].fundedAt # Never}

SweepStarts ==
  /\ sweep = Idle
  /\ sweep' = [at |-> "look", asAt |-> today, queue |-> DueInvestments]
  /\ UNCHANGED <<offer, book, requests, stops, today>>

Running(step) == sweep.at = step

This == CHOOSE i \in sweep.queue : \A j \in sweep.queue : i <= j

GoesTo(step) == sweep' = [sweep EXCEPT !.at = step]

SweepOnly == UNCHANGED <<offer, requests, stops, today>>

SweepEnds ==
  /\ Running("look")
  /\ sweep.queue = {}
  /\ sweep' = Idle
  /\ UNCHANGED book
  /\ SweepOnly

(* The investment is read with its funding, and its position computed once *)
(* for all the writes that follow.                                         *)
SweepLooks ==
  /\ Running("look")
  /\ sweep.queue # {}
  /\ book' = [book EXCEPT ![This] = RecordFunding(This)]
  /\ LET position == PositionOf(book'[This], sweep.asAt)
     IN  sweep' = [at |-> IF position.releasable > 0 THEN "raise" ELSE "capital",
                   asAt |-> sweep.asAt, queue |-> sweep.queue, position |-> position,
                   read |-> [returnPaid |-> book'[This].returnPaid, funded |-> book'[This].funded]]
  /\ SweepOnly

SweepRaises ==
  /\ Running("raise")
  /\ book' = [book EXCEPT ![This].raised.return = @ + sweep.position.releasable]
  /\ GoesTo("count")
  /\ SweepOnly

Uncounted(returnPaid, released) == returnPaid

Counted(returnPaid, released) == returnPaid + released

SweepCounts ==
  /\ Running("count")
  /\ book' = [book EXCEPT ![This].returnPaid = Counted(sweep.read.returnPaid, sweep.position.releasable)]
  /\ GoesTo("capital")
  /\ SweepOnly

SweepReturnsCapital ==
  /\ Running("capital")
  /\ IF sweep.position.matured /\ sweep.position.capital > 0
     THEN /\ book' = [book EXCEPT ![This].raised.capital = @ + sweep.position.capital]
          /\ GoesTo("countCapital")
     ELSE UNCHANGED book /\ GoesTo("settle")
  /\ SweepOnly

SweepCountsCapital ==
  /\ Running("countCapital")
  /\ book' = [book EXCEPT ![This].capitalPaid = sweep.read.funded]
  /\ GoesTo("settle")
  /\ SweepOnly

(* Reads the row again, and completes it when nothing is left: one step.   *)
OnceMatured(position) == position.matured

Settled(position) == position.matured /\ position.releasable = 0 /\ position.capital = 0

SweepSettles ==
  /\ Running("settle")
  /\ book' = [book EXCEPT ![This].status =
                IF Settled(PositionOf(book[This], sweep.asAt)) THEN "completed" ELSE @]
  /\ sweep' = [at |-> "look", asAt |-> sweep.asAt, queue |-> sweep.queue \ {This}]
  /\ SweepOnly

SweepStep ==
  \/ SweepEnds \/ SweepLooks \/ SweepRaises \/ SweepCounts
  \/ SweepReturnsCapital \/ SweepCountsCapital \/ SweepSettles

Stop ==
  /\ stops < MaxStops
  /\ stops' = stops + 1
  /\ sweep' = Idle
  /\ requests' = {}
  /\ UNCHANGED <<offer, book, today>>

NextDay ==
  /\ \E day \in Days :
       /\ day > today
       /\ \A other \in Days : other > today => day <= other
       /\ today' = day
  /\ UNCHANGED <<offer, book, requests, sweep, stops>>

InvestmentNext ==
  \/ EditPlan \/ SubscribeReads \/ Subscribe
  \/ ApprovePayment \/ SyncFunding \/ EditInvestment \/ ActivateInvestment
  \/ RequestCashOut \/ ReviewReads \/ ApproveCashOut \/ RejectCashOut
  \/ SweepStarts \/ SweepStep \/ Stop \/ NextDay

InvestmentSpec == InvestmentInit /\ [][InvestmentNext]_investmentVars

(* The clock goes on, the job fires every night, and a run goes on until   *)
(* it ends or is stopped.                                                  *)
FairSpec == InvestmentSpec /\ WF_investmentVars(NextDay) /\ WF_investmentVars(SweepStarts) /\ WF_investmentVars(SweepStep)

-----------------------------------------------------------------------------
(* However often the run is repeated, it raises no return that was not     *)
(* earned by a release that fell due, and no capital that did not arrive;  *)
(* a stop between a payout and its counter repeats that one payout at      *)
(* most (runAccrual).                                                      *)
NothingRaisedTwice ==
  \A i \in DOMAIN book :
    LET this   == book[i]
        due    == LastRelease(this.terms, this.fundedAt, today)
        earned == IF due = Never THEN 0 ELSE AccruedAt(this.terms, this.funded, this.fundedAt, due)
    IN  /\ this.raised.return <= (1 + stops) * earned
        /\ this.raised.capital <= (1 + stops) * this.funded

(* The same without the allowance: a deploy that restarts mid-sweep is     *)
(* safe, and the run pays nothing twice.                                   *)
SweepIsSafeToRestart ==
  \A i \in DOMAIN book : book[i].raised.capital <= book[i].funded

(* The run calls an investment completed only when its whole return and    *)
(* its whole capital have been raised, money that arrived while the run    *)
(* was at it included (the end of runAccrual).                             *)
CompletedIsSettled ==
  [][\A i \in DOMAIN book :
       SweepSettles /\ book[i].status = "active" /\ book'[i].status = "completed" =>
         /\ book[i].raised.capital >= book[i].funded
         /\ book[i].raised.return >=
              AccruedAt(book[i].terms, book[i].funded, book[i].fundedAt,
                        Maturity(book[i].terms, book[i].fundedAt))]_investmentVars

(* Whoever leaves early, whenever it is, gets the capital back, and with   *)
(* all that was paid before never more than who stays to the end           *)
(* (quoteExit, and the counters the run keeps).                            *)
LeavingNeverBeatsStaying ==
  \A i \in DOMAIN book :
    LET this  == book[i]
        quote == ExitQuoteFor(this, today)
        all   == AccruedAt(this.terms, this.funded, this.fundedAt, Maturity(this.terms, this.fundedAt))
    IN  quote.allowed =>
          /\ quote.net >= this.funded
          /\ this.returnPaid + quote.net <= this.funded + all

(* An opportunity takes no more than the highest of its caps, but for the  *)
(* subscriptions that were being made together (subscriptionWindow).       *)
CapKeptButForOverlap ==
  LET caps    == {o.cap : o \in Offers}
      taken   == Total([i \in DOMAIN book |-> IF book[i].status = "cancelled" THEN 0 ELSE book[i].principal])
      largest == CHOOSE a \in Amounts : \A b \in Amounts : b <= a
  IN  0 \notin caps =>
        \E cap \in caps : taken <= cap + (MaxRequests - 1) * largest

(* Money in an investment that runs comes back: in the end the capital is  *)
(* raised in full, or the investment was cashed out (runAccrual every      *)
(* night).                                                                 *)
Made(i) == i \in DOMAIN book

MoneyComesBack ==
  \A i \in 1..MaxInvestments :
    (Made(i) /\ book[i].status = "active" /\ book[i].funded > 0)
      ~> (Made(i) /\ (book[i].raised.capital >= book[i].funded \/ book[i].cashOut = "paid"))

(* Money that finance approved gets into the investment, that night if     *)
(* nobody asks for it sooner (recordFunding, and the run that calls it).   *)
ApprovedMoneyFunds ==
  \A i \in 1..MaxInvestments :
    (Made(i) /\ book[i].payments # {}) ~> (Made(i) /\ book[i].funded > 0)
=============================================================================
