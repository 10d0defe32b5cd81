------------------------------ MODULE Handover ------------------------------
(***************************************************************************)
(* The handover of sold units and the cost of one project: handovers are   *)
(* recorded, signed and reversed (handoverController.js), bills capitalise *)
(* cost, and cost leaves by a handover, a catch-up or a write-down         *)
(* (developmentController.js, developmentCost.js).                         *)
(*                                                                         *)
(* A handler awaits every query, so it goes in steps: it looks, it posts   *)
(* (the posting commits on its own) and it writes its row.  Other handlers *)
(* run between these steps, and a stop ends a handler between them.        *)
(*                                                                         *)
(* The journal keeps what the figures are read from: what an entry moves   *)
(* on work in progress and what it takes from deferred revenue.  A posting *)
(* with the same source, source id, total and date is there already; a     *)
(* reversal is an entry of the source "reversal".  Invoices are posted     *)
(* before the run and keep what they deferred.                             *)
(*                                                                         *)
(* Left out: the posting switch and the chart (GeneralLedger has both),    *)
(* document numbers, cost types and their screen, more projects than one,  *)
(* corrections of a handover's entry on the journal screen, and months     *)
(* that are closed out of order.                                           *)
(*                                                                         *)
(* AttachedAgain and KeptAnyway stand for plausible mistakes in the action *)
(* that follows them.                                                      *)
(***************************************************************************)
EXTENDS CostAllocation

CONSTANTS
  Units,          \* the units of the project, a sequence
  Sales,          \* invoices: each [unit, raised]; raised: what was deferred
  Bills,          \* what is billed, or credited by a supplier where negative
  Proceeds,       \* what the project may be expected to fetch
  Handlers,       \* the requests there can be at once
  MaxHandovers,   \* bound: handovers recorded
  MaxEntries,     \* bound: postings that are not a handover's, and stops
  MaxStops,       \* bound: stops of the service
  LastMonth       \* bound: the last month

Sale == DOMAIN Sales

(* What the inputs are: whole amounts, of units the project has.           *)
InputsAreFigures ==
  /\ Units \in Seq([size : Int, price : Int, quantity : Int])
  /\ \A s \in Sale : Sales[s].unit \in DOMAIN Units /\ Sales[s].raised \in Nat
  /\ Bills \subseteq Int \ {0}
  /\ Proceeds \subseteq Nat
  /\ {MaxHandovers, MaxEntries, MaxStops, LastMonth} \subseteq Nat

ASSUME HandoverAssumptions == InputsAreFigures

Unknown == -1

VARIABLES
  policy,         \* the property's row: [basis, proceeds]
  journal,        \* the entries of the project
  handovers,      \* the rows
  handling,       \* per handler: what it has read and is about to do
  closed,         \* months 1..closed are closed
  stops,
  answered        \* the ledger has answered a posting with an earlier one

handoverVars == <<policy, journal, handovers, handling, closed, stops, answered>>

Idle == [op |-> "idle"]

HandoverInit ==
  /\ policy = [basis |-> "saleable_area", proceeds |-> Unknown]
  /\ journal = <<>>
  /\ handovers = <<>>
  /\ handling = [h \in Handlers |-> Idle]
  /\ closed = 0
  /\ stops = 0
  /\ answered = FALSE

-----------------------------------------------------------------------------
(* The journal, as its one door sees it (post, postEvent, reverse).        *)
Entry(source, of, month, revenue, wip, total) ==
  [source |-> source, of |-> of, month |-> month, revenue |-> revenue, wip |-> wip, total |-> total]

SameKey(e, f) ==
  e.source = f.source /\ e.of = f.of /\ e.month = f.month /\ e.total = f.total

Posted(e) == \E i \in DOMAIN journal : SameKey(journal[i], e)

Refused(e) == ~Posted(e) /\ (e.total = 0 \/ e.month <= closed)

Post(e) == journal' = IF Posted(e) \/ Refused(e) THEN journal ELSE Append(journal, e)

Reversal(i) ==
  Entry("reversal", i, journal[i].month, -journal[i].revenue, -journal[i].wip, journal[i].total)

EntriesOf(source, of) == {i \in DOMAIN journal : journal[i].source = source /\ journal[i].of = of}

Standing(i) == EntriesOf("reversal", i) = {}

-----------------------------------------------------------------------------
(* developmentCost.js.                                                     *)
Capitalising == {"bill", "supplier_credit_note"}
WritingDown  == {"write_down"}

Moved(some) == SumFunctionOnSet([i \in some |-> journal[i].wip], some)

Movement(sources) == Moved({i \in DOMAIN journal : journal[i].source \in sources})

Balance == Moved(DOMAIN journal)

(* Allocated is the cost less what it was written down by.                 *)
Pool == Movement(Capitalising) + Movement(WritingDown)

Allocated(u) == Shares(Pool, Units, policy.basis)[u]

Recorded == {n \in DOMAIN handovers : handovers[n].status = "recorded"}

ReleasedBy(u) ==
  LET rows == {n \in Recorded : handovers[n].unit = u}
  IN  SumFunctionOnSet([n \in rows |-> handovers[n].cost], rows)

HandedOver(u) == \E n \in Recorded : handovers[n].unit = u

Outstanding(u) ==
  IF HandedOver(u) THEN OutstandingRelease(Allocated(u), ReleasedBy(u)) ELSE 0

CatchUp == SumFunction([u \in DOMAIN Units |-> Outstanding(u)])

ReleaseForUnit(u) == Greater(OutstandingRelease(Allocated(u), ReleasedBy(u)), 0)

(* assessNrv's question; nobody has said: no shortfall is due.             *)
Shortfall == IF policy.proceeds = Unknown THEN 0 ELSE Greater(Balance - policy.proceeds, 0)

(* deferredFor: what was raised, less what recorded handovers have taken.  *)
DeferredFor(sale) ==
  LET rows == {n \in Recorded : handovers[n].sale = sale}
  IN  Greater(Sales[sale].raised - SumFunctionOnSet([n \in rows |-> handovers[n].revenue], rows), 0)

-----------------------------------------------------------------------------
Begin(h, request) ==
  /\ handling[h] = Idle
  /\ handling' = [handling EXCEPT ![h] = request]

Goes(h, request) == handling' = [handling EXCEPT ![h] = request]

Ends(h) == Goes(h, Idle)

Doing(h, op) == handling[h].op = op

Month == 1..LastMonth

(* recogniseFor, at its reads.  Without the document nothing is read.      *)
Recognition(n, row) ==
  LET revenue == DeferredFor(row.sale)
      cost    == ReleaseForUnit(row.unit)
  IN  IF row.signed /\ (revenue > 0 \/ cost > 0)
      THEN [op |-> "post", row |-> n, revenue |-> revenue, cost |-> cost]
      ELSE Idle

(* recordHandover looks for one that stands, and then creates its own.     *)
AlreadyHandedOver(sale) == \E n \in Recorded : handovers[n].sale = sale

RecordReads ==
  \E h \in Handlers, sale \in Sale, month \in Month, signed \in BOOLEAN :
    /\ Len(handovers) < MaxHandovers
    /\ ~AlreadyHandedOver(sale)
    /\ Begin(h, [op |-> "record", row |-> [sale |-> sale, unit |-> Sales[sale].unit, month |-> month,
                   signed |-> signed, status |-> "recorded", revenue |-> 0, cost |-> 0]])
    /\ UNCHANGED <<policy, journal, handovers, closed, stops, answered>>

RecordHandover ==
  \E h \in Handlers :
    /\ Doing(h, "record")
    /\ Len(handovers) < MaxHandovers
    /\ handovers' = Append(handovers, handling[h].row)
    /\ Goes(h, Recognition(Len(handovers'), handling[h].row))
    /\ UNCHANGED <<policy, journal, closed, stops, answered>>

(* attachAcknowledgement: whether the handover had been recognised is what *)
(* it read at first.                                                       *)
AttachReads ==
  \E h \in Handlers, n \in Recorded :
    /\ Begin(h, [op |-> "attach", row |-> n,
                 recognised |-> handovers[n].revenue # 0 \/ handovers[n].cost # 0])
    /\ UNCHANGED <<policy, journal, handovers, closed, stops, answered>>

AttachedAgain ==
  \E h \in Handlers :
    /\ Doing(h, "attach")
    /\ LET n == handling[h].row
       IN  /\ handovers' = [handovers EXCEPT ![n].signed = TRUE]
           /\ Goes(h, Recognition(n, handovers'[n]))
    /\ UNCHANGED <<policy, journal, closed, stops, answered>>

AttachAcknowledgement ==
  \E h \in Handlers :
    /\ Doing(h, "attach")
    /\ LET n == handling[h].row
       IN  /\ handovers' = [handovers EXCEPT ![n].signed = TRUE]
           /\ Goes(h, IF handling[h].recognised THEN Idle ELSE Recognition(n, handovers'[n]))
    /\ UNCHANGED <<policy, journal, closed, stops, answered>>

(* What was read is posted as one entry, and then kept on the row.         *)
Recognised(q) ==
  Entry("handover", q.row, handovers[q.row].month, q.revenue, -q.cost, q.revenue + q.cost)

KeptAnyway ==
  \E h \in Handlers :
    /\ Doing(h, "post")
    /\ Post(Recognised(handling[h]))
    /\ answered' = (answered \/ Posted(Recognised(handling[h])))
    /\ Goes(h, [handling[h] EXCEPT !.op = "keep"])
    /\ UNCHANGED <<policy, handovers, closed, stops>>

PostHandover ==
  \E h \in Handlers :
    /\ Doing(h, "post")
    /\ Post(Recognised(handling[h]))
    /\ answered' = (answered \/ Posted(Recognised(handling[h])))
    /\ Goes(h, IF Refused(Recognised(handling[h])) THEN Idle ELSE [handling[h] EXCEPT !.op = "keep"])
    /\ UNCHANGED <<policy, handovers, closed, stops>>

KeepFigures ==
  \E h \in Handlers :
    /\ Doing(h, "keep")
    /\ handovers' = [handovers EXCEPT ![handling[h].row].revenue = handling[h].revenue,
                                      ![handling[h].row].cost = handling[h].cost]
    /\ Ends(h)
    /\ UNCHANGED <<policy, journal, closed, stops, answered>>

-----------------------------------------------------------------------------
(* reverseHandover: the latest entry of the handover is reversed, dated as *)
(* it was; a refusal is logged; and the row is reversed whatever came of   *)
(* it.                                                                     *)
ReverseReads ==
  \E h \in Handlers, n \in Recorded :
    /\ Begin(h, [op |-> "reverse", row |-> n, entries |-> EntriesOf("handover", n)])
    /\ UNCHANGED <<policy, journal, handovers, closed, stops, answered>>

Latest(entries) == CHOOSE i \in entries : \A j \in entries : j <= i

ReverseEntry ==
  \E h \in Handlers :
    /\ Doing(h, "reverse")
    /\ IF handling[h].entries = {} THEN UNCHANGED journal ELSE Post(Reversal(Latest(handling[h].entries)))
    /\ Goes(h, [op |-> "unrecord", row |-> handling[h].row])
    /\ UNCHANGED <<policy, handovers, closed, stops, answered>>

ReverseHandover ==
  \E h \in Handlers :
    /\ Doing(h, "unrecord")
    /\ handovers' = [handovers EXCEPT ![handling[h].row].status = "reversed"]
    /\ Ends(h)
    /\ UNCHANGED <<policy, journal, closed, stops, answered>>

-----------------------------------------------------------------------------
(* The cost of the project.                                                *)
Others == {i \in DOMAIN journal : journal[i].source # "handover" /\ journal[i].source # "reversal"}

MayPost ==
  stops + Cardinality(Others) + Cardinality({h \in Handlers : Doing(h, "release") \/ Doing(h, "cut")})
    < MaxEntries

(* A bill of a capitalisable type is approved, or a supplier's credit note *)
(* (the choice of the model: for no more than is there).                   *)
ApproveBill ==
  \E amount \in Bills, month \in Month :
    /\ MayPost
    /\ month > closed
    /\ amount < 0 => -amount <= Balance
    /\ Post(Entry(IF amount > 0 THEN "bill" ELSE "supplier_credit_note", Len(journal) + 1, month, 0, amount,
                  IF amount > 0 THEN amount ELSE -amount))
    /\ UNCHANGED <<policy, handovers, handling, closed, stops, answered>>

SavePolicy ==
  \E basis \in Bases \ {policy.basis} :
    /\ policy' = [policy EXCEPT !.basis = basis]
    /\ UNCHANGED <<journal, handovers, handling, closed, stops, answered>>

AssessNrv ==
  \E proceeds \in Proceeds \ {policy.proceeds} :
    /\ policy' = [policy EXCEPT !.proceeds = proceeds]
    /\ UNCHANGED <<journal, handovers, handling, closed, stops, answered>>

CatchUpReads ==
  \E h \in Handlers, month \in Month :
    /\ MayPost
    /\ CatchUp # 0
    /\ Begin(h, [op |-> "release", month |-> month, amount |-> CatchUp,
                 due |-> [u \in DOMAIN Units |-> Outstanding(u)]])
    /\ UNCHANGED <<policy, journal, handovers, closed, stops, answered>>

(* Keyed by the project and the date.                                      *)
Released(q) ==
  Entry("cost_catch_up", 0, q.month, 0, -q.amount, IF q.amount > 0 THEN q.amount ELSE -q.amount)

PostCatchUp ==
  \E h \in Handlers :
    /\ Doing(h, "release")
    /\ Post(Released(handling[h]))
    /\ answered' = (answered \/ Posted(Released(handling[h])))
    /\ Goes(h, IF Refused(Released(handling[h])) THEN Idle ELSE [op |-> "caught", due |-> handling[h].due])
    /\ UNCHANGED <<policy, handovers, closed, stops>>

(* Every recorded row of a unit is raised by what the unit owed.           *)
CatchUpRows ==
  \E h \in Handlers :
    /\ Doing(h, "caught")
    /\ handovers' = [n \in DOMAIN handovers |->
                       IF n \in Recorded
                       THEN [handovers[n] EXCEPT !.cost = @ + handling[h].due[handovers[n].unit]]
                       ELSE handovers[n]]
    /\ Ends(h)
    /\ UNCHANGED <<policy, journal, closed, stops, answered>>

WriteDownReads ==
  \E h \in Handlers, month \in Month :
    /\ MayPost
    /\ Shortfall > 0
    /\ Begin(h, [op |-> "cut", month |-> month, amount |-> Shortfall])
    /\ UNCHANGED <<policy, journal, handovers, closed, stops, answered>>

PostWriteDown ==
  \E h \in Handlers :
    /\ Doing(h, "cut")
    /\ Post(Entry("write_down", 0, handling[h].month, 0, -handling[h].amount, handling[h].amount))
    /\ Ends(h)
    /\ UNCHANGED <<policy, handovers, closed, stops, answered>>

-----------------------------------------------------------------------------
CloseMonth ==
  /\ closed < LastMonth
  /\ closed' = closed + 1
  /\ UNCHANGED <<policy, journal, handovers, handling, stops, answered>>

ReopenMonth ==
  /\ closed > 0
  /\ closed' = closed - 1
  /\ UNCHANGED <<policy, journal, handovers, handling, stops, answered>>

Stop ==
  /\ stops < MaxStops /\ MayPost
  /\ \E h \in Handlers : handling[h] # Idle
  /\ stops' = stops + 1
  /\ handling' = [h \in Handlers |-> Idle]
  /\ UNCHANGED <<policy, journal, handovers, closed, answered>>

HandoverNext ==
  \/ RecordReads \/ RecordHandover \/ AttachReads \/ AttachAcknowledgement
  \/ PostHandover \/ KeepFigures
  \/ ReverseReads \/ ReverseEntry \/ ReverseHandover
  \/ ApproveBill \/ SavePolicy \/ AssessNrv
  \/ CatchUpReads \/ PostCatchUp \/ CatchUpRows \/ WriteDownReads \/ PostWriteDown
  \/ CloseMonth \/ ReopenMonth \/ Stop

HandoverSpec == HandoverInit /\ [][HandoverNext]_handoverVars

-----------------------------------------------------------------------------
(* What standing entries have recognised for a sale's recorded handovers.  *)
StandingFor(sale) ==
  {i \in DOMAIN journal : /\ journal[i].source = "handover"
                          /\ journal[i].of \in Recorded
                          /\ handovers[journal[i].of].sale = sale
                          /\ Standing(i)}

RevenueOf(sale) ==
  SumFunctionOnSet([i \in StandingFor(sale) |-> journal[i].revenue], StandingFor(sale))

(* While requests are served one at a time, a sale's deferred revenue is   *)
(* recognised once by its recorded handovers, whatever bills, policies,    *)
(* closings and reversals come between, and again at most by a request     *)
(* that was stopped before it kept its figures (recogniseFor,              *)
(* deferredFor).                                                           *)
RecognisedOnce ==
  Cardinality(Handlers) = 1 => \A sale \in Sale : RevenueOf(sale) <= (1 + stops) * Sales[sale].raised

(* A reversed handover was put back whole: its entry is reversed, and no   *)
(* catch-up had added to its row.                                          *)
PutBackWhole(n) ==
  /\ \A i \in EntriesOf("handover", n) : ~Standing(i)
  /\ handovers[n].cost = -Moved(EntriesOf("handover", n))

(* Where no request was cut short and every unit handed over has been      *)
(* charged its share, what is in work in progress is the shares of the     *)
(* units that are not: bills and write-downs before and after handovers,   *)
(* a changed basis, catch-ups in both directions, refused postings and     *)
(* reversals leave no cost of a sold unit on the balance sheet and take    *)
(* none of an unsold one (projectCost), unless two postings of a day were  *)
(* for the same handover or project and the same amount.                   *)
WorkInProgressIsUnsold ==
  LET unsold == {u \in DOMAIN Units : ~HandedOver(u)}
  IN  (/\ ~answered
       /\ stops = 0
       /\ \A h \in Handlers : handling[h] = Idle
       /\ \A u \in DOMAIN Units : Outstanding(u) = 0
       /\ \A n \in DOMAIN handovers \ Recorded : PutBackWhole(n)
       /\ Pool > 0)
        => Balance = SumFunctionOnSet([u \in unsold |-> Allocated(u)], unsold)

(* Revenue and its cost move together or neither moves (rules.js): where a *)
(* signed handover's cost has left work in progress, nothing of its sale   *)
(* is still deferred (attachAcknowledgement, postCatchUp).                 *)
RevenueMovesWithCost ==
  \A n \in Recorded :
    (/\ handovers[n].signed
     /\ handovers[n].cost > 0
     /\ \A h \in Handlers : handling[h] = Idle)
      => DeferredFor(handovers[n].sale) = 0
=============================================================================
