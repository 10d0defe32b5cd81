--------------------------- MODULE GeneralLedger ---------------------------
(***************************************************************************)
(* The books of one company: business events are posted as journal         *)
(* entries through one door, entries are corrected by reversing them,      *)
(* months are closed over a checklist and reopened, a year end moves the   *)
(* result to retained earnings, and an administrator edits the chart of    *)
(* accounts, which every service that posts keeps in memory.               *)
(*                                                                         *)
(* A request that posts or closes is two steps or more: it reads (has the  *)
(* entry been posted, is the month closed, what does the checklist say),   *)
(* and then it is served, which writes.  A service may be restarted at any *)
(* moment: its requests are lost, with what their transactions did, and so *)
(* is its copy of the chart.  The lines of an entry are written with it,   *)
(* and the checklist is read at one moment.                                *)
(*                                                                         *)
(* The checklist's bank reconciliations are not in use (it only warns) and *)
(* every development cost has its project.  Events posted with the instant *)
(* of the request as their date and no lock on their document (notes,      *)
(* refunds, bill payments), or with amounts read from the books (handover, *)
(* catch-up, write-down), are left out.                                    *)
(*                                                                         *)
(* Kept, WithoutFallback, KeyByDate, AnyMonth, SameSides and NoChecks      *)
(* stand for plausible mistakes in what follows them.                      *)
(***************************************************************************)
EXTENDS PostingRules, FiniteSetsExt

CONSTANTS
  Event,          \* business events
  RuleOf,         \* the rule each is posted by
  AmountOf,       \* its amount
  InvoiceOf,      \* the invoice (an event) a payment is for
  LinesOf,        \* the lines its rule builds
  ServiceOf,      \* the service that posts it
  Account,        \* accounts the chart may hold
  TypeOf,         \* their types
  Seeded,         \* the chart as seeded
  Editable,       \* accounts an administrator edits
  GivenRoles,     \* roles he gives them
  ManualLines,    \* the journals a person writes
  NamedMonths,    \* months whose period may be made on its own, by name
  YearEnds,       \* months that end a financial year
  LastMonth,      \* bound: the last month of the run
  MaxEdits,       \* bound: edits of the chart and of the posting switch
  MaxReversals,   \* bound: reversals
  MaxInFlight     \* bound: requests in flight at once

Month == 1..LastMonth

ASSUME BoundsAreNatural ==
  /\ {LastMonth, MaxEdits, MaxReversals, MaxInFlight} \subseteq Nat
  /\ YearEnds \union NamedMonths \subseteq Month

(* Rules whose document is recorded once, or keeps its date and amounts.   *)
DocumentRules ==
  {"invoice", "fee_invoice", "invoice_payment", "overpayment", "commission_ledger", "bill",
   "supplier_credit_note"}

ASSUME EventsAreDocuments == \A e \in Event : RuleOf[e] \in DocumentRules

(* Lines of finitely many amounts, none negative.                          *)
AreAmounts(lines) ==
  /\ IsFiniteSet(DOMAIN lines)
  /\ \A i \in DOMAIN lines : {lines[i].debit, lines[i].credit} \subseteq Nat

ASSUME LinesAreAmounts ==
  \A lines \in ManualLines \union {LinesOf[e] : e \in Event} : AreAmounts(lines)

(* A company has finitely many accounts; one is absent until it is made,   *)
(* and a removed one never comes back.                                     *)
AccountStates == {"absent", "active", "inactive", "removed"}

ASSUME EditableAreAccounts == Editable \subseteq Account

ASSUME NoAccountIsNone == NoAccount \notin Account

ASSUME ChartIsSeeded ==
  /\ IsFiniteSet(Account)
  /\ Seeded \in [Account -> [state : AccountStates, role : {Seeded[a].role : a \in Account}]]

VARIABLES
  chart,          \* the accounts of the company
  copies,         \* per service: the chart it holds in memory, if any
  entries,        \* the journal
  periods,        \* per month: none, open or closed
  happened,       \* per event: the month it is dated in, 0 before it happens
  posting,        \* the company's posting switch
  today,          \* the current month
  edits,          \* edits made so far
  inFlight        \* requests that have read and not yet written

vars == <<chart, copies, entries, periods, happened, posting, today, edits, inFlight>>

(* Journals, periods and accounts are kept in finance-service.             *)
Service == {"finance"} \union {ServiceOf[e] : e \in Event}

(* A bill, or a supplier's credit on it, is approved first and posted      *)
(* after, in no transaction and dated as the document is.                  *)
InTransaction(e) == RuleOf[e] \notin {"bill", "supplier_credit_note"}

NoEvent == "no event"

Init ==
  /\ chart = Seeded
  /\ copies = [s \in Service |-> {}]
  /\ entries = {}
  /\ periods = [m \in Month |-> "none"]
  /\ happened = [e \in Event |-> 0]
  /\ posting = TRUE
  /\ today = 1
  /\ edits = 0
  /\ inFlight = {}

-----------------------------------------------------------------------------
(* The chart.  A role is claimed by at most one account; a deactivated     *)
(* account is still there.                                                 *)
Present(c, a) == c[a].state \in {"active", "inactive"}

Holding(c, role) == {a \in Account : Present(c, a) /\ c[a].role = role}

(* chartFor: what the service holds, or else what the company has.         *)
ChartFor(s) == IF copies[s] = {} THEN chart ELSE CHOOSE c \in copies[s] : TRUE

Remembered(s) == [copies EXCEPT ![s] = {ChartFor(s)}]

(* forgetChart, in the process that serves the accounts screen.            *)
Kept == copies
Forgotten == [copies EXCEPT !["finance"] = {}]

(* resolveAccount: the account named, or else the one holding the role, or *)
(* else suspense.                                                          *)
Resolve(c, line) ==
  IF line.account \in Account /\ Present(c, line.account) THEN {line.account}
  ELSE IF line.role # NoRole /\ Holding(c, line.role) # {} THEN Holding(c, line.role)
  ELSE Holding(c, "SUSPENSE")

AccountFor(c, line) == CHOOSE a \in Resolve(c, line) : TRUE

WithoutFallback(c, lines) ==
  LET found == SelectSeq(lines, LAMBDA l : l.role = NoRole \/ Holding(c, l.role) # {})
  IN  [i \in DOMAIN found |->
         [account |-> AccountFor(c, found[i]),
          debit |-> found[i].debit, credit |-> found[i].credit]]
Resolved(c, lines) ==
  [i \in DOMAIN lines |->
     [account |-> AccountFor(c, lines[i]),
      debit |-> lines[i].debit, credit |-> lines[i].credit]]

Postable(c, lines) ==
  /\ Len(lines) >= 2
  /\ ImbalanceOf(lines) = 0
  /\ \A i \in DOMAIN lines : Resolve(c, lines[i]) # {}

-----------------------------------------------------------------------------
(* The journal.                                                            *)
Posted(key) == \E n \in entries : n.key = key

Closed(m) == periods[m] = "closed"

EntriesIn(m) == {n \in entries : n.month = m}

(* idempotencyKey: source, source id, total, date.                         *)
Key(source, id, lines, m) == <<source, id, Debits(lines), m>>

(* A reversal's key is the entry it reverses and nothing else.             *)
KeyByDate(key, m) == <<"reversal", key, m>>
ReversalKey(key, m) == <<"reversal", key>>

IsReversal(n) == n.key[1] = "reversal"

(* post: the entry to be written, if it is not there, its lines can be     *)
(* resolved and its month is not closed.                                   *)
AnyMonth(s, key, m, lines) ==
  IF Posted(key) \/ ~Postable(ChartFor(s), lines) THEN {}
  ELSE {[key |-> key, month |-> m, lines |-> Resolved(ChartFor(s), lines)]}

Post(s, key, m, lines) ==
  IF Posted(key) \/ ~Postable(ChartFor(s), lines) \/ Closed(m) THEN {}
  ELSE {[key |-> key, month |-> m, lines |-> Resolved(ChartFor(s), lines)]}

(* What an entry moves on an account, and what entries come to by then.    *)
Moved(n, a) ==
  SumFunction([i \in DOMAIN n.lines |->
                 IF n.lines[i].account = a THEN n.lines[i].debit - n.lines[i].credit ELSE 0])

EntriesBy(m) == {n \in entries : n.month <= m}

Balance(a, m) == SumFunction([n \in EntriesBy(m) |-> Moved(n, a)])

RoleBalance(role, m) == SumFunction([a \in Holding(chart, role) |-> Balance(a, m)])

Used(a) == \E n \in entries : \E i \in DOMAIN n.lines : n.lines[i].account = a

-----------------------------------------------------------------------------
CanServe == Cardinality(inFlight) < MaxInFlight

Request(kind, s, e, m, new) ==
  [kind |-> kind, service |-> s, event |-> e, month |-> m, new |-> new]

Ask(kind, s, e, m, new) == inFlight' = inFlight \union {Request(kind, s, e, m, new)}

(* A payment is dated by its value date and a bill by its own, which may   *)
(* be earlier; all else by the day it happens.                             *)
DatesOf(e) ==
  IF RuleOf[e] \in {"invoice_payment", "overpayment"} \/ ~InTransaction(e) THEN 1..today
  ELSE {today}

(* An event is recorded once; a bill may be approved by two persons at     *)
(* once, each of whom found it pending.                                    *)
Unrecorded(e, m) ==
  \/ happened[e] = 0 /\ \A r \in inFlight : r.event # e
  \/ ~InTransaction(e) /\ happened[e] = m /\ \E r \in inFlight : r.event = e

(* postEvent: nothing is posted with the switch off or an unbalanced rule; *)
(* a journal that cannot be written does not undo the event.               *)
Posts(e) == posting /\ LinesOf[e] # <<>> /\ ImbalanceOf(LinesOf[e]) = 0

PostEvent(e, m) ==
  IF Posts(e) THEN Post(ServiceOf[e], Key(RuleOf[e], e, LinesOf[e], m), m, LinesOf[e])
  ELSE {}

RecordEvent(e, m) ==
  /\ CanServe
  /\ Unrecorded(e, m)
  /\ m \in DatesOf(e)
  /\ RuleOf[e] = "invoice_payment" => happened[InvoiceOf[e]] # 0
  /\ Ask("event", ServiceOf[e], e, m, PostEvent(e, m))
  /\ happened' = IF InTransaction(e) THEN happened ELSE [happened EXCEPT ![e] = m]
  /\ copies' = IF Posts(e) THEN Remembered(ServiceOf[e]) ELSE copies
  /\ UNCHANGED <<chart, entries, periods, posting, today, edits>>

(* createManualJournal: it has no source id, so two alike are one.  A      *)
(* journal that is there already or is refused changes nothing.            *)
WriteManualJournal(lines, m) ==
  LET key == Key("manual", NoEvent, lines, m)
  IN  /\ CanServe
      /\ Post("finance", key, m, lines) # {}
      /\ Ask("journal", "finance", NoEvent, m, Post("finance", key, m, lines))
      /\ copies' = Remembered("finance")
      /\ UNCHANGED <<chart, entries, periods, happened, posting, today, edits>>

(* The same accounts with every line's sides swapped.                      *)
SameSides(lines) ==
  [i \in DOMAIN lines |->
     [role |-> NoRole, account |-> lines[i].account,
      debit |-> lines[i].debit, credit |-> lines[i].credit]]
Swapped(lines) ==
  [i \in DOMAIN lines |->
     [role |-> NoRole, account |-> lines[i].account,
      debit |-> lines[i].credit, credit |-> lines[i].debit]]

(* reverse: dated with the original, or in a month the person gives.       *)
ReverseEntry(n, m) ==
  LET new == Post("finance", ReversalKey(n.key, m), m, Swapped(n.lines))
  IN  /\ CanServe
      /\ Cardinality({r \in entries : IsReversal(r)}) < MaxReversals
      /\ m \in 1..today
      /\ new # {}
      /\ Ask("journal", "finance", NoEvent, m, new)
      /\ copies' = Remembered("finance")
      /\ UNCHANGED <<chart, entries, periods, happened, posting, today, edits>>

(* The unique index decides between two that insert the same entry.        *)
Inserted(new) == entries \union {n \in new : ~Posted(n.key)}

Commit(r) ==
  /\ r.kind \in {"event", "journal"}
  /\ entries' = Inserted(r.new)
  /\ happened' = IF r.kind = "event" THEN [happened EXCEPT ![r.event] = r.month] ELSE happened
  /\ inFlight' = inFlight \ {r}
  /\ UNCHANGED <<chart, copies, periods, posting, today, edits>>

-----------------------------------------------------------------------------
(* Periods and their close.                                                *)
CreateYear ==
  /\ \E m \in Month : periods[m] = "none"
  /\ periods' = [m \in Month |-> IF periods[m] = "none" THEN "open" ELSE periods[m]]
  /\ UNCHANGED <<chart, copies, entries, happened, posting, today, edits, inFlight>>

CreateNamedPeriod(m) ==
  /\ m \in NamedMonths
  /\ periods[m] = "none"
  /\ periods' = [periods EXCEPT ![m] = "open"]
  /\ UNCHANGED <<chart, copies, entries, happened, posting, today, edits, inFlight>>

(* agedReceivables: what open invoices have outstanding, invoice by        *)
(* invoice.                                                                *)
HappenedBy(m) == {e \in Event : happened[e] \in 1..m}

OpenInvoices(m) ==
  MapThenSumSet(
    LAMBDA i : Positive(AmountOf[i] -
      MapThenSumSet(LAMBDA p : AmountOf[p],
                    {p \in HappenedBy(m) : RuleOf[p] = "invoice_payment" /\ InvoiceOf[p] = i})),
    {i \in HappenedBy(m) : RuleOf[i] = "invoice"})

(* runChecklist.                                                           *)
NoChecks(m) == TRUE
Checklist(m) ==
  /\ \A n \in Month : n < m => periods[n] # "open"
  /\ \A n \in EntriesIn(m) : ImbalanceOf(n.lines) = 0
  /\ RoleBalance("SUSPENSE", m) = 0
  /\ RoleBalance("ACCOUNTS_RECEIVABLE", m) = OpenInvoices(m)

StartClose(m) ==
  /\ CanServe
  /\ periods[m] = "open"
  /\ Checklist(m)
  /\ Ask(IF m \in YearEnds THEN "year_end" ELSE "close", "finance", NoEvent, m, {})
  /\ UNCHANGED <<chart, copies, entries, periods, happened, posting, today, edits>>

(* yearEndLines: each income and expense account to zero, and the residual *)
(* to retained earnings.                                                   *)
ResultAccounts(m) ==
  {a \in Account : Present(chart, a) /\ TypeOf[a] \in {"income", "expense"} /\ Balance(a, m) # 0}

YearEndLines(m) ==
  LET to0(a) == Coded([Dr(NoRole, Positive(-Balance(a, m))) EXCEPT
                         !.credit = Positive(Balance(a, m))], a)
      accounts == SetToSeq(ResultAccounts(m))
      loss == SumFunction([a \in ResultAccounts(m) |-> Balance(a, m)])
      residual == [Dr("RETAINED_EARNINGS", Positive(loss)) EXCEPT !.credit = Positive(-loss)]
  IN  [i \in DOMAIN accounts |-> to0(accounts[i])] \o (IF loss = 0 THEN <<>> ELSE <<residual>>)

YearEndKey(m) == Key("year_end", m, YearEndLines(m), m)

(* postYearEnd, outside any transaction; one already there is taken for    *)
(* this one, and a refusal ends the close.                                 *)
PostYearEnd(r) ==
  LET new == Post("finance", YearEndKey(r.month), r.month, YearEndLines(r.month))
      done == YearEndLines(r.month) = <<>> \/ new # {} \/ Posted(YearEndKey(r.month))
  IN  /\ r.kind = "year_end"
      /\ entries' = entries \union new
      /\ inFlight' = (inFlight \ {r}) \union
           (IF done THEN {[r EXCEPT !.kind = "close"]} ELSE {})
      /\ copies' = IF new = {} THEN copies ELSE Remembered("finance")
      /\ UNCHANGED <<chart, periods, happened, posting, today, edits>>

SaveClose(r) ==
  /\ r.kind = "close"
  /\ periods' = [periods EXCEPT ![r.month] = "closed"]
  /\ inFlight' = inFlight \ {r}
  /\ UNCHANGED <<chart, copies, entries, happened, posting, today, edits>>

(* reopenPeriod: from the most recent backwards.                           *)
Reopen(m) ==
  /\ CanServe
  /\ Closed(m)
  /\ \A n \in Month : n > m => ~Closed(n)
  /\ periods' = [periods EXCEPT ![m] = "open"]
  /\ UNCHANGED <<chart, copies, entries, happened, posting, today, edits, inFlight>>

-----------------------------------------------------------------------------
(* The accounts screen and the posting switch.                             *)
Edit ==
  /\ CanServe
  /\ edits < MaxEdits
  /\ edits' = edits + 1
  /\ UNCHANGED <<entries, periods, happened, today, inFlight>>

(* The unique index on a company's roles.                                  *)
Free(role) == role = NoRole \/ Holding(chart, role) = {}

CreateAccount(a, role) ==
  /\ Edit
  /\ chart[a].state = "absent"
  /\ Free(role)
  /\ chart' = [chart EXCEPT ![a] = [state |-> "active", role |-> role]]
  /\ copies' = Forgotten
  /\ UNCHANGED posting

UpdateAccount(a, role) ==
  /\ Edit
  /\ Present(chart, a)
  /\ chart[a].role # role
  /\ Free(role)
  /\ chart' = [chart EXCEPT ![a].role = role]
  /\ copies' = Forgotten
  /\ UNCHANGED posting

(* One that has been posted to is deactivated, another is removed, and its *)
(* id is not given again.                                                  *)
DeactivateAccount(a) ==
  /\ Edit
  /\ Present(chart, a)
  /\ chart' = [chart EXCEPT ![a] =
       IF Used(a) THEN [@ EXCEPT !.state = "inactive"]
       ELSE [state |-> "removed", role |-> NoRole]]
  /\ copies' = Forgotten
  /\ UNCHANGED posting

SwitchPosting ==
  /\ Edit
  /\ posting' = ~posting
  /\ UNCHANGED <<chart, copies>>

-----------------------------------------------------------------------------
Restart(s) ==
  /\ copies' = [copies EXCEPT ![s] = {}]
  /\ inFlight' = {r \in inFlight : r.service # s}
  /\ UNCHANGED <<chart, entries, periods, happened, posting, today, edits>>

NextMonth ==
  /\ today < LastMonth
  /\ today' = today + 1
  /\ UNCHANGED <<chart, copies, entries, periods, happened, posting, edits, inFlight>>

Next ==
  \/ \E e \in Event, m \in Month : RecordEvent(e, m)
  \/ \E lines \in ManualLines, m \in Month : WriteManualJournal(lines, m)
  \/ \E n \in entries, m \in Month : ReverseEntry(n, m)
  \/ \E r \in inFlight : Commit(r) \/ PostYearEnd(r) \/ SaveClose(r)
  \/ CreateYear
  \/ \E m \in Month : CreateNamedPeriod(m) \/ StartClose(m) \/ Reopen(m)
  \/ \E a \in Editable, role \in GivenRoles : CreateAccount(a, role) \/ UpdateAccount(a, role)
  \/ \E a \in Editable : DeactivateAccount(a)
  \/ SwitchPosting
  \/ \E s \in Service : Restart(s)
  \/ NextMonth

Spec == Init /\ [][Next]_vars

-----------------------------------------------------------------------------
Roles == GivenRoles \union {Seeded[a].role : a \in Account} \union {NoRole}

EntryOK(n) ==
  /\ n.month \in Month
  /\ \A i \in DOMAIN n.lines : n.lines[i].account \in Account

TypeOK ==
  /\ chart \in [Account -> [state : AccountStates, role : Roles]]
  /\ \A s \in Service : Cardinality(copies[s]) <= 1
  /\ \A n \in entries : EntryOK(n)
  /\ periods \in [Month -> {"none", "open", "closed"}]
  /\ happened \in [Event -> 0..LastMonth]
  /\ posting \in BOOLEAN
  /\ today \in Month
  /\ edits \in 0..MaxEdits
  /\ \A r \in inFlight :
       /\ r.kind \in {"event", "journal", "year_end", "close"}
       /\ r.service \in Service
       /\ r.month \in Month
       /\ \A n \in r.new : EntryOK(n)

(* The trial balance of every month balances: no line of an entry is lost  *)
(* where the chart cannot answer, in a reversal or in a year end           *)
(* (post, resolveAccount, trialBalance).                                   *)
BooksBalance ==
  \A m \in Month : SumFunction([n \in EntriesBy(m) |-> ImbalanceOf(n.lines)]) = 0

(* An event has one entry and an entry one reversal, whatever was retried, *)
(* redated or restarted in between (idempotencyKey).                       *)
PostedOnce ==
  \A n1, n2 \in entries :
    /\ n1.key[1] = n2.key[1] /\ n1.key[2] = n2.key[2]
    /\ n1.key[1] \notin {"manual", "year_end"}
    => n1 = n2

(* A reversal takes back exactly what its entry moved, account by account, *)
(* though it finds the accounts through the chart in memory and the chart  *)
(* is edited before and after: as long as the accounts are there (reverse, *)
(* deactivateAccount).                                                     *)
AccountsRemain(n) == \A i \in DOMAIN n.lines : Present(chart, n.lines[i].account)

ReversalCancels ==
  \A r, n \in entries :
    IsReversal(r) /\ r.key[2] = n.key /\ AccountsRemain(n) =>
      \A a \in Account : Moved(r, a) = -Moved(n, a)

(* An account that has been posted to is never removed: no line points at  *)
(* a row that is gone (ACC-1.3, deactivateAccount).                        *)
PostedToIsKept == \A n \in entries : AccountsRemain(n)

(* The ledger keeps the promise of Journal: an entry is written for a      *)
(* thing that has none, into a month that is not closed and stays as it    *)
(* is; whatever is posted, reversed, retried, closed or restarted          *)
(* meanwhile (closedPeriodFor, post, reopenPeriod).                        *)
Promise ==
  INSTANCE Journal WITH
    journal <- entries,
    closed <- {m \in Month : Closed(m)},
    Repeatable <- {"manual", "year_end"}

KeepsThePromise == Promise!Spec

(* Behind a closed month nothing is left in suspense, also after the year  *)
(* end was posted into it: what fell back was corrected first, and every   *)
(* earlier month is closed too (suspenseIsEmpty, earlierPeriodsClosed).    *)
NoSuspenseBehindClose ==
  \A m \in Month : (\A n \in 1..m : Closed(n)) => RoleBalance("SUSPENSE", m) = 0

(* finance-service never posts by a chart older than the last edit: a new  *)
(* account is visible to its next journal (createAccount, forgetChart).    *)
FinanceSeesTheChart == copies["finance"] \subseteq {chart}

(* Closing a year leaves its income and expense accounts at zero           *)
(* (postYearEnd, yearEndLines).                                            *)
YearEndClearsResult ==
  \A m \in YearEnds : Closed(m) => ResultAccounts(m) = {}
=============================================================================
