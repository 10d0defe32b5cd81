------------------------- MODULE BankReconciliation -------------------------
(***************************************************************************)
(* Agreeing with the bank: a statement is read from a file, checked        *)
(* against the running balance it prints, and imported; a person matches   *)
(* its lines to journal entries, posts those with nothing behind them,     *)
(* sets others aside, and locks the account to a date; a month closes on   *)
(* the locks (bankRecController.js, bankMatch.js, periodClose.js).         *)
(*                                                                         *)
(* A request that reads and then writes is two steps, and a crash loses    *)
(* what it has not yet written: no handler here runs in a transaction.     *)
(* The queries of one lock are read at one moment.  How a cell becomes a   *)
(* date or an amount is a row's outcome: read as printed, or, in one row,  *)
(* misread as one of MisreadAs.  The journal is the entries' movements on  *)
(* bank accounts; one company; a line is posted to an account that is not  *)
(* a bank's.  A statement balance typed by the person is either what the   *)
(* books give or refused, so it is left out.                               *)
(*                                                                         *)
(* NoSelfCheck, PostedBy, Recounted and LockNow stand for plausible        *)
(* mistakes in what follows them.                                          *)
(***************************************************************************)
EXTENDS Integers, SequencesExt, FiniteSetsExt

CONSTANTS
  Account,        \* bank accounts of the chart
  Statements,     \* files: an account, and rows as the bank printed them
  MisreadAs,      \* amounts a row may be misread as
  Document,       \* journal entries other services post
  DateOf,         \* their dates
  MovesOf,        \* what each moves on each account
  ByHand,         \* documents a person names though they were not offered
  LastDay,        \* bound: days of the run are 1..LastDay
  MaxPosted,      \* bound: lines posted to the ledger
  MaxIgnored,     \* bound: lines set aside
  MaxInFlight     \* bound: requests in flight at once

Day == 1..LastDay

ASSUME BankBounds ==
  /\ {LastDay, MaxPosted, MaxIgnored, MaxInFlight} \subseteq Nat
  /\ DateOf \in [Document -> Day]
  /\ MovesOf \in [Document -> [Account -> Int]]

Row == [date : Day, ref : STRING, amount : Int, balance : SUBSET Int, movement : BOOLEAN]

ASSUME FilesAreRows ==
  /\ Statements \subseteq [account : Account, rows : Seq(Row)]
  /\ MisreadAs \subseteq Int

VARIABLES
  lines,          \* per imported fingerprint: its status, entry and lock
  entries,        \* the journal: what was posted from a document or a line
  locks,          \* locked reconciliations
  closedTo,       \* the last day of the closed months, 0 when none
  inFlight        \* requests between their reads and their writes

vars == <<lines, entries, locks, closedTo, inFlight>>

(* An entry is known by what it was posted from: post's idempotency key.   *)
NoDocument == "none"
NoLine == [account |-> "none", date |-> 0, amount |-> 0, ref |-> "none"]

OfDocument(d) == [document |-> d, line |-> NoLine]
OfLine(l) == [document |-> NoDocument, line |-> l]
NoEntry == [document |-> NoDocument, line |-> NoLine]

NoLock == 0

Init ==
  /\ lines = <<>>
  /\ entries = {}
  /\ locks = {}
  /\ closedTo = 0
  /\ inFlight = {}

CanServe == Cardinality(inFlight) < MaxInFlight

Ask(r) == inFlight' = inFlight \union {r}
Done(r) == inFlight' = inFlight \ {r}

-----------------------------------------------------------------------------
(* Reading a file.  A row that is not a movement (brought forward) carries *)
(* a balance and no amount.                                                *)
AsRead(rows, i, amount) ==
  [j \in DOMAIN rows |-> IF j = i THEN [rows[j] EXCEPT !.amount = amount] ELSE rows[j]]

Readings(rows) ==
  {rows} \union
  {AsRead(rows, i, a) : i \in {j \in DOMAIN rows : rows[j].movement}, a \in MisreadAs}

(* A zero row is not a movement.                                           *)
Movements(rows) == {i \in DOMAIN rows : rows[i].movement /\ rows[i].amount # 0}

PassedOver(rows) == {i \in DOMAIN rows : ~rows[i].movement}

(* The statement against its own balance: each row that prints one against *)
(* the one before it, the rows oldest or newest first; where the dates     *)
(* turn back another account's statement begins.                           *)
Walk(rows) == {i \in DOMAIN rows : rows[i].balance # {}}

Checked(rows) == {i \in Walk(rows) : \E j \in Walk(rows) : j < i}

Before(rows, i) == Max({j \in Walk(rows) : j < i})

BalanceAt(rows, i) == CHOOSE b \in rows[i].balance : TRUE

Restarted(rows, i, reverse) ==
  IF reverse THEN rows[i].date > rows[Before(rows, i)].date ELSE rows[i].date < rows[Before(rows, i)].date

Pairs(rows, reverse) == {i \in Checked(rows) : ~Restarted(rows, i, reverse)}

Delta(rows, i, reverse) ==
  IF reverse THEN BalanceAt(rows, Before(rows, i)) - BalanceAt(rows, i)
  ELSE BalanceAt(rows, i) - BalanceAt(rows, Before(rows, i))

(* A kobo of slack.                                                        *)
Agrees(rows, i, reverse) == Delta(rows, i, reverse) - rows[i].amount \in -1..1

Drift(rows, reverse) ==
  LET agreed == {i \in Pairs(rows, reverse) : Agrees(rows, i, reverse)}
  IN  [agreed |-> Cardinality(agreed), breaks |-> Cardinality(Pairs(rows, reverse) \ agreed)]

Best(rows) ==
  IF Drift(rows, TRUE).agreed > Drift(rows, FALSE).agreed THEN Drift(rows, TRUE) ELSE Drift(rows, FALSE)

NoSelfCheck(rows) == FALSE
Disagrees(rows) ==
  LET best == Best(rows)
      pairs == best.agreed + best.breaks
  IN  pairs >= 4 /\ 10 * best.agreed >= 7 * pairs /\ best.breaks > 0

Larger(a, b) == IF a > b THEN a ELSE b

TooManyPassedOver(rows) ==
  Cardinality(PassedOver(rows)) > Larger(2, (Cardinality(Movements(rows)) + 3) \div 4)

Readable(rows) ==
  /\ ~Disagrees(rows)
  /\ ~TooManyPassedOver(rows)
  /\ Movements(rows) # {}

(* fingerprintOf: date, amount and reference, on one account.              *)
Fingerprint(account, row) ==
  [account |-> account, date |-> row.date, amount |-> row.amount, ref |-> row.ref]

FingerprintsOf(account, rows) ==
  [i \in Movements(rows) |-> Fingerprint(account, rows[i])]

Fresh(prints) == [i \in {j \in DOMAIN prints : prints[j] \notin DOMAIN lines} |-> prints[i]]

(* importStatement: what is not there yet is about to be written.          *)
ImportReads(file) ==
  \E rows \in Readings(file.rows) :
    LET fresh == Fresh(FingerprintsOf(file.account, rows))
    IN  /\ CanServe
        /\ Readable(rows)
        /\ DOMAIN fresh # {}
        /\ Ask([kind |-> "import", prints |-> fresh])
        /\ UNCHANGED <<lines, entries, locks, closedTo>>

(* bulkCreate is one statement: two alike, or one another request brought  *)
(* meanwhile, and the unique index refuses all of it.                      *)
Unique(prints) == IsInjective(prints) /\ Range(prints) \intersect DOMAIN lines = {}

Unmatched == [status |-> "unmatched", entry |-> NoEntry, lock |-> NoLock]

Brings(prints) == IF Unique(prints) THEN Range(prints) ELSE {}

ImportWrites(r) ==
  /\ r.kind = "import"
  /\ lines' = [l \in DOMAIN lines \union Brings(r.prints) |->
       IF l \in DOMAIN lines THEN lines[l] ELSE Unmatched]
  /\ Done(r)
  /\ UNCHANGED <<entries, locks, closedTo>>

-----------------------------------------------------------------------------
(* The journal.                                                            *)
EntryDate(e) == IF e.document = NoDocument THEN e.line.date ELSE DateOf[e.document]

Move(l) == [a \in Account |-> IF a = l.account THEN l.amount ELSE 0]

Moves(e) == IF e.document = NoDocument THEN Move(e.line) ELSE MovesOf[e.document]

(* post: what is there already stays, and a closed month takes nothing.    *)
MayPost(e) == e \in entries \/ EntryDate(e) > closedTo

RecordEntry(d) ==
  /\ OfDocument(d) \notin entries
  /\ MayPost(OfDocument(d))
  /\ entries' = entries \union {OfDocument(d)}
  /\ UNCHANGED <<lines, locks, closedTo, inFlight>>

Claims(l, e) == lines[l].status \in {"matched", "posted"} /\ lines[l].entry = e

Claimed(e) == \E l \in DOMAIN lines : Claims(l, e)

(* Entries of an account up to a day, and those no line has claimed.       *)
EntriesTo(account, day) ==
  {e \in entries : EntryDate(e) <= day /\ Moves(e)[account] # 0}

LedgerBalance(account, day) ==
  SumFunction([e \in EntriesTo(account, day) |-> Moves(e)[account]])

Recounted(account, day) ==
  SumFunction([e \in {x \in EntriesTo(account, day) : \A l \in DOMAIN lines :
                        ~(lines[l].status = "matched" /\ lines[l].entry = x)}
                 |-> Moves(e)[account]])
Unpresented(account, day) ==
  SumFunction([e \in {x \in EntriesTo(account, day) : ~Claimed(x)} |-> Moves(e)[account]])

-----------------------------------------------------------------------------
(* Matching.  What is offered for a line: entries on its account nobody    *)
(* claimed, within a fortnight of the lines, of its amount and direction.  *)
Window == 14

NearOpenLines(e, account) ==
  \E l \in DOMAIN lines :
    /\ l.account = account
    /\ lines[l].status = "unmatched"
    /\ EntryDate(e) - l.date \in (-Window)..Window

Offered(l) ==
  IF lines[l].status # "unmatched" THEN {}
  ELSE {e \in entries :
          /\ ~Claimed(e)
          /\ NearOpenLines(e, l.account)
          /\ Moves(e)[l.account] = l.amount}

Nameable(l) == Offered(l) \union {e \in entries : e.document \in ByHand}

PostedBy(l, e) == \E k \in DOMAIN lines : lines[k].status = "posted" /\ lines[k].entry = e
Taken(l, e) == \E k \in DOMAIN lines \ {l} : Claims(k, e)

MatchReads(l, e) ==
  /\ CanServe
  /\ lines[l].lock = NoLock
  /\ ~Taken(l, e)
  /\ Ask([kind |-> "match", line |-> l, entry |-> e])
  /\ UNCHANGED <<lines, entries, locks, closedTo>>

MatchWrites(r) ==
  /\ r.kind = "match"
  /\ lines' = [lines EXCEPT ![r.line] =
       [status |-> "matched", entry |-> r.entry, lock |-> lines[r.line].lock]]
  /\ Done(r)
  /\ UNCHANGED <<entries, locks, closedTo>>

UnmatchReads(l) ==
  /\ CanServe
  /\ lines[l].lock = NoLock
  /\ lines[l].status # "posted"
  /\ Ask([kind |-> "unmatch", line |-> l])
  /\ UNCHANGED <<lines, entries, locks, closedTo>>

UnmatchWrites(r) ==
  /\ r.kind = "unmatch"
  /\ lines' = [lines EXCEPT ![r.line] =
       [status |-> "unmatched", entry |-> NoEntry, lock |-> lines[r.line].lock]]
  /\ Done(r)
  /\ UNCHANGED <<entries, locks, closedTo>>

(* postLine: post returns the entry of this line if there is one, or       *)
(* writes it, unless its month is closed; the line is updated after.       *)
PostLine(l) ==
  /\ CanServe
  /\ lines[l].status = "unmatched"
  /\ OfLine(l) \in entries \/ Cardinality({e \in entries : e.line # NoLine}) < MaxPosted
  /\ MayPost(OfLine(l))
  /\ entries' = entries \union {OfLine(l)}
  /\ Ask([kind |-> "post", line |-> l])
  /\ UNCHANGED <<lines, locks, closedTo>>

PostWrites(r) ==
  /\ r.kind = "post"
  /\ lines' = [lines EXCEPT ![r.line] =
       [status |-> "posted", entry |-> OfLine(r.line), lock |-> lines[r.line].lock]]
  /\ Done(r)
  /\ UNCHANGED <<entries, locks, closedTo>>

IgnoreLine(l) ==
  /\ Cardinality({k \in DOMAIN lines : lines[k].status = "ignored"}) < MaxIgnored
  /\ lines' = [lines EXCEPT ![l].status = "ignored"]
  /\ UNCHANGED <<entries, locks, closedTo, inFlight>>

-----------------------------------------------------------------------------
(* lockReconciliation.                                                     *)
LinesTo(account, day) == {l \in DOMAIN lines : l.account = account /\ l.date <= day}

LockNow(account, day) == TRUE
NothingOpen(account, day) ==
  \A l \in LinesTo(account, day) : lines[l].status # "unmatched"

LockReads(account, day) ==
  /\ CanServe
  /\ NothingOpen(account, day)
  /\ Ask([kind |-> "lock", account |-> account, day |-> day,
          statement |-> LedgerBalance(account, day) - Unpresented(account, day)])
  /\ UNCHANGED <<lines, entries, locks, closedTo>>

LockSaves(r) ==
  /\ r.kind = "lock"
  /\ locks' = {k \in locks : k.account # r.account \/ k.day # r.day}
       \union {[account |-> r.account, day |-> r.day, statement |-> r.statement]}
  /\ inFlight' = (inFlight \ {r})
       \union {[kind |-> "stamp", account |-> r.account, day |-> r.day]}
  /\ UNCHANGED <<lines, entries, closedTo>>

LockStamps(r) ==
  /\ r.kind = "stamp"
  /\ lines' = [l \in DOMAIN lines |->
       IF l \in LinesTo(r.account, r.day) /\ lines[l].lock = NoLock
       THEN [lines[l] EXCEPT !.lock = r.day] ELSE lines[l]]
  /\ Done(r)
  /\ UNCHANGED <<entries, locks, closedTo>>

(* banksReconciled: an account that was ever locked must be locked to the  *)
(* end of the period; one that never was only warns.                       *)
LocksOf(account) == {k \in locks : k.account = account}

BanksReconciled(day) ==
  \A a \in Account : LocksOf(a) = {} \/ \E k \in LocksOf(a) : k.day >= day

CloseMonth(day) ==
  /\ day > closedTo
  /\ BanksReconciled(day)
  /\ closedTo' = day
  /\ UNCHANGED <<lines, entries, locks, inFlight>>

Crash ==
  /\ inFlight # {}
  /\ inFlight' = {}
  /\ UNCHANGED <<lines, entries, locks, closedTo>>

-----------------------------------------------------------------------------
Next ==
  \/ \E f \in Statements : ImportReads(f)
  \/ \E d \in Document : RecordEntry(d)
  \/ \E l \in DOMAIN lines :
       \/ \E e \in Nameable(l) : MatchReads(l, e)
       \/ UnmatchReads(l) \/ PostLine(l) \/ IgnoreLine(l)
  \/ \E a \in Account, day \in Day : LockReads(a, day)
  \/ \E r \in inFlight :
       \/ ImportWrites(r) \/ MatchWrites(r) \/ UnmatchWrites(r)
       \/ PostWrites(r) \/ LockSaves(r) \/ LockStamps(r)
  \/ \E day \in Day : CloseMonth(day)
  \/ Crash

Spec == Init /\ [][Next]_vars

-----------------------------------------------------------------------------
(* Two bank lines cannot be the same movement: no entry is matched to two  *)
(* lines, whatever was unmatched, set aside or posted again in between     *)
(* (matchLine).                                                            *)
MatchedOnce ==
  \A k, l \in DOMAIN lines :
    /\ lines[k].status = "matched" /\ lines[l].status = "matched"
    /\ lines[k].entry = lines[l].entry
    => k = l

(* A line inside a locked reconciliation is not opened again (unmatchLine, *)
(* lockReconciliation).                                                    *)
LockedLinesStaySettled ==
  \A l \in DOMAIN lines : lines[l].lock # NoLock => lines[l].status # "unmatched"

(* What is imported is what the bank printed, although a row may have been *)
(* misread, where the file prints its balance beside five rows or more:    *)
(* the running balance proves each of them but the first                   *)
(* (importStatement).                                                      *)
Proves(file) == Cardinality(Walk(file.rows)) >= 5

Printed(file) == Range(FingerprintsOf(file.account, file.rows))

ImportedAsPrinted ==
  \A l \in DOMAIN lines, f \in Statements :
    l \in Printed(f) \/ ~Proves(f) \/ l.ref \notin {f.rows[i].ref : i \in Checked(f.rows)}

(* The balance a lock records is what the statement lines up to its day    *)
(* come to, nothing being open, wherever matched pairs are equal, on one   *)
(* side of that day, and one to one (lockReconciliation).                  *)
Pairing(account, day) ==
  \A l \in DOMAIN lines : lines[l].status \in {"matched", "posted"} =>
       LET e == lines[l].entry
       IN  /\ Moves(e) = Move(l)
           /\ (l.date <= day) = (EntryDate(e) <= day)
           /\ ~Taken(l, e)

StatementBalance(account, day) ==
  SumFunction([l \in {k \in LinesTo(account, day) : lines[k].status # "ignored"} |-> l.amount])

LockAgreesWithLines ==
  [][\A r \in inFlight' \ inFlight :
       r.kind = "lock" /\ Pairing(r.account, r.day)
       => r.statement = StatementBalance(r.account, r.day)]_vars

=============================================================================
