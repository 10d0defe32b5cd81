---------------------- MODULE BankAndInvestments_proofs ----------------------
(***************************************************************************)
(* What holds of BankReconciliation for any accounts, statements, journal  *)
(* and days: of the lines while requests are served one at a time, of the  *)
(* balances that are locked and of what is imported however they overlap.  *)
(*                                                                         *)
(* What holds of Investments for any offers, amounts, payments and         *)
(* calendar, any number of subscriptions, of requests at once and of       *)
(* stops: CompletedIsSettled, NothingRaisedTwice, LeavingNeverBeatsStaying *)
(* and CapKeptButForOverlap.  The two machines share nothing.              *)
(***************************************************************************)
EXTENDS BankReconciliation, Investments, Money_proofs, FiniteSetTheorems, TLAPS

(* An assumption about the deployment: the code takes no lock.             *)
Serial == MaxInFlight = 1

(* The lines are a function to records.                                    *)
LineOf(l) == [status |-> lines[l].status, entry |-> lines[l].entry, lock |-> lines[l].lock]

LinesTyped ==
  /\ lines = [l \in DOMAIN lines |-> lines[l]]
  /\ \A l \in DOMAIN lines : lines[l] = LineOf(l)

OneRequest ==
  /\ IsFiniteSet(inFlight)
  /\ \A r1, r2 \in inFlight : r1 = r2

(* What a request in flight has read still holds when it writes: a match's *)
(* entry is nobody else's, the line it opens is not locked, and the lines  *)
(* a lock is for are not open.                                             *)
Current(r) ==
  /\ r.kind \in {"match", "unmatch", "post"} => r.line \in DOMAIN lines
  /\ r.kind = "match" => ~Taken(r.line, r.entry)
  /\ r.kind = "unmatch" => lines[r.line].lock = NoLock
  /\ r.kind \in {"lock", "stamp"} => NothingOpen(r.account, r.day)

BankInv ==
  /\ LinesTyped
  /\ OneRequest
  /\ MatchedOnce
  /\ LockedLinesStaySettled
  /\ \A r \in inFlight : Current(r)

LEMMA BankInit == Init => BankInv
BY FS_EmptySet DEF Init, BankInv, LinesTyped, OneRequest, MatchedOnce, LockedLinesStaySettled

LEMMA ServesOne ==
  ASSUME Serial, IsFiniteSet(inFlight), CanServe PROVE inFlight = {}
<1>1. Cardinality(inFlight) = 0
  BY FS_CardinalityType DEF Serial, CanServe
<1> QED
  BY <1>1, FS_EmptySet

(* A request is asked while no other is, of what it has read.              *)
LEMMA Asked ==
  ASSUME Serial, BankInv, CanServe, NEW r, Ask(r), Current(r), UNCHANGED lines
  PROVE  BankInv'
<1>1. inFlight' = {r}
  BY ServesOne DEF Ask, BankInv, OneRequest
<1>2. OneRequest'
  BY <1>1, FS_Singleton DEF OneRequest
<1>3. Current(r)'
  BY DEF Current, Taken, Claims, NothingOpen, LinesTo
<1>4. (LinesTyped /\ MatchedOnce /\ LockedLinesStaySettled)'
  BY DEF BankInv, LinesTyped, LineOf, MatchedOnce, LockedLinesStaySettled
<1> QED
  BY <1>1, <1>2, <1>3, <1>4 DEF BankInv

(* The request that is done was the only one.                              *)
LEMMA Finished ==
  ASSUME BankInv, NEW r \in inFlight, Done(r) PROVE inFlight' = {} /\ OneRequest'
BY FS_EmptySet DEF BankInv, OneRequest, Done

LEMMA Elsewhere ==
  ASSUME BankInv, UNCHANGED <<lines, inFlight>> PROVE BankInv'
BY DEF BankInv, LinesTyped, LineOf, OneRequest, MatchedOnce, LockedLinesStaySettled,
       Current, Taken, Claims, NothingOpen, LinesTo

-----------------------------------------------------------------------------
LEMMA ImportWritesKeeps ==
  ASSUME BankInv, NEW r \in inFlight, ImportWrites(r) PROVE BankInv'
<1>1. inFlight' = {} /\ OneRequest'
  BY Finished DEF ImportWrites
<1>2. /\ DOMAIN lines \subseteq DOMAIN lines'
      /\ \A l \in DOMAIN lines : lines'[l] = lines[l]
      /\ \A l \in DOMAIN lines' \ DOMAIN lines : lines'[l] = Unmatched
  BY DEF ImportWrites
<1>3. LinesTyped'
  BY <1>2 DEF ImportWrites, BankInv, LinesTyped, LineOf, Unmatched
<1>4. MatchedOnce'
  BY <1>2 DEF BankInv, MatchedOnce, Unmatched
<1>5. LockedLinesStaySettled'
  BY <1>2 DEF BankInv, LockedLinesStaySettled, Unmatched
<1> QED
  BY <1>1, <1>3, <1>4, <1>5 DEF BankInv

LEMMA MatchWritesKeeps ==
  ASSUME BankInv, NEW r \in inFlight, MatchWrites(r) PROVE BankInv'
<1> DEFINE l == r.line
<1>1. inFlight' = {} /\ OneRequest'
  BY Finished DEF MatchWrites
<1>2. l \in DOMAIN lines /\ ~Taken(l, r.entry)
  BY DEF MatchWrites, BankInv, Current
<1>3. /\ DOMAIN lines' = DOMAIN lines
      /\ lines'[l] = [status |-> "matched", entry |-> r.entry, lock |-> lines[l].lock]
      /\ \A k \in DOMAIN lines \ {l} : lines'[k] = lines[k]
  BY <1>2 DEF MatchWrites, BankInv, LinesTyped, LineOf
<1>4. LinesTyped'
  BY <1>3 DEF MatchWrites, BankInv, LinesTyped, LineOf
<1>5. MatchedOnce'
  BY <1>2, <1>3 DEF BankInv, MatchedOnce, Taken, Claims
<1>6. LockedLinesStaySettled'
  BY <1>2, <1>3 DEF BankInv, LockedLinesStaySettled
<1> QED
  BY <1>1, <1>4, <1>5, <1>6 DEF BankInv

LEMMA UnmatchWritesKeeps ==
  ASSUME BankInv, NEW r \in inFlight, UnmatchWrites(r) PROVE BankInv'
<1> DEFINE l == r.line
<1>1. inFlight' = {} /\ OneRequest'
  BY Finished DEF UnmatchWrites
<1>2. l \in DOMAIN lines /\ lines[l].lock = NoLock
  BY DEF UnmatchWrites, BankInv, Current
<1>3. /\ DOMAIN lines' = DOMAIN lines
      /\ lines'[l] = [status |-> "unmatched", entry |-> NoEntry, lock |-> NoLock]
      /\ \A k \in DOMAIN lines \ {l} : lines'[k] = lines[k]
  BY <1>2 DEF UnmatchWrites, BankInv, LinesTyped, LineOf
<1>4. LinesTyped'
  BY <1>3 DEF UnmatchWrites, BankInv, LinesTyped, LineOf
<1>5. MatchedOnce'
  BY <1>2, <1>3 DEF BankInv, MatchedOnce
<1>6. LockedLinesStaySettled'
  BY <1>2, <1>3 DEF BankInv, LockedLinesStaySettled
<1> QED
  BY <1>1, <1>4, <1>5, <1>6 DEF BankInv

LEMMA PostWritesKeeps ==
  ASSUME BankInv, NEW r \in inFlight, PostWrites(r) PROVE BankInv'
<1> DEFINE l == r.line
<1>1. inFlight' = {} /\ OneRequest'
  BY Finished DEF PostWrites
<1>2. l \in DOMAIN lines
  BY DEF PostWrites, BankInv, Current
<1>3. /\ DOMAIN lines' = DOMAIN lines
      /\ lines'[l] = [status |-> "posted", entry |-> OfLine(l), lock |-> lines[l].lock]
      /\ \A k \in DOMAIN lines \ {l} : lines'[k] = lines[k]
  BY <1>2 DEF PostWrites, BankInv, LinesTyped, LineOf
<1>4. LinesTyped'
  BY <1>3 DEF PostWrites, BankInv, LinesTyped, LineOf
<1>5. MatchedOnce'
  BY <1>2, <1>3 DEF BankInv, MatchedOnce
<1>6. LockedLinesStaySettled'
  BY <1>2, <1>3 DEF BankInv, LockedLinesStaySettled
<1> QED
  BY <1>1, <1>4, <1>5, <1>6 DEF BankInv

LEMMA LockStampsKeeps ==
  ASSUME BankInv, NEW r \in inFlight, LockStamps(r) PROVE BankInv'
<1>1. inFlight' = {} /\ OneRequest'
  BY Finished DEF LockStamps
<1>2. NothingOpen(r.account, r.day)
  BY DEF LockStamps, BankInv, Current
<1>3. /\ DOMAIN lines' = DOMAIN lines
      /\ \A l \in DOMAIN lines :
           /\ lines'[l].status = lines[l].status
           /\ lines'[l].entry = lines[l].entry
           /\ lines'[l] = [status |-> lines'[l].status, entry |-> lines'[l].entry,
                           lock |-> lines'[l].lock]
           /\ l \notin LinesTo(r.account, r.day) => lines'[l].lock = lines[l].lock
  BY DEF LockStamps, BankInv, LinesTyped, LineOf
<1>4. LinesTyped'
  BY <1>3 DEF LockStamps, LinesTyped, LineOf
<1>5. MatchedOnce'
  BY <1>3 DEF BankInv, MatchedOnce
<1>6. LockedLinesStaySettled'
  BY <1>2, <1>3 DEF BankInv, LockedLinesStaySettled, NothingOpen
<1> QED
  BY <1>1, <1>4, <1>5, <1>6 DEF BankInv

LEMMA LockSavesKeeps ==
  ASSUME BankInv, NEW r \in inFlight, LockSaves(r) PROVE BankInv'
<1> DEFINE s == [kind |-> "stamp", account |-> r.account, day |-> r.day]
<1>1. inFlight' = {s} /\ UNCHANGED lines
  BY DEF LockSaves, BankInv, OneRequest
<1>2. OneRequest'
  BY <1>1, FS_Singleton DEF OneRequest
<1>3. Current(s)'
  BY <1>1 DEF LockSaves, BankInv, Current, NothingOpen, LinesTo
<1>4. (LinesTyped /\ MatchedOnce /\ LockedLinesStaySettled)'
  BY <1>1 DEF BankInv, LinesTyped, LineOf, MatchedOnce, LockedLinesStaySettled
<1> QED
  BY <1>1, <1>2, <1>3, <1>4 DEF BankInv

(* Setting a line aside claims nothing and opens nothing.                  *)
LEMMA IgnoreKeeps ==
  ASSUME BankInv, NEW l \in DOMAIN lines, IgnoreLine(l) PROVE BankInv'
<1>1. /\ DOMAIN lines' = DOMAIN lines
      /\ lines'[l] = [status |-> "ignored", entry |-> lines[l].entry, lock |-> lines[l].lock]
      /\ \A k \in DOMAIN lines \ {l} : lines'[k] = lines[k]
  BY DEF IgnoreLine, BankInv, LinesTyped, LineOf
<1>2. LinesTyped'
  BY <1>1 DEF IgnoreLine, BankInv, LinesTyped, LineOf
<1>3. MatchedOnce'
  BY <1>1 DEF BankInv, MatchedOnce
<1>4. LockedLinesStaySettled'
  BY <1>1 DEF BankInv, LockedLinesStaySettled
<1>5. ASSUME NEW r \in inFlight PROVE Current(r)'
  <2>1. Current(r)
    BY DEF BankInv
  <2>2. r.kind = "match" => ~Taken(r.line, r.entry)'
    BY <1>1, <2>1 DEF Current, Taken, Claims
  <2>3. r.kind \in {"match", "unmatch", "post"} => r.line \in DOMAIN lines'
    BY <1>1, <2>1 DEF Current
  <2>4. r.kind = "unmatch" => lines'[r.line].lock = NoLock
    BY <1>1, <2>1 DEF Current
  <2>5. r.kind \in {"lock", "stamp"} => NothingOpen(r.account, r.day)'
    BY <1>1, <2>1 DEF Current, NothingOpen, LinesTo
  <2> QED
    BY <2>2, <2>3, <2>4, <2>5 DEF Current
<1>6. inFlight' = inFlight /\ OneRequest'
  BY DEF IgnoreLine, BankInv, OneRequest
<1> QED
  BY <1>2, <1>3, <1>4, <1>5, <1>6 DEF BankInv

LEMMA AskingKeeps ==
  ASSUME Serial, BankInv, NEW l \in DOMAIN lines,
         (\E e \in Nameable(l) : MatchReads(l, e)) \/ UnmatchReads(l) \/ PostLine(l)
  PROVE  BankInv'
<1>1. ASSUME NEW e, MatchReads(l, e) PROVE BankInv'
  <2> DEFINE r == [kind |-> "match", line |-> l, entry |-> e]
  <2>1. Current(r)
    BY <1>1 DEF MatchReads, Current
  <2> QED
    BY <1>1, <2>1, Asked DEF MatchReads
<1>2. CASE UnmatchReads(l)
  <2> DEFINE r == [kind |-> "unmatch", line |-> l]
  <2>1. Current(r)
    BY <1>2 DEF UnmatchReads, Current
  <2> QED
    BY <1>2, <2>1, Asked DEF UnmatchReads
<1>3. CASE PostLine(l)
  <2> DEFINE r == [kind |-> "post", line |-> l]
  <2>1. Current(r)
    BY <1>3 DEF PostLine, Current
  <2> QED
    BY <1>3, <2>1, Asked DEF PostLine
<1> QED
  BY <1>1, <1>2, <1>3

LEMMA LockReadsKeeps ==
  ASSUME Serial, BankInv, NEW a, NEW day, LockReads(a, day) PROVE BankInv'
<1> DEFINE r == [kind |-> "lock", account |-> a, day |-> day,
                 statement |-> LedgerBalance(a, day) - Unpresented(a, day)]
<1>1. Current(r)
  BY DEF LockReads, Current
<1> QED
  BY <1>1, Asked DEF LockReads

LEMMA ImportReadsKeeps ==
  ASSUME Serial, BankInv, NEW f, ImportReads(f) PROVE BankInv'
<1>1. PICK prints : CanServe /\ Ask([kind |-> "import", prints |-> prints]) /\ UNCHANGED lines
  BY DEF ImportReads
<1>2. Current([kind |-> "import", prints |-> prints])
  BY DEF Current
<1> QED
  BY <1>1, <1>2, Asked

LEMMA CrashKeeps == BankInv /\ Crash => BankInv'
BY FS_EmptySet DEF Crash, BankInv, LinesTyped, LineOf, OneRequest, MatchedOnce, LockedLinesStaySettled

LEMMA BankStep ==
  ASSUME Serial, BankInv, [Next]_vars PROVE BankInv'
<1>1. ASSUME NEW l \in DOMAIN lines,
             \/ \E e \in Nameable(l) : MatchReads(l, e)
             \/ UnmatchReads(l) \/ PostLine(l) \/ IgnoreLine(l)
      PROVE  BankInv'
  BY <1>1, AskingKeeps, IgnoreKeeps
<1>2. ASSUME NEW r \in inFlight,
             \/ ImportWrites(r) \/ MatchWrites(r) \/ UnmatchWrites(r)
             \/ PostWrites(r) \/ LockSaves(r) \/ LockStamps(r)
      PROVE  BankInv'
  BY <1>2, ImportWritesKeeps, MatchWritesKeeps, UnmatchWritesKeeps, PostWritesKeeps,
     LockSavesKeeps, LockStampsKeeps
<1>3. CASE (\E f \in Statements : ImportReads(f)) \/ \E a \in Account, day \in Day : LockReads(a, day)
  BY <1>3, ImportReadsKeeps, LockReadsKeeps
<1>4. ASSUME (\E d \in Document : RecordEntry(d)) \/ (\E day \in Day : CloseMonth(day)) \/ UNCHANGED vars
      PROVE  UNCHANGED <<lines, inFlight>>
  BY <1>4 DEF RecordEntry, CloseMonth, vars
<1> QED
  BY <1>1, <1>2, <1>3, <1>4, Elsewhere, CrashKeeps DEF Next

LEMMA BankAlways == ASSUME Serial PROVE Spec => []BankInv
<1>1. BankInv /\ [Next]_vars => BankInv'
  BY BankStep
<1> QED
  BY BankInit, <1>1, PTL DEF Spec

(* While requests are served one at a time no entry is matched to two      *)
(* lines, whatever is imported, posted, set aside, locked or lost in a     *)
(* crash.                                                                  *)
THEOREM EntriesAreMatchedOnce ==
  ASSUME Serial PROVE Spec => []MatchedOnce
<1>1. BankInv => MatchedOnce
  BY DEF BankInv
<1> QED
  BY <1>1, BankAlways, PTL

(* Nor is a line behind a locked reconciliation ever opened again.         *)
THEOREM LockedStaysSettled ==
  ASSUME Serial PROVE Spec => []LockedLinesStaySettled
<1>1. BankInv => LockedLinesStaySettled
  BY DEF BankInv
<1> QED
  BY <1>1, BankAlways, PTL

-----------------------------------------------------------------------------
(* Whatever is in flight together, what a lock adds up are whole amounts:  *)
(* a line was read from a file, and an entry moves what its document or    *)
(* its line does.                                                          *)
WholeMoves(e) == \A a \in Account : Moves(e)[a] \in Int

IsAmount(l) == l.amount \in Int /\ l.amount # 0

Written(r) ==
  /\ r.kind = "import" => IsFiniteSet(Range(r.prints)) /\ \A l \in Range(r.prints) : IsAmount(l)
  /\ r.kind \in {"match", "unmatch", "post"} => r.line \in DOMAIN lines
  /\ r.kind = "match" => r.entry \in entries
  /\ r.kind = "post" => OfLine(r.line) \in entries

LineSettled(l) == lines[l].status \in {"matched", "posted"}

LinesBacked ==
  /\ IsFiniteSet(DOMAIN lines)
  /\ \A l \in DOMAIN lines :
       /\ IsAmount(l)
       /\ lines[l].status \in {"unmatched", "ignored"} \/ LineSettled(l)
       /\ LineSettled(l) => lines[l].entry \in entries

EntriesWhole == IsFiniteSet(entries) /\ \A e \in entries : WholeMoves(e)

BooksInv ==
  /\ LinesTyped
  /\ LinesBacked
  /\ EntriesWhole
  /\ \A r \in inFlight : Written(r)

LEMMA BooksInit == Init => BooksInv
BY FS_EmptySet DEF Init, BooksInv, LinesTyped, LinesBacked, EntriesWhole

LEMMA ReadingsAreWhole ==
  ASSUME NEW file \in Statements, NEW rows \in Readings(file.rows)
  PROVE  IsFiniteSet(DOMAIN rows) /\ \A i \in DOMAIN rows : rows[i].amount \in Int
<1>1. file.rows \in Seq(Row)
  BY FilesAreRows
<1>2. IsFiniteSet(DOMAIN file.rows)
  BY <1>1, FS_Interval
<1>3. \A i \in DOMAIN file.rows : file.rows[i] \in Row
  BY <1>1
<1>4. ASSUME NEW i, NEW a \in Int, rows = AsRead(file.rows, i, a)
      PROVE  DOMAIN rows = DOMAIN file.rows /\ \A j \in DOMAIN rows : rows[j].amount \in Int
  BY <1>3, <1>4 DEF AsRead, Row
<1>5. rows = file.rows \/ \E i : \E a \in Int : rows = AsRead(file.rows, i, a)
  BY FilesAreRows DEF Readings
<1> QED
  BY <1>2, <1>3, <1>4, <1>5 DEF Row

LEMMA FreshIsWhole ==
  ASSUME NEW file \in Statements, NEW rows \in Readings(file.rows), NEW account
  PROVE  LET fresh == Fresh(FingerprintsOf(account, rows))
         IN  IsFiniteSet(Range(fresh)) /\ \A l \in Range(fresh) : IsAmount(l)
<1> DEFINE fresh == Fresh(FingerprintsOf(account, rows))
<1>1. IsFiniteSet(DOMAIN rows) /\ \A i \in DOMAIN rows : rows[i].amount \in Int
  BY ReadingsAreWhole
<1>2. /\ DOMAIN fresh \subseteq Movements(rows)
      /\ \A i \in DOMAIN fresh : fresh[i] = Fingerprint(account, rows[i])
      /\ fresh = [i \in DOMAIN fresh |-> fresh[i]]
  BY DEF Fresh, FingerprintsOf
<1>3. \A i \in DOMAIN fresh : IsAmount(fresh[i])
  BY <1>1, <1>2 DEF Fingerprint, IsAmount, Movements
<1>4. IsFiniteSet(DOMAIN fresh)
  <2>1. DOMAIN fresh \subseteq DOMAIN rows
    BY <1>2 DEF Movements
  <2> QED
    BY <1>1, <2>1, FS_Subset
<1> HIDE DEF fresh
<1>5. fresh \in Surjection(DOMAIN fresh, Range(fresh))
  BY <1>2 DEF Surjection, Range
<1>6. IsFiniteSet(Range(fresh))
  BY <1>4, <1>5, FS_Surjection
<1>7. \A l \in Range(fresh) : IsAmount(l)
  BY <1>3 DEF Range
<1> QED
  BY <1>6, <1>7 DEF fresh

(* What is added to the books keeps what was written of them.              *)
LEMMA StillWritten ==
  ASSUME NEW r, Written(r), DOMAIN lines \subseteq DOMAIN lines', entries \subseteq entries'
  PROVE  Written(r)'
BY DEF Written

LEMMA AskedWritten ==
  ASSUME BooksInv, NEW r, Ask(r), Written(r), UNCHANGED <<lines, entries>>
  PROVE  BooksInv'
<1>1. (LinesTyped /\ LinesBacked /\ EntriesWhole)'
  BY DEF BooksInv, LinesTyped, LineOf, LinesBacked, LineSettled, EntriesWhole
<1>2. \A q \in inFlight' : Written(q)
  BY DEF BooksInv, Ask
<1>3. \A q \in inFlight' : Written(q)'
  BY <1>2, StillWritten
<1> QED
  BY <1>1, <1>3 DEF BooksInv

-----------------------------------------------------------------------------
LEMMA ImportWritesBooks ==
  ASSUME BooksInv, NEW r \in inFlight, ImportWrites(r) PROVE BooksInv'
<1> DEFINE brought == Brings(r.prints)
<1>1. IsFiniteSet(brought) /\ \A l \in brought : IsAmount(l)
  BY FS_EmptySet DEF ImportWrites, BooksInv, Written, Brings
<1>2. /\ DOMAIN lines' = DOMAIN lines \union brought
      /\ \A l \in DOMAIN lines : lines'[l] = lines[l]
      /\ \A l \in DOMAIN lines' \ DOMAIN lines : lines'[l] = Unmatched
  BY DEF ImportWrites
<1> HIDE DEF brought
<1>3. IsFiniteSet(DOMAIN lines')
  BY <1>1, <1>2, FS_Union DEF BooksInv, LinesBacked
<1>4. LinesTyped'
  BY <1>2 DEF ImportWrites, BooksInv, LinesTyped, LineOf, Unmatched
<1>5. LinesBacked'
  BY <1>1, <1>2, <1>3 DEF ImportWrites, BooksInv, LinesBacked, LineSettled, Unmatched
<1>6. EntriesWhole'
  BY DEF ImportWrites, BooksInv, EntriesWhole
<1>7. \A q \in inFlight' : Written(q)'
  <2>1. \A q \in inFlight' : Written(q)
    BY DEF ImportWrites, Done, BooksInv
  <2> QED
    BY <1>2, <2>1, StillWritten DEF ImportWrites
<1> QED
  BY <1>4, <1>5, <1>6, <1>7 DEF BooksInv

(* Writing one line, of an entry that is in the books if it claims one.    *)
LEMMA LineWrittenBooks ==
  ASSUME BooksInv, NEW l \in DOMAIN lines, NEW status, NEW entry, NEW lock,
         lines' = [lines EXCEPT ![l] = [status |-> status, entry |-> entry, lock |-> lock]],
         \/ status \in {"unmatched", "ignored"}
         \/ status \in {"matched", "posted"} /\ entry \in entries
         \/ status = lines[l].status /\ entry = lines[l].entry,
         UNCHANGED entries, inFlight' \subseteq inFlight
  PROVE  BooksInv'
<1>1. /\ DOMAIN lines' = DOMAIN lines
      /\ lines'[l] = [status |-> status, entry |-> entry, lock |-> lock]
      /\ \A k \in DOMAIN lines \ {l} : lines'[k] = lines[k]
  BY DEF BooksInv, LinesTyped
<1>2. LinesTyped'
  BY <1>1 DEF BooksInv, LinesTyped, LineOf
<1>3. LinesBacked'
  BY <1>1 DEF BooksInv, LinesBacked, LineSettled
<1>4. EntriesWhole'
  BY DEF BooksInv, EntriesWhole
<1>5. \A q \in inFlight' : Written(q)'
  <2>1. \A q \in inFlight' : Written(q)
    BY DEF BooksInv
  <2> QED
    BY <1>1, <2>1, StillWritten
<1> QED
  BY <1>2, <1>3, <1>4, <1>5 DEF BooksInv

LEMMA WritesBooks ==
  ASSUME BooksInv, NEW r \in inFlight,
         MatchWrites(r) \/ UnmatchWrites(r) \/ PostWrites(r)
  PROVE  BooksInv'
<1>1. Written(r)
  BY DEF BooksInv
<1>2. CASE MatchWrites(r)
  BY <1>1, <1>2, LineWrittenBooks DEF MatchWrites, Done, Written
<1>3. CASE UnmatchWrites(r)
  BY <1>1, <1>3, LineWrittenBooks DEF UnmatchWrites, Done, Written
<1>4. CASE PostWrites(r)
  BY <1>1, <1>4, LineWrittenBooks DEF PostWrites, Done, Written
<1> QED
  BY <1>2, <1>3, <1>4

LEMMA IgnoreBooks ==
  ASSUME BooksInv, NEW l \in DOMAIN lines, IgnoreLine(l) PROVE BooksInv'
<1>1. lines[l] = [status |-> lines[l].status, entry |-> lines[l].entry, lock |-> lines[l].lock]
  BY DEF BooksInv, LinesTyped, LineOf
<1>2. [lines[l] EXCEPT !.status = "ignored"] =
        [status |-> "ignored", entry |-> lines[l].entry, lock |-> lines[l].lock]
  BY <1>1
<1>3. lines' = [lines EXCEPT ![l] = [lines[l] EXCEPT !.status = "ignored"]]
  BY DEF IgnoreLine
<1>4. lines' = [lines EXCEPT ![l] =
        [status |-> "ignored", entry |-> lines[l].entry, lock |-> lines[l].lock]]
  BY <1>2, <1>3, Zenon
<1>5. UNCHANGED entries /\ inFlight' \subseteq inFlight
  BY DEF IgnoreLine
<1> HIDE DEF IgnoreLine
<1> QED
  BY <1>4, <1>5, LineWrittenBooks

LEMMA StampsBooks ==
  ASSUME BooksInv, NEW r \in inFlight, LockStamps(r) PROVE BooksInv'
<1>1. /\ DOMAIN lines' = DOMAIN lines
      /\ \A l \in DOMAIN lines :
           /\ lines'[l].status = lines[l].status
           /\ lines'[l].entry = lines[l].entry
           /\ lines'[l] = [status |-> lines'[l].status, entry |-> lines'[l].entry,
                           lock |-> lines'[l].lock]
  BY DEF LockStamps, BooksInv, LinesTyped, LineOf
<1>2. LinesTyped'
  BY <1>1 DEF LockStamps, LinesTyped, LineOf
<1>3. LinesBacked'
  BY <1>1 DEF LockStamps, BooksInv, LinesBacked, LineSettled
<1>4. EntriesWhole'
  BY DEF LockStamps, BooksInv, EntriesWhole
<1>5. \A q \in inFlight' : Written(q)'
  <2>1. \A q \in inFlight' : Written(q)
    BY DEF LockStamps, Done, BooksInv
  <2> QED
    BY <1>1, <2>1, StillWritten DEF LockStamps
<1> QED
  BY <1>2, <1>3, <1>4, <1>5 DEF BooksInv

LEMMA LockSavesBooks ==
  ASSUME BooksInv, NEW r \in inFlight, LockSaves(r) PROVE BooksInv'
<1>1. \A q \in inFlight' : Written(q)
  BY DEF LockSaves, BooksInv, Written
<1>2. \A q \in inFlight' : Written(q)'
  BY <1>1, StillWritten DEF LockSaves
<1>3. (LinesTyped /\ LinesBacked /\ EntriesWhole)'
  BY DEF LockSaves, BooksInv, LinesTyped, LineOf, LinesBacked, LineSettled, EntriesWhole
<1> QED
  BY <1>2, <1>3 DEF BooksInv

(* An entry joins the books: from a document, or from a line.              *)
LEMMA EntryJoins ==
  ASSUME BooksInv, NEW e, WholeMoves(e), entries' = entries \union {e}, UNCHANGED lines,
         \A q \in inFlight' \ inFlight : Written(q)'
  PROVE  BooksInv'
<1>1. EntriesWhole'
  BY FS_AddElement DEF BooksInv, EntriesWhole, WholeMoves, Moves, Move
<1>2. LinesTyped' /\ LinesBacked'
  BY DEF BooksInv, LinesTyped, LineOf, LinesBacked, LineSettled
<1>3. \A q \in inFlight : Written(q)'
  <2>1. \A q \in inFlight : Written(q)
    BY DEF BooksInv
  <2> QED
    BY <2>1, StillWritten
<1> QED
  BY <1>1, <1>2, <1>3 DEF BooksInv

LEMMA RecordBooks ==
  ASSUME BooksInv, NEW d \in Document, RecordEntry(d) PROVE BooksInv'
<1>1. WholeMoves(OfDocument(d))
  BY BankBounds DEF WholeMoves, Moves, OfDocument, NoLine, Move
<1> QED
  BY <1>1, EntryJoins DEF RecordEntry

LEMMA PostLineBooks ==
  ASSUME BooksInv, NEW l \in DOMAIN lines, PostLine(l) PROVE BooksInv'
<1>1. WholeMoves(OfLine(l))
  BY DEF BooksInv, LinesBacked, IsAmount, WholeMoves, Moves, OfLine, Move
<1>2. \A q \in inFlight' \ inFlight : Written(q)'
  BY DEF PostLine, Ask, Written
<1> QED
  BY <1>1, <1>2, EntryJoins DEF PostLine

LEMMA ReadsBooks ==
  ASSUME BooksInv,
         \/ \E f \in Statements : ImportReads(f)
         \/ \E l \in DOMAIN lines : (\E e \in Nameable(l) : MatchReads(l, e)) \/ UnmatchReads(l)
         \/ \E a \in Account, day \in Day : LockReads(a, day)
  PROVE  BooksInv'
<1>1. ASSUME NEW f \in Statements, ImportReads(f) PROVE BooksInv'
  <2>1. PICK rows \in Readings(f.rows) :
          /\ Ask([kind |-> "import", prints |-> Fresh(FingerprintsOf(f.account, rows))])
          /\ UNCHANGED <<lines, entries>>
    BY <1>1 DEF ImportReads
  <2> DEFINE r == [kind |-> "import", prints |-> Fresh(FingerprintsOf(f.account, rows))]
  <2>2. Written(r)
    BY FreshIsWhole DEF Written
  <2> QED
    BY <2>1, <2>2, AskedWritten
<1>2. ASSUME NEW l \in DOMAIN lines, NEW e \in Nameable(l), MatchReads(l, e) PROVE BooksInv'
  <2> DEFINE r == [kind |-> "match", line |-> l, entry |-> e]
  <2>1. Written(r)
    BY DEF Written, Nameable, Offered
  <2> QED
    BY <1>2, <2>1, AskedWritten DEF MatchReads
<1>3. ASSUME NEW l \in DOMAIN lines, UnmatchReads(l) PROVE BooksInv'
  <2> DEFINE r == [kind |-> "unmatch", line |-> l]
  <2>1. Written(r)
    BY DEF Written
  <2> QED
    BY <1>3, <2>1, AskedWritten DEF UnmatchReads
<1>4. ASSUME NEW a \in Account, NEW day \in Day, LockReads(a, day) PROVE BooksInv'
  <2> DEFINE r == [kind |-> "lock", account |-> a, day |-> day,
                   statement |-> LedgerBalance(a, day) - Unpresented(a, day)]
  <2>1. Written(r)
    BY DEF Written
  <2> QED
    BY <1>4, <2>1, AskedWritten DEF LockReads
<1> QED
  BY <1>1, <1>2, <1>3, <1>4

LEMMA BooksStep == BooksInv /\ [Next]_vars => BooksInv'
<1> SUFFICES ASSUME BooksInv, [Next]_vars PROVE BooksInv'
  OBVIOUS
<1>1. ASSUME NEW l \in DOMAIN lines,
             \/ \E e \in Nameable(l) : MatchReads(l, e)
             \/ UnmatchReads(l) \/ PostLine(l) \/ IgnoreLine(l)
      PROVE  BooksInv'
  BY <1>1, ReadsBooks, PostLineBooks, IgnoreBooks
<1>2. ASSUME NEW r \in inFlight,
             \/ ImportWrites(r) \/ MatchWrites(r) \/ UnmatchWrites(r)
             \/ PostWrites(r) \/ LockSaves(r) \/ LockStamps(r)
      PROVE  BooksInv'
  BY <1>2, ImportWritesBooks, WritesBooks, LockSavesBooks, StampsBooks
<1>3. CASE (\E f \in Statements : ImportReads(f)) \/ \E a \in Account, day \in Day : LockReads(a, day)
  BY <1>3, ReadsBooks
<1>4. CASE \E d \in Document : RecordEntry(d)
  BY <1>4, RecordBooks
<1>5. CASE (\E day \in Day : CloseMonth(day)) \/ Crash \/ UNCHANGED vars
  <2>1. UNCHANGED <<lines, entries>> /\ inFlight' \subseteq inFlight
    BY <1>5 DEF CloseMonth, Crash, vars
  <2>2. \A q \in inFlight' : Written(q)'
    <3>1. \A q \in inFlight' : Written(q)
      BY <2>1 DEF BooksInv
    <3> QED
      BY <2>1, <3>1, StillWritten
  <2>3. (LinesTyped /\ LinesBacked /\ EntriesWhole)'
    BY <2>1 DEF BooksInv, LinesTyped, LineOf, LinesBacked, LineSettled, EntriesWhole
  <2> QED
    BY <2>2, <2>3 DEF BooksInv
<1> QED
  BY <1>1, <1>2, <1>3, <1>4, <1>5 DEF Next

-----------------------------------------------------------------------------
(* The balance a lock records: of the entries to its day, those a line has *)
(* claimed, which the pairing carries over to the lines they are claimed   *)
(* by.                                                                     *)
LEMMA LockedBalance ==
  ASSUME BooksInv, NEW a \in Account, NEW day, NothingOpen(a, day), Pairing(a, day)
  PROVE  LedgerBalance(a, day) - Unpresented(a, day) = StatementBalance(a, day)
<1> DEFINE S      == EntriesTo(a, day)
           open   == {x \in S : ~Claimed(x)}
           held   == S \ open
           part   == {k \in LinesTo(a, day) : lines[k].status # "ignored"}
           moved  == [e \in S |-> Moves(e)[a]]
           unmet  == [e \in open |-> Moves(e)[a]]
           amount == [l \in part |-> l.amount]
           match  == [l \in part |-> lines[l].entry]
<1>1. IsFiniteSet(S) /\ \A e \in S : Moves(e)[a] \in Int
  BY FS_Subset DEF BooksInv, EntriesWhole, WholeMoves, EntriesTo
<1>2. IsFiniteSet(part) /\ \A l \in part : l.amount \in Int
  BY FS_Subset DEF BooksInv, LinesBacked, IsAmount, LinesTo
<1>3. \A l \in part : /\ LineSettled(l) /\ lines[l].entry \in entries
                      /\ l.account = a /\ l.date <= day /\ l.amount # 0
  BY DEF BooksInv, LinesBacked, IsAmount, NothingOpen, LinesTo
<1>4. \A l \in part : /\ match[l] \in held
                      /\ Moves(match[l])[a] = l.amount
  BY <1>3 DEF Pairing, LineSettled, LinesTo, EntriesTo, Move, Claimed, Claims
<1>5. ASSUME NEW e \in held PROVE \E l \in part : match[l] = e
  <2>1. PICK l \in DOMAIN lines : Claims(l, e)
    BY DEF Claimed
  <2>2. /\ Moves(e) = Move(l) /\ (l.date <= day) = (EntryDate(e) <= day)
        /\ lines[l].entry = e /\ lines[l].status \in {"matched", "posted"}
    BY <2>1 DEF Claims, Pairing
  <2>3. EntryDate(e) <= day /\ Moves(e)[a] # 0
    BY DEF EntriesTo
  <2>4. l.account = a
    BY <2>2, <2>3 DEF Move
  <2> QED
    BY <2>2, <2>3, <2>4 DEF LinesTo
<1>6. held = {match[l] : l \in part}
  <2> HIDE DEF held, part, match
  <2>1. \A l \in part : match[l] \in held
    BY <1>4
  <2> QED
    BY <1>5, <2>1
<1>7. \A k, l \in part : match[k] = match[l] => k = l
  BY <1>3 DEF Pairing, LineSettled, LinesTo, Taken, Claims
<1>8. /\ LedgerBalance(a, day) = SumFunctionOnSet(moved, S)
      /\ Unpresented(a, day) = SumFunctionOnSet(unmet, open)
      /\ StatementBalance(a, day) = SumFunctionOnSet(amount, part)
  BY DEF LedgerBalance, Unpresented, StatementBalance, SumFunction
<1>9. /\ open \in SUBSET S /\ IsFiniteSet(open) /\ IsFiniteSet(held)
      /\ WholeOn(moved, S) /\ WholeOn(unmet, open) /\ WholeOn(amount, part)
      /\ WholeOn(moved, held)
      /\ \A e \in open : moved[e] = unmet[e]
  BY <1>1, <1>2, FS_Subset DEF WholeOn
<1>10. \A l \in part : moved[match[l]] = amount[l]
  BY <1>4
<1> HIDE DEF S, open, held, part, moved, unmet, amount, match
<1>11. held = S \ open
  BY DEF held
<1>12. SumFunctionOnSet(moved, S) = SumFunctionOnSet(moved, open) + SumFunctionOnSet(moved, S \ open)
  BY <1>1, <1>9, SumSplit
<1>13. SumFunctionOnSet(unmet, open) = SumFunctionOnSet(moved, open)
  BY <1>9, SumAgrees
<1>14. SumFunctionOnSet(moved, {match[l] : l \in part}) = SumFunctionOnSet(amount, part)
  BY <1>2, <1>7, <1>9, <1>10, SumCarriedOver
<1>15. SumFunctionOnSet(unmet, open) \in Int /\ SumFunctionOnSet(amount, part) \in Int
  BY <1>2, <1>9, SumIsInteger
<1>16. SumFunctionOnSet(moved, S) = SumFunctionOnSet(unmet, open) + SumFunctionOnSet(amount, part)
  BY <1>6, <1>11, <1>12, <1>13, <1>14, Zenon
<1> QED
  BY <1>8, <1>15, <1>16

(* Only lockReconciliation asks to record a balance.                       *)
LEMMA LockIsRead ==
  ASSUME [Next]_vars, NEW r \in inFlight' \ inFlight, r.kind = "lock"
  PROVE  \E a \in Account, day \in Day :
           /\ NothingOpen(a, day)
           /\ r = [kind |-> "lock", account |-> a, day |-> day,
                   statement |-> LedgerBalance(a, day) - Unpresented(a, day)]
<1>1. CASE \E a \in Account, day \in Day : LockReads(a, day)
  BY <1>1 DEF LockReads, Ask
<1>2. CASE \E f \in Statements : ImportReads(f)
  BY <1>2 DEF ImportReads, Ask
<1>3. CASE \E l \in DOMAIN lines :
             \/ \E e \in Nameable(l) : MatchReads(l, e)
             \/ UnmatchReads(l) \/ PostLine(l) \/ IgnoreLine(l)
  BY <1>3 DEF MatchReads, UnmatchReads, PostLine, IgnoreLine, Ask
<1>4. CASE \E q \in inFlight :
             \/ ImportWrites(q) \/ MatchWrites(q) \/ UnmatchWrites(q)
             \/ PostWrites(q) \/ LockSaves(q) \/ LockStamps(q)
  BY <1>4 DEF ImportWrites, MatchWrites, UnmatchWrites, PostWrites, LockSaves, LockStamps, Done
<1>5. CASE \/ \E d \in Document : RecordEntry(d)
           \/ \E day \in Day : CloseMonth(day)
           \/ Crash \/ UNCHANGED vars
  BY <1>5 DEF RecordEntry, CloseMonth, Crash, vars
<1> QED
  BY <1>1, <1>2, <1>3, <1>4, <1>5 DEF Next

(* However many requests overlap, and whatever was matched by hand, a lock *)
(* records what the statement lines up to its day come to, wherever        *)
(* matched pairs are equal, on one side of that day, and one to one.       *)
THEOREM LockedBalanceAgrees == Spec => LockAgreesWithLines
<1>1. ASSUME BooksInv, [Next]_vars,
             NEW r \in inFlight' \ inFlight, r.kind = "lock", Pairing(r.account, r.day)
      PROVE  r.statement = StatementBalance(r.account, r.day)
  <2>1. PICK a \in Account, day \in Day :
          /\ NothingOpen(a, day)
          /\ r = [kind |-> "lock", account |-> a, day |-> day,
                  statement |-> LedgerBalance(a, day) - Unpresented(a, day)]
    BY <1>1, LockIsRead
  <2>2. r.account = a /\ r.day = day /\ r.statement = LedgerBalance(a, day) - Unpresented(a, day)
    BY <2>1
  <2> QED
    BY <1>1, <2>1, <2>2, LockedBalance
<1>2. BooksInv /\ [Next]_vars =>
        [\A r \in inFlight' \ inFlight :
           r.kind = "lock" /\ Pairing(r.account, r.day)
           => r.statement = StatementBalance(r.account, r.day)]_vars
  BY <1>1
<1> QED
  BY BooksInit, BooksStep, <1>2, PTL DEF Spec, LockAgreesWithLines
-----------------------------------------------------------------------------
(* What the running balance proves of a file.  Of the files that print it: *)
(* rows run oldest first and add up, two of those checked move money, no   *)
(* row is misread as something within the kobo of slack of it, and a       *)
(* reference names one movement, checked wherever it is printed.           *)
AddsUp(rows) ==
  \A i \in Checked(rows) :
    Delta(rows, i, FALSE) = rows[i].amount /\ ~Restarted(rows, i, FALSE)

TwoMoveMoney(rows) ==
  \E i, k \in Checked(rows) : i # k /\ rows[i].amount # 0 /\ rows[k].amount # 0

MisreadBeyondSlack(rows) ==
  \A i \in Checked(rows), a \in MisreadAs : a = rows[i].amount \/ rows[i].amount - a \notin -1..1

BalancesAddUp ==
  \A f \in Statements : Proves(f) =>
    AddsUp(f.rows) /\ TwoMoveMoney(f.rows) /\ MisreadBeyondSlack(f.rows)

RefsNameMovements ==
  \A f, g \in Statements : Proves(f) =>
    \A i \in Checked(f.rows), j \in DOMAIN g.rows :
      g.rows[j].movement /\ g.rows[j].ref = f.rows[i].ref
      => /\ Fingerprint(g.account, g.rows[j]) = Fingerprint(f.account, f.rows[i])
         /\ f.rows[i].movement
         /\ Proves(g) /\ j \in Checked(g.rows)

LEMMA RowsAreRows ==
  ASSUME NEW f \in Statements
  PROVE  /\ f.rows \in Seq(Row) /\ DOMAIN f.rows \subseteq Nat /\ IsFiniteSet(DOMAIN f.rows)
         /\ \A i \in DOMAIN f.rows : f.rows[i] \in Row
<1>1. f.rows \in Seq(Row)
  BY FilesAreRows
<1> QED
  BY <1>1, FS_Interval

(* All the rows that print a balance but the first are checked.            *)
LEMMA AllButTheFirst ==
  ASSUME NEW rows, DOMAIN rows \subseteq Nat, IsFiniteSet(DOMAIN rows), Cardinality(Walk(rows)) >= 5
  PROVE  IsFiniteSet(Checked(rows)) /\ Cardinality(Checked(rows)) = Cardinality(Walk(rows)) - 1
<1> DEFINE W == Walk(rows)
<1>1. W \in SUBSET DOMAIN rows
  BY DEF Walk
<1>2. IsFiniteSet(W) /\ Cardinality(W) \in Nat
  BY <1>1, FS_Subset, FS_CardinalityType
<1>3. W # {}
  BY FS_EmptySet
<1>4. PICK w \in W : \A j \in W : w <= j
  BY <1>1, <1>3, LeastNatural
<1>5. Checked(rows) = W \ {w}
  BY <1>1, <1>4 DEF Checked
<1> QED
  BY <1>2, <1>5, FS_RemoveElement

(* A row read otherwise than printed moves neither the balances, nor the   *)
(* dates, nor what the others say.                                         *)
LEMMA OnlyTheAmount ==
  ASSUME NEW f \in Statements, NEW m \in DOMAIN f.rows, NEW a \in Int,
         NEW rows, rows = AsRead(f.rows, m, a)
  PROVE  /\ DOMAIN rows = DOMAIN f.rows /\ Walk(rows) = Walk(f.rows)
         /\ Checked(rows) = Checked(f.rows)
         /\ \A i \in DOMAIN f.rows : Before(rows, i) = Before(f.rows, i)
         /\ \A i \in DOMAIN f.rows \ {m} : rows[i] = f.rows[i]
         /\ rows[m].amount = a /\ (f.rows[m].amount = a => rows[m] = f.rows[m])
         /\ \A i \in DOMAIN f.rows :
              /\ rows[i].balance = f.rows[i].balance /\ rows[i].date = f.rows[i].date
              /\ rows[i].movement = f.rows[i].movement /\ rows[i].ref = f.rows[i].ref
<1>1. /\ DOMAIN rows = DOMAIN f.rows
      /\ \A i \in DOMAIN f.rows \ {m} : rows[i] = f.rows[i]
      /\ rows[m] = [f.rows[m] EXCEPT !.amount = a]
  BY DEF AsRead
<1>2. rows[m].amount = a /\ \A i \in DOMAIN f.rows :
        /\ rows[i].balance = f.rows[i].balance /\ rows[i].date = f.rows[i].date
        /\ rows[i].movement = f.rows[i].movement /\ rows[i].ref = f.rows[i].ref
  BY <1>1, RowsAreRows DEF Row
<1>3. f.rows[m].amount = a => rows[m] = f.rows[m]
  BY <1>1, RowsAreRows DEF Row
<1>4. Walk(rows) = Walk(f.rows)
  BY <1>1, <1>2 DEF Walk
<1>5. Checked(rows) = Checked(f.rows) /\ \A i \in DOMAIN f.rows : Before(rows, i) = Before(f.rows, i)
  BY <1>4 DEF Checked, Before
<1> QED
  BY <1>1, <1>2, <1>3, <1>4, <1>5

LEMMA BeforeIsPrinted ==
  ASSUME NEW f \in Statements, NEW i \in Checked(f.rows)
  PROVE  /\ Before(f.rows, i) \in Walk(f.rows)
         /\ BalanceAt(f.rows, i) \in Int /\ BalanceAt(f.rows, Before(f.rows, i)) \in Int
<1> DEFINE W == Walk(f.rows)
           E == {j \in W : j < i}
<1>1. /\ W \in SUBSET DOMAIN f.rows /\ W \subseteq Nat /\ IsFiniteSet(W) /\ i \in W
      /\ \A j \in W : BalanceAt(f.rows, j) \in Int
  <2>1. W \in SUBSET DOMAIN f.rows /\ i \in W
    BY DEF Walk, Checked
  <2>2. \A j \in W : BalanceAt(f.rows, j) \in Int
    BY <2>1, RowsAreRows DEF Walk, BalanceAt, Row
  <2> QED
    BY <2>1, <2>2, RowsAreRows, FS_Subset
<1>2. E # {} /\ E \subseteq Nat
  BY <1>1 DEF Checked
<1>3. Before(f.rows, i) \in E
  <2>1. \A x \in E : i - x \in Nat
    BY <1>1, <1>2
  <2> DEFINE D == {d \in Nat : \E x \in E : d = i - x}
  <2>2. D # {} /\ D \subseteq Nat
    BY <1>2, <2>1
  <2>3. PICK d \in D : \A e \in D : d <= e
    BY <2>2, LeastNatural
  <2>4. PICK x \in E : d = i - x
    OBVIOUS
  <2>5. \A y \in E : x >= y
    BY <1>1, <1>2, <2>1, <2>3, <2>4
  <2> QED
    BY <2>5 DEF Before, Max
<1> QED
  BY <1>1, <1>3

(* One checked row misread is found: the file still agrees on the others,  *)
(* oldest first, and on no more of them the other way.                     *)
LEMMA MisreadDisagrees ==
  ASSUME BalancesAddUp, NEW f \in Statements, Proves(f), NEW m \in Checked(f.rows),
         NEW a \in MisreadAs, a # f.rows[m].amount, NEW rows, rows = AsRead(f.rows, m, a)
  PROVE  Disagrees(rows)
<1> DEFINE C == Checked(f.rows)
           n == Cardinality(C)
           forward == {i \in Pairs(rows, FALSE) : Agrees(rows, i, FALSE)}
           backward == {i \in Pairs(rows, TRUE) : Agrees(rows, i, TRUE)}
<1>1. a \in Int /\ m \in DOMAIN f.rows /\ C \subseteq Walk(f.rows) /\ Walk(f.rows) \subseteq DOMAIN f.rows
  BY FilesAreRows DEF Checked, Walk
<1>2. /\ AddsUp(f.rows) /\ TwoMoveMoney(f.rows) /\ MisreadBeyondSlack(f.rows)
  BY DEF BalancesAddUp
<1>3. IsFiniteSet(C) /\ n \in Nat /\ n >= 4
  <2>1. Cardinality(Walk(f.rows)) >= 5
    BY DEF Proves
  <2>2. IsFiniteSet(C) /\ n = Cardinality(Walk(f.rows)) - 1
    BY <2>1, RowsAreRows, AllButTheFirst
  <2>3. n \in Nat
    BY <2>2, FS_CardinalityType
  <2>4. Walk(f.rows) \in SUBSET DOMAIN f.rows
    BY <1>1
  <2>5. Cardinality(Walk(f.rows)) \in Nat
    BY <2>4, RowsAreRows, FS_Subset, FS_CardinalityType
  <2> QED
    BY <2>1, <2>2, <2>3, <2>5
<1>4. /\ Checked(rows) = C
      /\ \A i \in DOMAIN f.rows : Before(rows, i) = Before(f.rows, i)
      /\ \A i \in DOMAIN f.rows : rows[i].balance = f.rows[i].balance /\ rows[i].date = f.rows[i].date
      /\ rows[m].amount = a
      /\ \A i \in DOMAIN f.rows \ {m} : rows[i].amount = f.rows[i].amount
  <2>1. a \in Int /\ m \in DOMAIN f.rows
    BY <1>1
  <2>2. Checked(rows) = Checked(f.rows) /\ rows[m].amount = a
    BY <2>1, OnlyTheAmount
  <2>3. \A i \in DOMAIN f.rows : Before(rows, i) = Before(f.rows, i)
    BY <2>1, OnlyTheAmount
  <2>4. \A i \in DOMAIN f.rows : rows[i].balance = f.rows[i].balance /\ rows[i].date = f.rows[i].date
    BY <2>1, OnlyTheAmount
  <2>5. \A i \in DOMAIN f.rows \ {m} : rows[i] = f.rows[i]
    BY <2>1, OnlyTheAmount
  <2> QED
    BY <2>2, <2>3, <2>4, <2>5
<1>5. \A i \in C : i \in DOMAIN f.rows /\ f.rows[i].amount \in Int
  BY <1>1, RowsAreRows DEF Row
<1> HIDE DEF C
<1>6. ASSUME NEW i \in C
      PROVE  /\ Delta(rows, i, FALSE) = f.rows[i].amount
             /\ Delta(rows, i, TRUE) = 0 - f.rows[i].amount
             /\ ~Restarted(rows, i, FALSE)
  <2>1. /\ Before(f.rows, i) \in Walk(f.rows)
        /\ BalanceAt(f.rows, i) \in Int /\ BalanceAt(f.rows, Before(f.rows, i)) \in Int
    BY BeforeIsPrinted DEF C
  <2>2. /\ BalanceAt(rows, i) = BalanceAt(f.rows, i)
        /\ BalanceAt(rows, Before(f.rows, i)) = BalanceAt(f.rows, Before(f.rows, i))
    BY <1>1, <1>4, <1>5, <2>1 DEF BalanceAt
  <2>3. Delta(f.rows, i, FALSE) = f.rows[i].amount /\ ~Restarted(f.rows, i, FALSE)
    BY <1>2 DEF AddsUp, C
  <2>4. BalanceAt(f.rows, i) - BalanceAt(f.rows, Before(f.rows, i)) = f.rows[i].amount
    BY <2>3 DEF Delta
  <2>5. ~Restarted(rows, i, FALSE)
    BY <1>1, <1>4, <1>5, <2>1, <2>3 DEF Restarted
  <2>6. /\ Delta(rows, i, FALSE) = BalanceAt(f.rows, i) - BalanceAt(f.rows, Before(f.rows, i))
        /\ Delta(rows, i, TRUE) = BalanceAt(f.rows, Before(f.rows, i)) - BalanceAt(f.rows, i)
    BY <1>4, <1>5, <2>2 DEF Delta
  <2>7. \A x, y \in Int : y - x = 0 - (x - y)
    OBVIOUS
  <2> QED
    BY <2>1, <2>4, <2>5, <2>6, <2>7
<1>7. Pairs(rows, FALSE) = C
  BY <1>4, <1>6 DEF Pairs
<1>8. forward = C \ {m}
  <2>1. ASSUME NEW i \in C \ {m} PROVE Agrees(rows, i, FALSE)
    <3>1. Delta(rows, i, FALSE) = f.rows[i].amount /\ rows[i].amount = f.rows[i].amount
      BY <1>4, <1>5, <1>6
    <3>2. \A x \in Int : x - x \in -1..1
      OBVIOUS
    <3> QED
      BY <1>5, <3>1, <3>2 DEF Agrees
  <2>2. ~Agrees(rows, m, FALSE)
    <3>1. Delta(rows, m, FALSE) = f.rows[m].amount /\ rows[m].amount = a
      BY <1>4, <1>6 DEF C
    <3> QED
      BY <1>2, <3>1 DEF Agrees, MisreadBeyondSlack
  <2> QED
    BY <1>7, <2>1, <2>2
<1>9. Drift(rows, FALSE) = [agreed |-> n - 1, breaks |-> 1]
  <2>1. Cardinality(C \ {m}) = n - 1
    BY <1>3, FS_RemoveElement DEF C
  <2>2. C \ (C \ {m}) = {m}
    BY DEF C
  <2>3. Cardinality({m}) = 1
    BY FS_Singleton
  <2> QED
    BY <1>7, <1>8, <2>1, <2>2, <2>3 DEF Drift
<1>10. Cardinality(backward) \in Nat /\ Cardinality(backward) <= n - 1
  <2>1. PICK k \in C : k # m /\ f.rows[k].amount # 0
    BY <1>2 DEF TwoMoveMoney, C
  <2>2. ~Agrees(rows, k, TRUE)
    <3>1. Delta(rows, k, TRUE) = 0 - f.rows[k].amount /\ rows[k].amount = f.rows[k].amount
      BY <1>4, <1>5, <1>6, <2>1
    <3>2. \A x \in Int : x # 0 => (0 - x) - x \notin -1..1
      OBVIOUS
    <3> QED
      BY <1>5, <2>1, <3>1, <3>2 DEF Agrees
  <2>3. backward \in SUBSET (C \ {k})
    BY <1>4, <2>2 DEF Pairs
  <2>4. IsFiniteSet(C \ {k}) /\ Cardinality(C \ {k}) = n - 1
    BY <1>3, <2>1, FS_RemoveElement
  <2> HIDE DEF backward, n
  <2>5. IsFiniteSet(backward) /\ Cardinality(backward) <= n - 1
    BY <2>3, <2>4, FS_Subset
  <2> QED
    BY <2>5, FS_CardinalityType
<1>11. Drift(rows, TRUE).agreed = Cardinality(backward)
  BY DEF Drift
<1> HIDE DEF forward, backward, n
<1>12. Best(rows) = [agreed |-> n - 1, breaks |-> 1]
  <2>1. \A x, y : [agreed |-> x, breaks |-> y].agreed = x
    OBVIOUS
  <2>2. Drift(rows, FALSE).agreed = n - 1
    BY <1>9, <2>1
  <2>3. \A x, y \in Int : x <= y => ~(x > y)
    OBVIOUS
  <2>4. n - 1 \in Int /\ Cardinality(backward) \in Int
    BY <1>3, <1>10
  <2>5. ~(Cardinality(backward) > n - 1)
    BY <1>10, <2>3, <2>4
  <2>6. ~(Drift(rows, TRUE).agreed > Drift(rows, FALSE).agreed)
    BY <1>11, <2>2, <2>5
  <2> QED
    BY <1>9, <2>6 DEF Best
<1> QED
  BY <1>3, <1>12 DEF Disagrees

(* What is read of a line no file with a running balance contradicts.      *)
AsPrinted(l) ==
  \A f \in Statements :
    l \in Printed(f) \/ ~Proves(f) \/ l.ref \notin {f.rows[i].ref : i \in Checked(f.rows)}

LEMMA ReadAsPrinted ==
  ASSUME BalancesAddUp, RefsNameMovements, NEW f \in Statements,
         NEW rows \in Readings(f.rows), Readable(rows), NEW j \in Movements(rows)
  PROVE  AsPrinted(Fingerprint(f.account, rows[j]))
<1> DEFINE l == Fingerprint(f.account, rows[j])
<1> SUFFICES ASSUME NEW g \in Statements, Proves(g), NEW i \in Checked(g.rows),
                    l.ref = g.rows[i].ref
             PROVE  l \in Printed(g)
  BY DEF AsPrinted
<1>1. j \in DOMAIN rows /\ rows[j].movement /\ rows[j].amount # 0
  BY DEF Movements
<1>2. \/ rows = f.rows
      \/ \E m \in DOMAIN f.rows, a \in MisreadAs : f.rows[m].movement /\ rows = AsRead(f.rows, m, a)
  BY DEF Readings
<1>3. /\ j \in DOMAIN f.rows /\ f.rows[j].movement /\ f.rows[j].ref = rows[j].ref
      /\ \/ rows[j] = f.rows[j]
         \/ \E a \in MisreadAs : a # f.rows[j].amount /\ rows = AsRead(f.rows, j, a)
  <2>1. CASE rows = f.rows
    BY <1>1, <2>1
  <2>2. CASE \E m \in DOMAIN f.rows, a \in MisreadAs : rows = AsRead(f.rows, m, a)
    <3>1. PICK m \in DOMAIN f.rows, a \in MisreadAs : rows = AsRead(f.rows, m, a)
      BY <2>2
    <3>2. a \in Int
      BY FilesAreRows
    <3>3. /\ DOMAIN rows = DOMAIN f.rows
          /\ \A k \in DOMAIN f.rows \ {m} : rows[k] = f.rows[k]
          /\ f.rows[m].amount = a => rows[m] = f.rows[m]
          /\ \A k \in DOMAIN f.rows :
               rows[k].movement = f.rows[k].movement /\ rows[k].ref = f.rows[k].ref
      BY <3>1, <3>2, OnlyTheAmount
    <3> QED
      BY <1>1, <3>1, <3>3
  <2> QED
    BY <1>2, <2>1, <2>2
<1>4. /\ Fingerprint(f.account, f.rows[j]) = Fingerprint(g.account, g.rows[i])
      /\ g.rows[i].movement /\ Proves(f) /\ j \in Checked(f.rows)
  BY <1>3 DEF Fingerprint, RefsNameMovements
<1>5. rows[j] = f.rows[j]
  <2>1. ASSUME NEW a \in MisreadAs, a # f.rows[j].amount, rows = AsRead(f.rows, j, a)
        PROVE  FALSE
    BY <1>4, <2>1, MisreadDisagrees DEF Readable
  <2> QED
    BY <1>3, <2>1
<1>6. l = Fingerprint(g.account, g.rows[i]) /\ g.rows[i].amount # 0
  BY <1>1, <1>4, <1>5 DEF Fingerprint
<1>7. i \in Movements(g.rows)
  BY <1>4, <1>6 DEF Movements, Checked, Walk
<1> HIDE DEF l
<1>8. FingerprintsOf(g.account, g.rows)[i] = l /\ i \in DOMAIN FingerprintsOf(g.account, g.rows)
  BY <1>6, <1>7 DEF FingerprintsOf
<1> QED
  BY <1>8 DEF Printed, Range

(* The inductive invariant: so is what an import in flight is to write.    *)
PrintedInv ==
  /\ \A l \in DOMAIN lines : AsPrinted(l)
  /\ \A r \in inFlight : r.kind = "import" => \A l \in Range(r.prints) : AsPrinted(l)

LEMMA PrintedInit == Init => PrintedInv
BY DEF Init, PrintedInv

LEMMA ImportReadsPrinted ==
  ASSUME BalancesAddUp, RefsNameMovements, PrintedInv, NEW f \in Statements, ImportReads(f)
  PROVE  PrintedInv'
<1>1. PICK rows \in Readings(f.rows) :
        /\ Readable(rows)
        /\ Ask([kind |-> "import", prints |-> Fresh(FingerprintsOf(f.account, rows))])
        /\ UNCHANGED lines
  BY DEF ImportReads
<1> DEFINE fresh == Fresh(FingerprintsOf(f.account, rows))
<1>2. \A i \in DOMAIN fresh : i \in Movements(rows) /\ fresh[i] = Fingerprint(f.account, rows[i])
  BY DEF Fresh, FingerprintsOf
<1> HIDE DEF fresh
<1>3. \A l \in Range(fresh) : AsPrinted(l)
  BY <1>1, <1>2, ReadAsPrinted DEF Range
<1>4. inFlight' = inFlight \union {[kind |-> "import", prints |-> fresh]}
  BY <1>1 DEF fresh, Ask
<1> QED
  BY <1>1, <1>3, <1>4 DEF PrintedInv

(* Nothing else imports: lines are added by ImportWrites alone, of what it *)
(* is to write, and every other request asks for something else.           *)
LEMMA PrintedKept ==
  ASSUME PrintedInv, DOMAIN lines' = DOMAIN lines,
         \A r \in inFlight' \ inFlight : r.kind # "import"
  PROVE  PrintedInv'
BY DEF PrintedInv

LEMMA ImportWritesPrinted ==
  ASSUME PrintedInv, NEW r \in inFlight, ImportWrites(r) PROVE PrintedInv'
<1>1. DOMAIN lines' = DOMAIN lines \union Brings(r.prints) /\ inFlight' \subseteq inFlight
  BY DEF ImportWrites, Done
<1>2. \A l \in Brings(r.prints) : AsPrinted(l)
  BY DEF ImportWrites, PrintedInv, Brings
<1> QED
  BY <1>1, <1>2 DEF PrintedInv

LEMMA PrintedStep ==
  ASSUME BalancesAddUp, RefsNameMovements, PrintedInv, [Next]_vars PROVE PrintedInv'
<1>1. CASE \E f \in Statements : ImportReads(f)
  BY <1>1, ImportReadsPrinted
<1>2. CASE \E r \in inFlight : ImportWrites(r)
  BY <1>2, ImportWritesPrinted
<1>3. CASE \E l \in DOMAIN lines :
             \/ \E e \in Nameable(l) : MatchReads(l, e)
             \/ UnmatchReads(l) \/ PostLine(l) \/ IgnoreLine(l)
  BY <1>3, PrintedKept DEF MatchReads, UnmatchReads, PostLine, IgnoreLine, Ask
<1>4. CASE \E r \in inFlight :
             \/ MatchWrites(r) \/ UnmatchWrites(r)
             \/ PostWrites(r) \/ LockSaves(r) \/ LockStamps(r)
  BY <1>4, PrintedKept DEF MatchWrites, UnmatchWrites, PostWrites, LockSaves, LockStamps, Done
<1>5. CASE \/ \E d \in Document : RecordEntry(d)
           \/ \E a \in Account, day \in Day : LockReads(a, day)
           \/ \E day \in Day : CloseMonth(day)
           \/ Crash \/ UNCHANGED vars
  BY <1>5, PrintedKept DEF RecordEntry, LockReads, Ask, CloseMonth, Crash, vars
<1> QED
  BY <1>1, <1>2, <1>3, <1>4, <1>5 DEF Next

(* Where a file's running balance adds up, a checked row is imported as    *)
(* the bank printed it or not at all: whichever row of whichever file was  *)
(* misread, and however imports overlap, fail and are asked again.         *)
THEOREM MisreadRowsAreRefused ==
  ASSUME BalancesAddUp, RefsNameMovements PROVE Spec => []ImportedAsPrinted
<1>1. PrintedInv /\ [Next]_vars => PrintedInv'
  BY PrintedStep
<1>2. PrintedInv => ImportedAsPrinted
  BY DEF PrintedInv, AsPrinted, ImportedAsPrinted
<1> QED
  BY PrintedInit, <1>1, <1>2, PTL DEF Spec

-----------------------------------------------------------------------------
(* Investments.                                                            *)
(*                                                                         *)
(* Powers, which compounding is made of.                                   *)
IsPower(base, n, p) ==
  /\ DOMAIN p = 0..n
  /\ \A k \in 0..n : p[k] = IF k = 0 THEN 1 ELSE base * p[k - 1]

LEMMA PowersAgree ==
  ASSUME NEW base \in Nat, NEW m \in Nat, NEW n \in Nat, NEW p, NEW q,
         IsPower(base, m, p), IsPower(base, n, q)
  PROVE  \A k \in Nat : k <= m /\ k <= n => p[k] = q[k]
<1> DEFINE T == {k \in Nat : k <= m /\ k <= n => p[k] = q[k]}
<1>1. 0 \in T
  BY DEF IsPower
<1>2. ASSUME NEW k \in T PROVE k + 1 \in T
  <2>1. CASE k + 1 <= m /\ k + 1 <= n
    <3>1. k + 1 \in 0..m /\ k + 1 \in 0..n /\ (k + 1) - 1 = k /\ k + 1 # 0
      BY <2>1
    <3>2. p[k] = q[k]
      BY <2>1
    <3> QED
      BY <3>1, <3>2 DEF IsPower
  <2> QED
    BY <2>1
<1>3. T = Nat
  <2> HIDE DEF T
  <2>1. T \subseteq Nat
    BY DEF T
  <2> QED
    BY <1>1, <1>2, <2>1, ByInduction
<1> QED
  BY <1>3

LEMMA PowersExist ==
  ASSUME NEW base \in Nat, NEW n \in Nat
  PROVE  \E p : IsPower(base, n, p) /\ \A k \in 0..n : p[k] \in Nat
<1> DEFINE T == {k \in Nat : \E p : IsPower(base, k, p) /\ \A j \in 0..k : p[j] \in Nat}
<1>1. 0 \in T
  <2> DEFINE p == [j \in 0..0 |-> 1]
  <2>1. IsPower(base, 0, p) /\ \A j \in 0..0 : p[j] \in Nat
    BY DEF IsPower
  <2> QED
    BY <2>1
<1>2. ASSUME NEW k \in T PROVE k + 1 \in T
  <2>1. PICK p : IsPower(base, k, p) /\ \A j \in 0..k : p[j] \in Nat
    OBVIOUS
  <2> DEFINE q == [j \in 0..(k + 1) |-> IF j = k + 1 THEN base * p[k] ELSE p[j]]
  <2>2. ASSUME NEW j \in 0..(k + 1)
        PROVE  q[j] = (IF j = 0 THEN 1 ELSE base * q[j - 1]) /\ q[j] \in Nat
    <3>1. CASE j = k + 1
      <4>1. j # 0 /\ j - 1 = k /\ k \in 0..(k + 1) /\ k # k + 1 /\ p[k] \in Nat
        BY <2>1, <3>1
      <4>2. base * p[k] \in Nat
        BY <4>1
      <4> QED
        BY <3>1, <4>1, <4>2
    <3>2. CASE j # k + 1 /\ j # 0
      <4>1. j \in 0..k /\ j - 1 \in 0..(k + 1) /\ j - 1 # k + 1
        BY <3>2
      <4> QED
        BY <2>1, <3>2, <4>1 DEF IsPower
    <3>3. CASE j # k + 1 /\ j = 0
      <4>1. j \in 0..k
        BY <3>3
      <4> QED
        BY <2>1, <3>3, <4>1 DEF IsPower
    <3> QED
      BY <3>1, <3>2, <3>3
  <2>3. DOMAIN q = 0..(k + 1)
    OBVIOUS
  <2> HIDE DEF q
  <2>4. IsPower(base, k + 1, q) /\ \A j \in 0..(k + 1) : q[j] \in Nat
    BY <2>2, <2>3 DEF IsPower
  <2> QED
    BY <2>4
<1>3. T = Nat
  <2> HIDE DEF T
  <2>1. T \subseteq Nat
    BY DEF T
  <2> QED
    BY <1>1, <1>2, <2>1, ByInduction
<1>4. n \in T
  <2> HIDE DEF T
  <2> QED
    BY <1>3
<1> QED
  BY <1>4


LEMMA PowerFollows ==
  ASSUME NEW base \in Nat
  PROVE  /\ Power(base, 0) = 1
         /\ \A n \in Nat : /\ Power(base, n) \in Nat
                           /\ Power(base, n + 1) = base * Power(base, n)
<1> DEFINE upto(n) == CHOOSE p : IsPower(base, n, p)
           power == [k \in Nat |-> upto(k)[k]]
           IsAll(f) == f = [k \in Nat |-> IF k = 0 THEN 1 ELSE base * f[k - 1]]
<1>1. ASSUME NEW n \in Nat PROVE IsPower(base, n, upto(n)) /\ upto(n)[n] \in Nat
  <2>1. PICK p : IsPower(base, n, p) /\ \A k \in 0..n : p[k] \in Nat
    BY PowersExist
  <2>2. IsPower(base, n, upto(n))
    BY <2>1
  <2>3. p[n] = upto(n)[n]
    BY <2>1, <2>2, PowersAgree
  <2> QED
    BY <2>1, <2>2, <2>3
<1>2. ASSUME NEW k \in Nat PROVE power[k] = IF k = 0 THEN 1 ELSE base * power[k - 1]
  <2>1. IsPower(base, k, upto(k)) /\ k \in 0..k
    BY <1>1
  <2>2. upto(k)[k] = IF k = 0 THEN 1 ELSE base * upto(k)[k - 1]
    BY <2>1 DEF IsPower
  <2>3. CASE k # 0
    <3>1. k - 1 \in Nat /\ k - 1 <= k
      BY <2>3
    <3>2. upto(k)[k - 1] = upto(k - 1)[k - 1]
      BY <1>1, <3>1, PowersAgree
    <3> QED
      BY <2>2, <2>3, <3>1, <3>2
  <2> QED
    BY <2>2, <2>3
<1>3. IsAll(power)
  <2>1. power = [k \in Nat |-> power[k]]
    OBVIOUS
  <2> HIDE DEF power, upto
  <2>2. [k \in Nat |-> power[k]] = [k \in Nat |-> IF k = 0 THEN 1 ELSE base * power[k - 1]]
    BY <1>2
  <2> QED
    BY <2>1, <2>2
<1> DEFINE f == CHOOSE g : IsAll(g)
<1>4. IsAll(f)
  BY <1>3
<1>5. \A n : Power(base, n) = f[n]
  BY Zenon DEF Power
<1> HIDE DEF f
<1>6. /\ f[0] = 1
      /\ \A n \in Nat : f[n + 1] = base * f[n]
  <2>1. ASSUME NEW n \in Nat PROVE n + 1 \in Nat /\ n + 1 # 0 /\ (n + 1) - 1 = n
    OBVIOUS
  <2> QED
    BY <1>4, <2>1
<1>7. \A n \in Nat : f[n] \in Nat
  <2> DEFINE T == {n \in Nat : f[n] \in Nat}
  <2>1. 0 \in T
    BY <1>6
  <2>2. ASSUME NEW n \in T PROVE n + 1 \in T
    <3>1. f[n + 1] = base * f[n] /\ f[n] \in Nat
      BY <1>6
    <3> QED
      BY <3>1
  <2>3. T = Nat
    <3> HIDE DEF T
    <3>1. T \subseteq Nat
      BY DEF T
    <3> QED
      BY <2>1, <2>2, <3>1, ByInduction
  <2> QED
    BY <2>3
<1> QED
  BY <1>5, <1>6, <1>7

LEMMA PowersGrow ==
  ASSUME NEW base \in Nat \ {0}, NEW larger \in Nat, base <= larger, NEW n \in Nat
  PROVE  /\ Power(base, n) \in Nat \ {0} /\ Power(larger, n) \in Nat
         /\ Power(base, n) <= Power(larger, n)
<1> DEFINE T == {k \in Nat : /\ Power(base, k) # 0
                             /\ Power(base, k) <= Power(larger, k)}
<1>1. 0 \in T
  BY PowerFollows
<1>2. ASSUME NEW k \in T PROVE k + 1 \in T
  <2> DEFINE a == Power(base, k)
             b == Power(larger, k)
  <2>1. a \in Nat \ {0} /\ b \in Nat /\ a <= b
    BY PowerFollows
  <2>2. Power(base, k + 1) = base * a /\ Power(larger, k + 1) = larger * b
    BY PowerFollows
  <2> HIDE DEF a, b
  <2>3. base * a <= base * b /\ base * b <= larger * b
    BY <2>1
  <2>4. base * a > 0 /\ base * a \in Nat /\ base * b \in Nat /\ larger * b \in Nat
    BY <2>1
  <2> QED
    BY <2>2, <2>3, <2>4
<1>3. T = Nat
  <2> HIDE DEF T
  <2>1. T \subseteq Nat
    BY DEF T
  <2> QED
    BY <1>1, <1>2, <2>1, ByInduction
<1> QED
  BY <1>3, PowerFollows


-----------------------------------------------------------------------------
(* What a subscription earns.                                              *)
LEMMA QuotientGrows ==
  ASSUME NEW a \in Int, NEW b \in Int, a <= b, NEW c \in Nat \ {0}
  PROVE  a \div c \in Int /\ b \div c \in Int /\ a \div c <= b \div c
<1>1. /\ a \div c \in Int /\ a % c \in Int /\ a = c * (a \div c) + (a % c) /\ 0 <= a % c
      /\ b \div c \in Int /\ b % c \in Int /\ b = c * (b \div c) + (b % c) /\ b % c < c
  BY Division
<1> DEFINE x == a \div c
           y == b \div c
<1>2. x \in Int /\ y \in Int /\ c * x < c * (y + 1)
  BY <1>1
<1> HIDE DEF x, y
<1>3. ASSUME y + 1 <= x PROVE FALSE
  <2>1. c * (y + 1) <= c * x
    BY <1>2, <1>3
  <2> QED
    BY <1>2, <2>1
<1>4. x <= y
  BY <1>2, <1>3
<1> QED
  BY <1>2, <1>4 DEF x, y

LEMMA QuotientIsWhole ==
  ASSUME NEW a \in Nat, NEW c \in Nat \ {0}
  PROVE  a \div c \in Nat
<1>1. 0 \div c = 0
  OBVIOUS
<1> QED
  BY <1>1, QuotientGrows

LEMMA ProductsGrow ==
  ASSUME NEW a \in Nat, NEW b \in Nat, NEW c \in Nat, NEW d \in Nat, a <= b, c <= d
  PROVE  a * c \in Nat /\ b * d \in Nat /\ a * c <= b * d
<1>1. a * c <= b * c /\ b * c <= b * d
  OBVIOUS
<1>2. a * c \in Nat /\ b * c \in Nat /\ b * d \in Nat
  OBVIOUS
<1> QED
  BY <1>1, <1>2

AreTerms(terms) == AreFigures(terms) /\ GrowthAgrees(terms)

LEMMA FiguresOf ==
  ASSUME NEW terms, AreTerms(terms)
  PROVE  /\ terms.rate \in Nat /\ terms.tenor \in Nat
         /\ terms.lockIn \in Nat /\ terms.penaltyValue \in Nat
         /\ terms.growth[1] \in Nat \ {0} /\ terms.growth[2] \in Nat \ {0}
BY DEF AreTerms, AreFigures

LEMMA PeriodsOfAYear ==
  ASSUME NEW terms
  PROVE  /\ PeriodsInYear(terms) \in {0, 4, 12}
         /\ IsPeriodic(terms) <=> PeriodsInYear(terms) # 0
BY DEF PeriodsInYear, IsPeriodic

LEMMA GrowthIsGrowth ==
  ASSUME NEW terms, AreTerms(terms), IsPeriodic(terms)
  PROVE  terms.growth[2] <= terms.growth[1]
<1> DEFINE n == terms.growth[1]
           d == terms.growth[2]
           r == terms.rate
           y == PeriodsInYear(terms)
<1>1. n \in Nat \ {0} /\ d \in Nat \ {0} /\ r \in Nat /\ y \in {4, 12}
  BY FiguresOf, PeriodsOfAYear
<1>2. n * 100 * y = d * (100 * y + r)
  BY DEF AreTerms, GrowthAgrees
<1> HIDE DEF n, d, r, y
<1>3. d * r \in Nat /\ d * (100 * y + r) = d * (100 * y) + d * r
  BY <1>1
<1>4. d * (100 * y) <= n * 100 * y
  BY <1>1, <1>2, <1>3
<1>5. d <= n
  <2>1. CASE y = 4
    BY <1>1, <1>4, <2>1
  <2>2. CASE y = 12
    BY <1>1, <1>4, <2>2
  <2> QED
    BY <1>1, <2>1, <2>2
<1> QED
  BY <1>5 DEF n, d

LEMMA ElapsedIsWhole ==
  ASSUME NEW terms, AreTerms(terms), NEW from \in Nat, NEW d \in Nat, NEW e \in Nat, d <= e
  PROVE  /\ ElapsedDays(terms, from, d) \in Nat
         /\ ElapsedDays(terms, from, e) \in Nat
         /\ ElapsedDays(terms, from, d) <= ElapsedDays(terms, from, e)
BY FiguresOf DEF ElapsedDays, DaysBetween, Greater, Lesser

LEMMA PeriodsAreOver ==
  ASSUME NEW terms, IsPeriodic(terms), NEW days \in Nat
  PROVE  LET k == CompletePeriods(terms, days)
         IN  /\ k \in Nat
             /\ WholeDaysOf(terms, k) \in Nat
             /\ WholeDaysOf(terms, k) <= days
<1> DEFINE y == PeriodsInYear(terms)
           k == (days * y) \div 365
           w == (k * 365) \div y
<1>1. y \in {4, 12} /\ y \in Nat \ {0}
  BY PeriodsOfAYear
<1> HIDE DEF y
<1>2. days * y \in Nat /\ 365 \in Nat \ {0}
  BY <1>1
<1>3. k \in Nat /\ k * 365 <= days * y
  <2>1. k \in Nat
    BY <1>2, QuotientIsWhole
  <2>2. days * y = 365 * k + ((days * y) % 365) /\ 0 <= (days * y) % 365 /\ (days * y) % 365 \in Int
    BY <1>2, Division
  <2> HIDE DEF k
  <2> QED
    BY <1>2, <2>1, <2>2
<1>4. w \in Nat /\ w * y <= k * 365
  <2> HIDE DEF k
  <2>1. k * 365 \in Nat
    BY <1>3
  <2>2. w \in Nat
    BY <1>1, <2>1, QuotientIsWhole
  <2>3. k * 365 = y * w + ((k * 365) % y) /\ 0 <= (k * 365) % y /\ (k * 365) % y \in Int
    BY <1>1, <2>1, Division
  <2> HIDE DEF w
  <2>4. y * w = w * y /\ w * y \in Nat
    BY <1>1, <2>2
  <2> QED
    BY <1>3, <2>2, <2>3, <2>4
<1>5. w <= days
  <2> HIDE DEF w, k
  <2>1. CASE y = 4
    BY <1>3, <1>4, <2>1
  <2>2. CASE y = 12
    BY <1>3, <1>4, <2>2
  <2> QED
    BY <1>1, <2>1, <2>2
<1> QED
  BY <1>3, <1>4, <1>5 DEF CompletePeriods, WholeDaysOf, DaysInYear, y

LEMMA SimpleGrows ==
  ASSUME NEW a \in Nat, NEW b \in Nat, a <= b, NEW rate \in Nat, NEW d \in Nat, NEW e \in Nat, d <= e
  PROVE  /\ Simple(a, rate, d) \in Nat /\ Simple(b, rate, e) \in Nat
         /\ Simple(a, rate, d) <= Simple(b, rate, e)
<1>1. a * rate \in Nat /\ b * rate \in Nat /\ a * rate <= b * rate
  BY ProductsGrow
<1>2. a * rate * d \in Nat /\ b * rate * e \in Nat /\ a * rate * d <= b * rate * e
  BY <1>1, ProductsGrow
<1>3. 100 * 365 \in Nat \ {0}
  OBVIOUS
<1> QED
  BY <1>2, <1>3, QuotientGrows, QuotientIsWhole DEF Simple, DaysInYear

LEMMA GrownGrows ==
  ASSUME NEW terms, AreTerms(terms), IsPeriodic(terms),
         NEW p \in Nat, NEW q \in Nat, p <= q, NEW k \in Nat
  PROVE  /\ Grown(terms, p, k) \in Nat /\ Grown(terms, q, k) \in Nat
         /\ p <= Grown(terms, p, k)
         /\ Grown(terms, p, k) - p <= Grown(terms, q, k) - q
         /\ Grown(terms, p, 0) = p
<1> DEFINE n == Power(terms.growth[1], k)
           d == Power(terms.growth[2], k)
           f(x) == (2 * (x * n) + d) \div (2 * d)
<1>1. n \in Nat /\ d \in Nat \ {0} /\ d <= n
  BY FiguresOf, GrowthIsGrowth, PowersGrow
<1>2. ASSUME NEW x PROVE Grown(terms, x, k) = f(x)
  BY DEF Grown, RoundWith
<1>3. \A x \in Nat : Grown(terms, x, 0) = x
  <2>1. Power(terms.growth[1], 0) = 1 /\ Power(terms.growth[2], 0) = 1
    BY FiguresOf, PowerFollows
  <2>2. ASSUME NEW x \in Nat PROVE (2 * (x * 1) + 1) \div (2 * 1) = x
    OBVIOUS
  <2> QED
    BY <2>1, <2>2 DEF Grown, RoundWith
<1> HIDE DEF n, d
<1>4. ASSUME NEW x \in Nat PROVE 2 * (x * n) + d \in Nat /\ 2 * d \in Nat \ {0}
  BY <1>1
<1>5. ASSUME NEW x \in Nat PROVE f(x) \in Nat
  BY <1>4, QuotientIsWhole
<1>6. ASSUME NEW a \in Nat, NEW b \in Nat, a <= b PROVE f(a) - a <= f(b) - b
  <2> DEFINE fa == f(a)
             fb == f(b)
             ra == (2 * (a * n) + d) % (2 * d)
             rb == (2 * (b * n) + d) % (2 * d)
             m == b - a
  <2>1. /\ fa \in Nat /\ fb \in Nat /\ ra \in Int /\ rb \in Int
        /\ 2 * (a * n) + d = 2 * d * fa + ra /\ 0 <= ra
        /\ 2 * (b * n) + d = 2 * d * fb + rb /\ rb < 2 * d
    <3> DEFINE x == 2 * (a * n) + d
               y == 2 * (b * n) + d
               z == 2 * d
    <3>1. x \in Nat /\ y \in Nat /\ z \in Nat \ {0}
      BY <1>4
    <3>2. f(a) \in Nat /\ f(b) \in Nat
      BY <1>5
    <3> HIDE DEF x, y, z
    <3>3. /\ x % z \in Int /\ x = z * (x \div z) + (x % z) /\ 0 <= x % z
          /\ y % z \in Int /\ y = z * (y \div z) + (y % z) /\ y % z < z
      BY <3>1, Division
    <3> QED
      BY <3>2, <3>3 DEF x, y, z
  <2> HIDE DEF fa, fb, ra, rb
  <2>2. m \in Nat /\ b = a + m
    BY <1>6
  <2> HIDE DEF m
  <2>3. b * n = a * n + m * n /\ m * d <= m * n /\ m * n \in Nat /\ m * d \in Nat /\ a * n \in Nat
    BY <1>1, <2>2
  <2>4. 2 * d * (fa + m) = 2 * d * fa + 2 * (m * d)
    BY <1>1, <2>1, <2>2
  <2>5. 2 * d * fa \in Nat /\ 2 * d * fb \in Nat /\ b * n \in Nat
    BY <1>1, <2>1
  <2>6. 2 * d * (fa + m) <= 2 * d * fb + rb
    BY <1>1, <2>1, <2>3, <2>4, <2>5
  <2>7. ASSUME fb + 1 <= fa + m PROVE FALSE
    <3>1. 2 * d * (fb + 1) <= 2 * d * (fa + m) /\ 2 * d * (fa + m) \in Nat
      BY <1>1, <2>1, <2>2, <2>7
    <3>2. 2 * d * (fb + 1) = 2 * d * fb + 2 * d
      BY <1>1, <2>1
    <3> QED
      BY <1>1, <2>1, <2>5, <2>6, <3>1, <3>2
  <2>8. fa + m <= fb
    BY <2>1, <2>2, <2>7
  <2>9. fa - a <= fb - b
    BY <2>1, <2>2, <2>8
  <2> QED
    BY <2>9 DEF fa, fb
<1>7. f(0) \in Nat
  BY <1>5
<1>8. p <= f(p)
  <2>1. f(0) - 0 <= f(p) - p
    BY <1>6
  <2> HIDE DEF f
  <2> QED
    BY <1>5, <1>7, <2>1
<1> HIDE DEF f
<1> QED
  BY <1>2, <1>3, <1>5, <1>6, <1>8

LEMMA AccruedGrowsWithPrincipal ==
  ASSUME NEW terms, AreTerms(terms), NEW p \in Nat, NEW q \in Nat, p <= q,
         NEW from \in Nat \union {Never}, NEW d \in Nat
  PROVE  /\ AccruedAt(terms, p, from, d) \in Nat
         /\ AccruedAt(terms, q, from, d) \in Nat
         /\ AccruedAt(terms, p, from, d) <= AccruedAt(terms, q, from, d)
<1>1. CASE from = Never \/ terms.rate <= 0
  BY <1>1 DEF AccruedAt
<1>2. CASE from # Never /\ ~(terms.rate <= 0)
  <2> DEFINE days == ElapsedDays(terms, from, d)
             k == CompletePeriods(terms, days)
             tail == days - WholeDaysOf(terms, k)
             rate == terms.rate
  <2>1. from \in Nat /\ days \in Nat /\ rate \in Nat
    <3>1. from \in Nat /\ rate \in Nat
      BY <1>2, FiguresOf
    <3>2. d <= d
      OBVIOUS
    <3>3. days \in Nat
      BY <3>1, <3>2, ElapsedIsWhole
    <3> QED
      BY <3>1, <3>3
  <2>2. CASE terms.basis = "compound" /\ IsPeriodic(terms)
    <3> DEFINE gp == Grown(terms, p, k)
               gq == Grown(terms, q, k)
               tp == Simple(gp, rate, tail)
               tq == Simple(gq, rate, tail)
    <3> HIDE DEF days
    <3>1. k \in Nat /\ tail \in Nat
      BY <2>1, <2>2, PeriodsAreOver
    <3> HIDE DEF k, tail
    <3>2. gp \in Nat /\ gq \in Nat /\ p <= gp /\ gp - p <= gq - q
      BY <2>2, <3>1, GrownGrows
    <3> HIDE DEF gp, gq
    <3>3. gp <= gq
      BY <3>2
    <3>4. tp \in Nat /\ tq \in Nat /\ tp <= tq
      <4>1. tail <= tail
        BY <3>1
      <4> HIDE DEF rate
      <4> QED
        BY <2>1, <3>1, <3>2, <3>3, <4>1, SimpleGrows
    <3> HIDE DEF rate
    <3>5. /\ AccruedAt(terms, p, from, d) = IF p <= 0 THEN 0 ELSE Greater(gp - p + tp, 0)
          /\ AccruedAt(terms, q, from, d) = IF q <= 0 THEN 0 ELSE Greater(gq - q + tq, 0)
      BY <1>2, <2>2 DEF AccruedAt, days, k, tail, gp, gq, rate
    <3> HIDE DEF tp, tq
    <3> QED
      BY <3>2, <3>3, <3>4, <3>5 DEF Greater
  <2>3. CASE ~(terms.basis = "compound" /\ IsPeriodic(terms))
    <3> DEFINE sp == Simple(p, rate, days)
               sq == Simple(q, rate, days)
    <3>1. sp \in Nat /\ sq \in Nat /\ sp <= sq
      <4> HIDE DEF days, rate
      <4>1. days <= days
        BY <2>1
      <4> QED
        BY <2>1, <4>1, SimpleGrows
    <3>2. /\ AccruedAt(terms, p, from, d) = IF p <= 0 THEN 0 ELSE Greater(sp, 0)
          /\ AccruedAt(terms, q, from, d) = IF q <= 0 THEN 0 ELSE Greater(sq, 0)
      BY <1>2, <2>3 DEF AccruedAt
    <3> HIDE DEF sp, sq
    <3> QED
      BY <3>1, <3>2 DEF Greater
  <2> QED
    BY <2>2, <2>3
<1> QED
  BY <1>1, <1>2

(* No day takes back what the one before it had earned: a condition on     *)
(* terms, of which SimpleGrowsDaily says where it always holds.            *)
GrowsDaily(terms) ==
  \A p, from, d \in Nat :
    AccruedAt(terms, p, from, d) <= AccruedAt(terms, p, from, d + 1)

(* What simple interest has earned grows by the day (accruedAt), and so    *)
(* what compounding says it earns without a period to compound over.  With *)
(* one, a unit may be lost where a period ends: the capital is rounded     *)
(* there and the days after it are floored.                                *)
THEOREM SimpleGrowsDaily ==
  ASSUME NEW terms, AreTerms(terms), ~(terms.basis = "compound" /\ IsPeriodic(terms))
  PROVE  GrowsDaily(terms)
<1> SUFFICES ASSUME NEW p \in Nat, NEW from \in Nat, NEW d \in Nat
             PROVE  AccruedAt(terms, p, from, d) <= AccruedAt(terms, p, from, d + 1)
  BY DEF GrowsDaily
<1> DEFINE this == ElapsedDays(terms, from, d)
           next == ElapsedDays(terms, from, d + 1)
           a == Simple(p, terms.rate, this)
           b == Simple(p, terms.rate, next)
<1>1. this \in Nat /\ next \in Nat /\ this <= next /\ terms.rate \in Nat
  <2>1. d + 1 \in Nat /\ d <= d + 1
    OBVIOUS
  <2> QED
    BY <2>1, ElapsedIsWhole, FiguresOf
<1>2. a \in Nat /\ b \in Nat /\ a <= b
  <2>1. p <= p
    OBVIOUS
  <2> HIDE DEF this, next
  <2> QED
    BY <1>1, <2>1, SimpleGrows
<1>3. CASE p <= 0 \/ terms.rate <= 0 \/ from = Never
  BY <1>3 DEF AccruedAt
<1>4. CASE ~(p <= 0 \/ terms.rate <= 0 \/ from = Never)
  <2>1. /\ AccruedAt(terms, p, from, d) = Greater(a, 0)
        /\ AccruedAt(terms, p, from, d + 1) = Greater(b, 0)
    BY <1>4 DEF AccruedAt
  <2> HIDE DEF a, b
  <2> QED
    BY <1>2, <2>1 DEF Greater
<1> QED
  BY <1>3, <1>4

LEMMA GrowsOverDays ==
  ASSUME NEW terms, AreTerms(terms), GrowsDaily(terms),
         NEW p \in Nat, NEW from \in Nat, NEW d \in Nat, NEW e \in Nat, d <= e
  PROVE  AccruedAt(terms, p, from, d) <= AccruedAt(terms, p, from, e)
<1> DEFINE earned(x) == AccruedAt(terms, p, from, x)
           T == {n \in Nat : earned(d) <= earned(d + n)}
<1>1. \A x \in Nat : earned(x) \in Nat /\ earned(x) <= earned(x + 1)
  BY AccruedGrowsWithPrincipal DEF GrowsDaily
<1> HIDE DEF earned
<1>2. 0 \in T
  <2>1. d + 0 = d /\ earned(d) \in Nat
    BY <1>1
  <2> QED
    BY <2>1
<1>3. ASSUME NEW n \in T PROVE n + 1 \in T
  <2>1. d + n \in Nat /\ (d + n) + 1 = d + (n + 1) /\ n + 1 \in Nat
    OBVIOUS
  <2>2. earned(d) \in Nat /\ earned(d + n) \in Nat /\ earned(d + (n + 1)) \in Nat
    BY <1>1, <2>1
  <2>3. earned(d) <= earned(d + n) /\ earned(d + n) <= earned(d + (n + 1))
    BY <1>1, <2>1
  <2> QED
    BY <2>1, <2>2, <2>3
<1>4. T = Nat
  <2> HIDE DEF T
  <2>1. T \subseteq Nat
    BY DEF T
  <2> QED
    BY <1>2, <1>3, <2>1, ByInduction
<1>5. e - d \in Nat /\ d + (e - d) = e
  OBVIOUS
<1>6. e - d \in T
  <2> HIDE DEF T
  <2> QED
    BY <1>4, <1>5
<1> QED
  BY <1>5, <1>6 DEF earned

-----------------------------------------------------------------------------
(* The book, its rows and the requests in flight.                          *)
TermsOffered == {o.terms : o \in Offers}

CompletedPayment == [status : {"completed"}, amount : Nat \ {0}, day : Days]

Subscription ==
  [status : {"pending", "active", "completed"}, cashOut : {"not_requested", "requested", "paid", "rejected"},
   terms : TermsOffered, principal : Amounts, funded : Nat, fundedAt : Nat \union {Never},
   returnPaid : Nat, capitalPaid : Nat, payments : SUBSET CompletedPayment,
   raised : [return : Nat, capital : Nat]]

ToSubscribe(q) == q.op = "subscribe" /\ q.amount \in Amounts /\ q.terms \in TermsOffered

ToReview(q) == q.op \in {"approve", "reject"} /\ q.id \in DOMAIN book

BookTyped ==
  /\ offer \in Offers
  /\ book \in Seq(Subscription)
  /\ \A q \in requests : ToSubscribe(q) \/ ToReview(q)
  /\ IsFiniteSet(requests) /\ Cardinality(requests) <= MaxRequests
  /\ stops \in Nat /\ today \in Nat

(* A written row leaves the others alone.                                  *)
LEMMA RowWritten ==
  ASSUME NEW rows \in Seq(Subscription), NEW i \in DOMAIN rows, NEW row \in Subscription
  PROVE  LET written == [rows EXCEPT ![i] = row]
         IN  /\ written \in Seq(Subscription)
             /\ DOMAIN written = DOMAIN rows
             /\ written[i] = row
             /\ \A j \in DOMAIN rows : j # i => written[j] = rows[j]
OBVIOUS

LEMMA RowsAre ==
  ASSUME BookTyped, NEW i \in DOMAIN book
  PROVE  /\ book[i] \in Subscription
         /\ IsFiniteSet(DOMAIN book)
         /\ DOMAIN book = 1..Len(book) /\ Len(book) \in Nat
<1>1. book \in Seq(Subscription)
  BY DEF BookTyped
<1>2. DOMAIN book = 1..Len(book) /\ Len(book) \in Nat /\ book[i] \in Subscription
  BY <1>1
<1>3. IsFiniteSet(1..Len(book))
  BY <1>2, FS_Interval
<1> QED
  BY <1>2, <1>3

(* Finance writes a status recordFunding does not ask for.                 *)
LEMMA FundingChangesNothing ==
  ASSUME BookTyped, NEW i \in DOMAIN book
  PROVE  RecordFunding(i) = book[i]
<1>1. book[i] \in Subscription
  BY RowsAre
<1>2. {p \in book[i].payments : p.status = "verified"} = {}
  BY <1>1 DEF Subscription, CompletedPayment
<1> DEFINE none == [p \in {} |-> p.amount]
<1>3. Total(none) = 0
  BY SumOfNone DEF Total, AsMinor, SumFunction
<1>4. FundedAgainstInvoice(i).minor = Total(none)
  BY <1>2 DEF FundedAgainstInvoice
<1>5. FundedAgainstInvoice(i).minor = 0
  BY <1>3, <1>4
<1> QED
  BY <1>5 DEF RecordFunding

-----------------------------------------------------------------------------
(* The days releases fall due on.                                          *)
LEMMA NearestIsOver ==
  ASSUME NEW terms, IsPeriodic(terms), NEW d \in Nat, NEW e \in Nat, d <= e
  PROVE  LET due(days) == NearestDayOf(terms, CompletePeriods(terms, days))
         IN  due(d) \in Nat /\ due(e) \in Nat /\ due(d) <= due(e) /\ due(d) <= d
<1> DEFINE y == PeriodsInYear(terms)
           due(days) == NearestDayOf(terms, CompletePeriods(terms, days))
           over(days) == (days * y) \div 365
           twice(days) == 2 * (over(days) * 365) + y
<1>1. y \in {4, 12} /\ y \in Nat \ {0}
  BY PeriodsOfAYear
<1>2. ASSUME NEW days PROVE due(days) = twice(days) \div (2 * y)
  BY DEF NearestDayOf, CompletePeriods, RoundWith, DaysInYear
<1> HIDE DEF y
<1>3. ASSUME NEW days \in Nat PROVE over(days) \in Nat /\ over(days) * 365 <= days * y
  <2>1. days * y \in Nat /\ 365 \in Nat \ {0}
    BY <1>1
  <2>2. over(days) \in Nat
    BY <2>1, QuotientIsWhole
  <2>3. days * y = 365 * over(days) + ((days * y) % 365) /\ 0 <= (days * y) % 365 /\ (days * y) % 365 \in Int
    BY <2>1, Division
  <2> DEFINE k == over(days)
  <2> HIDE DEF k
  <2> QED
    BY <2>1, <2>2, <2>3 DEF k
<1>4. over(d) <= over(e)
  <2>1. d * y \in Nat /\ e * y \in Nat /\ d * y <= e * y /\ 365 \in Nat \ {0}
    BY <1>1
  <2> QED
    BY <2>1, QuotientGrows
<1>5. /\ twice(d) \in Nat /\ twice(e) \in Nat /\ twice(d) <= twice(e) /\ 2 * y \in Nat \ {0}
      /\ twice(d) < 2 * y * (d + 1)
  <2> DEFINE a == over(d)
             b == over(e)
  <2>1. a \in Nat /\ b \in Nat /\ a <= b /\ a * 365 <= d * y
    BY <1>3, <1>4
  <2> HIDE DEF a, b
  <2>2. y = 4 \/ y = 12
    BY <1>1
  <2>3. 2 * (a * 365) + y < 2 * y * (d + 1)
    BY <2>1, <2>2
  <2> QED
    BY <1>1, <2>1, <2>3 DEF a, b
<1> HIDE DEF twice
<1>6. /\ twice(d) \div (2 * y) \in Nat /\ twice(e) \div (2 * y) \in Nat
      /\ twice(d) \div (2 * y) <= twice(e) \div (2 * y)
  BY <1>5, QuotientGrows, QuotientIsWhole
<1>7. twice(d) \div (2 * y) <= d
  <2> DEFINE z == 2 * y
             t == twice(d)
             q == t \div z
  <2>1. z \in Nat \ {0} /\ t \in Nat /\ t < z * (d + 1) /\ q \in Nat
    BY <1>5, <1>6
  <2> HIDE DEF z, t
  <2>2. t = z * q + (t % z) /\ 0 <= t % z /\ t % z \in Int
    BY <2>1, Division
  <2> HIDE DEF q
  <2>3. z * q < z * (d + 1)
    BY <2>1, <2>2
  <2>4. ASSUME d + 1 <= q PROVE FALSE
    <3>1. z * (d + 1) <= z * q
      BY <2>1, <2>4
    <3>2. z * (d + 1) \in Nat /\ z * q \in Nat
      BY <2>1
    <3> QED
      BY <2>3, <3>1, <3>2
  <2> QED
    BY <2>1, <2>4 DEF q, z, t
<1> QED
  BY <1>2, <1>6, <1>7

LEMMA ReleasesInOrder ==
  ASSUME NEW terms, AreTerms(terms), NEW from \in Nat, NEW d \in Nat, NEW e \in Nat, d <= e
  PROVE  LET due(x) == LastRelease(terms, from, x)
         IN  /\ due(d) \in Nat \union {Never}
             /\ due(e) \in Nat \union {Never}
             /\ due(d) <= due(e)
             /\ due(d) # Never => due(e) # Never
             /\ due(d) <= Maturity(terms, from)
             /\ Maturity(terms, from) \in Nat
<1> DEFINE m == Maturity(terms, from)
           since(x) == DaysBetween(from, x)
           k(x) == CompletePeriods(terms, since(x))
           near(x) == NearestDayOf(terms, k(x))
           due(x) == LastRelease(terms, from, x)
<1>1. m \in Nat /\ from <= m /\ from # Never
  BY FiguresOf DEF Maturity, Greater, Never
<1>2. since(d) \in Nat /\ since(e) \in Nat /\ since(d) <= since(e)
  BY DEF DaysBetween, Greater
<1>3. ASSUME IsPeriodic(terms)
      PROVE  /\ k(d) \in Nat /\ k(e) \in Nat /\ k(d) <= k(e)
             /\ near(d) \in Nat /\ near(e) \in Nat /\ near(d) <= near(e) /\ near(d) <= since(d)
  <2> HIDE DEF since
  <2>1. near(d) \in Nat /\ near(e) \in Nat /\ near(d) <= near(e) /\ near(d) <= since(d)
    BY <1>2, <1>3, NearestIsOver
  <2>2. PeriodsInYear(terms) \in Nat
    BY PeriodsOfAYear
  <2> DEFINE y == PeriodsInYear(terms)
  <2>3. since(d) * y \in Nat /\ since(e) * y \in Nat /\ since(d) * y <= since(e) * y /\ 365 \in Nat \ {0}
    <3> HIDE DEF y
    <3>1. y \in Nat
      BY <2>2 DEF y
    <3> QED
      BY <1>2, <3>1
  <2>4. k(d) = (since(d) * y) \div 365 /\ k(e) = (since(e) * y) \div 365
    BY DEF CompletePeriods, DaysInYear
  <2>5. k(d) \in Nat /\ k(e) \in Nat /\ k(d) <= k(e)
    <3> HIDE DEF y, k
    <3> QED
      BY <2>3, <2>4, QuotientGrows, QuotientIsWhole
  <2> QED
    BY <2>1, <2>5
<1>4. ASSUME NEW x \in Nat
      PROVE  due(x) = IF x >= m THEN m
                      ELSE IF IsPeriodic(terms) /\ k(x) > 0 THEN from + near(x)
                      ELSE Never
  BY <1>1 DEF LastRelease, HasMatured
<1>5. since(d) = IF from <= d THEN d - from ELSE 0
  BY DEF DaysBetween, Greater
<1>6. ASSUME IsPeriodic(terms), k(d) > 0 PROVE from + near(d) <= d
  <2>1. CASE from <= d
    <3> HIDE DEF since, near
    <3> QED
      BY <1>3, <1>5, <1>6, <2>1
  <2>2. CASE ~(from <= d)
    <3>1. since(d) = 0
      BY <1>5, <2>2
    <3>2. (0 * PeriodsInYear(terms)) \div 365 = 0
      <4>1. PeriodsInYear(terms) \in Int
        BY PeriodsOfAYear
      <4> QED
        BY <4>1
    <3>3. k(d) = 0
      BY <3>1, <3>2 DEF CompletePeriods, DaysInYear
    <3> QED
      BY <1>6, <3>3
  <2> QED
    BY <2>1, <2>2
<1> HIDE DEF m, since, k, near, due
<1>7. due(d) \in Nat \union {Never} /\ due(e) \in Nat \union {Never}
  BY <1>1, <1>3, <1>4
<1>8. due(d) <= m
  BY <1>1, <1>3, <1>4, <1>6 DEF Never
<1>9. due(d) <= due(e) /\ (due(d) # Never => due(e) # Never)
  <2>1. CASE e >= m
    BY <1>1, <1>4, <1>7, <1>8, <2>1 DEF Never
  <2>2. CASE ~(e >= m)
    <3>1. ~(d >= m)
      BY <1>1, <2>2
    <3>2. CASE IsPeriodic(terms) /\ k(d) > 0
      <4>1. k(e) > 0 /\ near(d) <= near(e) /\ near(d) \in Nat /\ near(e) \in Nat
        BY <1>3, <3>2
      <4> QED
        BY <1>4, <2>2, <3>1, <3>2, <4>1 DEF Never
    <3>3. CASE ~(IsPeriodic(terms) /\ k(d) > 0)
      <4>1. due(d) = Never
        BY <1>4, <3>1, <3>3
      <4> QED
        BY <1>7, <4>1 DEF Never
    <3> QED
      BY <3>2, <3>3
  <2> QED
    BY <2>1, <2>2
<1> QED
  BY <1>1, <1>7, <1>8, <1>9 DEF m, due

(* What the releases that fell due by a day come to.                       *)
Earned(terms, p, from, d) ==
  LET due == LastRelease(terms, from, d)
  IN  IF due = Never THEN 0 ELSE AccruedAt(terms, p, from, due)

LEMMA EarnedIsWhole ==
  ASSUME NEW terms, AreTerms(terms), NEW p \in Nat, NEW from \in Nat \union {Never}, NEW d \in Nat
  PROVE  /\ Earned(terms, p, from, d) \in Nat
         /\ from = Never => Earned(terms, p, from, d) = 0
<1>1. CASE from = Never
  BY <1>1 DEF Earned, LastRelease
<1>2. CASE from # Never
  <2> DEFINE due == LastRelease(terms, from, d)
  <2>1. from \in Nat /\ d <= d
    BY <1>2
  <2>2. due \in Nat \union {Never}
    BY <2>1, ReleasesInOrder
  <2>3. CASE due = Never
    BY <1>2, <2>3 DEF Earned
  <2>4. CASE due # Never
    <3> HIDE DEF due
    <3>1. AccruedAt(terms, p, from, due) \in Nat
      <4>1. due \in Nat /\ p <= p
        BY <2>2, <2>4
      <4> QED
        BY <4>1, AccruedGrowsWithPrincipal
    <3> QED
      BY <1>2, <2>4, <3>1 DEF Earned, due
  <2> QED
    BY <2>3, <2>4
<1> QED
  BY <1>1, <1>2

LEMMA EarnedGrows ==
  ASSUME NEW terms, AreTerms(terms), GrowsDaily(terms),
         NEW p \in Nat, NEW q \in Nat, p <= q, NEW from \in Nat,
         NEW d \in Nat, NEW e \in Nat, d <= e
  PROVE  /\ Earned(terms, p, from, d) <= Earned(terms, q, from, e)
         /\ Earned(terms, p, from, d) <= AccruedAt(terms, p, from, Maturity(terms, from))
<1> DEFINE a == LastRelease(terms, from, d)
           b == LastRelease(terms, from, e)
           m == Maturity(terms, from)
           A(x, day2) == AccruedAt(terms, x, from, day2)
<1>1. /\ a \in Nat \union {Never} /\ b \in Nat \union {Never}
      /\ a <= b /\ (a # Never => b # Never) /\ a <= m /\ m \in Nat
  BY ReleasesInOrder
<1>2. Earned(terms, p, from, d) = (IF a = Never THEN 0 ELSE A(p, a))
  BY DEF Earned
<1>3. Earned(terms, q, from, e) = (IF b = Never THEN 0 ELSE A(q, b))
  BY DEF Earned
<1>4. \A x \in Nat : A(p, x) \in Nat /\ A(q, x) \in Nat /\ A(p, x) <= A(q, x)
  BY AccruedGrowsWithPrincipal
<1>5. \A x, y \in Nat : x <= y => A(p, x) <= A(p, y)
  BY GrowsOverDays
<1> HIDE DEF a, b, m, A
<1>6. CASE a = Never
  <2>1. A(p, m) \in Nat /\ \A x \in Nat : A(q, x) \in Nat
    BY <1>1, <1>4
  <2>2. Earned(terms, p, from, d) = 0 /\ Earned(terms, q, from, e) \in Nat
    BY <1>1, <1>2, <1>3, <1>6, <2>1
  <2>3. 0 <= Earned(terms, q, from, e) /\ 0 <= A(p, m)
    BY <2>1, <2>2
  <2> QED
    BY <2>2, <2>3 DEF A, m
<1>7. CASE a # Never
  <2>1. a \in Nat /\ b \in Nat /\ b # Never
    BY <1>1, <1>7
  <2>2. A(p, a) <= A(p, b) /\ A(p, b) <= A(q, b) /\ A(p, a) <= A(p, m)
    BY <1>1, <1>4, <1>5, <2>1
  <2>3. A(p, a) \in Nat /\ A(p, b) \in Nat /\ A(q, b) \in Nat
    BY <1>4, <2>1
  <2>4. A(p, a) <= A(q, b)
    BY <2>2, <2>3
  <2> QED
    BY <1>2, <1>3, <1>7, <2>1, <2>2, <2>4 DEF A, m
<1> QED
  BY <1>6, <1>7 DEF A, m

LEMMA ReleasedIsEarned ==
  ASSUME NEW terms, AreTerms(terms), NEW p \in Nat, NEW from \in Nat \union {Never},
         NEW d \in Nat, NEW paid \in Nat
  PROVE  Releasable(terms, p, from, d, paid) =
           IF Earned(terms, p, from, d) >= paid THEN Earned(terms, p, from, d) - paid ELSE 0
<1> DEFINE due == LastRelease(terms, from, d)
           x == Earned(terms, p, from, d)
<1>1. x \in Nat
  BY EarnedIsWhole
<1>2. CASE due = Never
  <2>1. x = 0 /\ Releasable(terms, p, from, d, paid) = 0
    BY <1>2 DEF Earned, Releasable
  <2> QED
    BY <2>1
<1>3. CASE due # Never
  <2>1. Releasable(terms, p, from, d, paid) = Greater(x - paid, 0)
    BY <1>3 DEF Earned, Releasable
  <2> QED
    BY <1>1, <2>1 DEF Greater
<1> QED
  BY <1>2, <1>3

-----------------------------------------------------------------------------
(* Where the run is, and what it holds there.                              *)
PositionTyped(p) == p.releasable \in Nat /\ p.capital \in Nat /\ p.matured \in BOOLEAN

SweepTyped ==
  \/ sweep = Idle
  \/ /\ sweep = [at |-> "look", asAt |-> sweep.asAt, queue |-> sweep.queue]
     /\ sweep.asAt \in Nat /\ sweep.asAt <= today
     /\ sweep.queue \subseteq DOMAIN book
  \/ /\ sweep = [at |-> sweep.at, asAt |-> sweep.asAt, queue |-> sweep.queue,
                 position |-> sweep.position, read |-> sweep.read]
     /\ sweep.at \in {"raise", "count", "capital", "countCapital", "settle"}
     /\ sweep.asAt \in Nat /\ sweep.asAt <= today
     /\ sweep.queue \subseteq DOMAIN book /\ sweep.queue # {}
     /\ PositionTyped(sweep.position)
     /\ sweep.read.returnPaid \in Nat /\ sweep.read.funded \in Nat

LEMMA ThisIsQueued ==
  ASSUME BookTyped, SweepTyped, sweep # Idle, sweep.queue # {}
  PROVE  This \in sweep.queue /\ This \in DOMAIN book /\ sweep.queue \subseteq DOMAIN book
<1>1. sweep.queue \subseteq DOMAIN book
  BY DEF SweepTyped
<1>2. DOMAIN book \subseteq Nat
  BY DEF BookTyped
<1>3. \E x \in sweep.queue : \A y \in sweep.queue : x <= y
  BY <1>1, <1>2, LeastNatural
<1> QED
  BY <1>1, <1>3 DEF This

LEMMA OffersAreTerms ==
  ASSUME InputsAreFigures, NEW terms \in TermsOffered
  PROVE  AreTerms(terms)
BY DEF InputsAreFigures, TermsOffered, AreTerms

LEMMA PositionIsTyped ==
  ASSUME InputsAreFigures, NEW row \in Subscription, NEW d \in Nat
  PROVE  /\ PositionTyped(PositionOf(row, d))
         /\ PositionOf(row, d).releasable =
              IF Earned(row.terms, row.funded, row.fundedAt, d) >= row.returnPaid
              THEN Earned(row.terms, row.funded, row.fundedAt, d) - row.returnPaid ELSE 0
         /\ PositionOf(row, d).capital =
              IF row.funded >= row.capitalPaid THEN row.funded - row.capitalPaid ELSE 0
         /\ PositionOf(row, d).matured = HasMatured(row.terms, row.fundedAt, d)
<1>1. /\ row.funded \in Nat /\ row.fundedAt \in Nat \union {Never}
      /\ row.returnPaid \in Nat /\ row.capitalPaid \in Nat /\ AreTerms(row.terms)
  BY OffersAreTerms DEF Subscription
<1> DEFINE x == Earned(row.terms, row.funded, row.fundedAt, d)
<1>2. x \in Nat
  BY <1>1, EarnedIsWhole
<1>3. Releasable(row.terms, row.funded, row.fundedAt, d, row.returnPaid) =
        IF x >= row.returnPaid THEN x - row.returnPaid ELSE 0
  BY <1>1, ReleasedIsEarned
<1> HIDE DEF x
<1>4. /\ PositionOf(row, d).releasable = IF x >= row.returnPaid THEN x - row.returnPaid ELSE 0
      /\ PositionOf(row, d).capital = Greater(row.funded - row.capitalPaid, 0)
      /\ PositionOf(row, d).matured = HasMatured(row.terms, row.fundedAt, d)
  BY <1>3 DEF PositionOf
<1>5. HasMatured(row.terms, row.fundedAt, d) \in BOOLEAN
  BY DEF HasMatured
<1>6. PositionOf(row, d).capital =
        IF row.funded >= row.capitalPaid THEN row.funded - row.capitalPaid ELSE 0
  BY <1>1, <1>4 DEF Greater
<1> QED
  BY <1>1, <1>2, <1>4, <1>5, <1>6 DEF PositionTyped, x

-----------------------------------------------------------------------------
(* What happens outside the run leaves the counters alone: money comes in, *)
(* a status changes, a subscription is added, the day goes on.             *)
CountsKept(i) ==
  /\ book'[i].terms = book[i].terms
  /\ book'[i].principal = book[i].principal
  /\ book'[i].raised = book[i].raised
  /\ book'[i].returnPaid = book[i].returnPaid
  /\ book'[i].capitalPaid = book[i].capitalPaid
  /\ book[i].funded <= book'[i].funded
  /\ book[i].fundedAt \in {Never, book'[i].fundedAt}

NothingCounted(row) ==
  row.funded = 0 /\ row.returnPaid = 0 /\ row.capitalPaid = 0 /\ row.raised = [return |-> 0, capital |-> 0]

OutsideStep ==
  /\ BookTyped'
  /\ \A i \in DOMAIN book : i \in DOMAIN book' /\ CountsKept(i)
  /\ \A i \in DOMAIN book' : i \notin DOMAIN book => NothingCounted(book'[i])
  /\ today <= today'
  /\ \/ sweep' = sweep /\ stops' = stops
     \/ sweep' = Idle /\ stops' = stops + 1
     \/ /\ sweep = Idle /\ stops' = stops
        /\ sweep' = [at |-> "look", asAt |-> today, queue |-> sweep'.queue]
        /\ sweep'.queue \subseteq DOMAIN book

LEMMA NoRowMoves ==
  ASSUME BookTyped, UNCHANGED book
  PROVE  /\ \A i \in DOMAIN book : i \in DOMAIN book' /\ CountsKept(i)
         /\ \A i \in DOMAIN book' : i \notin DOMAIN book => NothingCounted(book'[i])
<1>1. \A i \in DOMAIN book : book[i] \in Subscription
  BY RowsAre
<1> QED
  BY <1>1 DEF CountsKept, Subscription

LEMMA OneRowMoves ==
  ASSUME BookTyped, NEW i \in DOMAIN book, NEW row \in Subscription, book' = [book EXCEPT ![i] = row],
         row.terms = book[i].terms, row.principal = book[i].principal, row.raised = book[i].raised,
         row.returnPaid = book[i].returnPaid, row.capitalPaid = book[i].capitalPaid,
         book[i].funded <= row.funded, book[i].fundedAt \in {Never, row.fundedAt}
  PROVE  /\ \A j \in DOMAIN book : j \in DOMAIN book' /\ CountsKept(j)
         /\ \A j \in DOMAIN book' : j \notin DOMAIN book => NothingCounted(book'[j])
         /\ book' \in Seq(Subscription) /\ DOMAIN book' = DOMAIN book
<1>1. book \in Seq(Subscription) /\ \A j \in DOMAIN book : book[j] \in Subscription
  BY RowsAre DEF BookTyped
<1>2. /\ book' \in Seq(Subscription) /\ DOMAIN book' = DOMAIN book /\ book'[i] = row
      /\ \A j \in DOMAIN book : j # i => book'[j] = book[j]
  BY <1>1, RowWritten
<1>3. ASSUME NEW j \in DOMAIN book PROVE CountsKept(j)
  <2>1. CASE j = i
    BY <1>2, <2>1 DEF CountsKept
  <2>2. CASE j # i
    BY <1>1, <1>2, <2>2 DEF CountsKept, Subscription
  <2> QED
    BY <2>1, <2>2
<1> QED
  BY <1>2, <1>3

(* Requests come one at a time, and leave.                                 *)
LEMMA RequestAdmitted ==
  ASSUME InputsAreFigures, BookTyped, NEW q, Admit(q), ToSubscribe(q) \/ ToReview(q)
  PROVE  BookTyped'
<1>1. /\ Cardinality(requests) < MaxRequests /\ q \notin requests
      /\ requests' = requests \union {q}
      /\ UNCHANGED <<offer, book, sweep, stops, today>>
  BY DEF Admit
<1>2. /\ IsFiniteSet(requests') /\ Cardinality(requests') = Cardinality(requests) + 1
      /\ Cardinality(requests) \in Nat
  BY <1>1, FS_AddElement, FS_CardinalityType DEF BookTyped
<1>3. MaxRequests \in Nat
  BY DEF InputsAreFigures
<1>4. Cardinality(requests') <= MaxRequests
  BY <1>1, <1>2, <1>3
<1>5. \A r \in requests' : ToSubscribe(r) \/ ToReview(r)'
  BY <1>1 DEF BookTyped, ToReview
<1> QED
  BY <1>1, <1>2, <1>4, <1>5 DEF BookTyped, ToSubscribe, ToReview

LEMMA RequestServed ==
  ASSUME InputsAreFigures, BookTyped, NEW q, Served(q), book' \in Seq(Subscription), DOMAIN book \subseteq DOMAIN book'
  PROVE  /\ BookTyped' /\ UNCHANGED <<offer, sweep, stops, today>>
         /\ requests' = requests \ {q} /\ q \in requests
<1>1. /\ q \in requests /\ requests' = requests \ {q}
      /\ UNCHANGED <<offer, sweep, stops, today>>
  BY DEF Served
<1>2. /\ IsFiniteSet(requests') /\ Cardinality(requests') = Cardinality(requests) - 1
      /\ Cardinality(requests) \in Nat
  BY <1>1, FS_RemoveElement, FS_CardinalityType DEF BookTyped
<1>3. MaxRequests \in Nat
  BY DEF InputsAreFigures
<1>4. Cardinality(requests') <= MaxRequests
  BY <1>2, <1>3 DEF BookTyped
<1>5. \A r \in requests' : ToSubscribe(r) \/ ToReview(r)'
  BY <1>1 DEF BookTyped, ToReview
<1> QED
  BY <1>1, <1>2, <1>4, <1>5 DEF BookTyped, ToSubscribe, ToReview

LEMMA NewRow ==
  ASSUME BookTyped, NEW row \in Subscription, NothingCounted(row), book' = Append(book, row)
  PROVE  /\ book' \in Seq(Subscription) /\ DOMAIN book \subseteq DOMAIN book'
         /\ \A j \in DOMAIN book : j \in DOMAIN book' /\ CountsKept(j)
         /\ \A j \in DOMAIN book' : j \notin DOMAIN book => NothingCounted(book'[j])
<1>1. book \in Seq(Subscription) /\ \A j \in DOMAIN book : book[j] \in Subscription
  BY RowsAre DEF BookTyped
<1>2. /\ book' \in Seq(Subscription) /\ DOMAIN book = 1..Len(book) /\ DOMAIN book' = 1..(Len(book) + 1)
      /\ Len(book) \in Nat
      /\ \A j \in 1..Len(book) : book'[j] = book[j]
      /\ book'[Len(book) + 1] = row
  BY <1>1
<1>3. ASSUME NEW j \in DOMAIN book PROVE j \in DOMAIN book' /\ CountsKept(j)
  BY <1>1, <1>2 DEF CountsKept, Subscription
<1>4. ASSUME NEW j \in DOMAIN book', j \notin DOMAIN book PROVE book'[j] = row
  <2>1. j = Len(book) + 1
    BY <1>2, <1>4
  <2> QED
    BY <1>2, <2>1
<1> QED
  BY <1>2, <1>3, <1>4

-----------------------------------------------------------------------------
LEMMA EditPlanOutside ==
  ASSUME InputsAreFigures, BookTyped, EditPlan PROVE OutsideStep
<1>1. offer' \in Offers /\ UNCHANGED <<book, requests, sweep, stops, today>>
  BY DEF EditPlan
<1>2. BookTyped'
  BY <1>1 DEF BookTyped, ToReview, ToSubscribe
<1>3. today <= today'
  BY <1>1 DEF BookTyped
<1> QED
  BY <1>1, <1>2, <1>3, NoRowMoves DEF OutsideStep

LEMMA ReadsOutside ==
  ASSUME InputsAreFigures, BookTyped, SubscribeReads \/ ReviewReads PROVE OutsideStep
<1>1. PICK q : Admit(q) /\ (ToSubscribe(q) \/ ToReview(q))
  <2>1. CASE SubscribeReads
    <3>1. PICK amount \in Amounts :
            Admit([op |-> "subscribe", amount |-> amount, terms |-> offer.terms,
                          nth |-> Cardinality(requests)])
      BY <2>1 DEF SubscribeReads
    <3>2. offer.terms \in TermsOffered
      BY DEF BookTyped, TermsOffered
    <3> QED
      BY <3>1, <3>2 DEF ToSubscribe
  <2>2. CASE ReviewReads
    <3>1. PICK i \in Subjects, op \in {"approve", "reject"} : Admit([op |-> op, id |-> i])
      BY <2>2 DEF ReviewReads
    <3>2. i \in DOMAIN book
      BY <3>1 DEF Subjects
    <3> QED
      BY <3>1, <3>2 DEF ToReview
  <2> QED
    BY <2>1, <2>2
<1>2. BookTyped'
  BY <1>1, RequestAdmitted
<1>3. UNCHANGED <<book, sweep, stops, today>>
  BY <1>1 DEF Admit
<1>4. today <= today'
  BY <1>3 DEF BookTyped
<1> QED
  BY <1>2, <1>3, <1>4, NoRowMoves DEF OutsideStep

LEMMA SubscribeOutside ==
  ASSUME InputsAreFigures, BookTyped, Subscribe PROVE OutsideStep
<1>1. PICK q \in requests : Subscribe!(q)
  BY DEF Subscribe
<1> DEFINE row == [status |-> "pending", cashOut |-> "not_requested", terms |-> q.terms,
                   principal |-> q.amount, funded |-> 0, fundedAt |-> Never,
                   returnPaid |-> 0, capitalPaid |-> 0, payments |-> {},
                   raised |-> [return |-> 0, capital |-> 0]]
<1>2. row \in Subscription /\ NothingCounted(row)
  <2>1. q.op = "subscribe" /\ (ToSubscribe(q) \/ ToReview(q))
    BY <1>1 DEF BookTyped
  <2>2. q.amount \in Amounts /\ q.terms \in TermsOffered
    BY <2>1 DEF ToSubscribe, ToReview
  <2> QED
    BY <2>2 DEF Subscription, NothingCounted
<1>3. Served(q) /\ book' = Append(book, row)
  BY <1>1
<1> HIDE DEF row
<1>4. /\ book' \in Seq(Subscription) /\ DOMAIN book \subseteq DOMAIN book'
      /\ \A j \in DOMAIN book : j \in DOMAIN book' /\ CountsKept(j)
      /\ \A j \in DOMAIN book' : j \notin DOMAIN book => NothingCounted(book'[j])
  BY <1>2, <1>3, NewRow
<1>5. BookTyped' /\ UNCHANGED <<offer, sweep, stops, today>>
  BY <1>3, <1>4, RequestServed
<1>6. today <= today'
  BY <1>5 DEF BookTyped
<1> QED
  BY <1>4, <1>5, <1>6 DEF OutsideStep

(* A handler that writes one row, and leaves the requests alone.           *)
LEMMA OneRowOutside ==
  ASSUME BookTyped, NEW i \in DOMAIN book, NEW row \in Subscription, book' = [book EXCEPT ![i] = row],
         row.terms = book[i].terms, row.principal = book[i].principal, row.raised = book[i].raised,
         row.returnPaid = book[i].returnPaid, row.capitalPaid = book[i].capitalPaid,
         book[i].funded <= row.funded, book[i].fundedAt \in {Never, row.fundedAt},
         UNCHANGED <<offer, requests, sweep, stops, today>>
  PROVE  OutsideStep
<1>1. /\ \A j \in DOMAIN book : j \in DOMAIN book' /\ CountsKept(j)
      /\ \A j \in DOMAIN book' : j \notin DOMAIN book => NothingCounted(book'[j])
      /\ book' \in Seq(Subscription) /\ DOMAIN book' = DOMAIN book
  BY OneRowMoves
<1>2. BookTyped'
  BY <1>1 DEF BookTyped, ToSubscribe, ToReview
<1>3. today <= today'
  BY DEF BookTyped
<1> QED
  BY <1>1, <1>2, <1>3 DEF OutsideStep

LEMMA ApprovePaymentOutside ==
  ASSUME InputsAreFigures, BookTyped, ApprovePayment PROVE OutsideStep
<1>1. PICK i \in Subjects, p \in Payments : ApprovePayment!(i, p)
  BY DEF ApprovePayment
<1> DEFINE paid == [status |-> "completed", amount |-> p.amount, day |-> p.day]
           row == [book[i] EXCEPT !.payments = {paid}]
<1>2. i \in DOMAIN book /\ paid \in CompletedPayment
  BY <1>1 DEF Subjects, InputsAreFigures, CompletedPayment
<1>3. book[i] \in Subscription
  BY <1>2, RowsAre
<1>4. book' = [book EXCEPT ![i] = row]
  BY <1>1, <1>2
<1> HIDE DEF paid
<1>5. /\ row \in Subscription /\ row.terms = book[i].terms /\ row.principal = book[i].principal
      /\ row.raised = book[i].raised /\ row.returnPaid = book[i].returnPaid
      /\ row.capitalPaid = book[i].capitalPaid
      /\ book[i].funded <= row.funded /\ book[i].fundedAt = row.fundedAt
  BY <1>2, <1>3 DEF Subscription
<1> HIDE DEF row
<1> QED
  BY <1>1, <1>2, <1>4, <1>5, OneRowOutside

LEMMA SyncFundingOutside ==
  ASSUME InputsAreFigures, BookTyped, SyncFunding PROVE OutsideStep
<1>1. PICK i \in Subjects : SyncFunding!(i)
  BY DEF SyncFunding
<1>2. i \in DOMAIN book /\ RecordFunding(i) = book[i] /\ book[i] \in Subscription
  BY <1>1, RowsAre, FundingChangesNothing DEF Subjects
<1>3. book' = [book EXCEPT ![i] = book[i]]
  BY <1>1, <1>2
<1>4. book[i].funded <= book[i].funded
  BY <1>2 DEF Subscription
<1> QED
  BY <1>1, <1>2, <1>3, <1>4, OneRowOutside

LEMMA EditInvestmentOutside ==
  ASSUME InputsAreFigures, BookTyped, EditInvestment PROVE OutsideStep
<1>1. PICK i \in Subjects, amount \in Amounts : EditInvestment!(i, amount)
  BY DEF EditInvestment
<1> DEFINE row == [book[i] EXCEPT !.funded = amount, !.status = "active",
                                  !.fundedAt = IF @ = Never THEN today ELSE @]
<1>2. i \in DOMAIN book /\ amount \in Nat /\ amount > book[i].funded /\ today \in Nat
  BY <1>1 DEF Subjects, InputsAreFigures, BookTyped
<1>3. book[i] \in Subscription
  BY <1>2, RowsAre
<1>4. book' = [book EXCEPT ![i] = row]
  BY <1>1, <1>2
<1>5. /\ row \in Subscription /\ row.terms = book[i].terms /\ row.principal = book[i].principal
      /\ row.raised = book[i].raised /\ row.returnPaid = book[i].returnPaid
      /\ row.capitalPaid = book[i].capitalPaid
      /\ book[i].funded <= row.funded /\ book[i].fundedAt \in {Never, row.fundedAt}
  <2> DEFINE since == IF book[i].fundedAt = Never THEN today ELSE book[i].fundedAt
  <2>1. since \in Nat \union {Never} /\ book[i].fundedAt \in {Never, since}
    BY <1>2, <1>3 DEF Subscription
  <2>2. row = [book[i] EXCEPT !.funded = amount, !.status = "active", !.fundedAt = since]
    BY <1>3 DEF Subscription
  <2> HIDE DEF since, row
  <2>3. /\ row.fundedAt = since /\ row.funded = amount /\ row.terms = book[i].terms
        /\ row.principal = book[i].principal /\ row.raised = book[i].raised
        /\ row.returnPaid = book[i].returnPaid /\ row.capitalPaid = book[i].capitalPaid
    BY <1>3, <2>2 DEF Subscription
  <2>4. row \in Subscription
    BY <1>2, <1>3, <2>1, <2>2 DEF Subscription
  <2>5. book[i].funded <= amount
    BY <1>2, <1>3 DEF Subscription
  <2> QED
    BY <2>1, <2>3, <2>4, <2>5
<1> HIDE DEF row
<1> QED
  BY <1>1, <1>2, <1>4, <1>5, OneRowOutside

LEMMA StatusOutside ==
  ASSUME InputsAreFigures, BookTyped, ActivateInvestment \/ RequestCashOut PROVE OutsideStep
<1>1. PICK i, row :
        /\ i \in Subjects
        /\ book' = [book EXCEPT ![i] = row]
        /\ \/ row = [book[i] EXCEPT !.status = "active"]
           \/ row = [book[i] EXCEPT !.cashOut = "requested"]
        /\ UNCHANGED <<offer, requests, sweep, stops, today>>
  <2>1. CASE ActivateInvestment
    <3>1. PICK i \in Subjects : ActivateInvestment!(i)
      BY <2>1 DEF ActivateInvestment
    <3>2. book' = [book EXCEPT ![i] = [book[i] EXCEPT !.status = "active"]]
      BY <3>1
    <3> QED
      BY <3>1, <3>2
  <2>2. CASE RequestCashOut
    <3>1. PICK i \in Subjects : RequestCashOut!(i)
      BY <2>2 DEF RequestCashOut
    <3>2. book' = [book EXCEPT ![i] = [book[i] EXCEPT !.cashOut = "requested"]]
      BY <3>1
    <3> QED
      BY <3>1, <3>2
  <2> QED
    BY <2>1, <2>2
<1>2. i \in DOMAIN book
  BY <1>1 DEF Subjects
<1>3. book[i] \in Subscription
  BY <1>2, RowsAre
<1>5. /\ row \in Subscription /\ row.terms = book[i].terms /\ row.principal = book[i].principal
      /\ row.raised = book[i].raised /\ row.returnPaid = book[i].returnPaid
      /\ row.capitalPaid = book[i].capitalPaid
      /\ book[i].funded <= row.funded /\ book[i].fundedAt = row.fundedAt
  BY <1>1, <1>3 DEF Subscription
<1> QED
  BY <1>1, <1>2, <1>5, OneRowOutside

LEMMA ReviewOutside ==
  ASSUME InputsAreFigures, BookTyped, ApproveCashOut \/ RejectCashOut PROVE OutsideStep
<1>1. PICK q, row :
        /\ q \in requests /\ Served(q) /\ q.op \in {"approve", "reject"}
        /\ book' = [book EXCEPT ![q.id] = row]
        /\ \/ row = [book[q.id] EXCEPT !.cashOut = "paid", !.status = "completed"]
           \/ row = [book[q.id] EXCEPT !.cashOut = "rejected"]
  <2>1. CASE ApproveCashOut
    <3>1. PICK q \in requests : ApproveCashOut!(q)
      BY <2>1 DEF ApproveCashOut
    <3>2. book' = [book EXCEPT ![q.id] = [book[q.id] EXCEPT !.cashOut = "paid", !.status = "completed"]]
      BY <3>1
    <3> QED
      BY <3>1, <3>2
  <2>2. CASE RejectCashOut
    <3>1. PICK q \in requests : RejectCashOut!(q)
      BY <2>2 DEF RejectCashOut
    <3>2. book' = [book EXCEPT ![q.id] = [book[q.id] EXCEPT !.cashOut = "rejected"]]
      BY <3>1
    <3> QED
      BY <3>1, <3>2
  <2> QED
    BY <2>1, <2>2
<1>2. q.id \in DOMAIN book
  BY <1>1 DEF BookTyped, ToSubscribe, ToReview
<1>3. book[q.id] \in Subscription
  BY <1>2, RowsAre
<1>4. /\ row \in Subscription /\ row.terms = book[q.id].terms /\ row.principal = book[q.id].principal
      /\ row.raised = book[q.id].raised /\ row.returnPaid = book[q.id].returnPaid
      /\ row.capitalPaid = book[q.id].capitalPaid
      /\ book[q.id].funded <= row.funded /\ book[q.id].fundedAt = row.fundedAt
  <2> DEFINE old == book[q.id]
  <2>1. \/ row = [old EXCEPT !.cashOut = "paid", !.status = "completed"]
        \/ row = [old EXCEPT !.cashOut = "rejected"]
    BY <1>1
  <2>2. old \in Subscription
    BY <1>3
  <2> HIDE DEF old
  <2>3. /\ row \in Subscription /\ row.terms = old.terms /\ row.principal = old.principal
        /\ row.raised = old.raised /\ row.returnPaid = old.returnPaid
        /\ row.capitalPaid = old.capitalPaid
        /\ old.funded <= row.funded /\ old.fundedAt = row.fundedAt
    <3>1. CASE row = [old EXCEPT !.cashOut = "paid", !.status = "completed"]
      <4>1. row \in Subscription
        BY <2>2, <3>1 DEF Subscription
      <4> QED
        BY <2>2, <3>1, <4>1 DEF Subscription
    <3>2. CASE row = [old EXCEPT !.cashOut = "rejected"]
      BY <2>2, <3>2 DEF Subscription
    <3> QED
      BY <2>1, <3>1, <3>2
  <2> QED
    BY <2>3 DEF old
<1>5. /\ \A j \in DOMAIN book : j \in DOMAIN book' /\ CountsKept(j)
      /\ \A j \in DOMAIN book' : j \notin DOMAIN book => NothingCounted(book'[j])
      /\ book' \in Seq(Subscription) /\ DOMAIN book' = DOMAIN book
  BY <1>1, <1>2, <1>4, OneRowMoves
<1>6. BookTyped' /\ UNCHANGED <<offer, sweep, stops, today>>
  BY <1>1, <1>5, RequestServed
<1>7. today <= today'
  BY <1>6 DEF BookTyped
<1> QED
  BY <1>5, <1>6, <1>7 DEF OutsideStep

LEMMA ClockOutside ==
  ASSUME InputsAreFigures, BookTyped, SweepStarts \/ Stop \/ NextDay
  PROVE  OutsideStep
<1>1. CASE SweepStarts
  <2>1. /\ sweep = Idle
        /\ sweep' = [at |-> "look", asAt |-> today, queue |-> DueInvestments]
        /\ UNCHANGED <<offer, book, requests, stops, today>>
    BY <1>1 DEF SweepStarts
  <2>2. DueInvestments \subseteq DOMAIN book
    BY DEF DueInvestments
  <2>3. BookTyped' /\ today <= today'
    BY <2>1 DEF BookTyped, ToSubscribe, ToReview
  <2> QED
    BY <2>1, <2>2, <2>3, NoRowMoves DEF OutsideStep
<1>2. CASE Stop
  <2>1. stops' = stops + 1 /\ sweep' = Idle /\ requests' = {} /\ UNCHANGED <<offer, book, today>>
    BY <1>2 DEF Stop
  <2>2. IsFiniteSet({}) /\ Cardinality({}) = 0 /\ MaxRequests \in Nat
    BY FS_EmptySet DEF InputsAreFigures
  <2>3. BookTyped' /\ today <= today'
    BY <2>1, <2>2 DEF BookTyped
  <2> QED
    BY <2>1, <2>3, NoRowMoves DEF OutsideStep
<1>3. CASE NextDay
  <2>1. PICK e \in Days : e > today /\ today' = e
    BY <1>3 DEF NextDay
  <2>2. UNCHANGED <<offer, book, requests, sweep, stops>>
    BY <1>3 DEF NextDay
  <2>3. today' \in Nat /\ today <= today'
    <3>1. today \in Nat
      BY DEF BookTyped
    <3>2. e \in Nat
      BY DEF InputsAreFigures
    <3> QED
      BY <2>1, <3>1, <3>2
  <2>4. BookTyped'
    BY <2>2, <2>3 DEF BookTyped, ToSubscribe, ToReview
  <2> QED
    BY <2>2, <2>3, <2>4, NoRowMoves DEF OutsideStep
<1> QED
  BY <1>1, <1>2, <1>3

LEMMA StepsAre ==
  ASSUME InputsAreFigures, BookTyped, [InvestmentNext]_investmentVars
  PROVE  OutsideStep \/ SweepStep
<1>1. CASE InvestmentNext
  BY <1>1, EditPlanOutside, ReadsOutside, SubscribeOutside, ApprovePaymentOutside, SyncFundingOutside,
     EditInvestmentOutside, StatusOutside, ReviewOutside, ClockOutside DEF InvestmentNext
<1>2. CASE UNCHANGED investmentVars
  <2>1. UNCHANGED <<offer, book, requests, sweep, stops, today>>
    BY <1>2 DEF investmentVars
  <2>2. BookTyped' /\ today <= today'
    BY <2>1 DEF BookTyped, ToSubscribe, ToReview
  <2> QED
    BY <2>1, <2>2, NoRowMoves DEF OutsideStep
<1> QED
  BY <1>1, <1>2

-----------------------------------------------------------------------------
(* What the run's own steps write: one row at most, in one field of it.    *)
ThisMoves(row) ==
  /\ This \in DOMAIN book
  /\ row \in Subscription
  /\ book' = [book EXCEPT ![This] = row]
  /\ DOMAIN book' = DOMAIN book
  /\ book'[This] = row
  /\ \A j \in DOMAIN book : j # This => book'[j] = book[j]
  /\ UNCHANGED <<offer, requests, stops, today>>

GoesOn(step) ==
  /\ sweep' = [sweep EXCEPT !.at = step]
  /\ sweep'.at = step /\ sweep'.asAt = sweep.asAt /\ sweep'.queue = sweep.queue
  /\ sweep'.position = sweep.position /\ sweep'.read = sweep.read
  /\ This' = This

LEMMA GoingOn ==
  ASSUME SweepTyped, sweep.at \in {"raise", "count", "capital", "countCapital", "settle"},
         NEW step, GoesTo(step)
  PROVE  GoesOn(step)
<1>1. sweep' = [sweep EXCEPT !.at = step]
  BY DEF GoesTo
<1>2. sweep = [at |-> sweep.at, asAt |-> sweep.asAt, queue |-> sweep.queue,
               position |-> sweep.position, read |-> sweep.read]
  BY DEF SweepTyped, Idle
<1>3. /\ sweep'.at = step /\ sweep'.asAt = sweep.asAt /\ sweep'.queue = sweep.queue
      /\ sweep'.position = sweep.position /\ sweep'.read = sweep.read
  BY <1>1, <1>2
<1>4. This' = This
  BY <1>3 DEF This
<1> QED
  BY <1>1, <1>3, <1>4 DEF GoesOn

LEMMA ThisRowMoves ==
  ASSUME BookTyped, SweepTyped, sweep # Idle, sweep.queue # {},
         NEW row \in Subscription, book' = [book EXCEPT ![This] = row],
         UNCHANGED <<offer, requests, stops, today>>
  PROVE  ThisMoves(row) /\ BookTyped'
<1>1. This \in DOMAIN book /\ book \in Seq(Subscription)
  BY ThisIsQueued DEF BookTyped
<1> DEFINE i == This
<1> HIDE DEF i
<1>2. i \in DOMAIN book /\ book' = [book EXCEPT ![i] = row]
  BY <1>1 DEF i
<1>3. /\ book' \in Seq(Subscription) /\ DOMAIN book' = DOMAIN book /\ book'[i] = row
      /\ \A j \in DOMAIN book : j # i => book'[j] = book[j]
  BY <1>1, <1>2, RowWritten
<1>4. BookTyped'
  BY <1>3 DEF BookTyped, ToSubscribe, ToReview
<1> QED
  BY <1>2, <1>3, <1>4 DEF ThisMoves, i

AtWork == sweep.at \in {"raise", "count", "capital", "countCapital", "settle"}

LEMMA WorkHasRow ==
  ASSUME SweepTyped, AtWork \/ (sweep.at = "look" /\ sweep.queue # {})
  PROVE  sweep # Idle /\ sweep.queue # {}
BY DEF SweepTyped, AtWork, Idle

LEMMA LooksAt ==
  ASSUME BookTyped, SweepTyped, SweepLooks
  PROVE  /\ sweep.at = "look" /\ sweep.queue # {}
         /\ ThisMoves(book[This]) /\ BookTyped'
         /\ LET position == PositionOf(book[This], sweep.asAt)
            IN  sweep' = [at |-> IF position.releasable > 0 THEN "raise" ELSE "capital",
                          asAt |-> sweep.asAt, queue |-> sweep.queue, position |-> position,
                          read |-> [returnPaid |-> book[This].returnPaid,
                                    funded |-> book[This].funded]]
         /\ This' = This
<1>1. sweep.at = "look" /\ sweep.queue # {} /\ UNCHANGED <<offer, requests, stops, today>>
  BY DEF SweepLooks, Running, SweepOnly
<1>2. This \in DOMAIN book /\ sweep # Idle
  BY <1>1, WorkHasRow, ThisIsQueued
<1>3. book[This] \in Subscription /\ RecordFunding(This) = book[This]
  BY <1>2, RowsAre, FundingChangesNothing
<1>4. book' = [book EXCEPT ![This] = book[This]]
  BY <1>3 DEF SweepLooks
<1>5. ThisMoves(book[This]) /\ BookTyped'
  BY <1>1, <1>2, <1>3, <1>4, ThisRowMoves
<1>6. book'[This] = book[This]
  BY <1>5 DEF ThisMoves
<1>7. LET position == PositionOf(book[This], sweep.asAt)
      IN  sweep' = [at |-> IF position.releasable > 0 THEN "raise" ELSE "capital",
                    asAt |-> sweep.asAt, queue |-> sweep.queue, position |-> position,
                    read |-> [returnPaid |-> book[This].returnPaid,
                              funded |-> book[This].funded]]
  BY <1>6 DEF SweepLooks
<1>8. This' = This
  <2>1. sweep'.queue = sweep.queue
    BY <1>7
  <2> QED
    BY <2>1 DEF This
<1> QED
  BY <1>1, <1>5, <1>7, <1>8

LEMMA RaisesThis ==
  ASSUME BookTyped, SweepTyped, SweepRaises
  PROVE  /\ sweep.at = "raise" /\ GoesOn("count") /\ BookTyped'
         /\ ThisMoves([book[This] EXCEPT !.raised.return = @ + sweep.position.releasable])
<1>1. sweep.at = "raise" /\ GoesTo("count") /\ UNCHANGED <<offer, requests, stops, today>>
  BY DEF SweepRaises, Running, SweepOnly
<1>2. This \in DOMAIN book /\ sweep # Idle /\ sweep.queue # {}
  BY <1>1, WorkHasRow, ThisIsQueued DEF AtWork
<1>3. GoesOn("count") /\ sweep.position.releasable \in Nat
  <2>1. GoesOn("count")
    BY <1>1, GoingOn
  <2> QED
    BY <1>1, <2>1 DEF SweepTyped, PositionTyped, Idle
<1> DEFINE row == [book[This] EXCEPT !.raised.return = @ + sweep.position.releasable]
<1>4. row \in Subscription
  <2>1. book[This] \in Subscription
    BY <1>2, RowsAre
  <2> QED
    BY <1>3, <2>1 DEF Subscription
<1>5. book' = [book EXCEPT ![This] = row]
  BY <1>2 DEF SweepRaises
<1> HIDE DEF row
<1>6. ThisMoves(row) /\ BookTyped'
  BY <1>1, <1>2, <1>4, <1>5, ThisRowMoves
<1> QED
  BY <1>1, <1>3, <1>6 DEF row

LEMMA CountsThis ==
  ASSUME BookTyped, SweepTyped, SweepCounts
  PROVE  /\ sweep.at = "count" /\ GoesOn("capital") /\ BookTyped'
         /\ ThisMoves([book[This] EXCEPT
                         !.returnPaid = sweep.read.returnPaid + sweep.position.releasable])
<1>1. sweep.at = "count" /\ GoesTo("capital") /\ UNCHANGED <<offer, requests, stops, today>>
  BY DEF SweepCounts, Running, SweepOnly
<1>2. This \in DOMAIN book /\ sweep # Idle /\ sweep.queue # {}
  BY <1>1, WorkHasRow, ThisIsQueued DEF AtWork
<1>3. GoesOn("capital") /\ sweep.position.releasable \in Nat /\ sweep.read.returnPaid \in Nat
  <2>1. GoesOn("capital")
    BY <1>1, GoingOn
  <2> QED
    BY <1>1, <2>1 DEF SweepTyped, PositionTyped, Idle
<1> DEFINE row == [book[This] EXCEPT !.returnPaid = sweep.read.returnPaid + sweep.position.releasable]
<1>4. row \in Subscription
  <2>1. book[This] \in Subscription
    BY <1>2, RowsAre
  <2> QED
    BY <1>3, <2>1 DEF Subscription
<1>5. book' = [book EXCEPT ![This] = row]
  BY <1>2 DEF SweepCounts, Counted
<1> HIDE DEF row
<1>6. ThisMoves(row) /\ BookTyped'
  BY <1>1, <1>2, <1>4, <1>5, ThisRowMoves
<1> QED
  BY <1>1, <1>3, <1>6 DEF row

LEMMA ReturnsThis ==
  ASSUME BookTyped, SweepTyped, SweepReturnsCapital
  PROVE  /\ sweep.at = "capital" /\ BookTyped'
         /\ \/ /\ sweep.position.capital > 0 /\ GoesOn("countCapital")
               /\ ThisMoves([book[This] EXCEPT !.raised.capital = @ + sweep.position.capital])
            \/ GoesOn("settle") /\ ThisMoves(book[This])
<1>1. sweep.at = "capital" /\ UNCHANGED <<offer, requests, stops, today>>
  BY DEF SweepReturnsCapital, Running, SweepOnly
<1>2. This \in DOMAIN book /\ sweep # Idle /\ sweep.queue # {}
  BY <1>1, WorkHasRow, ThisIsQueued DEF AtWork
<1>3. sweep.position.capital \in Nat
  BY <1>1 DEF SweepTyped, PositionTyped, Idle
<1>4. book[This] \in Subscription
  BY <1>2, RowsAre
<1>5. CASE sweep.position.matured /\ sweep.position.capital > 0
  <2> DEFINE row == [book[This] EXCEPT !.raised.capital = @ + sweep.position.capital]
  <2>1. row \in Subscription
    BY <1>3, <1>4 DEF Subscription
  <2>2. book' = [book EXCEPT ![This] = row] /\ GoesTo("countCapital")
    BY <1>2, <1>5 DEF SweepReturnsCapital
  <2> HIDE DEF row
  <2>3. ThisMoves(row) /\ BookTyped'
    BY <1>1, <1>2, <2>1, <2>2, ThisRowMoves
  <2>4. GoesOn("countCapital")
    BY <1>1, <2>2, GoingOn
  <2> QED
    BY <1>1, <1>5, <2>3, <2>4 DEF row
<1>6. CASE ~(sweep.position.matured /\ sweep.position.capital > 0)
  <2>1. UNCHANGED book /\ GoesTo("settle")
    BY <1>6 DEF SweepReturnsCapital
  <2>2. book' = [book EXCEPT ![This] = book[This]]
    BY <2>1 DEF BookTyped
  <2>3. ThisMoves(book[This]) /\ BookTyped'
    BY <1>1, <1>2, <1>4, <2>2, ThisRowMoves
  <2>4. GoesOn("settle")
    BY <1>1, <2>1, GoingOn
  <2> QED
    BY <1>1, <2>3, <2>4
<1> QED
  BY <1>5, <1>6

LEMMA CountsCapitalOfThis ==
  ASSUME BookTyped, SweepTyped, SweepCountsCapital
  PROVE  /\ sweep.at = "countCapital" /\ GoesOn("settle") /\ BookTyped'
         /\ ThisMoves([book[This] EXCEPT !.capitalPaid = sweep.read.funded])
<1>1. sweep.at = "countCapital" /\ GoesTo("settle") /\ UNCHANGED <<offer, requests, stops, today>>
  BY DEF SweepCountsCapital, Running, SweepOnly
<1>2. This \in DOMAIN book /\ sweep # Idle /\ sweep.queue # {}
  BY <1>1, WorkHasRow, ThisIsQueued DEF AtWork
<1>3. GoesOn("settle") /\ sweep.read.funded \in Nat
  <2>1. GoesOn("settle")
    BY <1>1, GoingOn
  <2> QED
    BY <1>1, <2>1 DEF SweepTyped, PositionTyped, Idle
<1> DEFINE row == [book[This] EXCEPT !.capitalPaid = sweep.read.funded]
<1>4. row \in Subscription
  <2>1. book[This] \in Subscription
    BY <1>2, RowsAre
  <2> QED
    BY <1>3, <2>1 DEF Subscription
<1>5. book' = [book EXCEPT ![This] = row]
  BY <1>2 DEF SweepCountsCapital
<1> HIDE DEF row
<1>6. ThisMoves(row) /\ BookTyped'
  BY <1>1, <1>2, <1>4, <1>5, ThisRowMoves
<1> QED
  BY <1>1, <1>3, <1>6 DEF row

LEMMA SettlesThis ==
  ASSUME BookTyped, SweepTyped, SweepSettles
  PROVE  /\ sweep.at = "settle" /\ BookTyped'
         /\ sweep' = [at |-> "look", asAt |-> sweep.asAt, queue |-> sweep.queue \ {This}]
         /\ LET row == book[This]
            IN  \/ ThisMoves(row)
                \/ /\ Settled(PositionOf(row, sweep.asAt))
                   /\ ThisMoves([row EXCEPT !.status = "completed"])
<1>1. /\ sweep.at = "settle" /\ UNCHANGED <<offer, requests, stops, today>>
      /\ sweep' = [at |-> "look", asAt |-> sweep.asAt, queue |-> sweep.queue \ {This}]
  BY DEF SweepSettles, Running, SweepOnly
<1>2. This \in DOMAIN book /\ sweep # Idle /\ sweep.queue # {}
  BY <1>1, WorkHasRow, ThisIsQueued DEF AtWork
<1>3. book[This] \in Subscription
  BY <1>2, RowsAre
<1> DEFINE settled == Settled(PositionOf(book[This], sweep.asAt))
           became == IF settled THEN "completed" ELSE book[This].status
<1>4. book' = [book EXCEPT ![This] = [book[This] EXCEPT !.status = became]]
  BY <1>2 DEF SweepSettles
<1>5. CASE settled
  <2> DEFINE row == [book[This] EXCEPT !.status = "completed"]
  <2>1. row \in Subscription
    BY <1>3 DEF Subscription
  <2>2. book' = [book EXCEPT ![This] = row]
    BY <1>4, <1>5
  <2> HIDE DEF row
  <2>3. ThisMoves(row) /\ BookTyped'
    BY <1>1, <1>2, <2>1, <2>2, ThisRowMoves
  <2> QED
    BY <1>1, <1>5, <2>3 DEF row
<1>6. CASE ~settled
  <2>1. [book[This] EXCEPT !.status = book[This].status] = book[This]
    BY <1>3 DEF Subscription
  <2>2. book' = [book EXCEPT ![This] = book[This]]
    BY <1>4, <1>6, <2>1
  <2>3. ThisMoves(book[This]) /\ BookTyped'
    BY <1>1, <1>2, <1>3, <2>2, ThisRowMoves
  <2> QED
    BY <1>1, <2>3
<1> QED
  BY <1>5, <1>6

LEMMA EndsIdle ==
  ASSUME BookTyped, SweepEnds
  PROVE  sweep' = Idle /\ BookTyped' /\ UNCHANGED <<offer, book, requests, stops, today>>
BY DEF SweepEnds, SweepOnly, BookTyped, ToSubscribe, ToReview

-----------------------------------------------------------------------------
(* What the counters remember of the payouts raised: all but one, the one  *)
(* raised and not yet counted; and after every stop, one more may be lost. *)
RaisingFor(i) == IF sweep.at = "count" /\ i = This THEN sweep.position.releasable ELSE 0

ReturningTo(i) == IF sweep.at = "countCapital" /\ i = This THEN sweep.position.capital ELSE 0

RowCounts(i) ==
  LET row == book[i]
  IN  /\ row.returnPaid + RaisingFor(i) <= row.raised.return
      /\ row.capitalPaid + ReturningTo(i) <= row.funded
      /\ row.capitalPaid + ReturningTo(i) <= row.raised.capital
      /\ row.raised.capital <= row.capitalPaid + ReturningTo(i) + stops * row.funded

(* What the run read of the row it is at still holds of it, or of a part.  *)
RunCounts ==
  AtWork =>
    LET row == book[This]
    IN  /\ sweep.read.funded <= row.funded
        /\ sweep.at \in {"raise", "count"} => sweep.read.returnPaid = row.returnPaid
        /\ sweep.at \in {"raise", "count", "capital", "countCapital"} =>
             sweep.position.capital =
               IF sweep.read.funded >= row.capitalPaid THEN sweep.read.funded - row.capitalPaid ELSE 0
        /\ sweep.at = "countCapital" => sweep.position.capital > 0

CountersInv ==
  /\ BookTyped
  /\ SweepTyped
  /\ \A i \in DOMAIN book : RowCounts(i)
  /\ RunCounts

LEMMA NothingPending ==
  ASSUME sweep.at \notin {"count", "countCapital"}
  PROVE  \A i : RaisingFor(i) = 0 /\ ReturningTo(i) = 0
BY DEF RaisingFor, ReturningTo

LEMMA PendingIsWhole ==
  ASSUME SweepTyped
  PROVE  \A i : RaisingFor(i) \in Nat /\ ReturningTo(i) \in Nat
<1>1. CASE sweep.at \in {"count", "countCapital"}
  <2>1. PositionTyped(sweep.position)
    BY <1>1 DEF SweepTyped, Idle
  <2> QED
    BY <2>1 DEF RaisingFor, ReturningTo, PositionTyped
<1>2. CASE sweep.at \notin {"count", "countCapital"}
  BY <1>2, NothingPending
<1> QED
  BY <1>1, <1>2

LEMMA RowFigures ==
  ASSUME BookTyped, NEW i \in DOMAIN book
  PROVE  /\ book[i].funded \in Nat /\ book[i].returnPaid \in Nat /\ book[i].capitalPaid \in Nat
         /\ book[i].raised.return \in Nat /\ book[i].raised.capital \in Nat
         /\ book[i].fundedAt \in Nat \union {Never} /\ book[i].terms \in TermsOffered
         /\ stops \in Nat /\ today \in Nat
BY RowsAre DEF Subscription, BookTyped

LEMMA NextFigures ==
  ASSUME BookTyped', NEW i \in DOMAIN book'
  PROVE  book'[i].funded \in Nat /\ stops' \in Nat
<1>1. book' \in Seq(Subscription) /\ stops' \in Nat
  BY DEF BookTyped, Subscription, TermsOffered, CompletedPayment
<1>2. book'[i] \in Subscription
  BY <1>1
<1> QED
  BY <1>1, <1>2 DEF Subscription

LEMMA IdleRunCounts ==
  ASSUME sweep.at \in {"idle", "look"}
  PROVE  RunCounts
BY DEF RunCounts, AtWork

LEMMA OutsideKeepsRun ==
  ASSUME BookTyped, SweepTyped, OutsideStep
  PROVE  /\ SweepTyped'
         /\ \/ /\ sweep' = sweep /\ stops' = stops /\ This' = This
            \/ /\ sweep'.at = "idle" /\ stops' = stops + 1
            \/ /\ sweep.at = "idle" /\ sweep'.at = "look" /\ stops' = stops
<1>1. DOMAIN book \subseteq DOMAIN book' /\ today \in Nat /\ today' \in Nat /\ today <= today'
  BY DEF OutsideStep, BookTyped
<1>2. CASE sweep' = sweep /\ stops' = stops
  <2>1. SweepTyped'
    <3>1. CASE sweep = Idle
      BY <1>2, <3>1 DEF SweepTyped, Idle
    <3>2. CASE sweep # Idle
      <4>1. sweep.asAt \in Nat /\ sweep.asAt <= today'
        BY <1>1, <3>2 DEF SweepTyped
      <4> QED
        BY <1>1, <1>2, <3>2, <4>1 DEF SweepTyped, PositionTyped
    <3> QED
      BY <3>1, <3>2
  <2> QED
    BY <1>2, <2>1 DEF This
<1>3. CASE sweep' = Idle /\ stops' = stops + 1
  BY <1>3 DEF SweepTyped, Idle
<1>4. CASE /\ sweep = Idle /\ stops' = stops
           /\ sweep' = [at |-> "look", asAt |-> today, queue |-> sweep'.queue]
           /\ sweep'.queue \subseteq DOMAIN book
  <2>1. sweep'.at = "look" /\ sweep'.asAt = today /\ sweep.at = "idle"
    BY <1>4 DEF Idle
  <2>2. SweepTyped'
    BY <1>1, <1>4, <2>1 DEF SweepTyped
  <2> QED
    BY <1>4, <2>1, <2>2
<1> QED
  BY <1>2, <1>3, <1>4 DEF OutsideStep

LEMMA OutsideKeepsCounters ==
  ASSUME CountersInv, OutsideStep PROVE CountersInv'
<1> USE DEF CountersInv
<1>1. BookTyped' /\ SweepTyped'
  BY OutsideKeepsRun DEF OutsideStep
<1>2. /\ \/ /\ sweep' = sweep /\ stops' = stops /\ This' = This
         \/ /\ sweep'.at = "idle" /\ stops' = stops + 1
         \/ /\ sweep.at = "idle" /\ sweep'.at = "look" /\ stops' = stops
  BY OutsideKeepsRun
<1>3. ASSUME NEW i \in DOMAIN book', i \notin DOMAIN book PROVE RowCounts(i)'
  <2>1. NothingCounted(book'[i])
    BY <1>3 DEF OutsideStep
  <2>2. RaisingFor(i)' = 0 /\ ReturningTo(i)' = 0
    <3>1. CASE sweep' = sweep /\ stops' = stops /\ This' = This
      <4>1. CASE sweep.at \in {"count", "countCapital"}
        <5>1. AtWork
          BY <4>1 DEF AtWork
        <5>2. i # This
          BY <1>3, <5>1, WorkHasRow, ThisIsQueued
        <5> QED
          BY <3>1, <5>2 DEF RaisingFor, ReturningTo
      <4>2. CASE sweep.at \notin {"count", "countCapital"}
        BY <3>1, <4>2 DEF RaisingFor, ReturningTo
      <4> QED
        BY <4>1, <4>2
    <3>2. CASE sweep'.at \in {"idle", "look"}
      BY <3>2 DEF RaisingFor, ReturningTo
    <3> QED
      BY <1>2, <3>1, <3>2
  <2>3. stops' \in Nat
    BY <1>1 DEF BookTyped
  <2> DEFINE new == book'[i]
  <2>4. /\ new.funded = 0 /\ new.returnPaid = 0 /\ new.capitalPaid = 0
        /\ new.raised.return = 0 /\ new.raised.capital = 0
    BY <2>1 DEF NothingCounted
  <2>5. stops' * 0 = 0
    <3>1. \A n \in Nat : n * 0 = 0
      OBVIOUS
    <3> QED
      BY <2>3, <3>1
  <2> HIDE DEF new
  <2>6. /\ new.returnPaid + 0 <= new.raised.return
        /\ new.capitalPaid + 0 <= new.funded
        /\ new.capitalPaid + 0 <= new.raised.capital
        /\ new.raised.capital <= new.capitalPaid + 0 + stops' * new.funded
    BY <2>4, <2>5
  <2> QED
    BY <2>2, <2>6 DEF RowCounts, new
<1>4. ASSUME NEW i \in DOMAIN book PROVE RowCounts(i)'
  <2> DEFINE row == book[i]
             new == book'[i]
  <2>1. /\ row.funded \in Nat /\ row.returnPaid \in Nat /\ row.capitalPaid \in Nat
        /\ row.raised.return \in Nat /\ row.raised.capital \in Nat /\ stops \in Nat
    BY RowFigures
  <2>2. i \in DOMAIN book' /\ CountsKept(i)
    BY DEF OutsideStep
  <2>3. new.funded \in Nat /\ stops' \in Nat
    BY <1>1, <2>2, NextFigures
  <2>4. /\ new.returnPaid = row.returnPaid /\ new.capitalPaid = row.capitalPaid
        /\ new.raised = row.raised /\ row.funded <= new.funded
    BY <2>2 DEF CountsKept
  <2> DEFINE a == RaisingFor(i)
             c == ReturningTo(i)
  <2>5. a \in Nat /\ c \in Nat
    BY PendingIsWhole
  <2>6. /\ row.returnPaid + a <= row.raised.return
        /\ row.capitalPaid + c <= row.funded
        /\ row.capitalPaid + c <= row.raised.capital
        /\ row.raised.capital <= row.capitalPaid + c + stops * row.funded
    BY DEF RowCounts
  <2>7. stops * row.funded <= stops * new.funded /\ stops * row.funded \in Nat /\ stops * new.funded \in Nat
    BY <2>1, <2>3, <2>4, ProductsGrow
  <2> HIDE DEF a, c
  <2>8. CASE sweep' = sweep /\ stops' = stops /\ This' = This
    <3>1. RaisingFor(i)' = a /\ ReturningTo(i)' = c
      BY <2>8 DEF RaisingFor, ReturningTo, a, c
    <3>2. row.raised.capital <= row.capitalPaid + c + stops * new.funded
      BY <2>1, <2>5, <2>6, <2>7
    <3>3. row.capitalPaid + c <= new.funded
      BY <2>1, <2>3, <2>4, <2>5, <2>6
    <3> HIDE DEF row, new
    <3>4. /\ new.returnPaid + a <= new.raised.return
          /\ new.capitalPaid + c <= new.funded
          /\ new.capitalPaid + c <= new.raised.capital
          /\ new.raised.capital <= new.capitalPaid + c + stops' * new.funded
      BY <2>4, <2>6, <2>8, <3>2, <3>3
    <3> QED
      BY <3>1, <3>4 DEF RowCounts, new
  <2>9. CASE sweep'.at = "idle" /\ stops' = stops + 1
    <3>1. RaisingFor(i)' = 0 /\ ReturningTo(i)' = 0
      BY <2>9 DEF RaisingFor, ReturningTo
    <3>2. stops' * new.funded = stops * new.funded + new.funded
      BY <2>1, <2>3, <2>9
    <3> HIDE DEF row, new
    <3>3. /\ new.returnPaid + 0 <= new.raised.return
          /\ new.capitalPaid + 0 <= new.funded
          /\ new.capitalPaid + 0 <= new.raised.capital
          /\ new.raised.capital <= new.capitalPaid + 0 + stops' * new.funded
      BY <2>1, <2>3, <2>4, <2>5, <2>6, <2>7, <3>2
    <3> QED
      BY <3>1, <3>3 DEF RowCounts, new
  <2>10. CASE sweep.at = "idle" /\ sweep'.at = "look" /\ stops' = stops
    <3>1. RaisingFor(i)' = 0 /\ ReturningTo(i)' = 0 /\ a = 0 /\ c = 0
      BY <2>10 DEF RaisingFor, ReturningTo, a, c
    <3> HIDE DEF row, new
    <3>2. /\ new.returnPaid + 0 <= new.raised.return
          /\ new.capitalPaid + 0 <= new.funded
          /\ new.capitalPaid + 0 <= new.raised.capital
          /\ new.raised.capital <= new.capitalPaid + 0 + stops' * new.funded
      BY <2>1, <2>3, <2>4, <2>5, <2>6, <2>7, <2>10, <3>1
    <3> QED
      BY <3>1, <3>2 DEF RowCounts, new
  <2> QED
    BY <1>2, <2>8, <2>9, <2>10
<1>5. RunCounts'
  <2>1. CASE sweep' = sweep /\ stops' = stops /\ This' = This
    <3>1. SUFFICES ASSUME AtWork PROVE RunCounts'
      BY <2>1 DEF RunCounts, AtWork
    <3>2. This \in DOMAIN book /\ sweep.read.funded \in Nat
      BY <3>1, WorkHasRow, ThisIsQueued DEF SweepTyped, AtWork, Idle
    <3> DEFINE i == This
    <3> HIDE DEF i
    <3>3. CountsKept(i) /\ i \in DOMAIN book /\ i \in DOMAIN book'
      BY <3>2 DEF OutsideStep, i
    <3>4. book[i].funded \in Nat /\ book'[i].funded \in Nat
      BY <1>1, <3>3, RowFigures, NextFigures
    <3>5. /\ book'[i].returnPaid = book[i].returnPaid /\ book'[i].capitalPaid = book[i].capitalPaid
          /\ book[i].funded <= book'[i].funded
      BY <3>3 DEF CountsKept
    <3>6. /\ sweep.read.funded <= book[i].funded
          /\ sweep.at \in {"raise", "count"} => sweep.read.returnPaid = book[i].returnPaid
          /\ sweep.at \in {"raise", "count", "capital", "countCapital"} =>
               sweep.position.capital =
                 IF sweep.read.funded >= book[i].capitalPaid
                 THEN sweep.read.funded - book[i].capitalPaid ELSE 0
          /\ sweep.at = "countCapital" => sweep.position.capital > 0
      BY <3>1 DEF RunCounts, i
    <3>7. sweep.read.funded <= book'[i].funded
      BY <3>2, <3>4, <3>5, <3>6
    <3>8. This' = i
      BY <2>1 DEF i
    <3> QED
      BY <2>1, <3>5, <3>6, <3>7, <3>8 DEF RunCounts
  <2>2. CASE sweep'.at \in {"idle", "look"}
    BY <2>2 DEF RunCounts, AtWork
  <2> QED
    BY <1>2, <2>1, <2>2
<1> QED
  BY <1>1, <1>3, <1>4, <1>5

-----------------------------------------------------------------------------
LEMMA OthersCount ==
  ASSUME CountersInv, NEW row, ThisMoves(row), NEW j \in DOMAIN book, j # This,
         sweep'.at = "look" \/ This' = This
  PROVE  RowCounts(j)'
<1>1. book'[j] = book[j] /\ stops' = stops
  BY DEF ThisMoves
<1>2. RaisingFor(j) = 0 /\ ReturningTo(j) = 0
  BY DEF RaisingFor, ReturningTo
<1>3. RaisingFor(j)' = 0 /\ ReturningTo(j)' = 0
  BY DEF RaisingFor, ReturningTo
<1>4. RowCounts(j)
  BY DEF CountersInv
<1> QED
  BY <1>1, <1>2, <1>3, <1>4 DEF RowCounts

LEMMA GoesOnTyped ==
  ASSUME SweepTyped, AtWork, NEW step \in {"raise", "count", "capital", "countCapital", "settle"},
         GoesOn(step), DOMAIN book' = DOMAIN book, today' = today
  PROVE  SweepTyped' /\ AtWork'
<1>1. /\ sweep = [at |-> sweep.at, asAt |-> sweep.asAt, queue |-> sweep.queue,
                  position |-> sweep.position, read |-> sweep.read]
      /\ sweep.asAt \in Nat /\ sweep.asAt <= today
      /\ sweep.queue \subseteq DOMAIN book /\ sweep.queue # {}
      /\ PositionTyped(sweep.position)
      /\ sweep.read.returnPaid \in Nat /\ sweep.read.funded \in Nat
  BY DEF SweepTyped, AtWork, Idle
<1>2. sweep' = [at |-> step, asAt |-> sweep.asAt, queue |-> sweep.queue,
                position |-> sweep.position, read |-> sweep.read]
  BY <1>1 DEF GoesOn
<1>3. sweep'.at = step
  BY <1>2
<1> QED
  BY <1>1, <1>2, <1>3 DEF SweepTyped, AtWork, PositionTyped

LEMMA LooksCounts ==
  ASSUME InputsAreFigures, CountersInv, SweepLooks PROVE CountersInv'
<1> DEFINE i == This
           row == book[i]
           position == PositionOf(row, sweep.asAt)
<1>1. /\ sweep.at = "look" /\ sweep.queue # {} /\ ThisMoves(row) /\ BookTyped' /\ This' = i
      /\ sweep' = [at |-> IF position.releasable > 0 THEN "raise" ELSE "capital",
                   asAt |-> sweep.asAt, queue |-> sweep.queue, position |-> position,
                   read |-> [returnPaid |-> row.returnPaid, funded |-> row.funded]]
  BY LooksAt DEF CountersInv
<1>2. i \in DOMAIN book /\ sweep.queue \subseteq DOMAIN book /\ sweep.asAt \in Nat /\ sweep.asAt <= today
  BY <1>1, WorkHasRow, ThisIsQueued DEF CountersInv, SweepTyped, Idle
<1>3. /\ row \in Subscription /\ row.returnPaid \in Nat /\ row.funded \in Nat /\ row.capitalPaid \in Nat
  BY <1>2, RowsAre, RowFigures DEF CountersInv
<1>4. /\ PositionTyped(position)
      /\ position.capital = IF row.funded >= row.capitalPaid THEN row.funded - row.capitalPaid ELSE 0
  <2> HIDE DEF row
  <2> QED
    BY <1>2, <1>3, PositionIsTyped
<1>5. sweep'.at \in {"raise", "capital"}
  BY <1>1
<1>6. book'[i] = row /\ DOMAIN book' = DOMAIN book /\ UNCHANGED <<stops, today>>
  BY <1>1 DEF ThisMoves
<1> HIDE DEF position, row, i
<1>7. SweepTyped'
  BY <1>1, <1>2, <1>3, <1>4, <1>5, <1>6 DEF SweepTyped, PositionTyped
<1>8. ASSUME NEW j \in DOMAIN book' PROVE RowCounts(j)'
  <2>1. j \in DOMAIN book /\ book'[j] = book[j]
    BY <1>1, <1>6, <1>8 DEF ThisMoves, row, i
  <2>2. RowCounts(j) /\ RaisingFor(j) = 0 /\ ReturningTo(j) = 0
    BY <1>1, <2>1, NothingPending DEF CountersInv
  <2>3. RaisingFor(j)' = 0 /\ ReturningTo(j)' = 0
    BY <1>5 DEF RaisingFor, ReturningTo
  <2> QED
    BY <1>6, <2>1, <2>2, <2>3 DEF RowCounts
<1>9. RunCounts'
  <2>1. /\ sweep'.read.funded = row.funded /\ sweep'.read.returnPaid = row.returnPaid
        /\ sweep'.position = position
    BY <1>1
  <2>2. This' = i /\ book'[i] = row
    BY <1>1, <1>6
  <2>3. row.funded <= row.funded
    BY <1>3
  <2> QED
    BY <1>4, <1>5, <2>1, <2>2, <2>3 DEF RunCounts
<1> QED
  BY <1>1, <1>7, <1>8, <1>9 DEF CountersInv

LEMMA RaisesCounts == ASSUME CountersInv, SweepRaises PROVE CountersInv'
<1>0. PICK i : i = This
  OBVIOUS
<1> USE <1>0
<1> DEFINE row == book[i]
           x == sweep.position.releasable
           new == [row EXCEPT !.raised.return = @ + x]
<1>1. sweep.at = "raise" /\ GoesOn("count") /\ BookTyped' /\ ThisMoves(new)
  BY RaisesThis DEF CountersInv
<1>2. AtWork /\ i \in DOMAIN book /\ book'[i] = new /\ DOMAIN book' = DOMAIN book /\ UNCHANGED <<stops, today>>
  BY <1>1 DEF ThisMoves, AtWork
<1>3. SweepTyped' /\ x \in Nat
  BY <1>1, <1>2, GoesOnTyped DEF CountersInv, SweepTyped, PositionTyped, Idle
<1>4. /\ row.returnPaid \in Nat /\ row.funded \in Nat /\ row.capitalPaid \in Nat
      /\ row.raised.return \in Nat /\ row.raised.capital \in Nat
  BY <1>2, RowFigures DEF CountersInv
<1>5. /\ new.returnPaid = row.returnPaid /\ new.funded = row.funded /\ new.capitalPaid = row.capitalPaid
      /\ new.raised.return = row.raised.return + x /\ new.raised.capital = row.raised.capital
  <2>1. row \in Subscription
    BY <1>2, RowsAre DEF CountersInv
  <2> HIDE DEF row, x
  <2> QED
    BY <2>1 DEF Subscription
<1>6. RowCounts(i) /\ RunCounts
  BY <1>2 DEF CountersInv
<1>7. RaisingFor(i) = 0 /\ ReturningTo(i) = 0
  BY <1>1, NothingPending
<1>8. RaisingFor(i)' = x /\ ReturningTo(i)' = 0
  BY <1>1 DEF RaisingFor, ReturningTo, GoesOn
<1>9. RowCounts(i)'
  <2>1. /\ row.returnPaid + 0 <= row.raised.return /\ row.capitalPaid + 0 <= row.funded
        /\ row.capitalPaid + 0 <= row.raised.capital
        /\ row.raised.capital <= row.capitalPaid + 0 + stops * row.funded
    BY <1>6, <1>7 DEF RowCounts
  <2> HIDE DEF row, new, x
  <2>2. /\ new.returnPaid + x <= new.raised.return /\ new.capitalPaid + 0 <= new.funded
        /\ new.capitalPaid + 0 <= new.raised.capital
        /\ new.raised.capital <= new.capitalPaid + 0 + stops * new.funded
    BY <1>3, <1>4, <1>5, <2>1
  <2> QED
    BY <1>2, <1>8, <2>2 DEF RowCounts
<1>10. RunCounts'
  <2>1. /\ sweep.read.funded <= row.funded /\ sweep.read.returnPaid = row.returnPaid
        /\ sweep.position.capital =
             IF sweep.read.funded >= row.capitalPaid THEN sweep.read.funded - row.capitalPaid ELSE 0
    BY <1>1, <1>2, <1>6 DEF RunCounts
  <2>2. /\ This' = i /\ sweep'.at = "count" /\ sweep'.read = sweep.read /\ sweep'.position = sweep.position
    BY <1>1 DEF GoesOn
  <2> HIDE DEF row, new
  <2> QED
    BY <1>2, <1>5, <2>1, <2>2 DEF RunCounts
<1>11. ASSUME NEW j \in DOMAIN book', j # i PROVE RowCounts(j)'
  BY <1>1, <1>2, <1>11, OthersCount DEF GoesOn
<1> QED
  BY <1>1, <1>3, <1>9, <1>10, <1>11 DEF CountersInv

LEMMA CountsCounts == ASSUME CountersInv, SweepCounts PROVE CountersInv'
<1>0. PICK i : i = This
  OBVIOUS
<1> USE <1>0
<1> DEFINE row == book[i]
           x == sweep.position.releasable
           new == [row EXCEPT !.returnPaid = sweep.read.returnPaid + x]
<1>1. sweep.at = "count" /\ GoesOn("capital") /\ BookTyped' /\ ThisMoves(new)
  BY CountsThis DEF CountersInv
<1>2. AtWork /\ i \in DOMAIN book /\ book'[i] = new /\ DOMAIN book' = DOMAIN book /\ UNCHANGED <<stops, today>>
  BY <1>1 DEF ThisMoves, AtWork
<1>3. SweepTyped' /\ x \in Nat
  BY <1>1, <1>2, GoesOnTyped DEF CountersInv, SweepTyped, PositionTyped, Idle
<1>4. /\ row.returnPaid \in Nat /\ row.funded \in Nat /\ row.capitalPaid \in Nat
      /\ row.raised.return \in Nat /\ row.raised.capital \in Nat
  BY <1>2, RowFigures DEF CountersInv
<1>5. /\ new.returnPaid = sweep.read.returnPaid + x /\ new.funded = row.funded
      /\ new.capitalPaid = row.capitalPaid /\ new.raised = row.raised
  <2>1. row \in Subscription
    BY <1>2, RowsAre DEF CountersInv
  <2> HIDE DEF row, x
  <2> QED
    BY <2>1 DEF Subscription
<1>6. RowCounts(i) /\ RunCounts
  BY <1>2 DEF CountersInv
<1>7. RaisingFor(i) = x /\ ReturningTo(i) = 0
  BY <1>1 DEF RaisingFor, ReturningTo
<1>8. RaisingFor(i)' = 0 /\ ReturningTo(i)' = 0
  BY <1>1 DEF RaisingFor, ReturningTo, GoesOn
<1>9. /\ sweep.read.funded <= row.funded /\ sweep.read.returnPaid = row.returnPaid
      /\ sweep.position.capital =
           IF sweep.read.funded >= row.capitalPaid THEN sweep.read.funded - row.capitalPaid ELSE 0
  BY <1>1, <1>2, <1>6 DEF RunCounts
<1>10. RowCounts(i)'
  <2>1. /\ row.returnPaid + x <= row.raised.return /\ row.capitalPaid + 0 <= row.funded
        /\ row.capitalPaid + 0 <= row.raised.capital
        /\ row.raised.capital <= row.capitalPaid + 0 + stops * row.funded
    BY <1>6, <1>7 DEF RowCounts
  <2> HIDE DEF row, new, x
  <2>2. /\ new.returnPaid + 0 <= new.raised.return /\ new.capitalPaid + 0 <= new.funded
        /\ new.capitalPaid + 0 <= new.raised.capital
        /\ new.raised.capital <= new.capitalPaid + 0 + stops * new.funded
    BY <1>3, <1>4, <1>5, <1>9, <2>1
  <2> QED
    BY <1>2, <1>8, <2>2 DEF RowCounts
<1>11. RunCounts'
  <2>1. /\ This' = i /\ sweep'.at = "capital" /\ sweep'.read = sweep.read /\ sweep'.position = sweep.position
    BY <1>1 DEF GoesOn
  <2> HIDE DEF row, new
  <2> QED
    BY <1>2, <1>5, <1>9, <2>1 DEF RunCounts
<1>12. ASSUME NEW j \in DOMAIN book', j # i PROVE RowCounts(j)'
  BY <1>1, <1>2, <1>12, OthersCount DEF GoesOn
<1> QED
  BY <1>1, <1>3, <1>10, <1>11, <1>12 DEF CountersInv

LEMMA ReturnsCapitalCounts == ASSUME CountersInv, SweepReturnsCapital PROVE CountersInv'
<1>0. PICK i : i = This
  OBVIOUS
<1> USE <1>0
<1> DEFINE row == book[i]
           x == sweep.position.capital
           new == [row EXCEPT !.raised.capital = @ + x]
<1>1. /\ sweep.at = "capital" /\ BookTyped'
      /\ \/ x > 0 /\ GoesOn("countCapital") /\ ThisMoves(new)
         \/ GoesOn("settle") /\ ThisMoves(row)
  BY ReturnsThis DEF CountersInv
<1>2. AtWork /\ i \in DOMAIN book /\ DOMAIN book' = DOMAIN book /\ UNCHANGED <<stops, today>>
  BY <1>1 DEF ThisMoves, AtWork
<1>3. SweepTyped' /\ x \in Nat
  BY <1>1, <1>2, GoesOnTyped DEF CountersInv, SweepTyped, PositionTyped, Idle
<1>4. /\ row.returnPaid \in Nat /\ row.funded \in Nat /\ row.capitalPaid \in Nat
      /\ row.raised.return \in Nat /\ row.raised.capital \in Nat /\ stops \in Nat
  BY <1>2, RowFigures DEF CountersInv
<1>5. /\ new.returnPaid = row.returnPaid /\ new.funded = row.funded
      /\ new.capitalPaid = row.capitalPaid
      /\ new.raised.return = row.raised.return /\ new.raised.capital = row.raised.capital + x
  <2>1. row \in Subscription
    BY <1>2, RowsAre DEF CountersInv
  <2> HIDE DEF row, x
  <2> QED
    BY <2>1 DEF Subscription
<1>6. RowCounts(i) /\ RunCounts
  BY <1>2 DEF CountersInv
<1>7. RaisingFor(i) = 0 /\ ReturningTo(i) = 0
  BY <1>1, NothingPending
<1>8. /\ sweep.read.funded <= row.funded /\ sweep.read.funded \in Nat
      /\ x = IF sweep.read.funded >= row.capitalPaid THEN sweep.read.funded - row.capitalPaid ELSE 0
  BY <1>1, <1>2, <1>6 DEF RunCounts, CountersInv, SweepTyped, Idle
<1>9. /\ row.returnPaid + 0 <= row.raised.return /\ row.capitalPaid + 0 <= row.funded
      /\ row.capitalPaid + 0 <= row.raised.capital
      /\ row.raised.capital <= row.capitalPaid + 0 + stops * row.funded
  BY <1>6, <1>7 DEF RowCounts
<1>10. CASE x > 0 /\ GoesOn("countCapital") /\ ThisMoves(new)
  <2>1. RaisingFor(i)' = 0 /\ ReturningTo(i)' = x /\ book'[i] = new
    BY <1>10 DEF RaisingFor, ReturningTo, GoesOn, ThisMoves
  <2>2. stops * row.funded \in Nat
    <3> HIDE DEF row
    <3> QED
      BY <1>4
  <2>3. RowCounts(i)'
    <3> HIDE DEF row, new, x
    <3>1. /\ new.returnPaid + 0 <= new.raised.return /\ new.capitalPaid + x <= new.funded
          /\ new.capitalPaid + x <= new.raised.capital
          /\ new.raised.capital <= new.capitalPaid + x + stops * new.funded
      BY <1>3, <1>4, <1>5, <1>8, <1>9, <2>2, <1>10
    <3> QED
      BY <1>2, <2>1, <3>1 DEF RowCounts
  <2>4. RunCounts'
    <3>1. /\ This' = i /\ sweep'.at = "countCapital" /\ sweep'.read = sweep.read
          /\ sweep'.position = sweep.position
      BY <1>10 DEF GoesOn
    <3> HIDE DEF row, new
    <3> QED
      BY <1>5, <1>8, <1>10, <2>1, <3>1 DEF RunCounts, x
  <2>5. ASSUME NEW j \in DOMAIN book', j # i PROVE RowCounts(j)'
    BY <1>10, <1>2, <2>5, OthersCount DEF GoesOn
  <2> QED
    BY <1>1, <1>3, <2>3, <2>4, <2>5 DEF CountersInv
<1>11. CASE GoesOn("settle") /\ ThisMoves(row)
  <2>1. RaisingFor(i)' = 0 /\ ReturningTo(i)' = 0 /\ book'[i] = row
    BY <1>11 DEF RaisingFor, ReturningTo, GoesOn, ThisMoves
  <2>2. RowCounts(i)'
    <3> HIDE DEF row
    <3> QED
      BY <1>2, <1>9, <2>1 DEF RowCounts
  <2>3. RunCounts'
    <3>1. /\ This' = i /\ sweep'.at = "settle" /\ sweep'.read = sweep.read
      BY <1>11 DEF GoesOn
    <3> HIDE DEF row
    <3> QED
      BY <1>8, <2>1, <3>1 DEF RunCounts
  <2>4. ASSUME NEW j \in DOMAIN book', j # i PROVE RowCounts(j)'
    BY <1>11, <1>2, <2>4, OthersCount DEF GoesOn
  <2> QED
    BY <1>1, <1>3, <2>2, <2>3, <2>4 DEF CountersInv
<1> QED
  BY <1>1, <1>10, <1>11

LEMMA CountsCapitalCounts == ASSUME CountersInv, SweepCountsCapital PROVE CountersInv'
<1>0. PICK i : i = This
  OBVIOUS
<1> USE <1>0
<1> DEFINE row == book[i]
           x == sweep.position.capital
           new == [row EXCEPT !.capitalPaid = sweep.read.funded]
<1>1. sweep.at = "countCapital" /\ GoesOn("settle") /\ BookTyped' /\ ThisMoves(new)
  BY CountsCapitalOfThis DEF CountersInv
<1>2. AtWork /\ i \in DOMAIN book /\ book'[i] = new /\ DOMAIN book' = DOMAIN book /\ UNCHANGED <<stops, today>>
  BY <1>1 DEF ThisMoves, AtWork
<1>3. SweepTyped' /\ x \in Nat
  BY <1>1, <1>2, GoesOnTyped DEF CountersInv, SweepTyped, PositionTyped, Idle
<1>4. /\ row.returnPaid \in Nat /\ row.funded \in Nat /\ row.capitalPaid \in Nat
      /\ row.raised.return \in Nat /\ row.raised.capital \in Nat /\ sweep.read.funded \in Nat
  BY <1>1, <1>2, RowFigures DEF CountersInv, SweepTyped, Idle
<1>5. /\ new.returnPaid = row.returnPaid /\ new.funded = row.funded
      /\ new.capitalPaid = sweep.read.funded /\ new.raised = row.raised
  <2>1. row \in Subscription
    BY <1>2, RowsAre DEF CountersInv
  <2> HIDE DEF row, x
  <2> QED
    BY <2>1 DEF Subscription
<1>6. RowCounts(i) /\ RunCounts
  BY <1>2 DEF CountersInv
<1>7. RaisingFor(i) = 0 /\ ReturningTo(i) = x
  BY <1>1 DEF RaisingFor, ReturningTo
<1>8. RaisingFor(i)' = 0 /\ ReturningTo(i)' = 0
  BY <1>1 DEF RaisingFor, ReturningTo, GoesOn
<1>9. /\ sweep.read.funded <= row.funded /\ x > 0
      /\ x = IF sweep.read.funded >= row.capitalPaid THEN sweep.read.funded - row.capitalPaid ELSE 0
  BY <1>1, <1>2, <1>6 DEF RunCounts
<1>10. RowCounts(i)'
  <2>1. /\ row.returnPaid + 0 <= row.raised.return /\ row.capitalPaid + x <= row.funded
        /\ row.capitalPaid + x <= row.raised.capital
        /\ row.raised.capital <= row.capitalPaid + x + stops * row.funded
    BY <1>6, <1>7 DEF RowCounts
  <2>2. row.capitalPaid + x = sweep.read.funded
    <3> HIDE DEF row, new, x
    <3> QED
      BY <1>3, <1>4, <1>9
  <2> HIDE DEF row, new, x
  <2>3. /\ new.returnPaid + 0 <= new.raised.return /\ new.capitalPaid + 0 <= new.funded
        /\ new.capitalPaid + 0 <= new.raised.capital
        /\ new.raised.capital <= new.capitalPaid + 0 + stops * new.funded
    BY <1>4, <1>5, <1>9, <2>1, <2>2
  <2> QED
    BY <1>2, <1>8, <2>3 DEF RowCounts
<1>11. RunCounts'
  <2>1. /\ This' = i /\ sweep'.at = "settle" /\ sweep'.read = sweep.read
    BY <1>1 DEF GoesOn
  <2> HIDE DEF row, new
  <2> QED
    BY <1>2, <1>5, <1>9, <2>1 DEF RunCounts
<1>12. ASSUME NEW j \in DOMAIN book', j # i PROVE RowCounts(j)'
  BY <1>1, <1>2, <1>12, OthersCount DEF GoesOn
<1> QED
  BY <1>1, <1>3, <1>10, <1>11, <1>12 DEF CountersInv

-----------------------------------------------------------------------------
LEMMA SettlesCounts == ASSUME CountersInv, SweepSettles PROVE CountersInv'
<1>0. PICK i : i = This
  OBVIOUS
<1> USE <1>0
<1> DEFINE row == book[i]
           closed == [row EXCEPT !.status = "completed"]
<1>1. /\ sweep.at = "settle" /\ BookTyped'
      /\ sweep' = [at |-> "look", asAt |-> sweep.asAt, queue |-> sweep.queue \ {i}]
      /\ ThisMoves(row) \/ ThisMoves(closed)
  BY SettlesThis DEF CountersInv
<1>2. AtWork /\ i \in DOMAIN book /\ DOMAIN book' = DOMAIN book /\ UNCHANGED <<stops, today>>
  BY <1>1 DEF ThisMoves, AtWork
<1>3. sweep'.at = "look"
  BY <1>1
<1>4. SweepTyped'
  <2>1. sweep.asAt \in Nat /\ sweep.asAt <= today /\ sweep.queue \subseteq DOMAIN book
    BY <1>1 DEF CountersInv, SweepTyped, Idle
  <2>2. /\ sweep'.asAt = sweep.asAt /\ sweep'.queue \subseteq DOMAIN book'
        /\ sweep' = [at |-> "look", asAt |-> sweep'.asAt, queue |-> sweep'.queue]
    BY <1>1, <1>2, <2>1
  <2> QED
    BY <1>2, <2>1, <2>2 DEF SweepTyped
<1>5. /\ book'[i].returnPaid = row.returnPaid /\ book'[i].funded = row.funded
      /\ book'[i].capitalPaid = row.capitalPaid /\ book'[i].raised = row.raised
  <2>1. row \in Subscription
    BY <1>2, RowsAre DEF CountersInv
  <2>2. book'[i] = row \/ book'[i] = closed
    BY <1>1 DEF ThisMoves
  <2> HIDE DEF row
  <2> QED
    BY <2>1, <2>2 DEF Subscription
<1>6. RowCounts(i)'
  <2>1. RowCounts(i) /\ RaisingFor(i) = 0 /\ ReturningTo(i) = 0
    BY <1>1, <1>2, NothingPending DEF CountersInv
  <2>2. RaisingFor(i)' = 0 /\ ReturningTo(i)' = 0
    BY <1>3 DEF RaisingFor, ReturningTo
  <2>3. /\ row.returnPaid + 0 <= row.raised.return /\ row.capitalPaid + 0 <= row.funded
        /\ row.capitalPaid + 0 <= row.raised.capital
        /\ row.raised.capital <= row.capitalPaid + 0 + stops * row.funded
    BY <2>1 DEF RowCounts
  <2> HIDE DEF row
  <2> QED
    BY <1>2, <1>5, <2>2, <2>3 DEF RowCounts
<1>7. ASSUME NEW j \in DOMAIN book', j # i PROVE RowCounts(j)'
  BY <1>1, <1>2, <1>3, <1>7, OthersCount
<1>8. RunCounts'
  BY <1>3 DEF RunCounts, AtWork
<1> QED
  BY <1>1, <1>4, <1>6, <1>7, <1>8 DEF CountersInv

LEMMA EndsCounts == ASSUME CountersInv, SweepEnds PROVE CountersInv'
<1>1. sweep' = Idle /\ BookTyped' /\ UNCHANGED <<offer, book, requests, stops, today>>
  BY EndsIdle DEF CountersInv
<1>2. sweep'.at = "idle" /\ sweep.at = "look"
  BY <1>1 DEF Idle, SweepEnds, Running
<1>3. ASSUME NEW j \in DOMAIN book' PROVE RowCounts(j)'
  <2>1. RowCounts(j) /\ RaisingFor(j) = 0 /\ ReturningTo(j) = 0
    BY <1>1, <1>2, NothingPending DEF CountersInv
  <2>2. RaisingFor(j)' = 0 /\ ReturningTo(j)' = 0
    BY <1>2 DEF RaisingFor, ReturningTo
  <2> QED
    BY <1>1, <2>1, <2>2 DEF RowCounts
<1> QED
  BY <1>1, <1>2, <1>3 DEF CountersInv, SweepTyped, RunCounts, AtWork

LEMMA CountersInit == InputsAreFigures /\ InvestmentInit => CountersInv
<1> SUFFICES ASSUME InputsAreFigures, InvestmentInit PROVE CountersInv
  OBVIOUS
<1>1. /\ offer \in Offers /\ book = <<>> /\ requests = {} /\ sweep = Idle
      /\ stops = 0 /\ today = 0
  BY DEF InvestmentInit
<1>2. IsFiniteSet({}) /\ Cardinality({}) = 0 /\ MaxRequests \in Nat
  BY FS_EmptySet DEF InputsAreFigures
<1>3. BookTyped
  BY <1>1, <1>2 DEF BookTyped
<1>4. sweep.at = "idle" /\ DOMAIN book = {}
  BY <1>1 DEF Idle
<1> QED
  BY <1>1, <1>3, <1>4 DEF CountersInv, SweepTyped, RunCounts, AtWork

LEMMA CountersStep ==
  ASSUME InputsAreFigures, CountersInv, [InvestmentNext]_investmentVars PROVE CountersInv'
<1>1. OutsideStep \/ SweepStep
  BY StepsAre DEF CountersInv
<1>2. CASE OutsideStep
  BY <1>2, OutsideKeepsCounters
<1>3. CASE SweepStep
  BY <1>3, EndsCounts, LooksCounts, RaisesCounts, CountsCounts, ReturnsCapitalCounts,
     CountsCapitalCounts, SettlesCounts DEF SweepStep
<1> QED
  BY <1>1, <1>2, <1>3

LEMMA CountersKept ==
  ASSUME InputsAreFigures PROVE InvestmentSpec => []CountersInv
<1>1. InvestmentInit => CountersInv
  BY CountersInit
<1>2. CountersInv /\ [InvestmentNext]_investmentVars => CountersInv'
  BY CountersStep
<1> QED
  BY <1>1, <1>2, PTL DEF InvestmentSpec

(* The run completes an investment only when its capital and its return    *)
(* were raised in full, whatever came in while it was at it and whenever   *)
(* the service stopped (runAccrual): the last thing it does is to look     *)
(* again, and the counters it looks at were written after their payouts.   *)
THEOREM CompletedOnlyWhenSettled == InvestmentSpec => CompletedIsSettled
<1> USE InvestmentAssumptions
<1> DEFINE Settles(i) ==
      SweepSettles /\ book[i].status = "active" /\ book'[i].status = "completed" =>
         /\ book[i].raised.capital >= book[i].funded
         /\ book[i].raised.return >=
              AccruedAt(book[i].terms, book[i].funded, book[i].fundedAt,
                        Maturity(book[i].terms, book[i].fundedAt))
<1>1. ASSUME CountersInv, NEW i \in DOMAIN book PROVE Settles(i)
  <2> SUFFICES ASSUME SweepSettles, book[i].status = "active", book'[i].status = "completed"
               PROVE  /\ book[i].raised.capital >= book[i].funded
                      /\ book[i].raised.return >=
                           AccruedAt(book[i].terms, book[i].funded, book[i].fundedAt,
                                     Maturity(book[i].terms, book[i].fundedAt))
    OBVIOUS
  <2> DEFINE row == book[i]
             position == PositionOf(row, sweep.asAt)
  <2>1. i = This /\ Settled(position)
    <3>1. \/ ThisMoves(book[This])
          \/ /\ Settled(PositionOf(book[This], sweep.asAt))
             /\ ThisMoves([book[This] EXCEPT !.status = "completed"])
      BY <1>1, SettlesThis DEF CountersInv
    <3>2. book'[i] # book[i]
      OBVIOUS
    <3> QED
      BY <3>1, <3>2 DEF ThisMoves
  <2>2. sweep.at = "settle" /\ sweep.asAt \in Nat
    BY <1>1, SettlesThis DEF CountersInv, SweepTyped, Idle
  <2>3. /\ row \in Subscription /\ row.funded \in Nat /\ row.capitalPaid \in Nat /\ row.returnPaid \in Nat
        /\ row.raised.return \in Nat /\ row.raised.capital \in Nat
        /\ row.fundedAt \in Nat \union {Never} /\ row.terms \in TermsOffered
    BY <1>1, RowsAre, RowFigures DEF CountersInv
  <2> DEFINE earned == Earned(row.terms, row.funded, row.fundedAt, sweep.asAt)
  <2>4. /\ HasMatured(row.terms, row.fundedAt, sweep.asAt)
        /\ 0 = IF earned >= row.returnPaid THEN earned - row.returnPaid ELSE 0
        /\ 0 = IF row.funded >= row.capitalPaid THEN row.funded - row.capitalPaid ELSE 0
    <3> HIDE DEF row
    <3> QED
      BY <2>1, <2>2, <2>3, PositionIsTyped DEF Settled
  <2>5. earned = AccruedAt(row.terms, row.funded, row.fundedAt, Maturity(row.terms, row.fundedAt))
    <3>1. row.fundedAt # Never
      BY <2>4 DEF HasMatured
    <3>2. AreTerms(row.terms)
      BY <2>3, OffersAreTerms
    <3>3. Maturity(row.terms, row.fundedAt) \in Nat
      <4> HIDE DEF row
      <4> QED
        BY <2>2, <2>3, <3>1, <3>2, ReleasesInOrder
    <3>4. LastRelease(row.terms, row.fundedAt, sweep.asAt) = Maturity(row.terms, row.fundedAt)
      BY <2>4, <3>1 DEF LastRelease
    <3>5. Maturity(row.terms, row.fundedAt) # Never
      BY <3>3 DEF Never
    <3> QED
      BY <3>4, <3>5 DEF Earned
  <2>6. earned \in Nat
    <3> HIDE DEF row
    <3> QED
      BY <2>2, <2>3, EarnedIsWhole, OffersAreTerms
  <2>7. /\ row.returnPaid <= row.raised.return /\ row.capitalPaid <= row.raised.capital
    <3>1. RowCounts(i) /\ RaisingFor(i) = 0 /\ ReturningTo(i) = 0
      BY <1>1, <2>2, NothingPending DEF CountersInv
    <3>2. row.returnPaid + 0 <= row.raised.return /\ row.capitalPaid + 0 <= row.raised.capital
      BY <3>1 DEF RowCounts
    <3> QED
      BY <2>3, <3>2
  <2> HIDE DEF row, earned
  <2>8. row.raised.capital >= row.funded /\ row.raised.return >= earned
    BY <2>3, <2>4, <2>6, <2>7
  <2> QED
    BY <2>5, <2>8 DEF row
<1>2. ASSUME CountersInv PROVE [\A i \in DOMAIN book : Settles(i)]_investmentVars
  BY <1>1, <1>2
<1>3. CountersInv => [\A i \in DOMAIN book : Settles(i)]_investmentVars
  BY <1>2
<1>4. InvestmentSpec => [][\A i \in DOMAIN book : Settles(i)]_investmentVars
  BY <1>3, CountersKept, PTL
<1> QED
  BY <1>4 DEF CompletedIsSettled

-----------------------------------------------------------------------------
(* Of the return, no more than the releases that fell due came to.         *)
TermsGrowDaily == \A o \in Offers : GrowsDaily(o.terms)

EarnedOn(i) == Earned(book[i].terms, book[i].funded, book[i].fundedAt, today)

RowReturns(i) ==
  LET row == book[i]
  IN  /\ row.returnPaid + RaisingFor(i) <= EarnedOn(i)
      /\ row.raised.return <= row.returnPaid + RaisingFor(i) + stops * EarnedOn(i)

ReturnsInv ==
  /\ \A i \in DOMAIN book : RowReturns(i)
  /\ sweep.at = "raise" => book[This].returnPaid + sweep.position.releasable <= EarnedOn(This)

LEMMA EarnedOnIsWhole ==
  ASSUME InputsAreFigures, BookTyped, NEW i \in DOMAIN book
  PROVE  EarnedOn(i) \in Nat
BY RowFigures, OffersAreTerms, EarnedIsWhole DEF EarnedOn

LEMMA EarnedOnGrows ==
  ASSUME InputsAreFigures, TermsGrowDaily, BookTyped, BookTyped',
         NEW i \in DOMAIN book, i \in DOMAIN book', book'[i].terms = book[i].terms,
         book[i].funded <= book'[i].funded, book[i].fundedAt \in {Never, book'[i].fundedAt},
         today <= today'
  PROVE  EarnedOn(i) \in Nat /\ EarnedOn(i)' \in Nat /\ EarnedOn(i) <= EarnedOn(i)'
<1> DEFINE t == book[i].terms
           p == book[i].funded
           q == book'[i].funded
           a == book[i].fundedAt
           b == book'[i].fundedAt
<1>1. t \in TermsOffered /\ p \in Nat /\ a \in Nat \union {Never} /\ today \in Nat
  BY RowFigures
<1>2. q \in Nat /\ b \in Nat \union {Never} /\ today' \in Nat
  <2>1. book' \in Seq(Subscription) /\ today' \in Nat
    BY DEF BookTyped, Subscription, TermsOffered, CompletedPayment
  <2>2. book'[i] \in Subscription
    BY <2>1
  <2> QED
    BY <2>1, <2>2 DEF Subscription
<1>3. EarnedOn(i) = Earned(t, p, a, today) /\ EarnedOn(i)' = Earned(t, q, b, today')
  BY DEF EarnedOn
<1>4. p <= q /\ a \in {Never, b}
  OBVIOUS
<1>5. AreTerms(t) /\ GrowsDaily(t)
  BY <1>1, OffersAreTerms DEF TermsGrowDaily, TermsOffered
<1> HIDE DEF t, p, q, a, b
<1>6. Earned(t, p, a, today) \in Nat /\ Earned(t, q, b, today') \in Nat
  BY <1>1, <1>2, <1>5, EarnedIsWhole
<1>7. CASE a = Never
  <2>1. Earned(t, p, a, today) = 0
    BY <1>1, <1>5, <1>7, EarnedIsWhole
  <2> QED
    BY <1>3, <1>6, <2>1
<1>8. CASE a # Never
  <2>1. a = b /\ a \in Nat
    BY <1>1, <1>4, <1>8
  <2>2. Earned(t, p, a, today) <= Earned(t, q, a, today')
    BY <1>1, <1>2, <1>4, <1>5, <2>1, EarnedGrows
  <2> QED
    BY <1>3, <1>6, <2>1, <2>2
<1> QED
  BY <1>7, <1>8

(* A row that keeps its counters, and what is being raised for it.         *)
LEMMA ReturnsStay ==
  ASSUME InputsAreFigures, TermsGrowDaily, CountersInv, BookTyped',
         NEW i \in DOMAIN book, i \in DOMAIN book', book'[i].terms = book[i].terms,
         book[i].funded <= book'[i].funded, book[i].fundedAt \in {Never, book'[i].fundedAt},
         book'[i].returnPaid = book[i].returnPaid, book'[i].raised = book[i].raised,
         today <= today', RowReturns(i), RaisingFor(i)' = RaisingFor(i), stops' = stops
  PROVE  RowReturns(i)'
<1> DEFINE row == book[i]
           x == RaisingFor(i)
           e == EarnedOn(i)
           f == EarnedOn(i)'
<1>1. e \in Nat /\ f \in Nat /\ e <= f
  BY EarnedOnGrows DEF CountersInv
<1>2. row.returnPaid \in Nat /\ row.raised.return \in Nat /\ stops \in Nat /\ x \in Nat
  BY RowFigures, PendingIsWhole DEF CountersInv
<1>3. row.returnPaid + x <= e /\ row.raised.return <= row.returnPaid + x + stops * e
  BY DEF RowReturns
<1>4. /\ book'[i].returnPaid = row.returnPaid /\ book'[i].raised.return = row.raised.return
      /\ RaisingFor(i)' = x /\ stops' = stops /\ EarnedOn(i)' = f
  OBVIOUS
<1> HIDE DEF e, f, x, row
<1>5. stops * e \in Nat /\ stops * f \in Nat /\ stops * e <= stops * f
  BY <1>1, <1>2, ProductsGrow
<1>6. row.returnPaid + x <= f /\ row.raised.return <= row.returnPaid + x + stops * f
  BY <1>1, <1>2, <1>3, <1>5
<1> QED
  BY <1>4, <1>6 DEF RowReturns

LEMMA OutsideKeepsReturns ==
  ASSUME InputsAreFigures, TermsGrowDaily, CountersInv, ReturnsInv, OutsideStep
  PROVE  ReturnsInv'
<1>1. BookTyped' /\ today <= today'
  BY DEF OutsideStep
<1>2. /\ \/ /\ sweep' = sweep /\ stops' = stops /\ This' = This
         \/ /\ sweep'.at = "idle" /\ stops' = stops + 1
         \/ /\ sweep.at = "idle" /\ sweep'.at = "look" /\ stops' = stops
  BY OutsideKeepsRun DEF CountersInv
<1>3. \A i \in DOMAIN book : i \in DOMAIN book' /\ CountsKept(i)
  BY DEF OutsideStep
<1>4. ASSUME NEW i \in DOMAIN book', i \notin DOMAIN book PROVE RowReturns(i)'
  <2>1. NothingCounted(book'[i])
    BY <1>4 DEF OutsideStep
  <2>2. RaisingFor(i)' = 0
    <3>1. CASE sweep' = sweep /\ stops' = stops /\ This' = This
      <4>1. CASE sweep.at = "count"
        <5>1. i # This
          BY <1>4, <4>1, WorkHasRow, ThisIsQueued DEF AtWork, CountersInv
        <5> QED
          BY <3>1, <5>1 DEF RaisingFor
      <4> QED
        BY <3>1, <4>1 DEF RaisingFor
    <3>2. CASE sweep'.at \in {"idle", "look"}
      BY <3>2 DEF RaisingFor
    <3> QED
      BY <1>2, <3>1, <3>2
  <2>3. EarnedOn(i)' \in Nat /\ stops' \in Nat
    <3>1. book' \in Seq(Subscription) /\ today' \in Nat
      BY <1>1 DEF BookTyped, Subscription, TermsOffered, CompletedPayment
    <3>2. book'[i] \in Subscription
      BY <1>4, <3>1
    <3> DEFINE row == book'[i]
    <3>3. row.funded \in Nat /\ row.fundedAt \in Nat \union {Never} /\ row.terms \in TermsOffered
      BY <3>2 DEF Subscription
    <3>4. Earned(row.terms, row.funded, row.fundedAt, today') \in Nat
      <4> HIDE DEF row
      <4> QED
        BY <3>1, <3>3, OffersAreTerms, EarnedIsWhole
    <3> QED
      BY <1>1, <1>4, <3>4, NextFigures DEF EarnedOn
  <2> DEFINE row == book'[i]
             e == EarnedOn(i)'
  <2>4. row.returnPaid = 0 /\ row.raised.return = 0
    BY <2>1 DEF NothingCounted
  <2> HIDE DEF row, e
  <2>5. e \in Nat /\ stops' \in Nat
    BY <2>3 DEF e
  <2>6. 0 <= stops' * e /\ stops' * e \in Nat
    <3>1. \A m, n \in Nat : 0 <= m * n /\ m * n \in Nat
      OBVIOUS
    <3> QED
      BY <2>5, <3>1
  <2>7. row.returnPaid + 0 <= e /\ row.raised.return <= row.returnPaid + 0 + stops' * e
    <3> DEFINE most == stops' * e
    <3>1. most \in Nat /\ e \in Nat
      BY <2>5, <2>6
    <3> HIDE DEF most
    <3>2. 0 + 0 <= e /\ 0 <= 0 + 0 + most
      BY <3>1
    <3> QED
      BY <2>4, <3>2 DEF most
  <2> QED
    BY <2>2, <2>7 DEF RowReturns, row, e
<1>5. ASSUME NEW i \in DOMAIN book PROVE RowReturns(i)'
  <2>1. /\ i \in DOMAIN book' /\ book'[i].terms = book[i].terms
        /\ book[i].funded <= book'[i].funded /\ book[i].fundedAt \in {Never, book'[i].fundedAt}
        /\ book'[i].returnPaid = book[i].returnPaid /\ book'[i].raised = book[i].raised
    BY <1>3 DEF CountsKept
  <2>2. RowReturns(i)
    BY DEF ReturnsInv
  <2>3. CASE sweep' = sweep /\ stops' = stops /\ This' = This
    <3>1. RaisingFor(i)' = RaisingFor(i)
      BY <2>3 DEF RaisingFor
    <3> QED
      BY <1>1, <2>1, <2>2, <2>3, <3>1, ReturnsStay
  <2>4. CASE sweep.at = "idle" /\ sweep'.at = "look" /\ stops' = stops
    <3>1. RaisingFor(i)' = RaisingFor(i)
      BY <2>4 DEF RaisingFor
    <3> QED
      BY <1>1, <2>1, <2>2, <2>4, <3>1, ReturnsStay
  <2>5. CASE sweep'.at = "idle" /\ stops' = stops + 1
    <3> DEFINE row == book[i]
               x == RaisingFor(i)
               e == EarnedOn(i)
               f == EarnedOn(i)'
    <3>1. e \in Nat /\ f \in Nat /\ e <= f
      BY <1>1, <2>1, EarnedOnGrows DEF CountersInv
    <3>2. row.returnPaid \in Nat /\ row.raised.return \in Nat /\ stops \in Nat /\ x \in Nat
      BY RowFigures, PendingIsWhole DEF CountersInv
    <3>3. row.returnPaid + x <= e /\ row.raised.return <= row.returnPaid + x + stops * e
      BY <2>2 DEF RowReturns
    <3>4. /\ book'[i].returnPaid = row.returnPaid /\ book'[i].raised.return = row.raised.return
          /\ RaisingFor(i)' = 0 /\ EarnedOn(i)' = f
      BY <2>1, <2>5 DEF RaisingFor
    <3> HIDE DEF e, f, x, row
    <3>5. stops * e \in Nat /\ stops * f \in Nat /\ stops * e <= stops * f /\ stops' * f = stops * f + f
      BY <2>5, <3>1, <3>2, ProductsGrow
    <3>6. row.returnPaid + 0 <= f /\ row.raised.return <= row.returnPaid + 0 + stops' * f
      BY <3>1, <3>2, <3>3, <3>5
    <3> QED
      BY <3>4, <3>6 DEF RowReturns
  <2> QED
    BY <1>2, <2>3, <2>4, <2>5
<1>6. ASSUME sweep'.at = "raise"
      PROVE  (book[This].returnPaid + sweep.position.releasable <= EarnedOn(This))'
  <2>1. sweep' = sweep /\ stops' = stops /\ This' = This
    BY <1>2, <1>6
  <2>2. PICK i : i = This
    OBVIOUS
  <2>3. i \in DOMAIN book /\ sweep.at = "raise"
    BY <1>6, <2>1, <2>2, WorkHasRow, ThisIsQueued DEF AtWork, CountersInv
  <2>4. EarnedOn(i) \in Nat /\ EarnedOn(i)' \in Nat /\ EarnedOn(i) <= EarnedOn(i)'
    BY <1>1, <1>3, <2>3, EarnedOnGrows DEF CountersInv, CountsKept
  <2>5. book[i].returnPaid + sweep.position.releasable <= EarnedOn(i)
    BY <2>2, <2>3 DEF ReturnsInv
  <2>6. book[i].returnPaid \in Nat /\ sweep.position.releasable \in Nat
    BY <2>3, RowFigures DEF CountersInv, SweepTyped, PositionTyped, Idle
  <2>7. book'[i].returnPaid = book[i].returnPaid
    BY <1>3, <2>3 DEF CountsKept
  <2>8. book'[i].returnPaid + sweep'.position.releasable <= EarnedOn(i)'
    BY <2>1, <2>4, <2>5, <2>6, <2>7
  <2>9. This' = i
    BY <2>1, <2>2
  <2> QED
    BY <2>8, <2>9 DEF EarnedOn
<1> QED
  BY <1>4, <1>5, <1>6 DEF ReturnsInv

LEMMA OthersReturn ==
  ASSUME InputsAreFigures, TermsGrowDaily, CountersInv, ReturnsInv, BookTyped',
         NEW row, ThisMoves(row), NEW j \in DOMAIN book,
         j # This \/ book'[j] = book[j],
         RaisingFor(j)' = RaisingFor(j)
  PROVE  RowReturns(j)'
<1>1. book'[j] = book[j] /\ j \in DOMAIN book' /\ stops' = stops /\ today' = today
  BY DEF ThisMoves
<1>2. book[j].funded <= book[j].funded /\ today <= today
  BY RowFigures DEF CountersInv
<1> QED
  BY <1>1, <1>2, ReturnsStay DEF ReturnsInv

(* Steps at which nothing is being raised before or after.                 *)
LEMMA QuietReturns ==
  ASSUME InputsAreFigures, TermsGrowDaily, CountersInv, ReturnsInv, BookTyped',
         NEW row, ThisMoves(row),
         row.terms = book[This].terms, row.funded = book[This].funded,
         row.fundedAt = book[This].fundedAt, row.returnPaid = book[This].returnPaid,
         row.raised.return = book[This].raised.return,
         sweep.at # "count", sweep'.at \notin {"raise", "count"}
  PROVE  ReturnsInv'
<1>1. \A i : RaisingFor(i)' = RaisingFor(i)
  BY DEF RaisingFor
<1>2. ASSUME NEW j \in DOMAIN book' PROVE RowReturns(j)'
  <2>1. j \in DOMAIN book
    BY DEF ThisMoves
  <2>2. CASE j # This
    BY <1>1, <2>1, <2>2, OthersReturn
  <2>3. CASE j = This
    <3>1. /\ book'[j].terms = book[j].terms /\ book'[j].funded = book[j].funded
          /\ book'[j].fundedAt = book[j].fundedAt /\ book'[j].returnPaid = book[j].returnPaid
          /\ book'[j].raised.return = book[j].raised.return
          /\ stops' = stops /\ today' = today
      BY <2>3 DEF ThisMoves
    <3>2. EarnedOn(j)' = EarnedOn(j) /\ RaisingFor(j)' = RaisingFor(j) /\ RowReturns(j)
      BY <1>1, <2>1, <3>1 DEF EarnedOn, ReturnsInv
    <3> QED
      BY <3>1, <3>2 DEF RowReturns
  <2> QED
    BY <2>2, <2>3
<1> QED
  BY <1>2 DEF ReturnsInv

LEMMA LooksReturns ==
  ASSUME InputsAreFigures, TermsGrowDaily, CountersInv, ReturnsInv, SweepLooks
  PROVE  ReturnsInv'
<1>0. PICK i : i = This
  OBVIOUS
<1> USE <1>0
<1> DEFINE row == book[i]
           position == PositionOf(row, sweep.asAt)
<1>1. /\ sweep.at = "look" /\ sweep.queue # {} /\ ThisMoves(row) /\ BookTyped' /\ This' = i
      /\ sweep' = [at |-> IF position.releasable > 0 THEN "raise" ELSE "capital",
                   asAt |-> sweep.asAt, queue |-> sweep.queue, position |-> position,
                   read |-> [returnPaid |-> row.returnPaid, funded |-> row.funded]]
  BY LooksAt DEF CountersInv
<1>2. i \in DOMAIN book /\ sweep.asAt \in Nat /\ sweep.asAt <= today
  BY <1>1, WorkHasRow, ThisIsQueued DEF CountersInv, SweepTyped, Idle
<1>3. /\ row \in Subscription /\ row.returnPaid \in Nat /\ row.funded \in Nat /\ today \in Nat
      /\ row.fundedAt \in Nat \union {Never} /\ AreTerms(row.terms) /\ GrowsDaily(row.terms)
  BY <1>2, RowsAre, RowFigures, OffersAreTerms DEF CountersInv, TermsGrowDaily, TermsOffered
<1> DEFINE e == Earned(row.terms, row.funded, row.fundedAt, sweep.asAt)
<1>4. position.releasable = IF e >= row.returnPaid THEN e - row.returnPaid ELSE 0
  <2> HIDE DEF row
  <2> QED
    BY <1>2, <1>3, PositionIsTyped
<1>5. sweep'.at \in {"raise", "capital"} /\ \A j : RaisingFor(j)' = RaisingFor(j)
  BY <1>1 DEF RaisingFor
<1>6. book'[i] = row /\ DOMAIN book' = DOMAIN book /\ UNCHANGED <<stops, today>>
  BY <1>1 DEF ThisMoves
<1>7. ASSUME NEW j \in DOMAIN book' PROVE RowReturns(j)'
  BY <1>1, <1>5, <1>6, <1>7, OthersReturn
<1>8. ASSUME sweep'.at = "raise" PROVE book'[i].returnPaid + sweep'.position.releasable <= EarnedOn(i)'
  <2>1. position.releasable > 0 /\ sweep'.position = position
    BY <1>1, <1>8
  <2>2. e \in Nat /\ (row.fundedAt = Never => e = 0)
    <3> HIDE DEF row
    <3> QED
      BY <1>2, <1>3, EarnedIsWhole
  <2>3. row.fundedAt \in Nat
    BY <1>3, <1>4, <2>1, <2>2
  <2>4. e <= Earned(row.terms, row.funded, row.fundedAt, today)
    <3>1. row.funded <= row.funded
      BY <1>3
    <3> HIDE DEF row
    <3> QED
      BY <1>2, <1>3, <2>3, <3>1, EarnedGrows
  <2>5. EarnedOn(i)' = Earned(row.terms, row.funded, row.fundedAt, today)
    BY <1>6 DEF EarnedOn
  <2> HIDE DEF e, position, row
  <2>6. row.returnPaid + position.releasable = e
    BY <1>3, <1>4, <2>1, <2>2
  <2> QED
    BY <1>6, <2>1, <2>4, <2>5, <2>6
<1> HIDE DEF row, position, e
<1>9. sweep'.at = "raise" =>
        (book[This].returnPaid + sweep.position.releasable <= EarnedOn(This))'
  <2>1. This' = i
    BY <1>1
  <2> QED
    BY <1>8, <2>1 DEF EarnedOn
<1> QED
  BY <1>7, <1>9 DEF ReturnsInv

LEMMA RaisesReturns ==
  ASSUME InputsAreFigures, TermsGrowDaily, CountersInv, ReturnsInv, SweepRaises
  PROVE  ReturnsInv'
<1>0. PICK i : i = This
  OBVIOUS
<1> USE <1>0
<1> DEFINE row == book[i]
           x == sweep.position.releasable
           new == [row EXCEPT !.raised.return = @ + x]
           e == EarnedOn(i)
<1>1. sweep.at = "raise" /\ GoesOn("count") /\ BookTyped' /\ ThisMoves(new)
  BY RaisesThis DEF CountersInv
<1>2. i \in DOMAIN book /\ book'[i] = new /\ DOMAIN book' = DOMAIN book /\ UNCHANGED <<stops, today>>
  BY <1>1 DEF ThisMoves
<1>3. /\ row.returnPaid \in Nat /\ row.raised.return \in Nat /\ stops \in Nat /\ e \in Nat /\ x \in Nat
  BY <1>1, <1>2, RowFigures, EarnedOnIsWhole DEF CountersInv, SweepTyped, PositionTyped, Idle
<1>4. /\ new.terms = row.terms /\ new.funded = row.funded /\ new.fundedAt = row.fundedAt
      /\ new.returnPaid = row.returnPaid /\ new.raised.return = row.raised.return + x
  <2>1. row \in Subscription
    BY <1>2, RowsAre DEF CountersInv
  <2> HIDE DEF row, x
  <2> QED
    BY <2>1 DEF Subscription
<1>5. RaisingFor(i) = 0 /\ RaisingFor(i)' = x
  BY <1>1 DEF RaisingFor, GoesOn
<1>6. /\ row.returnPaid + 0 <= e /\ row.raised.return <= row.returnPaid + 0 + stops * e
      /\ row.returnPaid + x <= e
  BY <1>1, <1>2, <1>5 DEF ReturnsInv, RowReturns
<1>7. EarnedOn(i)' = e
  <2> HIDE DEF row, new
  <2> QED
    BY <1>2, <1>4 DEF EarnedOn, row
<1>8. RowReturns(i)'
  <2> HIDE DEF row, new, e, x
  <2>1. stops * e \in Nat
    BY <1>3
  <2>2. new.returnPaid + x <= e /\ new.raised.return <= new.returnPaid + x + stops * e
    BY <1>3, <1>4, <1>6, <2>1
  <2> QED
    BY <1>2, <1>5, <1>7, <2>2 DEF RowReturns
<1>9. ASSUME NEW j \in DOMAIN book', j # i PROVE RowReturns(j)'
  <2>1. RaisingFor(j)' = RaisingFor(j)
    BY <1>1, <1>9 DEF RaisingFor, GoesOn
  <2> QED
    BY <1>1, <1>2, <1>9, <2>1, OthersReturn
<1>10. sweep'.at = "count"
  BY <1>1 DEF GoesOn
<1> QED
  BY <1>8, <1>9, <1>10 DEF ReturnsInv

LEMMA CountsReturns ==
  ASSUME InputsAreFigures, TermsGrowDaily, CountersInv, ReturnsInv, SweepCounts
  PROVE  ReturnsInv'
<1>0. PICK i : i = This
  OBVIOUS
<1> USE <1>0
<1> DEFINE row == book[i]
           x == sweep.position.releasable
           new == [row EXCEPT !.returnPaid = sweep.read.returnPaid + x]
           e == EarnedOn(i)
<1>1. sweep.at = "count" /\ GoesOn("capital") /\ BookTyped' /\ ThisMoves(new)
  BY CountsThis DEF CountersInv
<1>2. i \in DOMAIN book /\ book'[i] = new /\ DOMAIN book' = DOMAIN book /\ UNCHANGED <<stops, today>>
  BY <1>1 DEF ThisMoves
<1>3. /\ row.returnPaid \in Nat /\ row.raised.return \in Nat /\ stops \in Nat /\ e \in Nat /\ x \in Nat
  BY <1>1, <1>2, RowFigures, EarnedOnIsWhole DEF CountersInv, SweepTyped, PositionTyped, Idle
<1>4. sweep.read.returnPaid = row.returnPaid
  BY <1>1 DEF CountersInv, RunCounts, AtWork
<1>5. /\ new.terms = row.terms /\ new.funded = row.funded /\ new.fundedAt = row.fundedAt
      /\ new.returnPaid = row.returnPaid + x /\ new.raised.return = row.raised.return
  <2>1. row \in Subscription
    BY <1>2, RowsAre DEF CountersInv
  <2> HIDE DEF row, x
  <2> QED
    BY <1>4, <2>1 DEF Subscription
<1>6. RaisingFor(i) = x /\ RaisingFor(i)' = 0
  BY <1>1 DEF RaisingFor, GoesOn
<1>7. /\ row.returnPaid + x <= e /\ row.raised.return <= row.returnPaid + x + stops * e
  BY <1>2, <1>6 DEF ReturnsInv, RowReturns
<1>8. EarnedOn(i)' = e
  <2> HIDE DEF row, new
  <2> QED
    BY <1>2, <1>5 DEF EarnedOn, row
<1>9. RowReturns(i)'
  <2> HIDE DEF row, new, e, x
  <2>1. stops * e \in Nat
    BY <1>3
  <2>2. new.returnPaid + 0 <= e /\ new.raised.return <= new.returnPaid + 0 + stops * e
    BY <1>3, <1>5, <1>7, <2>1
  <2> QED
    BY <1>2, <1>6, <1>8, <2>2 DEF RowReturns
<1>10. ASSUME NEW j \in DOMAIN book', j # i PROVE RowReturns(j)'
  <2>1. RaisingFor(j)' = RaisingFor(j)
    BY <1>1, <1>10 DEF RaisingFor, GoesOn
  <2> QED
    BY <1>1, <1>2, <1>10, <2>1, OthersReturn
<1>11. sweep'.at = "capital"
  BY <1>1 DEF GoesOn
<1> QED
  BY <1>9, <1>10, <1>11 DEF ReturnsInv

LEMMA CapitalReturns ==
  ASSUME InputsAreFigures, TermsGrowDaily, CountersInv, ReturnsInv,
         SweepReturnsCapital \/ SweepCountsCapital \/ SweepSettles
  PROVE  ReturnsInv'
<1>1. PICK row : /\ ThisMoves(row) /\ BookTyped'
                 /\ row.terms = book[This].terms /\ row.funded = book[This].funded
                 /\ row.fundedAt = book[This].fundedAt
                 /\ row.returnPaid = book[This].returnPaid
                 /\ row.raised.return = book[This].raised.return
                 /\ sweep.at # "count" /\ sweep'.at \notin {"raise", "count"}
  <2> DEFINE old == book[This]
             a == [old EXCEPT !.raised.capital = @ + sweep.position.capital]
             b == [old EXCEPT !.capitalPaid = sweep.read.funded]
             c == [old EXCEPT !.status = "completed"]
  <2>1. PICK row : ThisMoves(row) /\ BookTyped' /\ row \in {old, a, b, c}
    BY ReturnsThis, CountsCapitalOfThis, SettlesThis DEF CountersInv
  <2>2. sweep.at # "count" /\ sweep'.at \notin {"raise", "count"}
    <3>1. CASE SweepReturnsCapital
      BY <3>1, ReturnsThis DEF CountersInv, GoesOn
    <3>2. CASE SweepCountsCapital
      BY <3>2, CountsCapitalOfThis DEF CountersInv, GoesOn
    <3>3. CASE SweepSettles
      BY <3>3, SettlesThis DEF CountersInv
    <3> QED
      BY <3>1, <3>2, <3>3
  <2>3. old \in Subscription
    BY <2>1, RowsAre DEF ThisMoves, CountersInv
  <2>4. /\ row.terms = old.terms /\ row.funded = old.funded /\ row.fundedAt = old.fundedAt
        /\ row.returnPaid = old.returnPaid /\ row.raised.return = old.raised.return
    <3> HIDE DEF old
    <3> QED
      BY <2>1, <2>3 DEF Subscription
  <2> QED
    BY <2>1, <2>2, <2>4
<1> QED
  BY <1>1, QuietReturns

LEMMA EndsReturns ==
  ASSUME CountersInv, ReturnsInv, SweepEnds
  PROVE  ReturnsInv'
<1>1. sweep' = Idle /\ UNCHANGED <<book, stops, today>> /\ sweep.at = "look"
  BY EndsIdle DEF CountersInv, SweepEnds, Running
<1>2. sweep'.at = "idle"
  BY <1>1 DEF Idle
<1>3. \A i : RaisingFor(i)' = 0 /\ RaisingFor(i) = 0
  BY <1>1, <1>2 DEF RaisingFor
<1>4. \A i : EarnedOn(i)' = EarnedOn(i)
  BY <1>1 DEF EarnedOn
<1> QED
  BY <1>1, <1>2, <1>3, <1>4 DEF ReturnsInv, RowReturns

LEMMA ReturnsStep ==
  ASSUME InputsAreFigures, TermsGrowDaily, CountersInv, ReturnsInv, [InvestmentNext]_investmentVars
  PROVE  ReturnsInv'
<1>1. OutsideStep \/ SweepStep
  BY StepsAre DEF CountersInv
<1>2. CASE OutsideStep
  BY <1>2, OutsideKeepsReturns
<1>3. CASE SweepStep
  BY <1>3, EndsReturns, LooksReturns, RaisesReturns, CountsReturns, CapitalReturns DEF SweepStep
<1> QED
  BY <1>1, <1>2, <1>3

LEMMA ReturnsKept ==
  ASSUME InputsAreFigures, TermsGrowDaily
  PROVE  InvestmentSpec => [](CountersInv /\ ReturnsInv)
<1>1. InvestmentInit => CountersInv /\ ReturnsInv
  <2> SUFFICES ASSUME InvestmentInit PROVE CountersInv /\ ReturnsInv
    OBVIOUS
  <2>1. DOMAIN book = {} /\ sweep.at = "idle"
    BY DEF InvestmentInit, Idle
  <2> QED
    BY <2>1, CountersInit DEF ReturnsInv
<1>2. (CountersInv /\ ReturnsInv) /\ [InvestmentNext]_investmentVars => (CountersInv /\ ReturnsInv)'
  BY CountersStep, ReturnsStep
<1> QED
  BY <1>1, <1>2, PTL DEF InvestmentSpec

(* However often the run is repeated and wherever it stops, no return is   *)
(* raised that no release had earned and no capital that had not arrived,  *)
(* but for one payout repeated by each stop (runAccrual), where no day     *)
(* takes back what the one before it had earned.                           *)
THEOREM NothingIsRaisedTwice ==
  ASSUME TermsGrowDaily PROVE InvestmentSpec => []NothingRaisedTwice
<1> USE InvestmentAssumptions
<1>1. ASSUME CountersInv, ReturnsInv PROVE NothingRaisedTwice
  <2>1. ASSUME NEW i \in DOMAIN book
        PROVE  /\ book[i].raised.return <= (1 + stops) * EarnedOn(i)
               /\ book[i].raised.capital <= (1 + stops) * book[i].funded
    <3> DEFINE row == book[i]
               e == EarnedOn(i)
               x == RaisingFor(i)
               y == ReturningTo(i)
    <3>1. /\ row.returnPaid \in Nat /\ row.raised.return \in Nat /\ row.capitalPaid \in Nat
          /\ row.raised.capital \in Nat /\ row.funded \in Nat /\ stops \in Nat
          /\ e \in Nat /\ x \in Nat /\ y \in Nat
      BY <1>1, RowFigures, EarnedOnIsWhole, PendingIsWhole DEF CountersInv
    <3>2. row.returnPaid + x <= e /\ row.raised.return <= row.returnPaid + x + stops * e
      BY <1>1 DEF ReturnsInv, RowReturns
    <3>3. row.capitalPaid + y <= row.funded /\ row.raised.capital <= row.capitalPaid + y + stops * row.funded
      BY <1>1 DEF CountersInv, RowCounts
    <3> HIDE DEF row, e, x, y
    <3>4. /\ (1 + stops) * e = e + stops * e /\ stops * e \in Nat
          /\ (1 + stops) * row.funded = row.funded + stops * row.funded /\ stops * row.funded \in Nat
      <4>1. \A m, n \in Nat : (1 + m) * n = n + m * n /\ m * n \in Nat
        OBVIOUS
      <4> QED
        BY <3>1, <4>1
    <3>5. row.raised.return <= (1 + stops) * e /\ row.raised.capital <= (1 + stops) * row.funded
      BY <3>1, <3>2, <3>3, <3>4
    <3> QED
      BY <3>5 DEF row, e
  <2>2. \A i \in DOMAIN book :
          LET due == LastRelease(book[i].terms, book[i].fundedAt, today)
          IN  EarnedOn(i) = IF due = Never THEN 0
                            ELSE AccruedAt(book[i].terms, book[i].funded, book[i].fundedAt, due)
    BY DEF EarnedOn, Earned
  <2> QED
    BY <2>1, <2>2 DEF NothingRaisedTwice
<1>2. CountersInv /\ ReturnsInv => NothingRaisedTwice
  BY <1>1
<1> QED
  BY <1>2, ReturnsKept, PTL

-----------------------------------------------------------------------------
(* Leaving early.  Without a tenor an investment has matured the day it is *)
(* funded, and what it would earn has no end to compare with.              *)
TenorsAreStated == \A o \in Offers : o.terms.tenor > 0

LEMMA EarnedByMaturity ==
  ASSUME NEW terms, AreTerms(terms), GrowsDaily(terms), terms.tenor > 0,
         NEW p \in Nat, NEW from \in Nat, NEW d \in Nat
  PROVE  AccruedAt(terms, p, from, d) <=
           AccruedAt(terms, p, from, Maturity(terms, from))
<1> DEFINE m == Maturity(terms, from)
<1>1. m \in Nat /\ m = from + terms.tenor /\ terms.tenor \in Nat
  BY FiguresOf DEF Maturity, Greater
<1>2. CASE d <= m
  <2> HIDE DEF m
  <2> QED
    BY <1>1, <1>2, GrowsOverDays DEF m
<1>3. CASE ~(d <= m)
  <2>1. ElapsedDays(terms, from, d) = terms.tenor /\ ElapsedDays(terms, from, m) = terms.tenor
    <3> HIDE DEF m
    <3> QED
      BY <1>1, <1>3 DEF ElapsedDays, DaysBetween, Greater, Lesser
  <2>2. AccruedAt(terms, p, from, d) = AccruedAt(terms, p, from, m)
    <3> HIDE DEF m
    <3> QED
      BY <2>1 DEF AccruedAt
  <2>3. AccruedAt(terms, p, from, d) \in Nat
    <3>1. p <= p
      OBVIOUS
    <3> QED
      BY <3>1, AccruedGrowsWithPrincipal
  <2> QED
    BY <2>2, <2>3
<1> QED
  BY <1>2, <1>3

LEMMA PenaltyIsCapped ==
  ASSUME NEW terms, AreTerms(terms), NEW owed \in Nat
  PROVE  Charged(terms, owed) \in Nat /\ Charged(terms, owed) <= owed
<1>1. PenaltyOn(terms, owed) \in Nat
  <2> DEFINE part == owed * terms.penaltyValue
  <2>1. terms.penaltyValue \in Nat /\ terms.penaltyValue * 100 \in Nat
    BY FiguresOf
  <2>2. part \in Nat
    BY <2>1
  <2> HIDE DEF part
  <2>3. CeilDiv(part, 100) \in Nat
    <3>1. -part \in Int /\ -part <= 0 /\ 100 \in Nat \ {0} /\ 0 \div 100 = 0
      BY <2>2
    <3>2. (-part) \div 100 \in Int /\ (-part) \div 100 <= 0
      BY <3>1, QuotientGrows
    <3> QED
      BY <3>2 DEF CeilDiv
  <2> QED
    BY <2>1, <2>3 DEF PenaltyOn, part
<1> QED
  BY <1>1 DEF Charged, Lesser

(* Whoever leaves early gets the capital back, and with all that was paid  *)
(* before never more than who stays to the end (quoteExit), where every    *)
(* offer says how long it runs and no day takes back what the one before   *)
(* it had earned.                                                          *)
THEOREM LeavingIsNeverBetter ==
  ASSUME TermsGrowDaily, TenorsAreStated PROVE InvestmentSpec => []LeavingNeverBeatsStaying
<1> USE InvestmentAssumptions
<1>1. ASSUME CountersInv, ReturnsInv, NEW i \in DOMAIN book
      PROVE  LET this  == book[i]
                 quote == ExitQuoteFor(this, today)
                 all   == AccruedAt(this.terms, this.funded, this.fundedAt,
                                    Maturity(this.terms, this.fundedAt))
             IN  quote.allowed => quote.net >= this.funded /\ this.returnPaid + quote.net <= this.funded + all
  <2> DEFINE row == book[i]
             quote == ExitQuoteFor(row, today)
             now == AccruedAt(row.terms, row.funded, row.fundedAt, today)
             all == AccruedAt(row.terms, row.funded, row.fundedAt,
                              Maturity(row.terms, row.fundedAt))
             owed == Greater(now - row.returnPaid, 0)
             penalty == IF HasMatured(row.terms, row.fundedAt, today) THEN 0
                        ELSE Charged(row.terms, owed)
  <2>1. SUFFICES ASSUME quote.allowed
                 PROVE  quote.net >= row.funded /\ row.returnPaid + quote.net <= row.funded + all
    OBVIOUS
  <2>2. /\ row.funded \in Nat /\ row.returnPaid \in Nat /\ today \in Nat
        /\ row.fundedAt \in Nat \union {Never} /\ row.terms \in TermsOffered
    BY <1>1, RowFigures DEF CountersInv
  <2>3. /\ AreTerms(row.terms) /\ GrowsDaily(row.terms) /\ row.terms.tenor > 0
    BY <2>2, OffersAreTerms DEF TermsGrowDaily, TenorsAreStated, TermsOffered
  <2>4. row.fundedAt # Never /\ quote.net = row.funded + owed - penalty
    BY <2>1 DEF ExitQuoteFor, QuoteExit
  <2>5. now \in Nat /\ all \in Nat /\ now <= all
    <3>1. row.fundedAt \in Nat /\ row.funded <= row.funded
      BY <2>2, <2>4
    <3>2. Maturity(row.terms, row.fundedAt) \in Nat
      <4> HIDE DEF row
      <4> QED
        BY <2>2, <2>3, <3>1, ReleasesInOrder
    <3> HIDE DEF row
    <3> QED
      BY <2>2, <2>3, <3>1, <3>2, AccruedGrowsWithPrincipal, EarnedByMaturity
  <2>6. row.returnPaid <= all
    <3>1. row.fundedAt \in Nat /\ row.funded <= row.funded /\ today <= today
      BY <2>2, <2>4
    <3>2. EarnedOn(i) <= all
      <4>1. EarnedOn(i) = Earned(row.terms, row.funded, row.fundedAt, today)
        BY DEF EarnedOn
      <4> HIDE DEF row
      <4> QED
        BY <2>2, <2>3, <3>1, <4>1, EarnedGrows
    <3>3. row.returnPaid + RaisingFor(i) <= EarnedOn(i)
      BY <1>1 DEF ReturnsInv, RowReturns
    <3>4. RaisingFor(i) \in Nat /\ EarnedOn(i) \in Nat
      BY <1>1, PendingIsWhole, EarnedOnIsWhole DEF CountersInv
    <3> HIDE DEF row, all
    <3> QED
      BY <2>2, <2>5, <3>2, <3>3, <3>4
  <2> HIDE DEF now, all
  <2>7. owed \in Nat /\ row.returnPaid + owed <= all
    <3> HIDE DEF row
    <3> QED
      BY <2>2, <2>5, <2>6 DEF Greater
  <2>8. penalty \in Nat /\ penalty <= owed
    <3> HIDE DEF row, owed
    <3> QED
      BY <2>3, <2>7, PenaltyIsCapped
  <2> HIDE DEF row, owed, penalty, quote
  <2>9. quote.net >= row.funded /\ row.returnPaid + quote.net <= row.funded + all
    BY <2>2, <2>4, <2>5, <2>7, <2>8
  <2> QED
    BY <2>9
<1>2. CountersInv /\ ReturnsInv => LeavingNeverBeatsStaying
  BY <1>1, Zenon DEF LeavingNeverBeatsStaying
<1> QED
  BY <1>2, ReturnsKept, PTL

-----------------------------------------------------------------------------
(* The cap: what was subscribed, with what is being subscribed.            *)
PrincipalOf == [i \in DOMAIN book |-> book[i].principal]

TakenUp == SumFunctionOnSet(PrincipalOf, DOMAIN book)

Asking == {q \in requests : q.op = "subscribe"}

AmountOf == [q \in Asking |-> q.amount]

AskedFor == SumFunctionOnSet(AmountOf, Asking)

LargestAmount == CHOOSE a \in Amounts : \A b \in Amounts : b <= a

CapInv == \E o \in Offers : TakenUp + AskedFor <= o.cap + (MaxRequests - 1) * LargestAmount

LEMMA FiniteSetHasLargest ==
  ASSUME NEW S, IsFiniteSet(S), S \subseteq Nat, S # {}
  PROVE  \E a \in S : \A b \in S : b <= a
<1> DEFINE T == {A \in SUBSET S : A # {} => \E a \in A : \A b \in A : b <= a}
<1>1. {} \in T
  OBVIOUS
<1>2. ASSUME NEW A \in (SUBSET S) \cap T, NEW x \in S \ A PROVE A \union {x} \in T
  <2>1. CASE A = {}
    <3>1. A \union {x} = {x} /\ x <= x
      BY <2>1
    <3> QED
      BY <3>1
  <2>2. CASE A # {}
    <3>1. PICK a \in A : \A b \in A : b <= a
      BY <2>2
    <3>2. a \in Nat /\ x \in Nat /\ A \subseteq Nat
      OBVIOUS
    <3>3. CASE a <= x
      <4>1. \A b \in A \union {x} : b <= x
        BY <3>1, <3>2, <3>3
      <4> QED
        BY <4>1
    <3>4. CASE ~(a <= x)
      <4>1. \A b \in A \union {x} : b <= a
        BY <3>1, <3>2, <3>4
      <4> QED
        BY <4>1
    <3> QED
      BY <3>3, <3>4
  <2> QED
    BY <2>1, <2>2
<1>3. S \in T
  <2> HIDE DEF T
  <2> QED
    BY <1>1, <1>2, BySetInduction
<1> QED
  BY <1>3

LEMMA LargestIsLargest ==
  ASSUME InputsAreFigures
  PROVE  LargestAmount \in Nat /\ \A a \in Amounts : a \in Nat /\ a <= LargestAmount
<1>1. Amounts \subseteq Nat /\ Amounts # {} /\ IsFiniteSet(Amounts)
  BY DEF InputsAreFigures
<1>2. \E a \in Amounts : \A b \in Amounts : b <= a
  BY <1>1, FiniteSetHasLargest
<1> QED
  BY <1>1, <1>2 DEF LargestAmount

LEMMA SumIsBounded ==
  ASSUME NEW S, IsFiniteSet(S), NEW f, NEW c \in Nat, \A x \in S : f[x] \in Nat /\ f[x] <= c
  PROVE  SumFunctionOnSet(f, S) \in Nat /\ SumFunctionOnSet(f, S) <= Cardinality(S) * c
<1> DEFINE one == [x \in S |-> 1]
           most == [x \in S |-> c]
<1>1. WholeOn(f, S) /\ WholeOn(one, S) /\ WholeOn(most, S)
  BY DEF WholeOn
<1>2. SumFunctionOnSet(f, S) <= SumFunctionOnSet(most, S)
  <2>1. \A x \in S : f[x] <= most[x]
    OBVIOUS
  <2> HIDE DEF most
  <2> QED
    BY <1>1, <2>1, SumAtMost
<1>3. SumFunctionOnSet(most, S) = c * SumFunctionOnSet(one, S)
  <2>1. \A x \in S : most[x] = c * one[x]
    OBVIOUS
  <2> HIDE DEF most, one
  <2> QED
    BY <1>1, <2>1, SumOfMultiples
<1>4. SumFunctionOnSet(one, S) = Cardinality(S)
  <2>1. {x \in S : one[x] = 1} = S /\ \A x \in S : one[x] \in {0, 1}
    OBVIOUS
  <2> HIDE DEF one
  <2> QED
    BY <2>1, SumOfOnes
<1>5. SumFunctionOnSet(f, S) \in Nat
  BY SumOfPart
<1>6. Cardinality(S) \in Nat
  BY FS_CardinalityType
<1>7. c * Cardinality(S) = Cardinality(S) * c
  BY <1>6
<1> QED
  BY <1>2, <1>3, <1>4, <1>5, <1>7

LEMMA SumsOfTheCap ==
  ASSUME InputsAreFigures, BookTyped
  PROVE  /\ IsFiniteSet(DOMAIN book) /\ WholeOn(PrincipalOf, DOMAIN book)
         /\ \A i \in DOMAIN book : PrincipalOf[i] = book[i].principal /\ book[i].principal \in Nat
         /\ IsFiniteSet(Asking) /\ WholeOn(AmountOf, Asking)
         /\ \A q \in Asking : AmountOf[q] = q.amount /\ q.amount \in Amounts /\ q.amount \in Nat
         /\ Cardinality(Asking) <= Cardinality(requests)
         /\ Cardinality(Asking) \in Nat /\ Cardinality(requests) \in Nat
         /\ TakenUp \in Nat /\ AskedFor \in Nat
<1>1. Amounts \subseteq Nat
  BY DEF InputsAreFigures
<1>2. book \in Seq(Subscription) /\ IsFiniteSet(requests)
  BY DEF BookTyped
<1>3. IsFiniteSet(DOMAIN book)
  <2>1. DOMAIN book = 1..Len(book) /\ Len(book) \in Nat
    BY <1>2
  <2> QED
    BY <2>1, FS_Interval
<1>4. \A i \in DOMAIN book : PrincipalOf[i] = book[i].principal /\ book[i].principal \in Nat
  BY <1>1, RowsAre DEF PrincipalOf, Subscription
<1>5. IsFiniteSet(Asking) /\ Cardinality(Asking) <= Cardinality(requests)
  BY <1>2, FS_Subset DEF Asking
<1>6. \A q \in Asking : AmountOf[q] = q.amount /\ q.amount \in Amounts /\ q.amount \in Nat
  BY <1>1 DEF BookTyped, Asking, AmountOf, ToSubscribe, ToReview
<1>7. TakenUp \in Nat /\ AskedFor \in Nat
  BY <1>3, <1>4, <1>5, <1>6, SumOfPart DEF TakenUp, AskedFor
<1>8. Cardinality(Asking) \in Nat /\ Cardinality(requests) \in Nat
  BY <1>2, <1>5, FS_CardinalityType
<1> QED
  BY <1>3, <1>4, <1>5, <1>6, <1>7, <1>8 DEF WholeOn

(* The caps are compared with what the rows not cancelled took; none is.   *)
LEMMA TakenIsRaised ==
  ASSUME InputsAreFigures, BookTyped
  PROVE  RaisedSoFar = TakenUp
<1>1. \A i \in DOMAIN book : Committed(i) = book[i].principal
  BY RowsAre DEF Committed, Subscription
<1>2. [i \in DOMAIN book |-> Committed(i)] = PrincipalOf
  BY <1>1 DEF PrincipalOf
<1>3. RaisedSoFar = Total(PrincipalOf)
  BY <1>2 DEF RaisedSoFar
<1>4. TakenUp \in Nat
  BY SumsOfTheCap
<1>5. DOMAIN PrincipalOf = DOMAIN book
  BY DEF PrincipalOf
<1> QED
  BY <1>3, <1>4, <1>5 DEF Total, AsMinor, SumFunction, TakenUp

LEMMA SumsOfTheCapNext ==
  ASSUME InputsAreFigures, BookTyped'
  PROVE  /\ IsFiniteSet(DOMAIN book') /\ WholeOn(PrincipalOf', DOMAIN book')
         /\ \A i \in DOMAIN book' : PrincipalOf'[i] = book'[i].principal
         /\ IsFiniteSet(Asking') /\ WholeOn(AmountOf', Asking')
         /\ \A q \in Asking' : AmountOf'[q] = q.amount /\ q.amount \in Nat
<1>1. Amounts \subseteq Nat
  BY DEF InputsAreFigures
<1>2. book' \in Seq(Subscription) /\ IsFiniteSet(requests')
  BY DEF BookTyped, Subscription, TermsOffered, CompletedPayment
<1>3. IsFiniteSet(DOMAIN book')
  <2>1. DOMAIN book' = 1..Len(book') /\ Len(book') \in Nat
    BY <1>2
  <2> QED
    BY <2>1, FS_Interval
<1>4. \A i \in DOMAIN book' : PrincipalOf'[i] = book'[i].principal /\ book'[i].principal \in Nat
  <2>1. \A i \in DOMAIN book' : book'[i] \in Subscription
    BY <1>2
  <2> QED
    BY <1>1, <2>1 DEF PrincipalOf, Subscription
<1>5. IsFiniteSet(Asking')
  BY <1>2, FS_Subset DEF Asking
<1>6. \A q \in Asking' : AmountOf'[q] = q.amount /\ q.amount \in Nat
  BY <1>1 DEF BookTyped, Asking, AmountOf, ToSubscribe, ToReview, TermsOffered
<1> QED
  BY <1>3, <1>4, <1>5, <1>6 DEF WholeOn

LEMMA CapStays ==
  ASSUME InputsAreFigures, BookTyped, BookTyped', CapInv,
         DOMAIN book' = DOMAIN book, \A i \in DOMAIN book : book'[i].principal = book[i].principal,
         Asking' \subseteq Asking
  PROVE  CapInv'
<1>1. TakenUp' = TakenUp
  <2>1. \A i \in DOMAIN book : PrincipalOf'[i] = PrincipalOf[i]
    BY SumsOfTheCap, SumsOfTheCapNext
  <2>2. SumFunctionOnSet(PrincipalOf, DOMAIN book) = SumFunctionOnSet(PrincipalOf', DOMAIN book)
    BY <2>1, SumsOfTheCap, SumAgrees
  <2> QED
    BY <2>2 DEF TakenUp
<1>2. AskedFor' <= AskedFor /\ AskedFor' \in Nat
  <2>1. \A q \in Asking' : AmountOf'[q] = AmountOf[q]
    BY SumsOfTheCap, SumsOfTheCapNext
  <2>2. WholeOn(AmountOf, Asking')
    BY SumsOfTheCap DEF WholeOn
  <2>3. SumFunctionOnSet(AmountOf, Asking') = SumFunctionOnSet(AmountOf', Asking')
    BY <2>1, <2>2, SumsOfTheCapNext, SumAgrees
  <2>4. /\ SumFunctionOnSet(AmountOf, Asking') \in Nat
        /\ SumFunctionOnSet(AmountOf, Asking') <= SumFunctionOnSet(AmountOf, Asking)
    BY SumsOfTheCap, SumOfPart
  <2> QED
    BY <2>3, <2>4 DEF AskedFor
<1>3. PICK o \in Offers : TakenUp + AskedFor <= o.cap + (MaxRequests - 1) * LargestAmount
  BY DEF CapInv
<1> DEFINE most == o.cap + (MaxRequests - 1) * LargestAmount
<1>4. most \in Int
  <2>1. o.cap \in Nat /\ MaxRequests \in Nat /\ LargestAmount \in Nat
    BY LargestIsLargest DEF InputsAreFigures
  <2> QED
    BY <2>1
<1>5. TakenUp \in Nat /\ AskedFor \in Nat
  BY SumsOfTheCap
<1> HIDE DEF most
<1>6. TakenUp + AskedFor <= most
  BY <1>3 DEF most
<1>7. TakenUp' + AskedFor' <= most
  <2>1. AskedFor' \in Nat /\ AskedFor' <= AskedFor /\ TakenUp' \in Nat /\ TakenUp' <= TakenUp
    BY <1>1, <1>2, <1>5
  <2>2. \A a, b, c, d \in Nat : \A m \in Int : a <= b /\ c <= d /\ b + d <= m => a + c <= m
    OBVIOUS
  <2>3. TakenUp' \in Nat /\ TakenUp \in Nat /\ AskedFor' \in Nat /\ AskedFor \in Nat
    BY <1>5, <2>1
  <2> QED
    BY <1>4, <1>6, <2>1, <2>2, <2>3, Zenon
<1> QED
  BY <1>7 DEF CapInv, most, LargestAmount

LEMMA SubscribeReadsCap ==
  ASSUME InputsAreFigures, \A o \in Offers : o.cap # 0, BookTyped, BookTyped', CapInv,
         SubscribeReads
  PROVE  CapInv'
<1>1. PICK amount \in Amounts :
        /\ SubscriptionWindow(amount)
        /\ Admit([op |-> "subscribe", amount |-> amount, terms |-> offer.terms,
                         nth |-> Cardinality(requests)])
  BY DEF SubscribeReads
<1> DEFINE q == [op |-> "subscribe", amount |-> amount, terms |-> offer.terms,
                 nth |-> Cardinality(requests)]
<1>2. /\ Cardinality(requests) < MaxRequests /\ q \notin requests
      /\ requests' = requests \union {q} /\ UNCHANGED book
  BY <1>1 DEF Admit
<1>3. q.op = "subscribe" /\ q.amount = amount
  OBVIOUS
<1> HIDE DEF q
<1>4. Asking' = Asking \union {q} /\ q \notin Asking
  BY <1>2, <1>3 DEF Asking
<1>5. AskedFor' = AskedFor + amount
  <2>1. \A r \in Asking' : AmountOf'[r] = r.amount /\ r.amount \in Nat
    BY SumsOfTheCapNext
  <2>2. SumFunctionOnSet(AmountOf', Asking \union {q}) = SumFunctionOnSet(AmountOf', Asking) + AmountOf'[q]
    <3>1. PICK f, S : f = AmountOf' /\ S = Asking
      OBVIOUS
    <3>2. IsFiniteSet(S) /\ WholeOn(f, S \union {q}) /\ q \notin S
      BY <1>4, <3>1, SumsOfTheCap, SumsOfTheCapNext
    <3>3. SumFunctionOnSet(f, S \union {q}) = SumFunctionOnSet(f, S) + f[q]
      BY <3>2, SumWith
    <3> QED
      BY <3>1, <3>3
  <2>3. SumFunctionOnSet(AmountOf, Asking) = SumFunctionOnSet(AmountOf', Asking)
    <3>1. \A r \in Asking : AmountOf'[r] = AmountOf[r]
      BY <1>4, <2>1, SumsOfTheCap
    <3> QED
      BY <3>1, SumsOfTheCap, SumAgrees
  <2>4. AmountOf'[q] = amount
    BY <1>3, <1>4, <2>1
  <2> QED
    BY <1>4, <2>2, <2>3, <2>4 DEF AskedFor
<1>6. TakenUp' = TakenUp
  BY <1>2 DEF TakenUp, PrincipalOf
<1>7. offer \in Offers /\ offer.cap \in Nat /\ offer.cap # 0
  BY DEF BookTyped, InputsAreFigures
<1>8. amount <= offer.cap - TakenUp
  BY <1>1, <1>7, TakenIsRaised DEF SubscriptionWindow
<1>9. AskedFor <= (MaxRequests - 1) * LargestAmount
  <2> DEFINE n == Cardinality(Asking)
  <2>1. n \in Nat /\ n <= MaxRequests - 1 /\ MaxRequests - 1 \in Nat
    BY <1>2, SumsOfTheCap DEF InputsAreFigures
  <2>2. AskedFor <= n * LargestAmount
    BY SumsOfTheCap, LargestIsLargest, SumIsBounded DEF AskedFor
  <2>3. LargestAmount \in Nat /\ AskedFor \in Nat
    BY SumsOfTheCap, LargestIsLargest
  <2> HIDE DEF n
  <2>4. LargestAmount <= LargestAmount
    BY <2>3
  <2>5. n * LargestAmount <= (MaxRequests - 1) * LargestAmount /\ n * LargestAmount \in Nat
        /\ (MaxRequests - 1) * LargestAmount \in Nat
    BY <2>1, <2>3, <2>4, ProductsGrow
  <2> QED
    BY <2>2, <2>3, <2>5
<1> DEFINE over == (MaxRequests - 1) * LargestAmount
<1>10. TakenUp \in Nat /\ AskedFor \in Nat /\ amount \in Nat /\ over \in Int
  BY SumsOfTheCap, LargestIsLargest DEF InputsAreFigures
<1> HIDE DEF over
<1>11. AskedFor <= over
  BY <1>9 DEF over
<1>12. TakenUp' + AskedFor' <= offer.cap + over
  BY <1>5, <1>6, <1>7, <1>8, <1>10, <1>11
<1> QED
  BY <1>7, <1>12 DEF CapInv, over, LargestAmount

LEMMA SubscribeCap ==
  ASSUME InputsAreFigures, BookTyped, BookTyped', CapInv, Subscribe
  PROVE  CapInv'
<1>1. PICK q \in requests : Subscribe!(q)
  BY DEF Subscribe
<1> DEFINE row == [status |-> "pending", cashOut |-> "not_requested", terms |-> q.terms,
                   principal |-> q.amount, funded |-> 0, fundedAt |-> Never,
                   returnPaid |-> 0, capitalPaid |-> 0, payments |-> {},
                   raised |-> [return |-> 0, capital |-> 0]]
           n == Len(book)
<1>2. q.op = "subscribe" /\ requests' = requests \ {q} /\ book' = Append(book, row)
  BY <1>1 DEF Served
<1>3. row.principal = q.amount
  OBVIOUS
<1> HIDE DEF row
<1>4. /\ n \in Nat /\ DOMAIN book = 1..n /\ DOMAIN book' = 1..(n + 1)
      /\ \A i \in 1..n : book'[i] = book[i]
      /\ book'[n + 1] = row
  <2>1. book \in Seq(Subscription)
    BY DEF BookTyped
  <2> QED
    BY <1>2, <2>1
<1>5. DOMAIN book' = DOMAIN book \union {n + 1} /\ n + 1 \notin DOMAIN book
  BY <1>4
<1>6. q \in Asking /\ Asking' = Asking \ {q}
  BY <1>2 DEF Asking
<1>7. q.amount \in Nat
  BY <1>6, SumsOfTheCap
<1>8. TakenUp' = TakenUp + q.amount
  <2>1. \A i \in DOMAIN book' : PrincipalOf'[i] = book'[i].principal
    BY SumsOfTheCapNext
  <2>2. SumFunctionOnSet(PrincipalOf', DOMAIN book \union {n + 1})
          = SumFunctionOnSet(PrincipalOf', DOMAIN book) + PrincipalOf'[n + 1]
    <3>1. PICK f, S, x : f = PrincipalOf' /\ S = DOMAIN book /\ x = n + 1
      OBVIOUS
    <3>2. IsFiniteSet(S) /\ WholeOn(f, S \union {x}) /\ x \notin S
      BY <1>5, <3>1, SumsOfTheCap, SumsOfTheCapNext
    <3>3. SumFunctionOnSet(f, S \union {x}) = SumFunctionOnSet(f, S) + f[x]
      BY <3>2, SumWith
    <3> QED
      BY <3>1, <3>3
  <2>3. SumFunctionOnSet(PrincipalOf, DOMAIN book) = SumFunctionOnSet(PrincipalOf', DOMAIN book)
    <3>1. \A i \in DOMAIN book : PrincipalOf'[i] = PrincipalOf[i]
      BY <1>4, <1>5, <2>1, SumsOfTheCap
    <3> QED
      BY <3>1, SumsOfTheCap, SumAgrees
  <2>4. PrincipalOf'[n + 1] = q.amount
    BY <1>3, <1>4, <1>5, <2>1
  <2> QED
    BY <1>5, <2>2, <2>3, <2>4 DEF TakenUp
<1>9. AskedFor = q.amount + AskedFor'
  <2>1. SumFunctionOnSet(AmountOf, Asking) = AmountOf[q] + SumFunctionOnSet(AmountOf, Asking \ {q})
    BY <1>6, SumsOfTheCap, SumWithout
  <2>2. SumFunctionOnSet(AmountOf', Asking \ {q}) = SumFunctionOnSet(AmountOf, Asking \ {q})
    <3>1. \A r \in Asking \ {q} : AmountOf[r] = AmountOf'[r]
      BY <1>6, SumsOfTheCap, SumsOfTheCapNext
    <3>2. IsFiniteSet(Asking \ {q}) /\ WholeOn(AmountOf', Asking \ {q})
      BY <1>6, SumsOfTheCapNext
    <3> QED
      BY <3>1, <3>2, SumAgrees
  <2>3. AmountOf[q] = q.amount
    BY <1>6, SumsOfTheCap
  <2> QED
    BY <1>6, <2>1, <2>2, <2>3 DEF AskedFor
<1>10. TakenUp \in Nat /\ AskedFor \in Nat /\ AskedFor' \in Int
  <2>1. AskedFor' \in Int
    BY SumsOfTheCapNext, SumIsInteger DEF AskedFor
  <2> QED
    BY <2>1, SumsOfTheCap
<1>11. TakenUp' + AskedFor' = TakenUp + AskedFor
  BY <1>7, <1>8, <1>9, <1>10
<1> QED
  BY <1>11 DEF CapInv, LargestAmount

LEMMA NobodyAsks ==
  ASSUME BookTyped, InvestmentNext, ~Subscribe, ~SubscribeReads, ~SweepStep
  PROVE  DOMAIN book' = DOMAIN book /\ Asking' \subseteq Asking
<1>1. CASE EditPlan \/ SweepStarts \/ NextDay
  BY <1>1 DEF EditPlan, SweepStarts, NextDay, Asking
<1>2. CASE \/ ApprovePayment \/ SyncFunding \/ EditInvestment
           \/ ActivateInvestment \/ RequestCashOut
  <2>1. requests' = requests
    BY <1>2 DEF ApprovePayment, SyncFunding, EditInvestment,
                ActivateInvestment, RequestCashOut
  <2>2. \E i, row : book' = [book EXCEPT ![i] = row]
    <3>1. CASE ApprovePayment
      BY <3>1 DEF ApprovePayment
    <3>2. CASE SyncFunding
      BY <3>2 DEF SyncFunding
    <3>3. CASE EditInvestment
      <4>1. PICK i \in Subjects, amount \in Amounts : EditInvestment!(i, amount)
        BY <3>3 DEF EditInvestment
      <4> DEFINE row == [book[i] EXCEPT !.funded = amount, !.status = "active",
                                        !.fundedAt = IF @ = Never THEN today ELSE @]
      <4>2. book' = [book EXCEPT ![i] = row]
        BY <4>1 DEF Subjects
      <4> HIDE DEF row
      <4> QED
        BY <4>2
    <3>4. CASE ActivateInvestment
      BY <3>4 DEF ActivateInvestment
    <3>5. CASE RequestCashOut
      BY <3>5 DEF RequestCashOut
    <3> QED
      BY <1>2, <3>1, <3>2, <3>3, <3>4, <3>5
  <2>3. DOMAIN book' = DOMAIN book
    BY <2>2
  <2> QED
    BY <2>1, <2>3 DEF Asking
<1>3. CASE ReviewReads
  <2>1. PICK i \in Subjects, op \in {"approve", "reject"} : Admit([op |-> op, id |-> i])
    BY <1>3 DEF ReviewReads
  <2>2. requests' = requests \union {[op |-> op, id |-> i]} /\ UNCHANGED book
    BY <2>1 DEF Admit
  <2> QED
    BY <2>2 DEF Asking
<1>4. CASE ApproveCashOut
  <2>1. PICK q \in requests : ApproveCashOut!(q)
    BY <1>4 DEF ApproveCashOut
  <2> DEFINE row == [book[q.id] EXCEPT !.cashOut = "paid", !.status = "completed"]
  <2>2. q.id \in DOMAIN book
    BY <2>1 DEF BookTyped, ToSubscribe, ToReview
  <2>3. book' = [book EXCEPT ![q.id] = row] /\ requests' = requests \ {q}
    BY <2>1, <2>2 DEF Served
  <2> HIDE DEF row
  <2> QED
    BY <2>3 DEF Asking
<1>5. CASE RejectCashOut
  <2>1. PICK q \in requests : RejectCashOut!(q)
    BY <1>5 DEF RejectCashOut
  <2>2. DOMAIN book' = DOMAIN book /\ requests' = requests \ {q}
    BY <2>1 DEF Served
  <2> QED
    BY <2>2 DEF Asking
<1>6. CASE Stop
  BY <1>6 DEF Stop, Asking
<1> QED
  BY <1>1, <1>2, <1>3, <1>4, <1>5, <1>6 DEF InvestmentNext

LEMMA SweepTakesNothing ==
  ASSUME CountersInv, SweepStep
  PROVE  /\ DOMAIN book' = DOMAIN book /\ Asking' = Asking
         /\ \A i \in DOMAIN book : book'[i].principal = book[i].principal
<1>1. CASE SweepEnds
  BY <1>1, EndsIdle DEF CountersInv, Asking
<1>2. CASE ~SweepEnds
  <2> DEFINE old == book[This]
             a == [old EXCEPT !.raised.capital = @ + sweep.position.capital]
             b == [old EXCEPT !.capitalPaid = sweep.read.funded]
             c == [old EXCEPT !.status = "completed"]
             d == [old EXCEPT !.raised.return = @ + sweep.position.releasable]
             e == [old EXCEPT !.returnPaid = sweep.read.returnPaid + sweep.position.releasable]
  <2>1. PICK row : ThisMoves(row) /\ row \in {old, a, b, c, d, e}
    <3>1. CASE SweepLooks
      BY <3>1, LooksAt DEF CountersInv
    <3>2. CASE SweepRaises
      BY <3>2, RaisesThis DEF CountersInv
    <3>3. CASE SweepCounts
      BY <3>3, CountsThis DEF CountersInv
    <3>4. CASE SweepReturnsCapital
      BY <3>4, ReturnsThis DEF CountersInv
    <3>5. CASE SweepCountsCapital
      BY <3>5, CountsCapitalOfThis DEF CountersInv
    <3>6. CASE SweepSettles
      BY <3>6, SettlesThis DEF CountersInv
    <3> QED
      BY <1>2, <3>1, <3>2, <3>3, <3>4, <3>5, <3>6 DEF SweepStep
  <2>2. old \in Subscription
    BY <2>1, RowsAre DEF ThisMoves, CountersInv
  <2>3. row.principal = old.principal
    <3> HIDE DEF old
    <3> QED
      BY <2>1, <2>2 DEF Subscription
  <2> HIDE DEF a, b, c, d, e
  <2> QED
    BY <2>1, <2>3 DEF ThisMoves, Asking
<1> QED
  BY <1>1, <1>2

LEMMA CapStep ==
  ASSUME InputsAreFigures, \A o \in Offers : o.cap # 0, CountersInv, CapInv,
         [InvestmentNext]_investmentVars
  PROVE  CapInv'
<1>1. BookTyped /\ BookTyped'
  BY CountersStep DEF CountersInv
<1>2. CASE SubscribeReads
  BY <1>1, <1>2, SubscribeReadsCap
<1>3. CASE Subscribe
  BY <1>1, <1>3, SubscribeCap
<1>4. CASE SweepStep
  BY <1>1, <1>4, SweepTakesNothing, CapStays
<1>5. CASE InvestmentNext /\ ~Subscribe /\ ~SubscribeReads /\ ~SweepStep
  <2>1. DOMAIN book' = DOMAIN book /\ Asking' \subseteq Asking
    BY <1>1, <1>5, NobodyAsks
  <2>2. \A i \in DOMAIN book : book'[i].principal = book[i].principal
    BY <1>1, <1>5, StepsAre DEF OutsideStep, CountsKept
  <2> QED
    BY <1>1, <2>1, <2>2, CapStays
<1>6. CASE UNCHANGED investmentVars
  <2>1. UNCHANGED <<book, requests>>
    BY <1>6 DEF investmentVars
  <2> QED
    BY <1>1, <2>1, CapStays DEF Asking
<1> QED
  BY <1>2, <1>3, <1>4, <1>5, <1>6

(* However many subscribe together, what was subscribed passes the highest *)
(* cap by no more than one subscription for each of the others             *)
(* (subscriptionWindow is asked before the row is written).                *)
THEOREM CapIsKept == InvestmentSpec => []CapKeptButForOverlap
<1> USE InvestmentAssumptions
<1> DEFINE HasCap == \A o \in Offers : o.cap # 0
           Inv == CountersInv /\ (HasCap => CapInv)
<1>1. InvestmentInit => Inv
  <2> SUFFICES ASSUME InvestmentInit, HasCap PROVE CapInv
    BY CountersInit
  <2>1. BookTyped /\ book = <<>> /\ requests = {} /\ offer \in Offers
    BY CountersInit DEF CountersInv, InvestmentInit
  <2>2. DOMAIN book = {} /\ Asking = {}
    BY <2>1 DEF Asking
  <2>3. TakenUp = 0 /\ AskedFor = 0
    BY <2>2, SumOfNone DEF TakenUp, AskedFor
  <2>4. offer.cap \in Nat /\ (MaxRequests - 1) * LargestAmount \in Nat
    <3>1. MaxRequests - 1 \in Nat /\ LargestAmount \in Nat
      BY LargestIsLargest DEF InputsAreFigures
    <3> QED
      BY <2>1, <3>1 DEF InputsAreFigures
  <2> QED
    BY <2>1, <2>3, <2>4 DEF CapInv
<1>2. Inv /\ [InvestmentNext]_investmentVars => Inv'
  BY CountersStep, CapStep
<1>3. ASSUME Inv PROVE CapKeptButForOverlap
  <2> DEFINE caps == {o.cap : o \in Offers}
             taken == Total([i \in DOMAIN book |->
                        IF book[i].status = "cancelled" THEN 0 ELSE book[i].principal])
             largest == CHOOSE a \in Amounts : \A b \in Amounts : b <= a
  <2>1. SUFFICES ASSUME 0 \notin caps PROVE \E cap \in caps : taken <= cap + (MaxRequests - 1) * largest
    BY DEF CapKeptButForOverlap
  <2>2. HasCap
    BY <2>1
  <2>3. taken = TakenUp
    BY <1>3, TakenIsRaised DEF CountersInv, RaisedSoFar, Committed
  <2>4. PICK o \in Offers : TakenUp + AskedFor <= o.cap + (MaxRequests - 1) * LargestAmount
    BY <1>3, <2>2 DEF CapInv
  <2>5. TakenUp \in Nat /\ AskedFor \in Nat /\ LargestAmount \in Nat
    BY <1>3, SumsOfTheCap, LargestIsLargest DEF CountersInv
  <2>6. largest = LargestAmount
    BY DEF LargestAmount
  <2> HIDE DEF taken, largest
  <2>7. o.cap + (MaxRequests - 1) * LargestAmount \in Int
    <3>1. MaxRequests \in Nat /\ o.cap \in Nat
      BY DEF InputsAreFigures
    <3> QED
      BY <2>5, <3>1
  <2> DEFINE most == o.cap + (MaxRequests - 1) * LargestAmount
  <2> HIDE DEF most
  <2>8. TakenUp <= most
    BY <2>4, <2>5, <2>7 DEF most
  <2> QED
    BY <2>3, <2>6, <2>8 DEF most
<1>4. Inv => CapKeptButForOverlap
  BY <1>3
<1> QED
  BY <1>1, <1>2, <1>4, PTL DEF InvestmentSpec

=============================================================================
