------------------------ MODULE GeneralLedger_proofs ------------------------
(***************************************************************************)
(* What holds of GeneralLedger for every chart, every family of events,    *)
(* rules and journals, and every bound.                                    *)
(***************************************************************************)
EXTENDS GeneralLedger, Money_proofs, FiniteSetTheorems, SequenceTheorems, TLAPS

(* What post is about to write is one entry at most, with the key and the  *)
(* month asked for, not there yet, in a month that is not closed.          *)
LEMMA PostResult ==
  ASSUME NEW s, NEW key, NEW m, NEW lines, NEW n \in Post(s, key, m, lines)
  PROVE  /\ n.key = key
         /\ n.month = m
         /\ \A other \in Post(s, key, m, lines) : other = n
         /\ ~Posted(key)
         /\ ~Closed(m)
  BY DEF Post

-----------------------------------------------------------------------------
(* The key of an entry is that of its event, in the month the event is     *)
(* recorded with, or of the reversal of one entry, or carries no promise.  *)
EventKey(e, m) == Key(RuleOf[e], e, LinesOf[e], m)

OtherKey(key) == key[1] \in {"manual", "year_end"} \/ key = <<"reversal", key[2]>>

Keyed(n) ==
  \/ OtherKey(n.key)
  \/ \E e \in Event : happened[e] # 0 /\ n.key = EventKey(e, happened[e])

KeysUnique == \A n1, n2 \in entries : n1.key = n2.key => n1 = n2

(* What a request has read: one entry at most; if it posts an event, the   *)
(* event's, in the month the event has or is about to have.                *)
RequestKeyed(r) ==
  /\ r = Request(r.kind, r.service, r.event, r.month, r.new)
  /\ \A n1, n2 \in r.new : n1 = n2
  /\ r.kind = "event" =>
       /\ r.event \in Event
       /\ r.month \in Month
       /\ happened[r.event] \in {0, r.month}
       /\ \A n \in r.new : n.key = EventKey(r.event, r.month)
  /\ r.kind # "event" => \A n \in r.new : OtherKey(n.key)

(* Two requests that post one event at once agree on its month.            *)
MonthsAgree ==
  \A r1, r2 \in inFlight :
    r1.kind = "event" /\ r2.kind = "event" /\ r1.event = r2.event => r1.month = r2.month

KeysInv ==
  /\ happened \in [Event -> Nat]
  /\ KeysUnique
  /\ \A n \in entries : Keyed(n)
  /\ \A r \in inFlight : RequestKeyed(r)
  /\ MonthsAgree

LEMMA MonthsAreNumbers == \A m \in Month : m \in Nat /\ m # 0
  BY BoundsAreNatural DEF Month

LEMMA KeysInit == Init => KeysInv
  BY DEF Init, KeysInv, KeysUnique, MonthsAgree

(* Unique keys that follow the events leave one entry per event.           *)
LEMMA KeysGivePostedOnce == KeysInv => PostedOnce
<1> SUFFICES ASSUME KeysInv, NEW n1 \in entries, NEW n2 \in entries,
                    n1.key[1] = n2.key[1], n1.key[2] = n2.key[2],
                    n1.key[1] \notin {"manual", "year_end"}
             PROVE  n1 = n2
  BY DEF PostedOnce
<1>1. Keyed(n1) /\ Keyed(n2)
  BY DEF KeysInv
<1>2. CASE OtherKey(n1.key) /\ OtherKey(n2.key)
  BY <1>2 DEF OtherKey, KeysInv, KeysUnique
<1>3. ASSUME NEW e1 \in Event, n1.key = EventKey(e1, happened[e1]),
             NEW e2 \in Event, n2.key = EventKey(e2, happened[e2])
      PROVE  n1 = n2
  <2>1. e1 = e2
    BY <1>3 DEF EventKey, Key
  <2> QED
    BY <1>3, <2>1 DEF KeysInv, KeysUnique
<1>4. ASSUME NEW e \in Event, NEW n, NEW other,
             n.key = EventKey(e, happened[e]), OtherKey(other.key), other.key[1] = n.key[1]
      PROVE  FALSE
  BY <1>4, EventsAreDocuments DEF DocumentRules, EventKey, Key, OtherKey
<1> QED
  BY <1>1, <1>2, <1>3, <1>4 DEF Keyed

(* A step that writes one new entry with a key nobody has keeps keys       *)
(* unique.                                                                 *)
LEMMA InsertKeepsUnique ==
  ASSUME KeysUnique, NEW new, \A n1, n2 \in new : n1 = n2,
         entries' \subseteq entries \union {n \in new : ~Posted(n.key)}
  PROVE  KeysUnique'
  BY DEF KeysUnique, Posted

LEMMA RecordEventKeepsKeys ==
  ASSUME KeysInv, NEW e \in Event, NEW m \in Month, RecordEvent(e, m)
  PROVE  KeysInv'
<1>0. PICK new : new = PostEvent(e, m)
  OBVIOUS
<1> DEFINE request == Request("event", ServiceOf[e], e, m, new)
<1>1. m \in Nat /\ m # 0
  BY MonthsAreNumbers
<1>2. entries' = entries /\ inFlight' = inFlight \union {request}
  BY <1>0 DEF RecordEvent, Ask
<1>3. happened' \in [Event -> Nat] /\ \A x \in Event : \/ happened'[x] = happened[x]
                                                       \/ (x = e /\ happened'[x] = m)
  BY <1>1 DEF RecordEvent, KeysInv
<1>4. happened[e] \in {0, m}
  BY DEF RecordEvent, Unrecorded
<1>5. \A x \in Event : happened[x] # 0 => happened'[x] = happened[x]
  BY <1>3, <1>4
<1>6. \A r \in inFlight : r.kind = "event" /\ r.event = e => r.month = m
  <2> SUFFICES ASSUME NEW r \in inFlight, r.kind = "event", r.event = e
               PROVE  r.month = m
    OBVIOUS
  <2>1. happened[e] = m
    BY DEF RecordEvent, Unrecorded
  <2> QED
    BY <1>1, <2>1 DEF KeysInv, RequestKeyed
<1>7. RequestKeyed(request)'
  <2>1. \A n \in new : n.key = EventKey(e, m)
    BY <1>0, PostResult DEF PostEvent, EventKey
  <2>2. \A n1, n2 \in new : n1 = n2
    BY <1>0, PostResult DEF PostEvent
  <2>3. happened'[e] \in {0, m}
    BY <1>3, <1>4
  <2> QED
    BY <2>1, <2>2, <2>3 DEF RequestKeyed, Request, EventKey
<1>8. \A r \in inFlight : RequestKeyed(r)'
  <2> SUFFICES ASSUME NEW r \in inFlight PROVE RequestKeyed(r)'
    OBVIOUS
  <2>1. r.kind = "event" => happened'[r.event] \in {0, r.month}
    BY <1>3, <1>6 DEF KeysInv, RequestKeyed
  <2> QED
    BY <2>1 DEF KeysInv, RequestKeyed, EventKey
<1>9. MonthsAgree'
  BY <1>2, <1>6 DEF MonthsAgree, KeysInv, Request
<1>10. \A n \in entries' : Keyed(n)'
  BY <1>2, <1>5 DEF KeysInv, Keyed, EventKey
<1>11. KeysUnique'
  BY <1>2 DEF KeysInv, KeysUnique
<1> QED
  BY <1>2, <1>3, <1>7, <1>8, <1>9, <1>10, <1>11 DEF KeysInv

LEMMA CommitKeepsKeys ==
  ASSUME KeysInv, NEW r \in inFlight, Commit(r)
  PROVE  KeysInv'
<1>1. RequestKeyed(r)
  BY DEF KeysInv
<1>2. entries' = Inserted(r.new) /\ inFlight' = inFlight \ {r}
  BY DEF Commit
<1>3. /\ happened' \in [Event -> Nat]
      /\ \A x \in Event : happened[x] # 0 => happened'[x] = happened[x]
      /\ r.kind = "event" => happened'[r.event] = r.month
      /\ \A x \in Event : happened'[x] = happened[x] \/ (r.kind = "event" /\ x = r.event)
  BY <1>1, MonthsAreNumbers DEF Commit, KeysInv, RequestKeyed
<1>4. \A q \in inFlight : RequestKeyed(q)'
  <2> SUFFICES ASSUME NEW q \in inFlight PROVE RequestKeyed(q)'
    OBVIOUS
  <2>1. q.kind = "event" => happened'[q.event] \in {0, q.month}
    BY <1>3 DEF KeysInv, RequestKeyed, MonthsAgree
  <2> QED
    BY <2>1 DEF KeysInv, RequestKeyed, EventKey
<1>5. KeysUnique'
  BY <1>1, <1>2, InsertKeepsUnique DEF KeysInv, RequestKeyed, Inserted
<1>6. \A n \in entries : Keyed(n)'
  BY <1>3 DEF KeysInv, Keyed, EventKey
<1>7. \A n \in r.new : Keyed(n)'
  BY <1>1, <1>3, MonthsAreNumbers DEF RequestKeyed, Keyed, EventKey
<1>8. MonthsAgree'
  BY <1>2 DEF KeysInv, MonthsAgree
<1> QED
  BY <1>2, <1>3, <1>4, <1>5, <1>6, <1>7, <1>8 DEF KeysInv, Inserted

(* A request that is no event's joins with an entry that is no event's.    *)
LEMMA AskKeepsKeys ==
  ASSUME KeysInv, NEW kind, kind # "event", NEW s, NEW e, NEW m, NEW new,
         \A n1, n2 \in new : n1 = n2, \A n \in new : OtherKey(n.key),
         Ask(kind, s, e, m, new), UNCHANGED <<entries, happened>>
  PROVE  KeysInv'
<1>1. inFlight' = inFlight \union {Request(kind, s, e, m, new)}
  BY DEF Ask
<1>2. RequestKeyed(Request(kind, s, e, m, new))'
  BY DEF RequestKeyed, Request, OtherKey
<1>3. \A r \in inFlight : RequestKeyed(r)'
  BY DEF KeysInv, RequestKeyed, EventKey
<1>4. MonthsAgree'
  BY <1>1 DEF KeysInv, MonthsAgree, Request
<1>5. \A n \in entries' : Keyed(n)'
  BY DEF KeysInv, Keyed, EventKey
<1>6. KeysUnique'
  BY DEF KeysInv, KeysUnique
<1> QED
  BY <1>1, <1>2, <1>3, <1>4, <1>5, <1>6 DEF KeysInv

LEMMA PostYearEndKeepsKeys ==
  ASSUME KeysInv, NEW r \in inFlight, PostYearEnd(r)
  PROVE  KeysInv'
<1> DEFINE new == Post("finance", YearEndKey(r.month), r.month, YearEndLines(r.month))
           next == [r EXCEPT !.kind = "close"]
<1>1. /\ entries' = entries \union new
      /\ inFlight' \subseteq (inFlight \ {r}) \union {next}
      /\ happened' = happened
      /\ r.kind = "year_end"
  BY DEF PostYearEnd
<1>2. \A n \in new : n.key[1] = "year_end" /\ ~Posted(n.key)
  BY PostResult DEF YearEndKey, Key
<1>3. \A n1, n2 \in new : n1 = n2
  BY PostResult
<1> HIDE DEF new
<1>4. KeysUnique'
  BY <1>1, <1>2, <1>3, InsertKeepsUnique DEF KeysInv
<1>5. \A n \in entries' : Keyed(n)'
  BY <1>1, <1>2 DEF KeysInv, Keyed, OtherKey, EventKey
<1>6. RequestKeyed(r)
  BY DEF KeysInv
<1>7. next = Request("close", r.service, r.event, r.month, r.new)
  BY <1>6 DEF RequestKeyed, Request
<1>8. RequestKeyed(next)'
  BY <1>1, <1>6, <1>7 DEF RequestKeyed, Request, OtherKey
<1>9. \A q \in inFlight : RequestKeyed(q)'
  BY <1>1 DEF KeysInv, RequestKeyed, EventKey
<1>10. MonthsAgree'
  BY <1>1, <1>7 DEF KeysInv, MonthsAgree, Request
<1> QED
  BY <1>1, <1>4, <1>5, <1>8, <1>9, <1>10 DEF KeysInv

LEMMA KeysStep == KeysInv /\ [Next]_vars => KeysInv'
<1> SUFFICES ASSUME KeysInv, [Next]_vars PROVE KeysInv'
  OBVIOUS
<1>0. ASSUME UNCHANGED <<entries, happened>>, inFlight' \subseteq inFlight
      PROVE  KeysInv'
  <2>1. \A r \in inFlight : RequestKeyed(r)'
    BY <1>0 DEF KeysInv, RequestKeyed, EventKey
  <2>2. MonthsAgree' /\ KeysUnique'
    BY <1>0 DEF KeysInv, MonthsAgree, KeysUnique
  <2>3. \A n \in entries' : Keyed(n)'
    BY <1>0 DEF KeysInv, Keyed, EventKey
  <2> QED
    BY <1>0, <2>1, <2>2, <2>3 DEF KeysInv
<1>1. ASSUME NEW e \in Event, NEW m \in Month, RecordEvent(e, m) PROVE KeysInv'
  BY <1>1, RecordEventKeepsKeys
<1>2. ASSUME NEW lines \in ManualLines, NEW m \in Month, WriteManualJournal(lines, m)
      PROVE  KeysInv'
  <2>1. PICK new : new = Post("finance", Key("manual", NoEvent, lines, m), m, lines)
    OBVIOUS
  <2>2. \A n \in new : n.key = Key("manual", NoEvent, lines, m)
    BY <2>1, PostResult
  <2>3. \A n \in new : OtherKey(n.key)
    BY <2>2 DEF OtherKey, Key
  <2>4. \A n1, n2 \in new : n1 = n2
    BY <2>1, PostResult
  <2>5. Ask("journal", "finance", NoEvent, m, new) /\ UNCHANGED <<entries, happened>>
    BY <1>2, <2>1 DEF WriteManualJournal
  <2> QED
    BY <2>3, <2>4, <2>5, AskKeepsKeys
<1>3. ASSUME NEW n \in entries, NEW m \in Month, ReverseEntry(n, m) PROVE KeysInv'
  <2>1. PICK new : new = Post("finance", ReversalKey(n.key, m), m, Swapped(n.lines))
    OBVIOUS
  <2>2. \A x \in new : OtherKey(x.key)
    BY <2>1, PostResult DEF OtherKey, ReversalKey
  <2>3. \A n1, n2 \in new : n1 = n2
    BY <2>1, PostResult
  <2>4. Ask("journal", "finance", NoEvent, m, new) /\ UNCHANGED <<entries, happened>>
    BY <1>3, <2>1 DEF ReverseEntry
  <2> QED
    BY <2>2, <2>3, <2>4, AskKeepsKeys
<1>4. ASSUME NEW r \in inFlight, Commit(r) PROVE KeysInv'
  BY <1>4, CommitKeepsKeys
<1>5. ASSUME NEW r \in inFlight, PostYearEnd(r) PROVE KeysInv'
  BY <1>5, PostYearEndKeepsKeys
<1>6. ASSUME NEW r \in inFlight, SaveClose(r) PROVE KeysInv'
  BY <1>0, <1>6 DEF SaveClose
<1>7. ASSUME NEW m \in Month, StartClose(m) PROVE KeysInv'
  <2>1. PICK kind : kind = IF m \in YearEnds THEN "year_end" ELSE "close"
    OBVIOUS
  <2>2. Ask(kind, "finance", NoEvent, m, {}) /\ UNCHANGED <<entries, happened>>
    BY <1>7, <2>1 DEF StartClose
  <2> QED
    BY <2>1, <2>2, AskKeepsKeys
<1>8. ASSUME NEW s \in Service, Restart(s) PROVE KeysInv'
  BY <1>0, <1>8 DEF Restart
<1>9. CASE CreateYear \/ NextMonth \/ SwitchPosting \/ UNCHANGED vars
  BY <1>0, <1>9 DEF CreateYear, NextMonth, SwitchPosting, Edit, vars
<1>10. ASSUME NEW m \in Month, CreateNamedPeriod(m) \/ Reopen(m) PROVE KeysInv'
  BY <1>0, <1>10 DEF CreateNamedPeriod, Reopen
<1>11. ASSUME NEW a \in Editable, NEW role \in GivenRoles,
              CreateAccount(a, role) \/ UpdateAccount(a, role)
       PROVE  KeysInv'
  BY <1>0, <1>11 DEF CreateAccount, UpdateAccount, Edit
<1>12. ASSUME NEW a \in Editable, DeactivateAccount(a) PROVE KeysInv'
  BY <1>0, <1>12 DEF DeactivateAccount, Edit
<1> QED
  BY <1>1, <1>2, <1>3, <1>4, <1>5, <1>6, <1>7, <1>8, <1>9, <1>10, <1>11, <1>12 DEF Next

(* An event has one entry and an entry one reversal: for any number of     *)
(* requests at once, restarts and retries, the key alone sees to it,       *)
(* because no path dates an event twice.                                   *)
THEOREM EventsArePostedOnce == Spec => []PostedOnce
<1> QED
  BY KeysInit, KeysStep, KeysGivePostedOnce, PTL DEF Spec

-----------------------------------------------------------------------------
(* A service remembers one chart, and finance-service the company's.       *)
CopiesInv ==
  /\ copies = [s \in Service |-> copies[s]]
  /\ FinanceSeesTheChart

(* Reading the chart to post by it leaves finance-service with the         *)
(* company's.                                                              *)
LEMMA RememberingIsCurrent ==
  ASSUME CopiesInv, NEW s \in Service, copies' = Remembered(s), chart' = chart
  PROVE  CopiesInv'
<1>1. s = "finance" => ChartFor(s) = chart
  BY DEF CopiesInv, FinanceSeesTheChart, ChartFor
<1> QED
  BY <1>1 DEF CopiesInv, FinanceSeesTheChart, Remembered, Service

LEMMA CopiesStep == CopiesInv /\ [Next]_vars => CopiesInv'
<1> SUFFICES ASSUME CopiesInv, [Next]_vars PROVE CopiesInv'
  OBVIOUS
<1> USE DEF Service
<1>0. ASSUME UNCHANGED <<chart, copies>> PROVE CopiesInv'
  BY <1>0 DEF CopiesInv, FinanceSeesTheChart
<1>1. ASSUME NEW s \in Service, copies' = [copies EXCEPT ![s] = {}],
             s = "finance" \/ chart' = chart
      PROVE  CopiesInv'
  BY <1>1 DEF CopiesInv, FinanceSeesTheChart
<1>2. ASSUME NEW e \in Event, NEW m \in Month, RecordEvent(e, m) PROVE CopiesInv'
  <2>1. ServiceOf[e] \in Service
    OBVIOUS
  <2> QED
    BY <1>0, <1>2, <2>1, RememberingIsCurrent DEF RecordEvent
<1>3. ASSUME NEW lines \in ManualLines, NEW m \in Month, WriteManualJournal(lines, m)
      PROVE  CopiesInv'
  BY <1>3, RememberingIsCurrent DEF WriteManualJournal
<1>4. ASSUME NEW n \in entries, NEW m \in Month, ReverseEntry(n, m) PROVE CopiesInv'
  BY <1>4, RememberingIsCurrent DEF ReverseEntry
<1>5. ASSUME NEW r \in inFlight, PostYearEnd(r) PROVE CopiesInv'
  BY <1>0, <1>5, RememberingIsCurrent DEF PostYearEnd
<1>6. ASSUME NEW r \in inFlight, Commit(r) \/ SaveClose(r) PROVE CopiesInv'
  BY <1>0, <1>6 DEF Commit, SaveClose
<1>7. ASSUME NEW m \in Month, CreateNamedPeriod(m) \/ StartClose(m) \/ Reopen(m)
      PROVE  CopiesInv'
  BY <1>0, <1>7 DEF CreateNamedPeriod, StartClose, Reopen
<1>8. ASSUME NEW a \in Editable, NEW role \in GivenRoles,
             CreateAccount(a, role) \/ UpdateAccount(a, role)
      PROVE  CopiesInv'
  <2>1. copies' = [copies EXCEPT !["finance"] = {}]
    BY <1>8 DEF CreateAccount, UpdateAccount, Forgotten
  <2> QED
    BY <1>1, <2>1
<1>9. ASSUME NEW a \in Editable, DeactivateAccount(a) PROVE CopiesInv'
  <2>1. copies' = [copies EXCEPT !["finance"] = {}]
    BY <1>9 DEF DeactivateAccount, Forgotten
  <2> QED
    BY <1>1, <2>1
<1>10. ASSUME NEW s \in Service, Restart(s) PROVE CopiesInv'
  BY <1>1, <1>10 DEF Restart
<1>11. CASE CreateYear \/ NextMonth \/ SwitchPosting \/ UNCHANGED vars
  BY <1>0, <1>11 DEF CreateYear, NextMonth, SwitchPosting, vars
<1> QED
  BY <1>2, <1>3, <1>4, <1>5, <1>6, <1>7, <1>8, <1>9, <1>10, <1>11 DEF Next

(* finance-service never posts by a chart older than the last edit,        *)
(* whatever it has restarted or posted: every edit forgets its copy.       *)
THEOREM FinanceIsCurrent == Spec => []FinanceSeesTheChart
<1>1. Init => CopiesInv
  BY DEF Init, CopiesInv, FinanceSeesTheChart, Service
<1>2. CopiesInv => FinanceSeesTheChart
  BY DEF CopiesInv
<1> QED
  BY <1>1, <1>2, CopiesStep, PTL DEF Spec

-----------------------------------------------------------------------------
(* Requests one at a time: what is about to be written belongs to a month  *)
(* that is still open.                                                     *)
SerialInv ==
  /\ DOMAIN periods = Month
  /\ \/ inFlight = {}
     \/ \E kind, s, e, new : \E m \in Month :
          /\ inFlight = {Request(kind, s, e, m, new)}
          /\ \A n \in new : n.month = m /\ ~Closed(m)

(* What a step may do to the journal: write entries, one at most, into an  *)
(* open month, or close or reopen a month.                                 *)
ClosedMonths == {m \in Month : Closed(m)}

Writes(new, m) ==
  /\ \A n1, n2 \in new : n1 = n2
  /\ \A n \in new : n.month = m
  /\ new # {} => ~Closed(m)
  /\ entries' = entries \union new
  /\ periods' = periods

Closes(m) ==
  /\ entries' = entries
  /\ ClosedMonths' = ClosedMonths \union {m}

Reopens(m) ==
  /\ entries' = entries
  /\ \A later \in ClosedMonths : later <= m
  /\ ClosedMonths' = ClosedMonths \ {m}

LedgerStep ==
  \/ \E new : \E m \in Month : Writes(new, m)
  \/ \E m \in Month : Closes(m) \/ Reopens(m)
  \/ entries' = entries /\ ClosedMonths' = ClosedMonths

LEMMA ServingMeansIdle ==
  ASSUME MaxInFlight = 1, SerialInv, CanServe
  PROVE  inFlight = {}
<1>1. \A r : Cardinality({r}) = 1
  BY FS_Singleton
<1> QED
  BY <1>1 DEF SerialInv, CanServe

(* A request that joins an idle system with what post gave it.             *)
LEMMA AskKeepsSerial ==
  ASSUME SerialInv, inFlight = {}, NEW kind, NEW s, NEW e, NEW m \in Month, NEW new,
         \A n \in new : n.month = m /\ ~Closed(m),
         Ask(kind, s, e, m, new), UNCHANGED <<entries, periods>>
  PROVE  SerialInv' /\ LedgerStep
<1>1. inFlight' = {Request(kind, s, e, m, new)}
  BY DEF Ask
<1>2. SerialInv'
  BY <1>1 DEF SerialInv, Closed
<1> QED
  BY <1>2 DEF LedgerStep, ClosedMonths, Closed

LEMMA SerialStep ==
  ASSUME MaxInFlight = 1
  PROVE  SerialInv /\ KeysInv /\ [Next]_vars => SerialInv' /\ LedgerStep
<1> SUFFICES ASSUME SerialInv, KeysInv, [Next]_vars PROVE SerialInv' /\ LedgerStep
  OBVIOUS
<1>0. ASSUME UNCHANGED <<entries, periods>>, inFlight' = inFlight \/ inFlight' = {}
      PROVE  SerialInv' /\ LedgerStep
  BY <1>0 DEF SerialInv, LedgerStep, ClosedMonths, Closed
<1>1. ASSUME NEW e \in Event, NEW m \in Month, RecordEvent(e, m)
      PROVE  SerialInv' /\ LedgerStep
  <2>1. PICK new : new = PostEvent(e, m)
    OBVIOUS
  <2>2. \A n \in new : n.month = m /\ ~Closed(m)
    BY <2>1, PostResult DEF PostEvent
  <2>3. PICK s : s = ServiceOf[e]
    OBVIOUS
  <2>4. Ask("event", s, e, m, new) /\ UNCHANGED <<entries, periods>> /\ CanServe
    BY <1>1, <2>1, <2>3 DEF RecordEvent
  <2> QED
    BY <2>2, <2>4, AskKeepsSerial, ServingMeansIdle
<1>2. ASSUME NEW lines \in ManualLines, NEW m \in Month, WriteManualJournal(lines, m)
      PROVE  SerialInv' /\ LedgerStep
  <2>1. PICK new : new = Post("finance", Key("manual", NoEvent, lines, m), m, lines)
    OBVIOUS
  <2>2. \A n \in new : n.month = m /\ ~Closed(m)
    BY <2>1, PostResult
  <2>3. Ask("journal", "finance", NoEvent, m, new) /\ UNCHANGED <<entries, periods>> /\ CanServe
    BY <1>2, <2>1 DEF WriteManualJournal
  <2> QED
    BY <2>2, <2>3, AskKeepsSerial, ServingMeansIdle
<1>3. ASSUME NEW n \in entries, NEW m \in Month, ReverseEntry(n, m)
      PROVE  SerialInv' /\ LedgerStep
  <2>1. PICK new : new = Post("finance", ReversalKey(n.key, m), m, Swapped(n.lines))
    OBVIOUS
  <2>2. \A x \in new : x.month = m /\ ~Closed(m)
    BY <2>1, PostResult
  <2>3. Ask("journal", "finance", NoEvent, m, new) /\ UNCHANGED <<entries, periods>> /\ CanServe
    BY <1>3, <2>1 DEF ReverseEntry
  <2> QED
    BY <2>2, <2>3, AskKeepsSerial, ServingMeansIdle
<1>4. ASSUME NEW m \in Month, StartClose(m) PROVE SerialInv' /\ LedgerStep
  <2>1. PICK kind : kind = IF m \in YearEnds THEN "year_end" ELSE "close"
    OBVIOUS
  <2>2. Ask(kind, "finance", NoEvent, m, {}) /\ UNCHANGED <<entries, periods>> /\ CanServe
    BY <1>4, <2>1 DEF StartClose
  <2> QED
    BY <2>2, AskKeepsSerial, ServingMeansIdle
<1>5. ASSUME NEW r \in inFlight
      PROVE  /\ inFlight = {r}
             /\ r.month \in Month
             /\ \A n \in r.new : n.month = r.month /\ ~Closed(r.month)
             /\ r = Request(r.kind, r.service, r.event, r.month, r.new)
  BY <1>5 DEF SerialInv, Request
<1>6. ASSUME NEW r \in inFlight, Commit(r) PROVE SerialInv' /\ LedgerStep
  <2> DEFINE new == {n \in r.new : ~Posted(n.key)}
  <2>1. inFlight' = {} /\ periods' = periods
    BY <1>5, <1>6 DEF Commit
  <2>2. \A n1, n2 \in r.new : n1 = n2
    BY <1>6 DEF KeysInv, RequestKeyed
  <2>3. Writes(new, r.month)
    BY <1>5, <1>6, <2>1, <2>2 DEF Commit, Inserted, Writes
  <2>4. LedgerStep
    BY <1>5, <1>6, <2>3 DEF LedgerStep
  <2> QED
    BY <2>1, <2>4 DEF SerialInv
<1>7. ASSUME NEW r \in inFlight, PostYearEnd(r) PROVE SerialInv' /\ LedgerStep
  <2>1. PICK new : new = Post("finance", YearEndKey(r.month), r.month, YearEndLines(r.month))
    OBVIOUS
  <2>2. /\ \A n \in new : n.month = r.month /\ ~Closed(r.month)
        /\ \A n1, n2 \in new : n1 = n2
    BY <2>1, PostResult
  <2>3. /\ entries' = entries \union new
        /\ inFlight' = {} \/ inFlight' = {[r EXCEPT !.kind = "close"]}
        /\ periods' = periods
    BY <1>5, <1>7, <2>1 DEF PostYearEnd
  <2>4. Writes(new, r.month)
    BY <2>2, <2>3 DEF Writes
  <2>5. LedgerStep
    BY <1>5, <1>7, <2>4 DEF LedgerStep
  <2>6. [r EXCEPT !.kind = "close"] = Request("close", r.service, r.event, r.month, r.new)
    BY <1>5, <1>7 DEF Request
  <2>7. \A n \in r.new : n.month = r.month /\ ~Closed(r.month)'
    BY <1>5, <1>7, <2>3 DEF Closed
  <2>8. SerialInv'
    BY <1>5, <1>7, <2>3, <2>6, <2>7 DEF SerialInv
  <2> QED
    BY <2>5, <2>8
<1>8. ASSUME NEW r \in inFlight, SaveClose(r) PROVE SerialInv' /\ LedgerStep
  <2>1. inFlight' = {} /\ entries' = entries /\ periods' = [periods EXCEPT ![r.month] = "closed"]
    BY <1>5, <1>8 DEF SaveClose
  <2>2. r.month \in Month
    BY <1>5, <1>8
  <2>3. Closes(r.month)
    BY <2>1, <2>2 DEF SerialInv, Closes, ClosedMonths, Closed
  <2> QED
    BY <2>1, <2>2, <2>3 DEF SerialInv, LedgerStep
<1>9. ASSUME NEW s \in Service, Restart(s) PROVE SerialInv' /\ LedgerStep
  <2>1. inFlight' = inFlight \/ inFlight' = {}
    <3>1. CASE inFlight = {}
      BY <1>9, <3>1 DEF Restart
    <3>2. ASSUME NEW r \in inFlight PROVE inFlight' = inFlight \/ inFlight' = {}
      BY <1>5, <1>9, <3>2 DEF Restart
    <3> QED
      BY <3>1, <3>2
  <2> QED
    BY <1>0, <1>9, <2>1 DEF Restart
<1>10. ASSUME NEW m \in Month, Reopen(m) PROVE SerialInv' /\ LedgerStep
  <2>1. inFlight = {}
    BY <1>10, ServingMeansIdle DEF Reopen
  <2>2. \A later \in ClosedMonths : later <= m
    BY <1>10, BoundsAreNatural DEF Reopen, ClosedMonths, Month
  <2>3. ClosedMonths' = ClosedMonths \ {m}
    BY <1>10 DEF Reopen, SerialInv, ClosedMonths, Closed
  <2>4. Reopens(m)
    BY <1>10, <2>2, <2>3 DEF Reopens, Reopen
  <2> QED
    BY <1>10, <2>1, <2>4 DEF Reopen, SerialInv, LedgerStep
<1>11. ASSUME NEW m \in Month, CreateNamedPeriod(m) PROVE SerialInv' /\ LedgerStep
  <2>1. \A x \in Month : Closed(x)' <=> Closed(x)
    BY <1>11 DEF CreateNamedPeriod, SerialInv, Closed
  <2> QED
    BY <1>11, <2>1 DEF CreateNamedPeriod, SerialInv, LedgerStep, ClosedMonths
<1>12. CASE CreateYear
  <2>1. \A x \in Month : Closed(x)' <=> Closed(x)
    BY <1>12 DEF CreateYear, Closed
  <2> QED
    BY <1>12, <2>1 DEF CreateYear, SerialInv, LedgerStep, ClosedMonths
<1>13. CASE NextMonth \/ SwitchPosting \/ UNCHANGED vars
  BY <1>0, <1>13 DEF NextMonth, SwitchPosting, Edit, vars
<1>14. ASSUME NEW a \in Editable, NEW role \in GivenRoles,
              CreateAccount(a, role) \/ UpdateAccount(a, role)
       PROVE  SerialInv' /\ LedgerStep
  BY <1>0, <1>14 DEF CreateAccount, UpdateAccount, Edit
<1>15. ASSUME NEW a \in Editable, DeactivateAccount(a) PROVE SerialInv' /\ LedgerStep
  BY <1>0, <1>15 DEF DeactivateAccount, Edit
<1> QED
  BY <1>1, <1>2, <1>3, <1>4, <1>6, <1>7, <1>8, <1>9, <1>10, <1>11, <1>12, <1>13, <1>14,
     <1>15 DEF Next

(* Every such step is a step of the journal or leaves it alone.            *)
LEMMA StepKeepsThePromise ==
  ASSUME LedgerStep, PostedOnce', KeysUnique'
  PROVE  [Promise!Next]_(Promise!vars)
<1> USE DEF Promise!vars, Promise!Next
<1>1. ASSUME NEW new, NEW m \in Month, Writes(new, m)
      PROVE  Promise!Next \/ UNCHANGED Promise!vars
  <2>1. ClosedMonths' = ClosedMonths
    BY <1>1 DEF Writes, ClosedMonths, Closed
  <2>2. CASE new \subseteq entries
    BY <1>1, <2>1, <2>2 DEF Writes, ClosedMonths
  <2>3. ASSUME NEW n \in new, n \notin entries
        PROVE  Promise!Next
    <3>1. n \in entries' \ entries /\ entries' = entries \union {n}
      BY <1>1, <2>3 DEF Writes
    <3>2. n.month \notin ClosedMonths
      BY <1>1, <2>3 DEF Writes, ClosedMonths
    <3>3. \A other \in entries : Promise!Subject(other) # Promise!Subject(n)
      <4> SUFFICES ASSUME NEW other \in entries, Promise!Subject(other) = Promise!Subject(n)
                   PROVE  FALSE
        OBVIOUS
      <4>1. CASE other.key = n.key
        BY <2>3, <3>1, <4>1 DEF KeysUnique
      <4>2. CASE other.key # n.key
        <5>1. other.key[1] = n.key[1] /\ other.key[2] = n.key[2]
                /\ n.key[1] \notin {"manual", "year_end"}
          BY <4>2 DEF Promise!Subject
        <5> QED
          BY <2>3, <3>1, <5>1 DEF PostedOnce
      <4> QED
        BY <4>1, <4>2
    <3>4. Promise!Write(n)
      BY <2>1, <3>1, <3>2, <3>3 DEF Promise!Write, ClosedMonths
    <3> QED
      BY <3>1, <3>4
  <2> QED
    BY <2>2, <2>3
<1>2. ASSUME NEW m \in Month, Closes(m) PROVE Promise!Next
  BY <1>2 DEF Closes, ClosedMonths, Promise!Close
<1>3. ASSUME NEW m \in Month, Reopens(m) PROVE Promise!Next
  BY <1>3 DEF Reopens, ClosedMonths, Promise!Reopen
<1> QED
  BY <1>1, <1>2, <1>3 DEF LedgerStep, ClosedMonths

(* The ledger implements the journal, if requests do not overlap: the      *)
(* check of the month and the write then see one month.                    *)
THEOREM LedgerKeepsThePromise ==
  ASSUME MaxInFlight = 1
  PROVE  Spec => KeepsThePromise
<1> DEFINE Inv == SerialInv /\ KeysInv
<1>1. Init => Inv /\ Promise!Init
  BY KeysInit DEF Init, SerialInv, Promise!Init, Closed
<1>2. Inv /\ [Next]_vars => Inv' /\ [Promise!Next]_(Promise!vars)
  <2> SUFFICES ASSUME Inv, [Next]_vars PROVE Inv' /\ [Promise!Next]_(Promise!vars)
    OBVIOUS
  <2>1. Inv' /\ LedgerStep
    BY KeysStep, SerialStep
  <2>2. PostedOnce' /\ KeysUnique'
    BY <2>1, KeysGivePostedOnce, PTL DEF KeysInv
  <2> QED
    BY <2>1, <2>2, StepKeepsThePromise
<1> QED
  BY <1>1, <1>2, PTL DEF Spec, KeepsThePromise, Promise!Spec

(* A thing is posted once, if requests do not overlap: an event and the    *)
(* reversal of an entry have one entry, and only hand-written entries and  *)
(* year ends have as many as they have keys (idempotencyKey, post).        *)
THEOREM ThingsHaveOneEntry ==
  ASSUME MaxInFlight = 1
  PROVE  Spec => []Promise!OneEntryEach
<1>1. Promise!Init => Promise!OneEntryEach
  BY DEF Promise!Init, Promise!OneEntryEach
<1>2. Promise!OneEntryEach /\ [Promise!Next]_(Promise!vars) => Promise!OneEntryEach'
  <2> SUFFICES ASSUME Promise!OneEntryEach, [Promise!Next]_(Promise!vars)
               PROVE  Promise!OneEntryEach'
    OBVIOUS
  <2>1. ASSUME NEW n, Promise!Write(n) PROVE Promise!OneEntryEach'
    BY <2>1 DEF Promise!Write, Promise!OneEntryEach, Promise!Subject
  <2>2. ASSUME UNCHANGED entries PROVE Promise!OneEntryEach'
    BY <2>2 DEF Promise!OneEntryEach, Promise!Subject
  <2> QED
    BY <2>1, <2>2 DEF Promise!Next, Promise!Close, Promise!Reopen, Promise!vars
<1> QED
  BY <1>1, <1>2, LedgerKeepsThePromise, PTL DEF KeepsThePromise, Promise!Spec

(* The entries of a closed month stay as they are while it is closed, if   *)
(* requests do not overlap: what the books were closed on is what is in    *)
(* them (closedPeriodFor, post, reverse, postYearEnd).                     *)
THEOREM ClosedMonthsStay ==
  ASSUME MaxInFlight = 1
  PROVE  Spec => Promise!ClosedIsFinal
<1> DEFINE shut == {m \in Month : Closed(m)}
           Stays == \A m \in shut \intersect shut' :
                      Promise!EntriesIn(m)' = Promise!EntriesIn(m)
<1>1. [Promise!Next]_(Promise!vars) => [Stays]_(Promise!vars)
  <2> SUFFICES ASSUME Promise!Next, NEW m \in shut \intersect shut'
               PROVE  Promise!EntriesIn(m)' = Promise!EntriesIn(m)
    BY DEF Promise!vars
  <2> HIDE DEF shut
  <2>1. ASSUME NEW n, Promise!Write(n) PROVE Promise!EntriesIn(m)' = Promise!EntriesIn(m)
    BY <2>1 DEF Promise!Write, Promise!EntriesIn, shut
  <2>2. ASSUME UNCHANGED entries PROVE Promise!EntriesIn(m)' = Promise!EntriesIn(m)
    BY <2>2 DEF Promise!EntriesIn
  <2> QED
    BY <2>1, <2>2 DEF Promise!Next, Promise!Close, Promise!Reopen
<1> QED
  BY <1>1, LedgerKeepsThePromise, PTL
     DEF KeepsThePromise, Promise!Spec, Promise!ClosedIsFinal

-----------------------------------------------------------------------------
(* Every entry, and every entry about to be written, balances.             *)
Balanced(n) == ImbalanceOf(n.lines) = 0

BalanceInv ==
  /\ IsFiniteSet(entries)
  /\ \A n \in entries : Balanced(n)
  /\ \A r \in inFlight : IsFiniteSet(r.new) /\ \A n \in r.new : Balanced(n)

(* resolveAccount gives a line its account and leaves its amounts alone.   *)
LEMMA ResolvedKeepsAmounts ==
  ASSUME NEW c, NEW lines
  PROVE  /\ DOMAIN Resolved(c, lines) = DOMAIN lines
         /\ \A i \in DOMAIN lines : /\ Resolved(c, lines)[i].debit = lines[i].debit
                                    /\ Resolved(c, lines)[i].credit = lines[i].credit
         /\ ImbalanceOf(Resolved(c, lines)) = ImbalanceOf(lines)
<1>1. /\ DOMAIN Resolved(c, lines) = DOMAIN lines
      /\ \A i \in DOMAIN lines : /\ Resolved(c, lines)[i].debit = lines[i].debit
                                 /\ Resolved(c, lines)[i].credit = lines[i].credit
  BY DEF Resolved
<1> DEFINE moved(ls) == [i \in DOMAIN ls |-> ls[i].debit - ls[i].credit]
<1>2. moved(Resolved(c, lines)) = moved(lines)
  BY <1>1
<1> QED
  BY <1>1, <1>2 DEF ImbalanceOf

LEMMA PostBalances ==
  ASSUME NEW s, NEW key, NEW m, NEW lines
  PROVE  /\ IsFiniteSet(Post(s, key, m, lines))
         /\ \A n \in Post(s, key, m, lines) : Balanced(n)
<1>1. IsFiniteSet(Post(s, key, m, lines))
  BY FS_EmptySet, FS_Singleton DEF Post
<1>2. ASSUME NEW n \in Post(s, key, m, lines) PROVE Balanced(n)
  BY ResolvedKeepsAmounts DEF Post, Postable, Balanced
<1> QED
  BY <1>1, <1>2

LEMMA BalanceStep == BalanceInv /\ [Next]_vars => BalanceInv'
<1> SUFFICES ASSUME BalanceInv, [Next]_vars PROVE BalanceInv'
  OBVIOUS
<1>0. ASSUME UNCHANGED entries, inFlight' \subseteq inFlight PROVE BalanceInv'
  BY <1>0 DEF BalanceInv, Balanced
<1>1. ASSUME NEW kind, NEW s, NEW e, NEW m, NEW new, Ask(kind, s, e, m, new), UNCHANGED entries,
             IsFiniteSet(new), \A n \in new : Balanced(n)
      PROVE  BalanceInv'
  <2>1. Request(kind, s, e, m, new).new = new
    BY DEF Request
  <2> QED
    BY <1>1, <2>1 DEF Ask, BalanceInv, Balanced
<1>2. ASSUME NEW new, IsFiniteSet(new), \A n \in new : Balanced(n),
             entries' \subseteq entries \union new,
             \A r \in inFlight' : \E q \in inFlight : r.new = q.new
      PROVE  BalanceInv'
  <2>1. IsFiniteSet(entries')
    BY <1>2, FS_Union, FS_Subset DEF BalanceInv
  <2> QED
    BY <1>2, <2>1 DEF BalanceInv, Balanced
<1>3. ASSUME NEW e \in Event, NEW m \in Month, RecordEvent(e, m) PROVE BalanceInv'
  <2>1. IsFiniteSet(PostEvent(e, m)) /\ \A n \in PostEvent(e, m) : Balanced(n)
    BY PostBalances, FS_EmptySet DEF PostEvent
  <2> QED
    BY <1>1, <1>3, <2>1 DEF RecordEvent
<1>4. ASSUME NEW lines \in ManualLines, NEW m \in Month, WriteManualJournal(lines, m)
      PROVE  BalanceInv'
  <2> DEFINE new == Post("finance", Key("manual", NoEvent, lines, m), m, lines)
  <2>1. Ask("journal", "finance", NoEvent, m, new) /\ UNCHANGED entries
    BY <1>4 DEF WriteManualJournal
  <2>2. IsFiniteSet(new) /\ \A n \in new : Balanced(n)
    BY PostBalances
  <2> HIDE DEF new
  <2> QED
    BY <1>1, <2>1, <2>2
<1>5. ASSUME NEW n \in entries, NEW m \in Month, ReverseEntry(n, m) PROVE BalanceInv'
  <2> DEFINE new == Post("finance", ReversalKey(n.key, m), m, Swapped(n.lines))
  <2>1. Ask("journal", "finance", NoEvent, m, new) /\ UNCHANGED entries
    BY <1>5 DEF ReverseEntry
  <2>2. IsFiniteSet(new) /\ \A x \in new : Balanced(x)
    BY PostBalances
  <2> HIDE DEF new
  <2> QED
    BY <1>1, <2>1, <2>2
<1>6. ASSUME NEW r \in inFlight, Commit(r) PROVE BalanceInv'
  <2>1. IsFiniteSet(r.new) /\ \A n \in r.new : Balanced(n)
    BY DEF BalanceInv
  <2>2. entries' \subseteq entries \union r.new /\ inFlight' \subseteq inFlight
    BY <1>6 DEF Commit, Inserted
  <2> QED
    BY <1>2, <2>1, <2>2
<1>7. ASSUME NEW r \in inFlight, PostYearEnd(r) PROVE BalanceInv'
  <2> DEFINE new  == Post("finance", YearEndKey(r.month), r.month, YearEndLines(r.month))
             next == [r EXCEPT !.kind = "close"]
  <2>1. entries' = entries \union new /\ inFlight' \subseteq inFlight \union {next}
    BY <1>7 DEF PostYearEnd
  <2>2. IsFiniteSet(new) /\ \A n \in new : Balanced(n)
    BY PostBalances
  <2>3. next.new = r.new
    OBVIOUS
  <2> HIDE DEF new, next
  <2> QED
    BY <1>2, <2>1, <2>2, <2>3
<1>8. ASSUME NEW m \in Month, StartClose(m) PROVE BalanceInv'
  <2>1. PICK kind : Ask(kind, "finance", NoEvent, m, {}) /\ UNCHANGED entries
    BY <1>8 DEF StartClose
  <2> QED
    BY <1>1, <2>1, FS_EmptySet
<1>9. ASSUME NEW r \in inFlight, SaveClose(r) PROVE BalanceInv'
  BY <1>0, <1>9 DEF SaveClose
<1>10. ASSUME NEW s \in Service, Restart(s) PROVE BalanceInv'
  BY <1>0, <1>10 DEF Restart
<1>11. CASE CreateYear \/ NextMonth \/ SwitchPosting \/ UNCHANGED vars
  BY <1>0, <1>11 DEF CreateYear, NextMonth, SwitchPosting, Edit, vars
<1>12. ASSUME NEW m \in Month, CreateNamedPeriod(m) \/ Reopen(m) PROVE BalanceInv'
  BY <1>0, <1>12 DEF CreateNamedPeriod, Reopen
<1>13. ASSUME NEW a \in Editable, NEW role \in GivenRoles,
              CreateAccount(a, role) \/ UpdateAccount(a, role)
       PROVE  BalanceInv'
  BY <1>0, <1>13 DEF CreateAccount, UpdateAccount, Edit
<1>14. ASSUME NEW a \in Editable, DeactivateAccount(a) PROVE BalanceInv'
  BY <1>0, <1>14 DEF DeactivateAccount, Edit
<1> QED
  BY <1>3, <1>4, <1>5, <1>6, <1>7, <1>8, <1>9, <1>10, <1>11, <1>12, <1>13, <1>14 DEF Next

(* The books of every month balance, over any number of entries, in any    *)
(* chart: a line whose account cannot be found is kept, with its amounts,  *)
(* and an entry that does not balance is not written (post).               *)
THEOREM BooksAlwaysBalance == Spec => []BooksBalance
<1>1. Init => BalanceInv
  BY FS_EmptySet DEF Init, BalanceInv
<1>2. ASSUME BalanceInv, NEW m \in Month
      PROVE  SumFunction([n \in EntriesBy(m) |-> ImbalanceOf(n.lines)]) = 0
  <2> DEFINE f == [n \in EntriesBy(m) |-> ImbalanceOf(n.lines)]
  <2>1. IsFiniteSet(EntriesBy(m))
    BY <1>2, FS_Subset DEF BalanceInv, EntriesBy
  <2>2. \A n \in EntriesBy(m) : f[n] = 0
    BY <1>2 DEF BalanceInv, Balanced, EntriesBy
  <2>3. DOMAIN f = EntriesBy(m)
    OBVIOUS
  <2> HIDE DEF f
  <2>4. WholeOn(f, EntriesBy(m))
    BY <2>2 DEF WholeOn
  <2>5. SumFunctionOnSet(f, EntriesBy(m)) = 0 * SumFunctionOnSet(f, EntriesBy(m))
    BY <2>1, <2>2, <2>4, SumOfMultiples
  <2>6. SumFunctionOnSet(f, EntriesBy(m)) \in Int
    BY <2>1, <2>4, SumIsInteger
  <2>7. SumFunctionOnSet(f, EntriesBy(m)) = 0
    BY <2>5, <2>6
  <2>8. SumFunction(f) = 0
    BY <2>3, <2>7 DEF SumFunction
  <2> QED
    BY <2>8 DEF f
<1>3. BalanceInv => BooksBalance
  BY <1>2 DEF BooksBalance
<1> QED
  BY <1>1, <1>3, BalanceStep, PTL DEF Spec
-----------------------------------------------------------------------------
(* A line of the journal is on an account of the company that is there or  *)
(* has been there, and an entry has finitely many.                         *)
Known(a) == a \in Account /\ chart[a].state # "absent"

WholeEntry(n) ==
  /\ AreAmounts(n.lines)
  /\ \A i \in DOMAIN n.lines : Known(n.lines[i].account)

(* The same lines with their sides swapped, each on the account it was on  *)
(* if that is still there.                                                 *)
Mirrors(x, n) ==
  /\ DOMAIN x.lines = DOMAIN n.lines
  /\ \A i \in DOMAIN n.lines :
       /\ x.lines[i].debit = n.lines[i].credit
       /\ x.lines[i].credit = n.lines[i].debit
       /\ Present(chart, n.lines[i].account) => x.lines[i].account = n.lines[i].account

Sound(x) ==
  /\ WholeEntry(x)
  /\ IsReversal(x) =>
       /\ Posted(x.key[2])
       /\ \A n \in entries : n.key = x.key[2] => Mirrors(x, n)

(* The chart has its shape, a copy shows no account that was never there,  *)
(* and every entry, written or about to be, is sound.                      *)
ChartTyped ==
  chart = [a \in Account |-> [state |-> chart[a].state, role |-> chart[a].role]]

CopiesKnown ==
  \A s \in Service : \A c \in copies[s] : \A a \in Account : Present(c, a) => Known(a)

MirrorInv ==
  /\ ChartTyped
  /\ CopiesKnown
  /\ \A x \in entries : Sound(x)
  /\ \A r \in inFlight : \A x \in r.new : Sound(x)
(* What an edit of the chart may do to an account: nothing brings one back *)
(* that was removed, and none becomes absent.                              *)
ChartMovesOn ==
  \A a \in Account :
    chart[a].state # "absent" =>
      /\ chart'[a].state # "absent"
      /\ Present(chart', a) => Present(chart, a)

(* A sound entry stays sound while others are written under keys nobody    *)
(* has and the chart moves on.                                             *)
LEMMA SoundStays ==
  ASSUME MirrorInv, ChartMovesOn, entries \subseteq entries',
         \A n \in entries' : n \in entries \/ ~Posted(n.key),
         NEW x, Sound(x)
  PROVE  Sound(x)'
<1>1. WholeEntry(x)'
  BY DEF Sound, WholeEntry, Known, ChartMovesOn
<1>2. ASSUME IsReversal(x) PROVE Posted(x.key[2])'
  BY <1>2 DEF Sound, Posted
<1>3. ASSUME IsReversal(x), NEW n \in entries', n.key = x.key[2] PROVE Mirrors(x, n)'
  <2>1. Posted(n.key)
    BY <1>3 DEF Sound
  <2>2. n \in entries
    BY <2>1
  <2>3. Mirrors(x, n) /\ WholeEntry(n)
    BY <1>3, <2>2 DEF Sound, MirrorInv
  <2> QED
    BY <2>3 DEF Mirrors, WholeEntry, Known, ChartMovesOn
<1> QED
  BY <1>1, <1>2, <1>3 DEF Sound, IsReversal

(* What post resolves by a chart that shows no unknown account is whole.   *)
LEMMA PostIsWhole ==
  ASSUME MirrorInv, NEW s \in Service, NEW key, NEW m, NEW lines, AreAmounts(lines),
         NEW n \in Post(s, key, m, lines)
  PROVE  WholeEntry(n)
<1> DEFINE c == ChartFor(s)
<1>1. n.lines = Resolved(c, lines) /\ Postable(c, lines)
  BY DEF Post
<1>2. \A a \in Account : Present(c, a) => Known(a)
  BY DEF ChartFor, MirrorInv, CopiesKnown, Known, Present
<1> HIDE DEF c
<1>3. ASSUME NEW i \in DOMAIN lines PROVE Known(AccountFor(c, lines[i]))
  <2>1. Resolve(c, lines[i]) # {}
    BY <1>1, <1>3 DEF Postable
  <2>2. AccountFor(c, lines[i]) \in Resolve(c, lines[i])
    BY <2>1 DEF AccountFor
  <2>3. \A a \in Resolve(c, lines[i]) : a \in Account /\ Present(c, a)
    BY DEF Resolve, Holding
  <2> QED
    BY <1>2, <2>2, <2>3
<1>4. AreAmounts(n.lines)
  BY <1>1, ResolvedKeepsAmounts DEF AreAmounts
<1>5. \A i \in DOMAIN lines : n.lines[i].account = AccountFor(c, lines[i])
  BY <1>1 DEF Resolved
<1>6. DOMAIN n.lines = DOMAIN lines
  BY <1>1, ResolvedKeepsAmounts
<1> QED
  BY <1>3, <1>4, <1>5, <1>6 DEF WholeEntry

(* An entry posted under no reversal's key is sound.                       *)
LEMMA PostIsSound ==
  ASSUME MirrorInv, NEW s \in Service, NEW key, NEW m, NEW lines, AreAmounts(lines),
         key[1] # "reversal", NEW n \in Post(s, key, m, lines)
  PROVE  Sound(n)
  BY PostIsWhole, PostResult DEF Sound, IsReversal

(* A reversal finds the accounts of its entry by the company's chart.      *)
LEMMA ReversalIsSound ==
  ASSUME MirrorInv, KeysUnique, CopiesInv, NEW n \in entries, NEW m,
         NEW x \in Post("finance", ReversalKey(n.key, m), m, Swapped(n.lines))
  PROVE  Sound(x)
<1>1. WholeEntry(n)
  BY DEF MirrorInv, Sound
<1>2. AreAmounts(Swapped(n.lines))
  BY <1>1 DEF WholeEntry, AreAmounts, Swapped
<1>3. WholeEntry(x)
  BY <1>2, PostIsWhole DEF Service
<1>4. x.key = <<"reversal", n.key>>
  BY PostResult DEF ReversalKey
<1>5. Posted(n.key)
  BY DEF Posted
<1>6. ChartFor("finance") = chart
  BY DEF CopiesInv, FinanceSeesTheChart, ChartFor
<1>7. x.lines = Resolved(chart, Swapped(n.lines))
  BY <1>6 DEF Post
<1>8. /\ DOMAIN Swapped(n.lines) = DOMAIN n.lines
      /\ \A i \in DOMAIN n.lines : /\ Swapped(n.lines)[i].debit = n.lines[i].credit
                                   /\ Swapped(n.lines)[i].credit = n.lines[i].debit
                                   /\ Swapped(n.lines)[i].account = n.lines[i].account
  BY DEF Swapped
<1>9. DOMAIN x.lines = DOMAIN n.lines
  BY <1>7, <1>8, ResolvedKeepsAmounts
<1>10. ASSUME NEW i \in DOMAIN n.lines
       PROVE  /\ x.lines[i].debit = n.lines[i].credit
              /\ x.lines[i].credit = n.lines[i].debit
  BY <1>7, <1>8, <1>10, ResolvedKeepsAmounts
<1>11. ASSUME NEW i \in DOMAIN n.lines, Present(chart, n.lines[i].account)
       PROVE  x.lines[i].account = n.lines[i].account
  <2>1. n.lines[i].account \in Account
    BY <1>1, <1>11 DEF WholeEntry, Known
  <2>2. Resolve(chart, Swapped(n.lines)[i]) = {n.lines[i].account}
    BY <1>8, <1>11, <2>1 DEF Resolve
  <2>3. AccountFor(chart, Swapped(n.lines)[i]) = n.lines[i].account
    BY <2>2 DEF AccountFor
  <2>4. x.lines[i].account = AccountFor(chart, Swapped(n.lines)[i])
    BY <1>7, <1>8, <1>11 DEF Resolved
  <2> QED
    BY <2>3, <2>4
<1>12. Mirrors(x, n)
  BY <1>9, <1>10, <1>11 DEF Mirrors
<1>13. \A other \in entries : other.key = n.key => other = n
  BY DEF KeysUnique
<1>14. x.key[2] = n.key
  BY <1>4
<1> QED
  BY <1>3, <1>5, <1>12, <1>13, <1>14 DEF Sound
(* What an entry moves on an account, and what the account comes to, are   *)
(* whole amounts, of either sign.                                          *)
LEMMA MovedIsWhole ==
  ASSUME NEW n, AreAmounts(n.lines), NEW a
  PROVE  Moved(n, a) \in Int
<1> DEFINE S == DOMAIN n.lines
           f == [i \in S |->
                   IF n.lines[i].account = a THEN n.lines[i].debit - n.lines[i].credit ELSE 0]
<1>1. IsFiniteSet(S)
  BY DEF AreAmounts
<1>2. DOMAIN f = S
  OBVIOUS
<1>3. \A i \in S : n.lines[i].debit \in Int /\ n.lines[i].credit \in Int
  BY DEF AreAmounts
<1>4. WholeOn(f, S)
  BY <1>3 DEF WholeOn
<1>5. Moved(n, a) = SumFunction(f)
  BY DEF Moved
<1> HIDE DEF f, S
<1> QED
  BY <1>1, <1>2, <1>4, <1>5, SumIsInteger DEF SumFunction

LEMMA BalanceIsWhole ==
  ASSUME IsFiniteSet(entries), \A n \in entries : AreAmounts(n.lines), NEW a, NEW m
  PROVE  Balance(a, m) \in Int
<1> DEFINE S == EntriesBy(m)
           f == [n \in S |-> Moved(n, a)]
<1>1. IsFiniteSet(S)
  BY FS_Subset DEF EntriesBy
<1>2. DOMAIN f = S
  OBVIOUS
<1>3. \A n \in S : Moved(n, a) \in Int
  BY MovedIsWhole DEF EntriesBy
<1>4. WholeOn(f, S)
  BY <1>3 DEF WholeOn
<1>5. Balance(a, m) = SumFunction(f)
  BY DEF Balance
<1> HIDE DEF f, S
<1> QED
  BY <1>1, <1>2, <1>4, <1>5, SumIsInteger DEF SumFunction

(* The lines of a year end are amounts, whichever way its accounts lie.    *)
LEMMA YearEndIsWhole ==
  ASSUME IsFiniteSet(entries), \A n \in entries : AreAmounts(n.lines), NEW m
  PROVE  AreAmounts(YearEndLines(m))
<1> DEFINE R        == ResultAccounts(m)
           to0(a)   == Coded([Dr(NoRole, Positive(-Balance(a, m))) EXCEPT
                                !.credit = Positive(Balance(a, m))], a)
           accounts == SetToSeq(R)
           f        == [a \in R |-> Balance(a, m)]
           loss     == SumFunction(f)
           residual == [Dr("RETAINED_EARNINGS", Positive(loss)) EXCEPT !.credit = Positive(-loss)]
           first    == [i \in DOMAIN accounts |-> to0(accounts[i])]
           last     == IF loss = 0 THEN <<>> ELSE <<residual>>
           L        == {residual} \union {to0(a) : a \in R}
<1>1. \A b \in Int : Positive(b) \in Nat /\ Positive(-b) \in Nat
  BY DEF Positive
<1>2. \A a : Balance(a, m) \in Int
  BY BalanceIsWhole
<1>3. \A a : to0(a).debit \in Nat /\ to0(a).credit \in Nat
  BY <1>1, <1>2 DEF Coded, Dr
<1>4. IsFiniteSet(R)
  BY FS_Subset, ChartIsSeeded DEF ResultAccounts
<1>5. loss \in Int
  <2>1. WholeOn(f, R) /\ DOMAIN f = R
    BY <1>2 DEF WholeOn
  <2> HIDE DEF f, R
  <2> QED
    BY <1>4, <2>1, SumIsInteger DEF SumFunction
<1>6. residual.debit \in Nat /\ residual.credit \in Nat
  <2> HIDE DEF loss
  <2> QED
    BY <1>1, <1>5 DEF Dr
<1>7. accounts \in [1..Cardinality(R) -> R]
  <2>1. \E g \in [1..Cardinality(R) -> R] : IsInjective(g)
    BY <1>4, FS_CardinalityType DEF ExistsBijection, Bijection, Injection, IsInjective
  <2> HIDE DEF R
  <2> QED
    BY <2>1 DEF SetToSeq
<1>8. Cardinality(R) \in Nat
  BY <1>4, FS_CardinalityType
<1>9. YearEndLines(m) = first \o last
  BY DEF YearEndLines
<1>10. \A l \in L : l.debit \in Nat /\ l.credit \in Nat
  BY <1>3, <1>6
<1>11. first \in Seq(L)
  <2>1. \A i \in 1..Cardinality(R) : to0(accounts[i]) \in L
    BY <1>7
  <2> HIDE DEF R, L, to0, accounts
  <2> QED
    BY <1>7, <1>8, <2>1
<1>12. last \in Seq(L)
  <2>1. residual \in L
    OBVIOUS
  <2> HIDE DEF residual, L, loss
  <2> QED
    BY <2>1
<1> HIDE DEF L, first, last
<1>13. first \o last \in Seq(L)
  BY <1>11, <1>12, ConcatProperties
<1>14. IsFiniteSet(DOMAIN (first \o last))
  BY <1>13, FS_Interval
<1> QED
  BY <1>9, <1>10, <1>13, <1>14 DEF AreAmounts
(* A step in which the chart moves on, copies show what was there, and     *)
(* sound entries are read, or written under keys nobody has.               *)
LEMMA MirrorKept ==
  ASSUME MirrorInv, ChartMovesOn, ChartTyped', CopiesKnown', NEW new, \A n \in new : Sound(n),
         entries \subseteq entries', \A n \in entries' \ entries : n \in new /\ ~Posted(n.key),
         \A r \in inFlight' : \A n \in r.new : n \in new \/ \E q \in inFlight : n \in q.new
  PROVE  MirrorInv'
<1>1. \A x : Sound(x) => Sound(x)'
  BY SoundStays
<1>2. \A x \in entries' : Sound(x)
  BY DEF MirrorInv
<1>3. \A r \in inFlight' : \A x \in r.new : Sound(x)
  BY DEF MirrorInv
<1> QED
  BY <1>1, <1>2, <1>3 DEF MirrorInv

(* Reading the chart to post by it brings no account that was never there. *)
LEMMA CopiesStayKnown ==
  ASSUME MirrorInv, CopiesInv, UNCHANGED chart,
         copies' = copies \/ \E s \in Service : copies' = Remembered(s)
  PROVE  ChartMovesOn /\ ChartTyped' /\ CopiesKnown'
<1>1. ChartMovesOn /\ ChartTyped'
  BY DEF ChartMovesOn, MirrorInv, ChartTyped, Present
<1>2. \A s \in Service : \A a \in Account : Present(ChartFor(s), a) => Known(a)
  BY DEF ChartFor, MirrorInv, CopiesKnown, Known, Present
<1>3. \A s \in Service : \A c \in copies'[s] : c \in copies[s] \/ c = ChartFor(s)
  BY DEF Remembered, CopiesInv
<1>4. \A a : Known(a)' <=> Known(a)
  BY DEF Known
<1> QED
  BY <1>1, <1>2, <1>3, <1>4 DEF CopiesKnown, MirrorInv, Present

(* A copy is forgotten, and the chart moves on.                            *)
LEMMA ForgettingStaysKnown ==
  ASSUME MirrorInv, CopiesInv, ChartMovesOn, NEW s \in Service, copies' = [copies EXCEPT ![s] = {}]
  PROVE  CopiesKnown'
<1>1. \A t \in Service : \A c \in copies'[t] : c \in copies[t]
  BY DEF CopiesInv
<1>2. \A a : Known(a) => Known(a)'
  BY DEF Known, ChartMovesOn
<1> QED
  BY <1>1, <1>2 DEF CopiesKnown, MirrorInv, Present

LEMMA EditMovesOn ==
  ASSUME MirrorInv, NEW a \in Account, NEW role,
         \/ chart[a].state = "absent" /\
              chart' = [chart EXCEPT ![a] = [state |-> "active", role |-> role]]
         \/ chart' = [chart EXCEPT ![a].role = role]
         \/ Present(chart, a) /\
              chart' = [chart EXCEPT ![a] = [chart[a] EXCEPT !.state = "inactive"]]
         \/ chart' = [chart EXCEPT ![a] = [state |-> "removed", role |-> NoRole]]
  PROVE  ChartMovesOn /\ ChartTyped'
<1> USE DEF MirrorInv, ChartTyped, ChartMovesOn, Present
<1>1. CASE chart[a].state = "absent" /\
             chart' = [chart EXCEPT ![a] = [state |-> "active", role |-> role]]
  BY <1>1
<1>2. CASE chart' = [chart EXCEPT ![a].role = role]
  <2>1. chart[a] = [state |-> chart[a].state, role |-> chart[a].role]
    OBVIOUS
  <2>2. [chart[a] EXCEPT !.role = role] = [state |-> chart[a].state, role |-> role]
    BY <2>1
  <2>3. chart' = [chart EXCEPT ![a] = [state |-> chart[a].state, role |-> role]]
    BY <1>2, <2>2
  <2> QED
    BY <2>3
<1>3. CASE Present(chart, a) /\
             chart' = [chart EXCEPT ![a] = [chart[a] EXCEPT !.state = "inactive"]]
  <2>1. chart[a] = [state |-> chart[a].state, role |-> chart[a].role]
    OBVIOUS
  <2>2. [chart[a] EXCEPT !.state = "inactive"] = [state |-> "inactive", role |-> chart[a].role]
    BY <2>1
  <2>3. chart' = [chart EXCEPT ![a] = [state |-> "inactive", role |-> chart[a].role]]
    BY <1>3, <2>2
  <2> QED
    BY <1>3, <2>3
<1>4. CASE chart' = [chart EXCEPT ![a] = [state |-> "removed", role |-> NoRole]]
  BY <1>4
<1> QED
  BY <1>1, <1>2, <1>3, <1>4

LEMMA MirrorStep ==
  ASSUME MirrorInv, KeysInv, CopiesInv, BalanceInv, [Next]_vars
  PROVE  MirrorInv'
<1>0. ASSUME UNCHANGED entries, inFlight' \subseteq inFlight,
             ChartMovesOn, ChartTyped', CopiesKnown'
      PROVE  MirrorInv'
  <2>1. PICK new : new = {}
    OBVIOUS
  <2>2. \A r \in inFlight' : \A n \in r.new : n \in new \/ \E q \in inFlight : n \in q.new
    BY <1>0
  <2> QED
    BY <1>0, <2>1, <2>2, MirrorKept
<1>1. ASSUME UNCHANGED <<chart, copies, entries>>, inFlight' \subseteq inFlight
      PROVE  MirrorInv'
  BY <1>0, <1>1, CopiesStayKnown
(* A request joins that is about to write a sound entry.                   *)
<1>2. ASSUME NEW kind, NEW s, NEW e, NEW m, NEW new, Ask(kind, s, e, m, new),
             \A n \in new : Sound(n), UNCHANGED <<chart, entries>>,
             copies' = copies \/ \E t \in Service : copies' = Remembered(t)
      PROVE  MirrorInv'
  <2>1. inFlight' = inFlight \union {Request(kind, s, e, m, new)}
    BY <1>2 DEF Ask
  <2>2. \A r \in inFlight' : \A n \in r.new : n \in new \/ \E q \in inFlight : n \in q.new
    BY <2>1 DEF Request
  <2>3. ChartMovesOn /\ ChartTyped' /\ CopiesKnown'
    BY <1>2, CopiesStayKnown
  <2> QED
    BY <1>2, <2>2, <2>3, MirrorKept
<1>3. ASSUME NEW e \in Event, NEW m \in Month, RecordEvent(e, m) PROVE MirrorInv'
  <2> DEFINE new == PostEvent(e, m)
             key == Key(RuleOf[e], e, LinesOf[e], m)
  <2>1. ServiceOf[e] \in Service
    BY DEF Service
  <2>2. key[1] # "reversal" /\ AreAmounts(LinesOf[e])
    BY EventsAreDocuments, LinesAreAmounts DEF DocumentRules, Key
  <2>3. \A n \in new : n \in Post(ServiceOf[e], key, m, LinesOf[e])
    BY DEF PostEvent
  <2> HIDE DEF key
  <2>4. \A n \in new : Sound(n)
    BY <2>1, <2>2, <2>3, PostIsSound
  <2>5. Ask("event", ServiceOf[e], e, m, new) /\ UNCHANGED <<chart, entries>>
    BY <1>3 DEF RecordEvent
  <2>6. copies' = copies \/ copies' = Remembered(ServiceOf[e])
    BY <1>3 DEF RecordEvent
  <2> HIDE DEF new
  <2> QED
    BY <1>2, <2>1, <2>4, <2>5, <2>6
<1>4. ASSUME NEW lines \in ManualLines, NEW m \in Month, WriteManualJournal(lines, m)
      PROVE  MirrorInv'
  <2> DEFINE key == Key("manual", NoEvent, lines, m)
             new == Post("finance", key, m, lines)
  <2>1. "finance" \in Service /\ key[1] # "reversal" /\ AreAmounts(lines)
    BY LinesAreAmounts DEF Service, Key
  <2>2. Ask("journal", "finance", NoEvent, m, new) /\ UNCHANGED <<chart, entries>>
          /\ copies' = Remembered("finance")
    BY <1>4 DEF WriteManualJournal
  <2> HIDE DEF key
  <2>3. \A n \in new : Sound(n)
    BY <2>1, PostIsSound
  <2> HIDE DEF new
  <2> QED
    BY <1>2, <2>1, <2>2, <2>3
<1>5. ASSUME NEW n \in entries, NEW m \in Month, ReverseEntry(n, m) PROVE MirrorInv'
  <2> DEFINE new == Post("finance", ReversalKey(n.key, m), m, Swapped(n.lines))
  <2>1. "finance" \in Service
    BY DEF Service
  <2>2. Ask("journal", "finance", NoEvent, m, new) /\ UNCHANGED <<chart, entries>>
          /\ copies' = Remembered("finance")
    BY <1>5 DEF ReverseEntry
  <2>3. \A x \in new : Sound(x)
    BY ReversalIsSound DEF KeysInv
  <2> HIDE DEF new
  <2> QED
    BY <1>2, <2>1, <2>2, <2>3
<1>6. ASSUME NEW r \in inFlight, Commit(r) PROVE MirrorInv'
  <2>1. entries' = entries \union {n \in r.new : ~Posted(n.key)} /\ inFlight' \subseteq inFlight
          /\ UNCHANGED <<chart, copies>>
    BY <1>6 DEF Commit, Inserted
  <2>2. \A n \in r.new : Sound(n)
    BY <1>6 DEF MirrorInv
  <2>3. ChartMovesOn /\ ChartTyped' /\ CopiesKnown'
    BY <2>1, CopiesStayKnown
  <2> QED
    BY <2>1, <2>2, <2>3, MirrorKept
<1>7. ASSUME NEW r \in inFlight, PostYearEnd(r) PROVE MirrorInv'
  <2> DEFINE key  == YearEndKey(r.month)
             new  == Post("finance", key, r.month, YearEndLines(r.month))
             next == [r EXCEPT !.kind = "close"]
  <2>1. "finance" \in Service /\ key[1] # "reversal"
    BY DEF Service, YearEndKey, Key
  <2>2. AreAmounts(YearEndLines(r.month))
    BY YearEndIsWhole DEF MirrorInv, BalanceInv, Sound, WholeEntry
  <2>3. /\ entries' = entries \union new
        /\ inFlight' \subseteq inFlight \union {next}
        /\ copies' = copies \/ copies' = Remembered("finance")
        /\ UNCHANGED chart
    BY <1>7 DEF PostYearEnd
  <2>4. next.new = r.new
    OBVIOUS
  <2> HIDE DEF key, next
  <2>5. \A n \in new : Sound(n) /\ ~Posted(n.key)
    BY <2>1, <2>2, PostIsSound, PostResult
  <2> HIDE DEF new
  <2>6. ChartMovesOn /\ ChartTyped' /\ CopiesKnown'
    BY <2>1, <2>3, CopiesStayKnown
  <2>7. \A q \in inFlight' : \A n \in q.new : \E p \in inFlight : n \in p.new
    BY <2>3, <2>4
  <2> QED
    BY <2>3, <2>5, <2>6, <2>7, MirrorKept
<1>8. ASSUME NEW m \in Month, StartClose(m) PROVE MirrorInv'
  <2>1. PICK kind : Ask(kind, "finance", NoEvent, m, {}) /\ UNCHANGED <<chart, copies, entries>>
    BY <1>8 DEF StartClose
  <2> QED
    BY <1>2, <2>1
<1>9. ASSUME NEW r \in inFlight, SaveClose(r) PROVE MirrorInv'
  BY <1>1, <1>9 DEF SaveClose
<1>10. ASSUME NEW s \in Service, Restart(s) PROVE MirrorInv'
  <2>1. copies' = [copies EXCEPT ![s] = {}] /\ UNCHANGED <<chart, entries>>
          /\ inFlight' \subseteq inFlight
    BY <1>10 DEF Restart
  <2>2. ChartMovesOn /\ ChartTyped'
    BY <2>1 DEF ChartMovesOn, MirrorInv, ChartTyped, Present
  <2> QED
    BY <1>0, <2>1, <2>2, ForgettingStaysKnown
<1>11. CASE CreateYear \/ NextMonth \/ SwitchPosting \/ UNCHANGED vars
  BY <1>1, <1>11 DEF CreateYear, NextMonth, SwitchPosting, Edit, vars
<1>12. ASSUME NEW m \in Month, CreateNamedPeriod(m) \/ Reopen(m) PROVE MirrorInv'
  BY <1>1, <1>12 DEF CreateNamedPeriod, Reopen
(* An edit of the chart, after which the accounts screen forgets its copy. *)
<1>13. ASSUME ChartMovesOn, ChartTyped', copies' = Forgotten, UNCHANGED <<entries, inFlight>>
       PROVE  MirrorInv'
  BY <1>0, <1>13, ForgettingStaysKnown DEF Forgotten, Service
<1>14. ASSUME NEW a \in Editable, NEW role \in GivenRoles,
              CreateAccount(a, role) \/ UpdateAccount(a, role)
       PROVE  MirrorInv'
  <2>1. copies' = Forgotten /\ UNCHANGED <<entries, inFlight>>
    BY <1>14 DEF CreateAccount, UpdateAccount, Edit
  <2>2. ChartMovesOn /\ ChartTyped'
    BY <1>14, EditMovesOn, EditableAreAccounts DEF CreateAccount, UpdateAccount
  <2> QED
    BY <1>13, <2>1, <2>2
<1>15. ASSUME NEW a \in Editable, DeactivateAccount(a) PROVE MirrorInv'
  <2>1. copies' = Forgotten /\ UNCHANGED <<entries, inFlight>>
    BY <1>15 DEF DeactivateAccount, Edit
  <2>2. \/ chart' = [chart EXCEPT ![a] = [chart[a] EXCEPT !.state = "inactive"]]
        \/ chart' = [chart EXCEPT ![a] = [state |-> "removed", role |-> NoRole]]
    BY <1>15 DEF DeactivateAccount
  <2>3. Present(chart, a)
    BY <1>15 DEF DeactivateAccount
  <2>4. ChartMovesOn /\ ChartTyped'
    BY <2>2, <2>3, EditMovesOn, EditableAreAccounts
  <2> QED
    BY <1>13, <2>1, <2>4
<1> QED
  BY <1>3, <1>4, <1>5, <1>6, <1>7, <1>8, <1>9, <1>10, <1>11, <1>12, <1>14, <1>15 DEF Next

(* An entry mirrored line by line moves the opposite on every account.     *)
LEMMA MirroredMoves ==
  ASSUME NEW r, NEW n, WholeEntry(n), Mirrors(r, n), AccountsRemain(n), NEW a
  PROVE  Moved(r, a) = -Moved(n, a)
<1> DEFINE S    == DOMAIN n.lines
           f(x) == [i \in DOMAIN x.lines |->
                      IF x.lines[i].account = a THEN x.lines[i].debit - x.lines[i].credit ELSE 0]
           fr   == f(r)
           fn   == f(n)
<1>1. IsFiniteSet(S)
  BY DEF WholeEntry, AreAmounts
<1>2. \A i \in S : n.lines[i].debit \in Int /\ n.lines[i].credit \in Int
  BY DEF WholeEntry, AreAmounts
<1>3. \A i \in S : /\ r.lines[i].debit = n.lines[i].credit
                   /\ r.lines[i].credit = n.lines[i].debit
                   /\ r.lines[i].account = n.lines[i].account
  BY DEF Mirrors, AccountsRemain
<1>4. DOMAIN fr = S /\ DOMAIN fn = S
  BY DEF Mirrors
<1>5. WholeOn(fn, S)
  BY <1>2 DEF WholeOn
<1>6. \A i \in S : fr[i] = (-1) * fn[i]
  BY <1>2, <1>3, <1>4
<1>7. Moved(r, a) = SumFunction(fr) /\ Moved(n, a) = SumFunction(fn)
  BY DEF Moved
<1> HIDE DEF fr, fn, f, S
<1>8. SumFunctionOnSet(fr, S) = (-1) * SumFunctionOnSet(fn, S)
  BY <1>1, <1>5, <1>6, SumOfMultiples
<1>9. SumFunctionOnSet(fn, S) \in Int
  BY <1>1, <1>5, SumIsInteger
<1> QED
  BY <1>4, <1>7, <1>8, <1>9 DEF SumFunction

(* A reversal takes back what its entry moved, on every account, for any   *)
(* number of requests at once, edits of the chart and restarts: it is      *)
(* posted by the company's own chart, keeps its line where the account is  *)
(* inactive, and an account that is there now was there when it was        *)
(* posted, because one that is removed never comes back.                   *)
THEOREM ReversalsCancel == Spec => []ReversalCancels
<1> DEFINE Inv == MirrorInv /\ KeysInv /\ CopiesInv /\ BalanceInv
<1>1. Init => Inv
  <2> SUFFICES ASSUME Init PROVE Inv
    OBVIOUS
  <2>1. KeysInv
    BY KeysInit
  <2>2. CopiesInv /\ BalanceInv
    BY FS_EmptySet DEF Init, CopiesInv, FinanceSeesTheChart, BalanceInv, Service
  <2>3. MirrorInv
    BY ChartIsSeeded DEF Init, MirrorInv, ChartTyped, CopiesKnown
  <2> QED
    BY <2>1, <2>2, <2>3
<1>2. Inv /\ [Next]_vars => Inv'
  BY MirrorStep, KeysStep, CopiesStep, BalanceStep
<1>3. Inv => ReversalCancels
  <2> SUFFICES ASSUME Inv, NEW r \in entries, NEW n \in entries,
                      IsReversal(r), r.key[2] = n.key, AccountsRemain(n), NEW a \in Account
               PROVE  Moved(r, a) = -Moved(n, a)
    BY DEF ReversalCancels
  <2>1. WholeEntry(n) /\ Mirrors(r, n)
    BY DEF MirrorInv, Sound
  <2> QED
    BY <2>1, MirroredMoves
<1> QED
  BY <1>1, <1>2, <1>3, PTL DEF Spec

-----------------------------------------------------------------------------
(* What keeps suspense clear behind a close.  Nobody gives the suspense    *)
(* account another role or gives its role to another, nor does anybody     *)
(* edit the account of retained earnings, which the end of a year posts    *)
(* to; and no month but the first has its period made on its own.          *)
ControlAccountsStay ==
  /\ \E s \in Account \ Editable : Holding(Seeded, "SUSPENSE") = {s}
  /\ Holding(Seeded, "RETAINED_EARNINGS") \ Editable # {}

MonthsMadeInOrder == NamedMonths \subseteq {1}

RolesHeld(s) ==
  /\ Holding(chart, "SUSPENSE") = {s}
  /\ \A a \in Account \ Editable : chart[a] = Seeded[a]

PeriodsInOrder ==
  /\ periods \in [Month -> {"none", "open", "closed"}]
  /\ \A m \in Month \ {1} : periods[m] # "none" => \A n \in Month : periods[n] # "none"
  /\ \A m \in Month : Closed(m) => \A n \in 1..m : Closed(n)

AboutToClose(s, r) ==
  r.kind \in {"close", "year_end"} =>
    /\ periods[r.month] # "none"
    /\ \A n \in Month : n < r.month => Closed(n)
    /\ Balance(s, r.month) = 0

ClosedAreClear(s) == \A m \in Month : Closed(m) => Balance(s, m) = 0

ClearInv(s) ==
  /\ RolesHeld(s)
  /\ PeriodsInOrder
  /\ ClosedAreClear(s)
  /\ \A r \in inFlight : AboutToClose(s, r)

(* No edit of other accounts takes the role of suspense away or gives it   *)
(* to another.                                                             *)
LEMMA RolesStay ==
  ASSUME ChartTyped, NEW s \in Account \ Editable, RolesHeld(s), [Next]_vars
  PROVE  RolesHeld(s)'
<1>0. CASE UNCHANGED chart
  BY <1>0 DEF RolesHeld, Holding, Present
<1>1. ASSUME NEW a \in Editable, NEW x,
             x.role = "SUSPENSE" /\ x.state \in {"active", "inactive"} => a \in Holding(chart, "SUSPENSE"),
             chart' = [chart EXCEPT ![a] = x]
      PROVE  RolesHeld(s)'
  <2>1. a # s /\ a \notin Holding(chart, "SUSPENSE") /\ a \in Account
    BY EditableAreAccounts DEF RolesHeld
  <2>2. \A b \in Account : b # a => chart'[b] = chart[b]
    BY <1>1 DEF ChartTyped
  <2>3. chart'[a] = x
    BY <1>1, <2>1 DEF ChartTyped
  <2>4. \A b \in Account : b \in Holding(chart', "SUSPENSE") <=> b \in Holding(chart, "SUSPENSE")
    BY <1>1, <2>1, <2>2, <2>3 DEF Holding, Present
  <2>5. Holding(chart', "SUSPENSE") = Holding(chart, "SUSPENSE")
    BY <2>4 DEF Holding
  <2> QED
    BY <2>2, <2>5 DEF RolesHeld
<1>2. Holding(chart, "SUSPENSE") # {}
  BY DEF RolesHeld
<1>3. \A role : Free(role) => role # "SUSPENSE"
  BY <1>2 DEF Free, NoRole
<1>4. ASSUME NEW a \in Editable, NEW role \in GivenRoles, CreateAccount(a, role)
      PROVE  RolesHeld(s)'
  <2>1. PICK x : x = [state |-> "active", role |-> role]
    OBVIOUS
  <2> QED
    BY <1>1, <1>3, <1>4, <2>1 DEF CreateAccount
<1>5. ASSUME NEW a \in Editable, NEW role \in GivenRoles, UpdateAccount(a, role)
      PROVE  RolesHeld(s)'
  <2>1. PICK x : x = [chart[a] EXCEPT !.role = role]
    OBVIOUS
  <2>2. chart' = [chart EXCEPT ![a] = x]
    BY <1>5, <2>1 DEF UpdateAccount
  <2>3. x.role = role
    BY <2>1, EditableAreAccounts DEF ChartTyped
  <2> QED
    BY <1>1, <1>3, <1>5, <2>2, <2>3 DEF UpdateAccount
<1>6. ASSUME NEW a \in Editable, DeactivateAccount(a) PROVE RolesHeld(s)'
  <2>1. PICK x : x = IF Used(a) THEN [chart[a] EXCEPT !.state = "inactive"]
                     ELSE [state |-> "removed", role |-> NoRole]
    OBVIOUS
  <2>2. chart' = [chart EXCEPT ![a] = x] /\ Present(chart, a)
    BY <1>6, <2>1 DEF DeactivateAccount
  <2>3. x.role = chart[a].role \/ x.role = NoRole
    BY <2>1, EditableAreAccounts DEF ChartTyped
  <2>4. x.role = "SUSPENSE" => a \in Holding(chart, "SUSPENSE")
    BY <2>2, <2>3, EditableAreAccounts DEF NoRole, Holding
  <2> QED
    BY <1>1, <2>2, <2>4
<1>7. UNCHANGED chart \/ (\E a \in Editable, role \in GivenRoles :
                            CreateAccount(a, role) \/ UpdateAccount(a, role))
                      \/ (\E a \in Editable : DeactivateAccount(a))
  BY DEF Next, vars, RecordEvent, WriteManualJournal, ReverseEntry, Commit, PostYearEnd, SaveClose,
         CreateYear, CreateNamedPeriod, StartClose, Reopen, SwitchPosting, Restart, NextMonth
<1> QED
  BY <1>0, <1>4, <1>5, <1>6, <1>7

(* Where one account holds a role, the role comes to what the account does.*)
LEMMA RoleOfOne ==
  ASSUME NEW role, NEW s, Holding(chart, role) = {s}, NEW m, Balance(s, m) \in Int
  PROVE  RoleBalance(role, m) = Balance(s, m)
<1> DEFINE f == [a \in {s} |-> Balance(a, m)]
<1>1. RoleBalance(role, m) = SumFunction(f)
  BY DEF RoleBalance
<1>2. DOMAIN f = {s} /\ f[s] = Balance(s, m)
  OBVIOUS
<1> HIDE DEF f
<1>3. WholeOn(f, {} \union {s})
  BY <1>2 DEF WholeOn
<1>4. SumFunctionOnSet(f, {} \union {s}) = SumFunctionOnSet(f, {}) + f[s]
  BY <1>3, FS_EmptySet, SumWith
<1>5. SumFunctionOnSet(f, {s}) = f[s]
  BY <1>2, <1>4, SumOfNone
<1> QED
  BY <1>1, <1>2, <1>5 DEF SumFunction

(* What is written into a month leaves the balances before it alone.       *)
LEMMA EarlierBalances ==
  ASSUME NEW new, NEW k \in Month, \A n \in new : n.month = k, entries' = entries \union new,
         NEW m \in Month, m < k, NEW a
  PROVE  Balance(a, m)' = Balance(a, m)
<1>1. \A n \in new : ~(n.month <= m)
  BY DEF Month
<1>2. EntriesBy(m)' = EntriesBy(m)
  BY <1>1 DEF EntriesBy
<1> QED
  BY <1>2 DEF Balance

(* An entry that moves nothing on an account leaves its balances alone.    *)
LEMMA UnmovedBalance ==
  ASSUME IsFiniteSet(entries), \A n \in entries : AreAmounts(n.lines),
         NEW new, entries' = entries \union new, NEW a,
         \A n1, n2 \in new : n1 = n2,
         \A n \in new : n \notin entries /\ Moved(n, a) = 0, NEW m
  PROVE  Balance(a, m)' = Balance(a, m)
<1>1. CASE EntriesBy(m)' = EntriesBy(m)
  BY <1>1 DEF Balance
<1>2. ASSUME EntriesBy(m)' # EntriesBy(m) PROVE Balance(a, m)' = Balance(a, m)
  <2>1. PICK n \in new : EntriesBy(m)' = EntriesBy(m) \union {n}
    BY <1>2 DEF EntriesBy
  <2> DEFINE S == EntriesBy(m)
             f == [x \in S |-> Moved(x, a)]
             g == [x \in S \union {n} |-> Moved(x, a)]
  <2>2. Balance(a, m) = SumFunction(f) /\ Balance(a, m)' = SumFunction(g)
    BY <2>1 DEF Balance
  <2>3. IsFiniteSet(S) /\ n \notin S
    BY FS_Subset DEF EntriesBy
  <2>4. \A x \in S : Moved(x, a) \in Int
    BY MovedIsWhole DEF EntriesBy
  <2>5. Moved(n, a) = 0
    OBVIOUS
  <2>6. /\ DOMAIN f = S /\ DOMAIN g = S \union {n} /\ g[n] = 0
        /\ \A x \in S : g[x] = f[x]
        /\ WholeOn(f, S) /\ WholeOn(g, S \union {n})
    BY <2>4, <2>5 DEF WholeOn
  <2> HIDE DEF S, f, g
  <2>7. SumFunctionOnSet(g, S \union {n}) = SumFunctionOnSet(g, S) + g[n]
    BY <2>3, <2>6, SumWith
  <2>8. SumFunctionOnSet(f, S) = SumFunctionOnSet(g, S)
    BY <2>3, <2>6, SumAgrees
  <2>9. SumFunctionOnSet(f, S) \in Int
    BY <2>3, <2>6, SumIsInteger
  <2> QED
    BY <2>2, <2>6, <2>7, <2>8, <2>9 DEF SumFunction
<1> QED
  BY <1>1, <1>2

(* A line of a year end names an account of the result, or asks for        *)
(* retained earnings.                                                      *)
LEMMA YearEndNames ==
  ASSUME NEW m, NEW i \in DOMAIN YearEndLines(m)
  PROVE  \/ YearEndLines(m)[i].account \in ResultAccounts(m)
         \/ /\ YearEndLines(m)[i].account = NoAccount
            /\ YearEndLines(m)[i].role = "RETAINED_EARNINGS"
<1> DEFINE R        == ResultAccounts(m)
           to0(a)   == Coded([Dr(NoRole, Positive(-Balance(a, m))) EXCEPT
                                !.credit = Positive(Balance(a, m))], a)
           accounts == SetToSeq(R)
           loss     == SumFunction([a \in R |-> Balance(a, m)])
           residual == [Dr("RETAINED_EARNINGS", Positive(loss)) EXCEPT !.credit = Positive(-loss)]
           first    == [j \in DOMAIN accounts |-> to0(accounts[j])]
           last     == IF loss = 0 THEN <<>> ELSE <<residual>>
           L        == {residual} \union {to0(a) : a \in R}
<1>1. \A a : to0(a).account = a
  BY DEF Coded, Dr
<1>2. residual.account = NoAccount /\ residual.role = "RETAINED_EARNINGS"
  BY DEF Dr
<1>3. IsFiniteSet(R)
  BY FS_Subset, ChartIsSeeded DEF ResultAccounts
<1>4. accounts \in [1..Cardinality(R) -> R]
  <2>1. \E g \in [1..Cardinality(R) -> R] : IsInjective(g)
    BY <1>3, FS_CardinalityType DEF ExistsBijection, Bijection, Injection, IsInjective
  <2> HIDE DEF R
  <2> QED
    BY <2>1 DEF SetToSeq
<1>5. Cardinality(R) \in Nat
  BY <1>3, FS_CardinalityType
<1>6. YearEndLines(m) = first \o last
  BY DEF YearEndLines
<1>7. \A l \in L : \/ l.account \in R
                   \/ l.account = NoAccount /\ l.role = "RETAINED_EARNINGS"
  <2> HIDE DEF to0, residual, R
  <2> QED
    BY <1>1, <1>2
<1>8. first \in Seq(L)
  <2>1. \A j \in 1..Cardinality(R) : to0(accounts[j]) \in L
    BY <1>4
  <2> HIDE DEF R, L, to0, accounts
  <2> QED
    BY <1>4, <1>5, <2>1
<1>9. last \in Seq(L)
  <2>1. residual \in L
    OBVIOUS
  <2> HIDE DEF residual, L, loss
  <2> QED
    BY <2>1
<1> HIDE DEF L, first, last, R
<1>10. first \o last \in Seq(L)
  BY <1>8, <1>9, ConcatProperties
<1>11. YearEndLines(m)[i] \in L
  BY <1>6, <1>10
<1>12. \/ YearEndLines(m)[i].account \in R
       \/ /\ YearEndLines(m)[i].account = NoAccount
          /\ YearEndLines(m)[i].role = "RETAINED_EARNINGS"
  BY <1>7, <1>11
<1> QED
  BY <1>12 DEF R

(* So it moves nothing on a suspense account that is clear.                *)
LEMMA YearEndMovesNoSuspense ==
  ASSUME ControlAccountsStay, CopiesInv, NEW s \in Account \ Editable, RolesHeld(s),
         NEW m, Balance(s, m) = 0, AreAmounts(YearEndLines(m)),
         NEW n \in Post("finance", YearEndKey(m), m, YearEndLines(m))
  PROVE  Moved(n, s) = 0
<1> DEFINE lines == YearEndLines(m)
<1>1. ChartFor("finance") = chart
  BY DEF CopiesInv, FinanceSeesTheChart, ChartFor
<1>2. n.lines = Resolved(chart, lines)
  BY <1>1 DEF Post
<1>3. ASSUME NEW i \in DOMAIN lines PROVE AccountFor(chart, lines[i]) # s
  <2>1. CASE lines[i].account \in ResultAccounts(m)
    <3>1. lines[i].account \in Account /\ Present(chart, lines[i].account)
          /\ Balance(lines[i].account, m) # 0
      BY <2>1 DEF ResultAccounts
    <3>2. Resolve(chart, lines[i]) = {lines[i].account}
      BY <3>1 DEF Resolve
    <3> QED
      BY <3>1, <3>2 DEF AccountFor
  <2>2. CASE lines[i].account = NoAccount /\ lines[i].role = "RETAINED_EARNINGS"
    <3>1. PICK r \in Holding(Seeded, "RETAINED_EARNINGS") : r \notin Editable
      BY DEF ControlAccountsStay
    <3>2. r \in Holding(chart, "RETAINED_EARNINGS")
      BY <3>1 DEF RolesHeld, Holding, Present
    <3>3. Resolve(chart, lines[i]) = Holding(chart, "RETAINED_EARNINGS")
      BY <2>2, <3>2, NoAccountIsNone DEF Resolve, NoRole
    <3>4. AccountFor(chart, lines[i]) \in Holding(chart, "RETAINED_EARNINGS")
      BY <3>2, <3>3 DEF AccountFor
    <3>5. s \in Holding(chart, "SUSPENSE")
      BY DEF RolesHeld
    <3> QED
      BY <3>4, <3>5 DEF Holding
  <2> QED
    BY <2>1, <2>2, YearEndNames
<1>4. DOMAIN n.lines = DOMAIN lines /\ \A i \in DOMAIN lines : n.lines[i].account # s
  BY <1>2, <1>3, ResolvedKeepsAmounts DEF Resolved
<1> DEFINE S == DOMAIN n.lines
           f == [i \in S |->
                   IF n.lines[i].account = s THEN n.lines[i].debit - n.lines[i].credit ELSE 0]
<1>5. IsFiniteSet(S)
  BY <1>4 DEF AreAmounts
<1>6. DOMAIN f = S /\ \A i \in S : f[i] = 0
  BY <1>4
<1>7. Moved(n, s) = SumFunction(f)
  BY DEF Moved
<1> HIDE DEF f, S
<1>8. WholeOn(f, S) /\ \A i \in S \ {} : f[i] = 0
  BY <1>6 DEF WholeOn
<1>9. SumFunctionOnSet(f, S) = SumFunctionOnSet(f, {})
  BY <1>5, <1>8, SumOfSupport
<1> QED
  BY <1>6, <1>7, <1>9, SumOfNone DEF SumFunction

(* A step that neither writes nor closes, in which what is in flight       *)
(* closes no month that was not being closed.                              *)
LEMMA ClearStays ==
  ASSUME NEW s, ClearInv(s), RolesHeld(s)', UNCHANGED <<entries, periods>>,
         \A r \in inFlight' : r \in inFlight \/ r.kind \notin {"close", "year_end"}
  PROVE  ClearInv(s)'
<1>1. \A m : Balance(s, m)' = Balance(s, m)
  BY DEF Balance, EntriesBy
<1>2. \A m : Closed(m)' = Closed(m)
  BY DEF Closed
<1>3. PeriodsInOrder'
  BY <1>2 DEF ClearInv, PeriodsInOrder
<1>4. ClosedAreClear(s)'
  BY <1>1, <1>2 DEF ClearInv, ClosedAreClear
<1>5. \A r : AboutToClose(s, r)' = AboutToClose(s, r)
  BY <1>1, <1>2 DEF AboutToClose
<1> QED
  BY <1>3, <1>4, <1>5 DEF ClearInv, AboutToClose

LEMMA ClearStep ==
  ASSUME MaxInFlight = 1, MonthsMadeInOrder, ControlAccountsStay,
         SerialInv, KeysInv, CopiesInv, BalanceInv, MirrorInv,
         NEW s \in Account \ Editable, ClearInv(s), [Next]_vars
  PROVE  ClearInv(s)'
<1>0. RolesHeld(s)'
  BY RolesStay DEF MirrorInv, ClearInv
<1>1. IsFiniteSet(entries) /\ \A n \in entries : AreAmounts(n.lines)
  BY DEF BalanceInv, MirrorInv, Sound, WholeEntry
<1>2. ASSUME NEW r \in inFlight
      PROVE  /\ inFlight = {r}
             /\ r.month \in Month
             /\ \A n \in r.new : n.month = r.month /\ ~Closed(r.month)
             /\ r = Request(r.kind, r.service, r.event, r.month, r.new)
  BY <1>2 DEF SerialInv, Request
(* Entries written into one month that is not closed.                      *)
<1>3. ASSUME NEW new, NEW k \in Month, \A n \in new : n.month = k, new # {} => ~Closed(k),
             entries' = entries \union new, periods' = periods
      PROVE  PeriodsInOrder' /\ ClosedAreClear(s)'
  <2>1. \A m : Closed(m)' = Closed(m)
    BY <1>3 DEF Closed
  <2>2. PeriodsInOrder'
    BY <1>3, <2>1 DEF ClearInv, PeriodsInOrder
  <2>3. ASSUME NEW m \in Month, Closed(m) PROVE Balance(s, m)' = 0
    <3>1. CASE new = {}
      BY <1>3, <2>3, <3>1 DEF Balance, EntriesBy, ClearInv, ClosedAreClear
    <3>2. CASE new # {}
      <4>1. k \notin 1..m
        BY <1>3, <2>3, <3>2 DEF ClearInv, PeriodsInOrder
      <4>2. m < k
        BY <4>1, BoundsAreNatural DEF Month
      <4>3. Balance(s, m)' = Balance(s, m)
        BY <1>3, <4>2, EarlierBalances
      <4> QED
        BY <2>3, <4>3 DEF ClearInv, ClosedAreClear
    <3> QED
      BY <3>1, <3>2
  <2> QED
    BY <2>1, <2>2, <2>3 DEF ClosedAreClear
<1>4. ASSUME NEW e \in Event, NEW m \in Month, RecordEvent(e, m) PROVE ClearInv(s)'
  BY <1>0, <1>4, ClearStays DEF RecordEvent, Ask, Request
<1>5. ASSUME NEW lines \in ManualLines, NEW m \in Month, WriteManualJournal(lines, m)
      PROVE  ClearInv(s)'
  BY <1>0, <1>5, ClearStays DEF WriteManualJournal, Ask, Request
<1>6. ASSUME NEW n \in entries, NEW m \in Month, ReverseEntry(n, m) PROVE ClearInv(s)'
  BY <1>0, <1>6, ClearStays DEF ReverseEntry, Ask, Request
<1>7. ASSUME NEW m \in Month, StartClose(m) PROVE ClearInv(s)'
  <2>1. inFlight = {} /\ UNCHANGED <<entries, periods>> /\ Checklist(m) /\ periods[m] = "open"
    BY <1>7, ServingMeansIdle DEF StartClose
  <2>2. PICK kind : Ask(kind, "finance", NoEvent, m, {})
    BY <1>7 DEF StartClose
  <2>3. inFlight' = {Request(kind, "finance", NoEvent, m, {})}
    BY <2>1, <2>2 DEF Ask
  <2>4. \A r \in inFlight' : r.month = m
    BY <2>3 DEF Request
  <2>5. \A a : Balance(s, a)' = Balance(s, a) /\ (Closed(a)' = Closed(a))
    BY <2>1 DEF Balance, EntriesBy, Closed
  <2>6. ASSUME NEW n \in Month, n < m PROVE Closed(n)
    <3>1. m # 1
      BY <2>6 DEF Month
    <3>2. periods[n] \in {"none", "open", "closed"} /\ periods[n] # "none"
      BY <2>1, <3>1 DEF ClearInv, PeriodsInOrder
    <3> QED
      BY <2>1, <2>6, <3>2 DEF Checklist, Closed
  <2>7. Balance(s, m) = 0
    BY <1>1, <2>1, RoleOfOne, BalanceIsWhole DEF Checklist, ClearInv, RolesHeld
  <2>8. \A r \in inFlight' : AboutToClose(s, r)'
    BY <2>1, <2>4, <2>5, <2>6, <2>7 DEF AboutToClose
  <2>9. PeriodsInOrder' /\ ClosedAreClear(s)'
    BY <2>1, <2>5 DEF ClearInv, PeriodsInOrder, ClosedAreClear
  <2> QED
    BY <1>0, <2>8, <2>9 DEF ClearInv
<1>8. ASSUME NEW r \in inFlight, Commit(r) PROVE ClearInv(s)'
  <2> DEFINE new == {n \in r.new : ~Posted(n.key)}
  <2>1. entries' = entries \union new /\ periods' = periods /\ inFlight' = {}
    BY <1>2, <1>8 DEF Commit, Inserted
  <2>2. r.month \in Month /\ (\A n \in new : n.month = r.month) /\ (new # {} => ~Closed(r.month))
    BY <1>2
  <2> HIDE DEF new
  <2>3. PeriodsInOrder' /\ ClosedAreClear(s)'
    BY <1>3, <2>1, <2>2
  <2> QED
    BY <1>0, <2>1, <2>3 DEF ClearInv
<1>9. ASSUME NEW r \in inFlight, PostYearEnd(r) PROVE ClearInv(s)'
  <2> DEFINE new  == Post("finance", YearEndKey(r.month), r.month, YearEndLines(r.month))
             next == [r EXCEPT !.kind = "close"]
  <2>1. entries' = entries \union new /\ periods' = periods /\ r.kind = "year_end"
        /\ inFlight' \subseteq {next}
    BY <1>2, <1>9 DEF PostYearEnd
  <2>2. r.month \in Month /\ next.month = r.month
    BY <1>2
  <2>3. /\ \A n \in new : n.month = r.month /\ ~Closed(r.month) /\ n \notin entries
        /\ \A n1, n2 \in new : n1 = n2
    BY PostResult DEF Posted
  <2>4. AboutToClose(s, r) /\ Balance(s, r.month) = 0
    BY <2>1 DEF ClearInv, AboutToClose
  <2>5. AreAmounts(YearEndLines(r.month))
    BY <1>1, YearEndIsWhole
  <2>6. \A n \in new : Moved(n, s) = 0
    BY <2>4, <2>5, YearEndMovesNoSuspense DEF ClearInv
  <2> HIDE DEF new
  <2>7. Balance(s, r.month)' = Balance(s, r.month)
    BY <1>1, <2>1, <2>3, <2>6, UnmovedBalance
  <2>8. PeriodsInOrder' /\ ClosedAreClear(s)'
    BY <1>3, <2>1, <2>2, <2>3
  <2>9. AboutToClose(s, next)'
    BY <2>1, <2>2, <2>4, <2>7 DEF AboutToClose, Closed
  <2> QED
    BY <1>0, <2>1, <2>8, <2>9 DEF ClearInv
<1>10. ASSUME NEW r \in inFlight, SaveClose(r) PROVE ClearInv(s)'
  <2>1. /\ entries' = entries /\ inFlight' = {} /\ r.month \in Month
        /\ periods' = [periods EXCEPT ![r.month] = "closed"]
    BY <1>2, <1>10 DEF SaveClose
  <2>2. AboutToClose(s, r) /\ r.kind = "close"
    BY <1>10 DEF SaveClose, ClearInv
  <2>3. \A m \in Month : Closed(m)' = (Closed(m) \/ m = r.month)
    BY <2>1 DEF ClearInv, PeriodsInOrder, Closed
  <2>4. \A m : Balance(s, m)' = Balance(s, m)
    BY <2>1 DEF Balance, EntriesBy
  <2>5. ClosedAreClear(s)'
    BY <2>2, <2>3, <2>4 DEF ClosedAreClear, ClearInv, AboutToClose
  <2>6. ASSUME NEW m \in Month, Closed(m)', NEW n \in 1..m PROVE Closed(n)'
    <3>1. n \in Month
      BY BoundsAreNatural DEF Month
    <3>2. CASE Closed(m)
      BY <2>3, <2>6, <3>1, <3>2 DEF ClearInv, PeriodsInOrder
    <3>3. CASE m = r.month
      <4>1. n = m \/ n < m
        BY BoundsAreNatural DEF Month
      <4> QED
        BY <2>2, <2>3, <3>1, <3>3, <4>1 DEF AboutToClose
    <3> QED
      BY <2>3, <2>6, <3>2, <3>3
  <2>7. \A m \in Month : (periods'[m] # "none") = (periods[m] # "none")
    BY <2>1, <2>2 DEF ClearInv, PeriodsInOrder, AboutToClose
  <2>8. periods' \in [Month -> {"none", "open", "closed"}]
    BY <2>1 DEF ClearInv, PeriodsInOrder
  <2>9. PeriodsInOrder'
    BY <2>6, <2>7, <2>8 DEF ClearInv, PeriodsInOrder
  <2> QED
    BY <1>0, <2>1, <2>5, <2>9 DEF ClearInv
<1>11. ASSUME NEW x \in Service, Restart(x) PROVE ClearInv(s)'
  BY <1>0, <1>11, ClearStays DEF Restart
(* Periods are made, or the last closed one is opened.                     *)
<1>12. ASSUME UNCHANGED entries, PeriodsInOrder', \A m \in Month : Closed(m)' => Closed(m),
              inFlight' = {} \/ UNCHANGED <<inFlight, ClosedMonths>>,
              \A m \in Month : periods[m] # "none" => periods'[m] # "none"
       PROVE  ClearInv(s)'
  <2>1. \A m : Balance(s, m)' = Balance(s, m)
    BY <1>12 DEF Balance, EntriesBy
  <2>2. ClosedAreClear(s)'
    BY <1>12, <2>1 DEF ClosedAreClear, ClearInv
  <2>3. ASSUME UNCHANGED <<inFlight, ClosedMonths>>, NEW r \in inFlight PROVE AboutToClose(s, r)'
    <3>1. \A m \in Month : Closed(m)' <=> Closed(m)
      <4>1. \A m : m \in ClosedMonths' <=> m \in ClosedMonths
        BY <2>3
      <4> QED
        BY <4>1 DEF ClosedMonths
    <3>2. r.month \in Month /\ AboutToClose(s, r)
      BY <1>2, <2>3 DEF ClearInv
    <3> QED
      BY <1>12, <2>1, <3>1, <3>2 DEF AboutToClose
  <2>4. \A r \in inFlight' : AboutToClose(s, r)'
    BY <1>12, <2>3
  <2> QED
    BY <1>0, <1>12, <2>2, <2>4 DEF ClearInv
<1>13. CASE CreateYear
  <2>1. periods' = [m \in Month |-> IF periods[m] = "none" THEN "open" ELSE periods[m]]
        /\ UNCHANGED <<entries, inFlight>>
    BY <1>13 DEF CreateYear
  <2>2. \A m \in Month : Closed(m)' = Closed(m)
    BY <2>1 DEF Closed
  <2>3. \A m \in Month : \A n \in 1..m : n \in Month
    BY BoundsAreNatural DEF Month
  <2>4. PeriodsInOrder'
    <3>1. periods' \in [Month -> {"none", "open", "closed"}]
      BY <2>1 DEF ClearInv, PeriodsInOrder
    <3>2. \A n \in Month : periods'[n] # "none"
      BY <2>1
    <3> QED
      BY <2>2, <2>3, <3>1, <3>2 DEF ClearInv, PeriodsInOrder
  <2>5. ClosedMonths' = ClosedMonths
    BY <2>2 DEF ClosedMonths
  <2>6. \A m \in Month : periods'[m] # "none"
    BY <2>1
  <2> QED
    BY <1>12, <2>1, <2>2, <2>4, <2>5, <2>6
<1>14. ASSUME NEW m \in Month, CreateNamedPeriod(m) PROVE ClearInv(s)'
  <2>1. periods' = [periods EXCEPT ![m] = "open"] /\ UNCHANGED <<entries, inFlight>>
        /\ m = 1 /\ periods[m] = "none"
    BY <1>14 DEF CreateNamedPeriod, MonthsMadeInOrder
  <2>2. \A n \in Month : Closed(n)' = Closed(n)
    BY <2>1 DEF Closed, ClearInv, PeriodsInOrder
  <2>3. \A k \in Month : \A n \in 1..k : n \in Month
    BY BoundsAreNatural DEF Month
  <2>4. PeriodsInOrder'
    BY <2>1, <2>2, <2>3 DEF ClearInv, PeriodsInOrder
  <2>5. ClosedMonths' = ClosedMonths
    BY <2>2 DEF ClosedMonths
  <2> QED
    BY <1>12, <2>1, <2>2, <2>4, <2>5 DEF ClearInv, PeriodsInOrder
<1>15. ASSUME NEW m \in Month, Reopen(m) PROVE ClearInv(s)'
  <2>1. /\ inFlight = {} /\ UNCHANGED <<entries, inFlight>> /\ Closed(m)
        /\ periods' = [periods EXCEPT ![m] = "open"]
        /\ \A n \in Month : n > m => ~Closed(n)
    BY <1>15, ServingMeansIdle DEF Reopen
  <2>2. \A n \in Month : Closed(n)' = (Closed(n) /\ n # m)
    BY <2>1 DEF Closed, ClearInv, PeriodsInOrder
  <2>3. ASSUME NEW k \in Month, Closed(k)', NEW n \in 1..k PROVE Closed(n)'
    <3>0. Closed(k) /\ k # m /\ ~(k > m)
      BY <2>1, <2>2, <2>3
    <3>1. n \in Month /\ k < m
      BY <3>0, BoundsAreNatural DEF Month
    <3>2. n # m
      BY <3>1 DEF Month
    <3> QED
      BY <2>2, <2>3, <3>1, <3>2 DEF ClearInv, PeriodsInOrder
  <2>4. \A n \in Month : (periods'[n] # "none") = (periods[n] # "none")
    BY <2>1 DEF ClearInv, PeriodsInOrder, Closed
  <2>5. periods' \in [Month -> {"none", "open", "closed"}]
    BY <2>1 DEF ClearInv, PeriodsInOrder
  <2>6. PeriodsInOrder'
    BY <2>3, <2>4, <2>5 DEF ClearInv, PeriodsInOrder
  <2> QED
    BY <1>12, <2>1, <2>2, <2>4, <2>6
<1>16. CASE NextMonth \/ SwitchPosting \/ UNCHANGED vars
  BY <1>0, <1>16, ClearStays DEF NextMonth, SwitchPosting, Edit, vars
<1>17. ASSUME NEW a \in Editable, NEW role \in GivenRoles,
              CreateAccount(a, role) \/ UpdateAccount(a, role)
       PROVE  ClearInv(s)'
  BY <1>0, <1>17, ClearStays DEF CreateAccount, UpdateAccount, Edit
<1>18. ASSUME NEW a \in Editable, DeactivateAccount(a) PROVE ClearInv(s)'
  BY <1>0, <1>18, ClearStays DEF DeactivateAccount, Edit
<1> QED
  BY <1>4, <1>5, <1>6, <1>7, <1>8, <1>9, <1>10, <1>11, <1>13, <1>14, <1>15, <1>16, <1>17,
     <1>18 DEF Next

(* Behind closed months nothing is left in suspense, also after a year end *)
(* was posted into one, one request at a time: the checklist sees every    *)
(* earlier month closed, nothing is written behind it, and a year end      *)
(* names accounts that are there and finds retained earnings               *)
(* (suspenseIsEmpty, earlierPeriodsClosed, postYearEnd).                   *)
THEOREM SuspenseStaysClear ==
  ASSUME MaxInFlight = 1, MonthsMadeInOrder, ControlAccountsStay
  PROVE  Spec => []NoSuspenseBehindClose
<1>1. PICK s \in Account \ Editable : Holding(Seeded, "SUSPENSE") = {s}
  BY DEF ControlAccountsStay
<1> DEFINE Inv == /\ SerialInv /\ KeysInv /\ CopiesInv /\ BalanceInv /\ MirrorInv
                  /\ ClearInv(s)
<1>2. Init => Inv
  <2> SUFFICES ASSUME Init PROVE Inv
    OBVIOUS
  <2>1. KeysInv
    BY KeysInit
  <2>2. CopiesInv /\ BalanceInv /\ SerialInv
    BY FS_EmptySet DEF Init, CopiesInv, FinanceSeesTheChart, BalanceInv, Service, SerialInv
  <2>3. MirrorInv
    BY ChartIsSeeded DEF Init, MirrorInv, ChartTyped, CopiesKnown
  <2>4. ClearInv(s)
    BY <1>1 DEF Init, ClearInv, RolesHeld, PeriodsInOrder, ClosedAreClear, Closed
  <2> QED
    BY <2>1, <2>2, <2>3, <2>4
<1>3. Inv /\ [Next]_vars => Inv'
  BY MirrorStep, KeysStep, CopiesStep, BalanceStep, SerialStep, ClearStep
<1>4. Inv => NoSuspenseBehindClose
  <2> SUFFICES ASSUME Inv, NEW m \in Month, \A n \in 1..m : Closed(n)
               PROVE  RoleBalance("SUSPENSE", m) = 0
    BY DEF NoSuspenseBehindClose
  <2>1. Closed(m)
    BY BoundsAreNatural DEF Month
  <2>2. Balance(s, m) = 0 /\ Holding(chart, "SUSPENSE") = {s}
    BY <2>1 DEF ClearInv, ClosedAreClear, RolesHeld
  <2> QED
    BY <2>2, RoleOfOne
<1> QED
  BY <1>2, <1>3, <1>4, PTL DEF Spec

=============================================================================
