--------------------------- MODULE SessionsAndHandover_proofs ---------------------------
(***************************************************************************)
(* What holds of Sessions for any accounts, clients and windows: the       *)
(* passcode's window closes however requests overlap, and a session in     *)
(* use is not taken while requests are served one at a time.               *)
(*                                                                         *)
(* What holds of Handover for any units, sales, bills and bounds, where    *)
(* requests are served one at a time: RecognisedOnce and                   *)
(* WorkInProgressIsUnsold.  The two machines share nothing.                *)
(***************************************************************************)
EXTENDS Sessions, Handover, Money_proofs, FiniteSetTheorems, SequenceTheorems, TLAPS

-----------------------------------------------------------------------------
(* Every sign-in that proves who it was moves both ages, and nothing else  *)
(* moves either but time.                                                  *)
AgesAgree == sinceProof = sinceLogin

LEMMA AgesStay == AgesAgree /\ [Next]_vars => AgesAgree'
<1> SUFFICES ASSUME AgesAgree, [Next]_vars PROVE AgesAgree'
  OBVIOUS
<1>1. ASSUME NEW r \in inFlight, IssueStarts(r) PROVE AgesAgree'
  BY <1>1 DEF AgesAgree, IssueStarts, MovesLastLogin
<1>2. CASE Tick
  BY <1>2 DEF AgesAgree, Tick
<1>3. CASE UNCHANGED Logins
  BY <1>3 DEF AgesAgree, Logins
<1>4. ASSUME NEW c \in Client, NEW a \in Account,
             SignIn(c, a) \/ SignInByPasscode(c, a) \/ SwitchCompany(c, a)
      PROVE  UNCHANGED Logins
  BY <1>4 DEF SignIn, SignInByPasscode, SwitchCompany
<1>5. ASSUME NEW c \in Client,
             \/ Refresh(c) \/ RefreshRefused(c) \/ SwitchRole(c)
             \/ TouchReads(c) \/ SignOut(c) \/ GoAway(c) \/ TokenExpires(c)
      PROVE  UNCHANGED Logins
  BY <1>5 DEF Refresh, RefreshRefused, SwitchRole, TouchReads, SignOut, GoAway, TokenExpires
<1>6. ASSUME NEW r \in inFlight,
             \/ IssueAnswers(r) \/ TouchWrites(r) \/ SwitchLeaves(r)
             \/ EndDeletes(r) \/ ResetRevokes(r) \/ ResetEnds(r)
      PROVE  UNCHANGED Logins
  BY <1>6 DEF IssueAnswers, TouchWrites, SwitchLeaves, EndDeletes, ResetRevokes, ResetEnds
<1>7. ASSUME \/ \E a \in Account : CacheLoses(a)
             \/ \E targets \in SUBSET Account : ResetPassword(targets)
             \/ Crash \/ UNCHANGED vars
      PROVE  UNCHANGED Logins
  BY <1>7 DEF CacheLoses, ResetPassword, Crash, vars, Logins
<1> QED
  BY <1>1, <1>2, <1>3, <1>4, <1>5, <1>6, <1>7 DEF Next

(* However requests overlap, stop and are repeated, a passcode is accepted *)
(* only within its window of the last sign-in that proved who it was.      *)
THEOREM PasscodesRunOut == Spec => PasscodeWindowCloses
<1>1. Init => AgesAgree
  BY DEF Init, AgesAgree
<1>2. AgesAgree /\ [Next]_vars =>
        [\A c \in Client, a \in Account :
           SignInByPasscode(c, a) => sinceProof[a] < PasscodeWindow]_vars
  BY DEF AgesAgree, SignInByPasscode, WithinWindow
<1> QED
  BY <1>1, <1>2, AgesStay, PTL DEF Spec, PasscodeWindowCloses

-----------------------------------------------------------------------------
(* One request at a time: an assumption about the deployment.              *)
Serial == MaxInFlight = 1

RealSession == [account : Account, sid : Sid]

Record == [sid : Sid \union {"none"}, device : Client \union {NoDevice}, idle : Nat]

RecordsTyped ==
  /\ record \in [Account -> Record]
  /\ \A a \in Account : HasRecord(a) => record[a].sid \in Sid

HeldTyped == held \in [Client -> RealSession \union {NoSession}]

(* Nobody but c holds the session s; the device recorded for it is no      *)
(* other client's; and nobody else is using the account it is of.          *)
Sole(c, s) == \A other \in Client \ {c} : held[other] # s

DeviceFits(c, s) ==
  record[s.account].sid = s.sid => record[s.account].device \in {c, NoDevice}

Displaces(c, s) ==
  \A other \in Client \ {c} : InUse(other) => held[other].account # s.account

HeldApart ==
  \A c \in Client : held[c] # NoSession => Sole(c, held[c]) /\ DeviceFits(c, held[c])

(* What a request in flight was told, and nothing has changed since.       *)
MayAnswer(r) ==
  /\ r.client \in Client
  /\ r.session \in RealSession
  /\ Sole(r.client, r.session)
  /\ DeviceFits(r.client, r.session)

MayStart(r) ==
  /\ r = Start(r.client, r.device, r.session, r.full)
  /\ r.device \in {r.client, NoDevice}
  /\ MayAnswer(r)
  /\ Displaces(r.client, r.session)

MayTouch(r) ==
  /\ r.device \in {r.client, NoDevice}
  /\ MayAnswer(r)
  /\ Displaces(r.client, r.session)

GoesOnTo(r) == \A next \in r.next : MayStart(next) /\ r.next = {next}

MayLeave(r) ==
  /\ r = [kind |-> "leave", client |-> r.client, session |-> r.session, next |-> r.next]
  /\ r.client \in Client
  /\ r.session \in RealSession
  /\ Sole(r.client, r.session)
  /\ GoesOnTo(r)

MayEnd(r) ==
  /\ r.session \in RealSession
  /\ Displaces(r.client, r.session)
  /\ GoesOnTo(r)

MayReset(r) ==
  r = [kind |-> r.kind, client |-> r.client, session |-> r.session, targets |-> r.targets]

Allowed(r) ==
  /\ r.kind = "start"  => MayStart(r)
  /\ r.kind = "answer" => MayAnswer(r)
  /\ r.kind = "touch"  => MayTouch(r)
  /\ r.kind = "leave"  => MayLeave(r)
  /\ r.kind = "end"    => MayEnd(r)
  /\ r.kind = "reset"  => MayReset(r)

(* A client with a refresh token has a session.                            *)
TokensHeld == \A c \in tokens : c \in Client /\ held[c] # NoSession

OneRequest == \A r1, r2 \in inFlight : r1 = r2

SoleInv ==
  /\ RecordsTyped
  /\ HeldTyped
  /\ HeldApart
  /\ TokensHeld
  /\ OneRequest
  /\ IsFiniteSet(inFlight)
  /\ \A r \in inFlight : Allowed(r)

LEMMA SoleInit == Init => SoleInv
<1> SUFFICES ASSUME Init PROVE SoleInv
  OBVIOUS
<1>1. RecordsTyped /\ HeldTyped /\ HeldApart
  BY DEF Init, RecordsTyped, HeldTyped, HeldApart, HasRecord, Record, NoRecord, NoDevice
<1>2. TokensHeld /\ OneRequest /\ IsFiniteSet(inFlight) /\ \A r \in inFlight : Allowed(r)
  BY FS_EmptySet DEF Init, OneRequest, TokensHeld
<1> QED
  BY <1>1, <1>2 DEF SoleInv

(* While one is served nothing else is asked.                              *)
LEMMA ServesOne ==
  ASSUME Serial, IsFiniteSet(inFlight), CanServe
  PROVE  inFlight = {}
<1>1. Cardinality(inFlight) = 0
  BY FS_CardinalityType DEF Serial, CanServe
<1> QED
  BY <1>1, FS_EmptySet

(* A new id is none that is recorded or held.                              *)
LEMMA NewIsNew ==
  ASSUME NEW sid, NewSid(sid)
  PROVE  /\ sid \in Sid
         /\ \A a \in Account : record[a].sid # sid
         /\ \A c \in Client : held[c].sid # sid
<1>1. \E s : s \in Sid \ KnownSids
  BY DEF NewSid
<1>2. sid \in Sid \ KnownSids
  BY <1>1 DEF NewSid
<1> QED
  BY <1>2 DEF KnownSids

-----------------------------------------------------------------------------
(* Sessions that only go away, and records that only age or are lost, take *)
(* nothing from what is allowed.                                           *)
Decays ==
  /\ \A c \in Client : held'[c] \in {held[c], NoSession}
  /\ \A a \in Account :
       \/ record'[a] = NoRecord
       \/ /\ HasRecord(a)
          /\ record'[a].sid = record[a].sid
          /\ record'[a].device = record[a].device
          /\ HasLapsed(a) => record'[a].idle = Inactivity

LEMMA DecayKeeps ==
  ASSUME SoleInv, Decays, NEW c, NEW s \in RealSession
  PROVE  /\ Sole(c, s) => Sole(c, s)'
         /\ DeviceFits(c, s) => DeviceFits(c, s)'
         /\ Displaces(c, s) => Displaces(c, s)'
<1>0. s.account \in Account /\ s.sid \in Sid /\ s # NoSession
  BY SessionNames DEF RealSession, NoSession
<1>1. Sole(c, s) => Sole(c, s)'
  BY <1>0 DEF Decays, Sole
<1>2. DeviceFits(c, s) => DeviceFits(c, s)'
  BY <1>0, SessionNames DEF Decays, DeviceFits, NoRecord
<1>3. ASSUME NEW other \in Client, InUse(other)'
      PROVE  InUse(other) /\ held'[other] = held[other]
  <2>1. held'[other] = held[other] /\ held[other] # NoSession
    BY <1>3 DEF Decays, InUse
  <2>2. held[other].account \in Account
    BY <2>1 DEF SoleInv, HeldTyped, RealSession
  <2> DEFINE a == held[other].account
  <2>3. record'[a] # NoRecord /\ record'[a].idle # Inactivity /\ record'[a].sid = held[other].sid
    BY <1>3, <2>1 DEF InUse, HasRecord, IsCurrent, HasLapsed
  <2>4. HasRecord(a) /\ record[a].sid = held[other].sid /\ ~HasLapsed(a)
    BY <2>2, <2>3 DEF Decays
  <2> QED
    BY <2>1, <2>4 DEF InUse, IsCurrent
<1>4. Displaces(c, s) => Displaces(c, s)'
  BY <1>3 DEF Displaces
<1> QED
  BY <1>1, <1>2, <1>4

LEMMA DecayKeepsHeld ==
  ASSUME SoleInv, Decays, HeldTyped' PROVE HeldApart'
<1> SUFFICES ASSUME NEW c \in Client, held'[c] # NoSession
             PROVE  Sole(c, held[c])' /\ DeviceFits(c, held[c])'
  BY DEF HeldApart
<1>1. held'[c] = held[c] /\ held[c] # NoSession
  BY DEF Decays
<1>2. held[c] \in RealSession /\ Sole(c, held[c]) /\ DeviceFits(c, held[c])
  BY <1>1 DEF SoleInv, HeldTyped, HeldApart
<1>3. /\ \A other \in Client \ {c} : held'[other] # held[c]
      /\ record'[held[c].account].sid = held[c].sid => record'[held[c].account].device \in {c, NoDevice}
  BY <1>2, DecayKeeps DEF Sole, DeviceFits
<1> QED
  BY <1>1, <1>3 DEF Sole, DeviceFits

LEMMA DecayKeepsStart ==
  ASSUME SoleInv, Decays, NEW r, MayStart(r) PROVE MayStart(r)'
<1>1. r.session \in RealSession
  BY DEF MayStart, MayAnswer
<1> QED
  BY <1>1, DecayKeeps DEF MayStart, MayAnswer

LEMMA DecayKeepsRequests ==
  ASSUME SoleInv, Decays, NEW r, Allowed(r) PROVE Allowed(r)'
<1>1. r.kind = "start" => MayStart(r)'
  BY DecayKeepsStart DEF Allowed
<1>2. r.kind = "answer" => MayAnswer(r)'
  BY DecayKeeps DEF Allowed, MayAnswer
<1>3. r.kind = "touch" => MayTouch(r)'
  BY DecayKeeps DEF Allowed, MayTouch, MayAnswer
<1>4. GoesOnTo(r) => GoesOnTo(r)'
  BY DecayKeepsStart DEF GoesOnTo
<1>5. r.kind = "leave" => MayLeave(r)'
  BY <1>4, DecayKeeps DEF Allowed, MayLeave
<1>6. r.kind = "end" => MayEnd(r)'
  BY <1>4, DecayKeeps DEF Allowed, MayEnd
<1> QED
  BY <1>1, <1>2, <1>3, <1>5, <1>6 DEF Allowed, MayReset

LEMMA DecayStep ==
  ASSUME SoleInv, Decays, RecordsTyped', HeldTyped', TokensHeld', OneRequest',
         IsFiniteSet(inFlight'), \A q \in inFlight' : Allowed(q)
  PROVE  SoleInv'
BY DecayKeepsHeld, DecayKeepsRequests DEF SoleInv

LEMMA SameDecays ==
  ASSUME SoleInv, UNCHANGED <<record, held>>
  PROVE  Decays /\ RecordsTyped' /\ HeldTyped'
<1>1. RecordsTyped' /\ HeldTyped'
  BY DEF SoleInv, RecordsTyped, HeldTyped, HasRecord
<1>2. Decays
  BY DEF Decays, HasRecord, HasLapsed
<1> QED
  BY <1>1, <1>2

LEMMA Asked ==
  ASSUME Serial, SoleInv, CanServe, NEW r, Ask(r), Allowed(r),
         UNCHANGED <<record, held, tokens>>
  PROVE  SoleInv'
<1>1. inFlight' = {r}
  BY ServesOne DEF SoleInv, Ask
<1>2. IsFiniteSet(inFlight') /\ OneRequest' /\ \A q \in inFlight' : Allowed(q)
  BY <1>1, FS_Singleton DEF OneRequest
<1>3. TokensHeld'
  BY DEF SoleInv, TokensHeld
<1> QED
  BY <1>2, <1>3, SameDecays, DecayStep

(* A request that goes on: it was the only one, and its next is.           *)
LEMMA WentOn ==
  ASSUME SoleInv, NEW r \in inFlight, NEW next, GoesOn(r, next),
         \A q1, q2 \in next : q1 = q2
  PROVE  inFlight' = next /\ OneRequest' /\ IsFiniteSet(inFlight')
<1>1. inFlight = {r}
  BY DEF SoleInv, OneRequest
<1>2. inFlight' = next
  BY <1>1 DEF GoesOn
<1>3. IsFiniteSet(next)
  <2>1. CASE next = {}
    BY <2>1, FS_EmptySet
  <2>2. CASE next # {}
    <3>1. PICK q \in next : TRUE
      BY <2>2
    <3>2. next = {q}
      BY <3>1
    <3> QED
      BY <3>2, FS_Singleton
  <2> QED
    BY <2>1, <2>2
<1> QED
  BY <1>2, <1>3 DEF OneRequest

(* A new sign-in displaces nobody: it is let in where nobody is, or nobody *)
(* has been for long, or where the same client was.                        *)
LEMMA NewMayStart ==
  ASSUME SoleInv, NEW c \in Client, NEW a \in Account, NEW device \in DevicesOf(c),
         NEW sid, NewSid(sid), CanSignIn(a, device), NEW full
  PROVE  MayStart(Start(c, device, Session(a, sid), full))
<1> DEFINE s == Session(a, sid)
<1>1. s \in RealSession /\ s.account = a /\ s.sid = sid
  BY NewIsNew DEF Session, RealSession
<1>2. Sole(c, s) /\ DeviceFits(c, s)
  BY <1>1, NewIsNew DEF Sole, DeviceFits
<1>3. ASSUME NEW other \in Client \ {c}, InUse(other), held[other].account = a PROVE FALSE
  <2>1. /\ HasRecord(a) /\ ~HasLapsed(a) /\ record[a].sid = held[other].sid
        /\ held[other] # NoSession
    BY <1>3 DEF InUse, IsCurrent
  <2>2. device # NoDevice /\ record[a].device = device
    BY <2>1 DEF CanSignIn
  <2>3. record[a].device \in {other, NoDevice}
    BY <1>3, <2>1 DEF SoleInv, HeldApart, DeviceFits
  <2> QED
    BY <2>2, <2>3 DEF DevicesOf
<1>4. Displaces(c, s)
  BY <1>1, <1>3 DEF Displaces
<1> QED
  BY <1>1, <1>2, <1>4 DEF MayStart, MayAnswer, Start, DevicesOf

(* Who holds the current session is alone with it.                         *)
LEMMA HolderDisplacesNobody ==
  ASSUME SoleInv, NEW c \in Client, held[c] # NoSession, IsCurrent(held[c])
  PROVE  /\ held[c] \in RealSession
         /\ Sole(c, held[c]) /\ DeviceFits(c, held[c]) /\ Displaces(c, held[c])
<1>1. held[c] \in RealSession /\ Sole(c, held[c]) /\ DeviceFits(c, held[c])
  BY DEF SoleInv, HeldTyped, HeldApart
<1>2. ASSUME NEW other \in Client \ {c}, InUse(other), held[other].account = held[c].account
      PROVE  FALSE
  <2>1. held[other] \in RealSession
    BY <1>2 DEF SoleInv, HeldTyped, InUse
  <2>2. held[other].sid = held[c].sid
    BY <1>2 DEF InUse, IsCurrent
  <2>3. held[other] = held[c]
    BY <1>1, <1>2, <2>1, <2>2 DEF RealSession
  <2> QED
    BY <1>1, <2>3 DEF Sole
<1> QED
  BY <1>1, <1>2 DEF Displaces

LEMMA HolderMayStart ==
  ASSUME SoleInv, NEW c \in Client, held[c] # NoSession, IsCurrent(held[c]),
         NEW device \in DevicesOf(c), NEW full
  PROVE  MayStart(Start(c, device, held[c], full))
BY HolderDisplacesNobody DEF MayStart, MayAnswer, Start, DevicesOf

LEMMA StartIsAllowed == ASSUME NEW r, MayStart(r) PROVE Allowed(r)
<1>1. r.kind = "start"
  BY DEF MayStart, Start
<1> QED
  BY <1>1 DEF Allowed

-----------------------------------------------------------------------------
(* Every operation keeps what is allowed.                                  *)
LEMMA SignInKeeps ==
  ASSUME Serial, SoleInv, NEW c \in Client, NEW a \in Account,
         SignIn(c, a) \/ SignInByPasscode(c, a)
  PROVE  SoleInv'
<1>1. CanServe /\ UNCHANGED <<record, held, tokens>>
  BY DEF SignIn, SignInByPasscode
<1>2. \E device \in DevicesOf(c), sid \in Sid, full \in BOOLEAN :
        /\ CanSignIn(a, device) /\ NewSid(sid)
        /\ Ask(Start(c, device, Session(a, sid), full))
  <2>1. CASE SignIn(c, a)
    BY <2>1 DEF SignIn
  <2>2. CASE SignInByPasscode(c, a)
    BY <2>2 DEF SignInByPasscode
  <2> QED
    BY <2>1, <2>2
<1> QED
  BY <1>1, <1>2, NewMayStart, StartIsAllowed, Asked

LEMMA RefreshKeeps ==
  ASSUME Serial, SoleInv, NEW c \in Client, Refresh(c) \/ SwitchRole(c)
  PROVE  SoleInv'
<1>1. PICK device \in DevicesOf(c) : Ask(Start(c, device, held[c], FALSE))
  BY DEF Refresh, SwitchRole
<1>2. CanServe /\ IsCurrent(held[c]) /\ held[c] # NoSession /\ UNCHANGED <<record, held, tokens>>
  BY DEF Refresh, SwitchRole, SoleInv, TokensHeld
<1> QED
  BY <1>1, <1>2, HolderMayStart, StartIsAllowed, Asked

LEMMA TouchReadsKeeps ==
  ASSUME Serial, SoleInv, NEW c \in Client, TouchReads(c) PROVE SoleInv'
<1> DEFINE s == held[c]
           r == [kind |-> "touch", client |-> c, session |-> s, device |-> record[s.account].device]
<1>1. CanServe /\ s # NoSession /\ HasRecord(s.account) /\ IsCurrent(s) /\ Ask(r) /\ UNCHANGED <<record, held, tokens>>
  BY DEF TouchReads
<1>2. record[s.account].sid = s.sid
  BY <1>1 DEF IsCurrent
<1>3. MayTouch(r)
  BY <1>1, <1>2, HolderDisplacesNobody DEF MayTouch, MayAnswer, DeviceFits
<1>4. Allowed(r)
  BY <1>3 DEF Allowed
<1> QED
  BY <1>1, <1>4, Asked

LEMMA SwitchCompanyKeeps ==
  ASSUME Serial, SoleInv, NEW c \in Client, NEW b \in Account, SwitchCompany(c, b)
  PROVE  SoleInv'
<1>1. PICK device \in DevicesOf(c), sid \in Sid :
        /\ CanSignIn(b, device) /\ NewSid(sid)
        /\ Ask([kind |-> "leave", client |-> c, session |-> held[c],
                next |-> {Start(c, device, Session(b, sid), FALSE)}])
  BY DEF SwitchCompany
<1>2. CanServe /\ held[c] # NoSession /\ IsCurrent(held[c]) /\ UNCHANGED <<record, held, tokens>>
  BY DEF SwitchCompany
<1> DEFINE n == Start(c, device, Session(b, sid), FALSE)
           r == [kind |-> "leave", client |-> c, session |-> held[c], next |-> {n}]
<1>3. MayStart(n)
  BY <1>1, NewMayStart
<1>4. GoesOnTo(r)
  BY <1>3 DEF GoesOnTo
<1>5. MayLeave(r)
  BY <1>2, <1>4, HolderDisplacesNobody DEF MayLeave
<1>6. Allowed(r)
  BY <1>5 DEF Allowed
<1> QED
  BY <1>1, <1>2, <1>6, Asked

(* A record that is written anew for the one who holds its session.        *)
LEMMA RenewalKeepsHeld ==
  ASSUME SoleInv, NEW r, MayAnswer(r), UNCHANGED held,
         record'[r.session.account].sid = r.session.sid,
         record'[r.session.account].device \in {r.client, NoDevice},
         \A b \in Account \ {r.session.account} : record'[b] = record[b]
  PROVE  HeldApart'
<1> DEFINE s == r.session
           a == s.account
<1>0. s \in RealSession
  BY DEF MayAnswer
<1> SUFFICES ASSUME NEW c \in Client, held[c] # NoSession
             PROVE  Sole(c, held[c])' /\ DeviceFits(c, held[c])'
  BY DEF HeldApart
<1>1. held[c] \in RealSession /\ Sole(c, held[c]) /\ DeviceFits(c, held[c])
  BY DEF SoleInv, HeldTyped, HeldApart
<1>2. Sole(c, held[c])'
  BY <1>1 DEF Sole
<1>3. CASE held[c].account = a /\ held[c].sid = s.sid
  <2>1. held[c] = s
    BY <1>0, <1>1, <1>3 DEF RealSession
  <2>2. c = r.client
    BY <2>1 DEF MayAnswer, Sole
  <2> QED
    BY <1>2, <1>3, <2>2 DEF DeviceFits
<1>4. CASE ~(held[c].account = a /\ held[c].sid = s.sid)
  BY <1>1, <1>2, <1>4 DEF DeviceFits, RealSession
<1> QED
  BY <1>3, <1>4

LEMMA IssueStartsKeeps ==
  ASSUME SoleInv, NEW r \in inFlight, IssueStarts(r) PROVE SoleInv'
<1> DEFINE s == r.session
           a == s.account
           n == [kind |-> "answer", client |-> r.client, session |-> s]
<1>1. MayStart(r)
  BY DEF IssueStarts, SoleInv, Allowed
<1>2. s \in RealSession /\ a \in Account /\ s.sid \in Sid /\ r.client \in Client
  BY <1>1 DEF MayStart, MayAnswer, RealSession
<1>3. UNCHANGED <<held, tokens>> /\ record' = [record EXCEPT ![a] = Started(a, s.sid, r.device)]
  BY DEF IssueStarts
<1>4. GoesOn(r, {n})
  BY DEF IssueStarts
<1>5. inFlight' = {n} /\ OneRequest' /\ IsFiniteSet(inFlight')
  BY <1>4, WentOn
<1>6. record[a] \in Record
  BY <1>2 DEF SoleInv, RecordsTyped
<1>7. Started(a, s.sid, r.device) \in Record /\ Started(a, s.sid, r.device).sid = s.sid
  BY <1>1, <1>2, <1>6, SessionBounds DEF Started, Record, MayStart
<1>8. RecordsTyped'
  BY <1>2, <1>3, <1>7 DEF SoleInv, RecordsTyped, HasRecord
<1>9. /\ record'[a].sid = s.sid
      /\ record'[a].device \in {r.client, NoDevice}
      /\ \A b \in Account \ {a} : record'[b] = record[b]
  BY <1>1, <1>2, <1>3 DEF SoleInv, RecordsTyped, Started, MayStart, MayAnswer, DeviceFits
<1>10. HeldApart'
  BY <1>1, <1>3, <1>9, RenewalKeepsHeld DEF MayStart
<1>11. MayAnswer(n)'
  BY <1>1, <1>2, <1>3, <1>9 DEF MayStart, MayAnswer, Sole, DeviceFits
<1>12. Allowed(n)'
  BY <1>11 DEF Allowed
<1>13. TokensHeld' /\ HeldTyped'
  BY <1>3 DEF SoleInv, TokensHeld, HeldTyped
<1> QED
  BY <1>5, <1>8, <1>10, <1>12, <1>13 DEF SoleInv

LEMMA IssueAnswersKeeps ==
  ASSUME SoleInv, NEW r \in inFlight, IssueAnswers(r) PROVE SoleInv'
<1> DEFINE s == r.session
<1>1. MayAnswer(r)
  BY DEF IssueAnswers, SoleInv, Allowed
<1>2. s \in RealSession /\ s # NoSession /\ r.client \in Client
  BY <1>1, SessionNames DEF MayAnswer, RealSession, NoSession
<1>3. /\ UNCHANGED record
      /\ held' = [held EXCEPT ![r.client] = s]
      /\ tokens' = tokens \union {r.client}
      /\ GoesOn(r, {})
  BY DEF IssueAnswers, Done
<1>4. inFlight' = {} /\ OneRequest' /\ IsFiniteSet(inFlight')
  BY <1>3, WentOn
<1>5. HeldTyped' /\ TokensHeld' /\ RecordsTyped'
  BY <1>2, <1>3 DEF SoleInv, HeldTyped, TokensHeld, RecordsTyped, HasRecord
<1>6. ASSUME NEW c \in Client, held'[c] # NoSession
      PROVE  Sole(c, held[c])' /\ DeviceFits(c, held[c])'
  <2>1. CASE c = r.client
    BY <1>1, <1>2, <1>3, <2>1 DEF SoleInv, HeldTyped, MayAnswer, Sole, DeviceFits
  <2>2. CASE c # r.client
    BY <1>1, <1>2, <1>3, <1>6, <2>2 DEF SoleInv, HeldTyped, HeldApart, MayAnswer, Sole, DeviceFits
  <2> QED
    BY <2>1, <2>2
<1> QED
  BY <1>4, <1>5, <1>6 DEF SoleInv, HeldApart

LEMMA TouchWritesKeeps ==
  ASSUME SoleInv, NEW r \in inFlight, TouchWrites(r) PROVE SoleInv'
<1> DEFINE s == r.session
           a == s.account
<1>1. MayTouch(r)
  BY DEF TouchWrites, SoleInv, Allowed
<1>2. s \in RealSession /\ a \in Account /\ s.sid \in Sid /\ r.client \in Client
  BY <1>1 DEF MayTouch, MayAnswer, RealSession
<1>3. /\ UNCHANGED <<held, tokens>>
      /\ record' = [record EXCEPT ![a] = [sid |-> s.sid, device |-> r.device, idle |-> 0]]
      /\ GoesOn(r, {})
  BY DEF TouchWrites, Done
<1>4. inFlight' = {} /\ OneRequest' /\ IsFiniteSet(inFlight')
  BY <1>3, WentOn
<1>5. RecordsTyped'
  BY <1>1, <1>2, <1>3 DEF SoleInv, RecordsTyped, HasRecord, Record, MayTouch
<1>6. /\ record'[a].sid = s.sid
      /\ record'[a].device \in {r.client, NoDevice}
      /\ \A b \in Account \ {a} : record'[b] = record[b]
  BY <1>1, <1>2, <1>3 DEF SoleInv, RecordsTyped, MayTouch
<1>7. HeldApart'
  BY <1>1, <1>3, <1>6, RenewalKeepsHeld DEF MayTouch
<1>8. TokensHeld' /\ HeldTyped'
  BY <1>3 DEF SoleInv, TokensHeld, HeldTyped
<1> QED
  BY <1>4, <1>5, <1>7, <1>8 DEF SoleInv

(* Who leaves a session that is still the recorded one displaces nobody.   *)
LEMMA LeaverDisplacesNobody ==
  ASSUME SoleInv, NEW c, NEW s \in RealSession, Sole(c, s), OwnOrNone(s)
  PROVE  Displaces(c, s)
<1> SUFFICES ASSUME NEW other \in Client \ {c}, InUse(other), held[other].account = s.account
             PROVE  FALSE
  BY DEF Displaces
<1>1. held[other] \in RealSession
  BY DEF SoleInv, HeldTyped, InUse
<1>2. record[s.account].sid \in Sid /\ record[s.account].sid = held[other].sid
  BY <1>1 DEF InUse, IsCurrent, SoleInv, RecordsTyped, RealSession
<1>3. held[other].sid = s.sid
  BY <1>2, SessionNames DEF OwnOrNone, NoRecord
<1>4. held[other] = s
  BY <1>1, <1>3 DEF RealSession
<1> QED
  BY <1>4 DEF Sole

LEMMA SwitchLeavesKeeps ==
  ASSUME SoleInv, NEW r \in inFlight, SwitchLeaves(r) PROVE SoleInv'
<1>1. MayLeave(r)
  BY DEF SwitchLeaves, SoleInv, Allowed
<1> DEFINE e == [r EXCEPT !.kind = "end"]
           next == IF OwnOrNone(r.session) THEN {e} ELSE r.next
<1>2. UNCHANGED <<record, held>> /\ tokens' \subseteq tokens /\ GoesOn(r, next)
  BY DEF SwitchLeaves
<1>3. /\ e.kind = "end" /\ e.client = r.client
      /\ e.session = r.session /\ e.next = r.next
  BY <1>1 DEF MayLeave
<1>4. ASSUME OwnOrNone(r.session) PROVE Allowed(e)
  <2>1. Displaces(r.client, r.session)
    BY <1>1, <1>4, LeaverDisplacesNobody DEF MayLeave
  <2>2. MayEnd(e)
    BY <1>1, <1>3, <2>1 DEF MayLeave, MayEnd, GoesOnTo
  <2> QED
    BY <1>3, <2>2 DEF Allowed
<1>5. \A q \in r.next : Allowed(q) /\ r.next = {q}
  BY <1>1, StartIsAllowed DEF MayLeave, GoesOnTo
<1>6. (\A q1, q2 \in next : q1 = q2) /\ \A q \in next : Allowed(q)
  BY <1>4, <1>5
<1>7. inFlight' = next /\ OneRequest' /\ IsFiniteSet(inFlight')
  BY <1>2, <1>6, WentOn
<1>8. TokensHeld'
  BY <1>2 DEF SoleInv, TokensHeld
<1> QED
  BY <1>2, <1>6, <1>7, <1>8, SameDecays, DecayStep

LEMMA SignOutKeeps ==
  ASSUME Serial, SoleInv, NEW c \in Client, SignOut(c) PROVE SoleInv'
<1>0. PICK s : s = held[c]
  OBVIOUS
<1> DEFINE e == [kind |-> "end", client |-> "none", session |-> s, next |-> {}]
<1>1. s # NoSession /\ s \in RealSession
  BY <1>0 DEF SignOut, SoleInv, HeldTyped
<1>2. inFlight = {}
  BY ServesOne DEF SignOut, SoleInv
<1>3. /\ held' = [held EXCEPT ![c] = NoSession]
      /\ tokens' = tokens \ {c}
      /\ UNCHANGED record
  BY DEF SignOut
<1>4. inFlight' = {} \/ (OwnOrNone(s) /\ inFlight' = {e})
  BY <1>0, <1>2 DEF SignOut, SignsOut, Ask
<1>5. HeldTyped' /\ TokensHeld' /\ RecordsTyped'
  BY <1>3 DEF SoleInv, HeldTyped, TokensHeld, RecordsTyped, HasRecord
<1>6. Decays
  BY <1>3 DEF SoleInv, HeldTyped, Decays, HasRecord, HasLapsed
<1>7. OneRequest' /\ IsFiniteSet(inFlight')
  BY <1>4, FS_EmptySet, FS_Singleton DEF OneRequest
<1>8. HeldApart'
  BY <1>5, <1>6, DecayKeepsHeld
<1>9. ASSUME OwnOrNone(s) PROVE Allowed(e)'
  <2>1. Displaces(c, s)
    BY <1>0, <1>1, <1>9, LeaverDisplacesNobody DEF SoleInv, HeldApart
  <2>2. Displaces(c, s)'
    BY <1>1, <1>6, <2>1, DecayKeeps
  <2>3. ~InUse(c)'
    BY <1>3 DEF SoleInv, HeldTyped, InUse
  <2>4. Displaces("none", s)'
    BY <2>2, <2>3 DEF Displaces
  <2>5. MayEnd(e)'
    BY <1>1, <2>4 DEF MayEnd, GoesOnTo
  <2> QED
    BY <2>5 DEF Allowed
<1>10. \A q \in inFlight' : Allowed(q)'
  BY <1>4, <1>9
<1> QED
  BY <1>5, <1>7, <1>8, <1>10 DEF SoleInv

(* What only loses sessions, records, tokens or requests.                  *)
LEMMA EndDeletesKeeps ==
  ASSUME SoleInv, NEW r \in inFlight, EndDeletes(r) PROVE SoleInv'
<1>1. MayEnd(r)
  BY DEF EndDeletes, SoleInv, Allowed
<1>2. /\ record' = [record EXCEPT ![r.session.account] = NoRecord]
      /\ UNCHANGED <<tokens, held>>
      /\ GoesOn(r, r.next)
  BY DEF EndDeletes
<1>3. HeldTyped' /\ TokensHeld' /\ RecordsTyped'
  BY <1>2 DEF SoleInv, HeldTyped, TokensHeld, RecordsTyped, HasRecord, Record, NoRecord, NoDevice
<1>4. Decays
  BY <1>2 DEF SoleInv, RecordsTyped, Decays, HasRecord, HasLapsed
<1>5. (\A q1, q2 \in r.next : q1 = q2) /\ \A q \in r.next : Allowed(q)
  BY <1>1, StartIsAllowed DEF MayEnd, GoesOnTo
<1>6. inFlight' = r.next /\ OneRequest' /\ IsFiniteSet(inFlight')
  BY <1>2, <1>5, WentOn
<1> QED
  BY <1>3, <1>4, <1>5, <1>6, DecayStep

LEMMA ResetKeeps ==
  ASSUME Serial, SoleInv, NEW targets, ResetPassword(targets) PROVE SoleInv'
<1> DEFINE r == [kind |-> "reset", client |-> "none", session |-> NoSession, targets |-> targets]
<1>1. Allowed(r)
  BY DEF Allowed, MayReset
<1> QED
  BY <1>1, Asked DEF ResetPassword

LEMMA ResetRevokesKeeps ==
  ASSUME SoleInv, NEW r \in inFlight, ResetRevokes(r) PROVE SoleInv'
<1> DEFINE next == {[r EXCEPT !.kind = "revoked"]}
<1>1. UNCHANGED <<record, held>> /\ tokens' \subseteq tokens /\ GoesOn(r, next)
  BY DEF ResetRevokes
<1>2. inFlight' = next /\ OneRequest' /\ IsFiniteSet(inFlight')
  BY <1>1, WentOn
<1>3. \A q \in next : Allowed(q)
  BY DEF ResetRevokes, SoleInv, Allowed, MayReset
<1>4. TokensHeld'
  BY <1>1 DEF SoleInv, TokensHeld
<1> QED
  BY <1>1, <1>2, <1>3, <1>4, SameDecays, DecayStep

LEMMA ResetEndsKeeps ==
  ASSUME SoleInv, NEW r \in inFlight, ResetEnds(r) PROVE SoleInv'
<1>1. /\ record' = [a \in Account |-> IF a \in r.targets THEN NoRecord ELSE record[a]]
      /\ UNCHANGED <<tokens, held>>
      /\ GoesOn(r, {})
  BY DEF ResetEnds, Done
<1>2. HeldTyped' /\ TokensHeld' /\ RecordsTyped'
  BY <1>1 DEF SoleInv, HeldTyped, TokensHeld, RecordsTyped, HasRecord, Record, NoRecord, NoDevice
<1>3. Decays
  BY <1>1 DEF SoleInv, RecordsTyped, Decays, HasRecord, HasLapsed
<1>4. inFlight' = {} /\ OneRequest' /\ IsFiniteSet(inFlight')
  BY <1>1, WentOn
<1> QED
  BY <1>2, <1>3, <1>4, DecayStep

LEMMA ClientLeavesKeeps ==
  ASSUME SoleInv, NEW c \in Client, RefreshRefused(c) \/ GoAway(c) \/ TokenExpires(c)
  PROVE  SoleInv'
<1>1. /\ held' = [held EXCEPT ![c] = NoSession] \/ held' = held
      /\ tokens' = tokens \ {c}
      /\ UNCHANGED <<record, inFlight>>
  BY DEF RefreshRefused, GoAway, TokenExpires
<1>2. HeldTyped' /\ RecordsTyped'
  BY <1>1 DEF SoleInv, HeldTyped, RecordsTyped, HasRecord
<1>3. \A other \in Client \ {c} : held'[other] = held[other]
  BY <1>1 DEF SoleInv, HeldTyped
<1>4. TokensHeld'
  BY <1>1, <1>3 DEF SoleInv, TokensHeld
<1>5. Decays
  BY <1>1 DEF SoleInv, HeldTyped, Decays, HasRecord, HasLapsed
<1> QED
  BY <1>1, <1>2, <1>4, <1>5, DecayStep DEF SoleInv, OneRequest

LEMMA CacheLosesKeeps ==
  ASSUME SoleInv, NEW b \in Account, CacheLoses(b) PROVE SoleInv'
<1>1. record' = [record EXCEPT ![b] = NoRecord] /\ UNCHANGED <<tokens, held, inFlight>>
  BY DEF CacheLoses
<1>2. HeldTyped' /\ TokensHeld' /\ RecordsTyped'
  BY <1>1 DEF SoleInv, HeldTyped, TokensHeld, RecordsTyped, HasRecord, Record, NoRecord, NoDevice
<1>3. Decays
  BY <1>1 DEF SoleInv, RecordsTyped, Decays, HasRecord, HasLapsed
<1> QED
  BY <1>1, <1>2, <1>3, DecayStep DEF SoleInv, OneRequest

LEMMA CrashKeeps == SoleInv /\ Crash => SoleInv'
<1> SUFFICES ASSUME SoleInv, Crash PROVE SoleInv'
  OBVIOUS
<1>1. inFlight' = {} /\ UNCHANGED <<record, tokens, held>>
  BY DEF Crash
<1>2. TokensHeld' /\ OneRequest' /\ IsFiniteSet(inFlight')
  BY <1>1, FS_EmptySet DEF SoleInv, TokensHeld, OneRequest
<1> QED
  BY <1>1, <1>2, SameDecays, DecayStep

LEMMA TickKeeps == SoleInv /\ Tick => SoleInv'
<1> SUFFICES ASSUME SoleInv, Tick PROVE SoleInv'
  OBVIOUS
<1>1. UNCHANGED <<tokens, held, inFlight>>
  BY DEF Tick
<1>2. \A a \in Account :
        /\ ~HasRecord(a) => record'[a] = record[a]
        /\ HasRecord(a) => record'[a] = [record[a] EXCEPT !.idle = Older(@, Inactivity)]
  BY DEF Tick
<1>3. \A a \in Account : record[a] \in Record
  BY DEF SoleInv, RecordsTyped
<1>4. ASSUME NEW a \in Account
      PROVE  /\ record'[a] \in Record
             /\ record'[a].sid = record[a].sid /\ record'[a].device = record[a].device
             /\ HasRecord(a) /\ HasLapsed(a) => record'[a].idle = Inactivity
             /\ ~HasRecord(a) => record'[a] = NoRecord
  <2>1. CASE ~HasRecord(a)
    BY <1>2, <1>3, <2>1 DEF HasRecord
  <2>2. CASE HasRecord(a)
    <3>1. record'[a] = [record[a] EXCEPT !.idle = Older(record[a].idle, Inactivity)]
      BY <1>2, <2>2
    <3>2. /\ record[a].sid \in Sid \union {"none"} /\ record[a].device \in Client \union {NoDevice}
          /\ record[a].idle \in Nat
          /\ record[a] = [sid |-> record[a].sid, device |-> record[a].device, idle |-> record[a].idle]
      BY <1>3 DEF Record
    <3>3. Older(record[a].idle, Inactivity) \in Nat
      BY <3>2, SessionBounds DEF Older
    <3> QED
      BY <2>2, <3>1, <3>2, <3>3 DEF Record, Older, HasLapsed
  <2> QED
    BY <2>1, <2>2
<1>5. RecordsTyped'
  BY <1>4 DEF Tick, SoleInv, RecordsTyped, HasRecord
<1>6. HeldTyped' /\ TokensHeld' /\ OneRequest' /\ IsFiniteSet(inFlight')
  BY <1>1 DEF SoleInv, HeldTyped, TokensHeld, OneRequest
<1>7. Decays
  BY <1>1, <1>4 DEF Decays
<1> QED
  BY <1>1, <1>5, <1>6, <1>7, DecayStep DEF SoleInv

LEMMA SoleStep ==
  ASSUME Serial, SoleInv, [Next]_vars PROVE SoleInv'
<1>1. ASSUME NEW c \in Client, NEW a \in Account,
             SignIn(c, a) \/ SignInByPasscode(c, a) \/ SwitchCompany(c, a)
      PROVE  SoleInv'
  BY <1>1, SignInKeeps, SwitchCompanyKeeps
<1>2. ASSUME NEW c \in Client,
             \/ Refresh(c) \/ RefreshRefused(c) \/ SwitchRole(c)
             \/ TouchReads(c) \/ SignOut(c) \/ GoAway(c) \/ TokenExpires(c)
      PROVE  SoleInv'
  BY <1>2, RefreshKeeps, ClientLeavesKeeps, TouchReadsKeeps, SignOutKeeps
<1>3. ASSUME NEW r \in inFlight,
             \/ IssueStarts(r) \/ IssueAnswers(r) \/ TouchWrites(r)
             \/ SwitchLeaves(r) \/ EndDeletes(r) \/ ResetRevokes(r) \/ ResetEnds(r)
      PROVE  SoleInv'
  BY <1>3, IssueStartsKeeps, IssueAnswersKeeps, TouchWritesKeeps, SwitchLeavesKeeps,
     EndDeletesKeeps, ResetRevokesKeeps, ResetEndsKeeps
<1>4. CASE (\E a \in Account : CacheLoses(a)) \/ (\E targets \in SUBSET Account : ResetPassword(targets))
  BY <1>4, CacheLosesKeeps, ResetKeeps
<1>5. CASE UNCHANGED vars
  <2>1. TokensHeld' /\ OneRequest' /\ IsFiniteSet(inFlight') /\ inFlight' = inFlight
    BY <1>5 DEF vars, SoleInv, TokensHeld, OneRequest
  <2> QED
    BY <1>5, <2>1, SameDecays, DecayStep DEF vars, SoleInv
<1> QED
  BY <1>1, <1>2, <1>3, <1>4, <1>5, CrashKeeps, TickKeeps DEF Next

-----------------------------------------------------------------------------
(* What LiveSessionKept says of a step.                                    *)
NobodyElseTakes ==
  \A c \in Client :
    InUse(c) /\ record'[held[c].account].sid # held[c].sid
    => \/ \E r \in inFlight \ inFlight' : r.client = c
       \/ ByReset(held[c].account)
       \/ CacheLoses(held[c].account)

LEMMA StepTakesNothing ==
  ASSUME SoleInv, [Next]_vars PROVE NobodyElseTakes
<1> SUFFICES ASSUME NEW c \in Client, InUse(c), record'[held[c].account].sid # held[c].sid
             PROVE  \/ \E r \in inFlight \ inFlight' : r.client = c
                    \/ ByReset(held[c].account)
                    \/ CacheLoses(held[c].account)
  BY DEF NobodyElseTakes
<1> DEFINE a == held[c].account
<1>1. a \in Account /\ HasRecord(a) /\ record[a].sid = held[c].sid
  BY DEF InUse, IsCurrent, SoleInv, HeldTyped, RealSession
<1>2. record' # record
  BY <1>1
<1>3. ASSUME NEW r \in inFlight, IssueStarts(r) \/ TouchWrites(r) \/ EndDeletes(r)
      PROVE  r \in inFlight \ inFlight' /\ r.client = c
  <2>1. Displaces(r.client, r.session) /\ r.session.account \in Account
    BY <1>3 DEF IssueStarts, TouchWrites, EndDeletes, SoleInv, Allowed, MayStart, MayAnswer,
                MayTouch, MayEnd, RealSession
  <2>2. \A b \in Account \ {r.session.account} : record'[b] = record[b]
    BY <1>3, <2>1 DEF IssueStarts, TouchWrites, EndDeletes, SoleInv, RecordsTyped
  <2>3. r.session.account = a
    BY <1>1, <2>2
  <2>4. r.client = c
    BY <2>1, <2>3 DEF Displaces
  <2>5. r \notin inFlight'
    <3>1. CASE IssueStarts(r)
      BY <3>1 DEF IssueStarts, GoesOn
    <3>2. CASE TouchWrites(r)
      BY <3>2 DEF TouchWrites, Done, GoesOn
    <3>3. CASE EndDeletes(r)
      <4>1. \A next \in r.next : next.kind = "start"
        BY <3>3 DEF EndDeletes, SoleInv, Allowed, MayEnd, GoesOnTo, MayStart, Start
      <4> QED
        BY <3>3, <4>1 DEF EndDeletes, GoesOn
    <3> QED
      BY <1>3, <3>1, <3>2, <3>3
  <2> QED
    BY <2>4, <2>5
<1>4. ASSUME NEW r \in inFlight, ResetEnds(r) PROVE ByReset(a)
  BY <1>1, <1>4 DEF ResetEnds, Done, GoesOn, ByReset
<1>5. ASSUME NEW b \in Account, CacheLoses(b) PROVE CacheLoses(a)
  <2>1. b = a
    BY <1>1, <1>5 DEF CacheLoses, SoleInv, RecordsTyped
  <2> QED
    BY <1>5, <2>1
<1>6. ~Tick
  <2> SUFFICES ASSUME Tick PROVE FALSE
    OBVIOUS
  <2>1. record'[a] = [record[a] EXCEPT !.idle = Older(record[a].idle, Inactivity)]
    BY <1>1 DEF Tick
  <2>2. record[a] \in Record
    BY <1>1 DEF SoleInv, RecordsTyped
  <2>3. record'[a].sid = record[a].sid
    BY <2>1, <2>2 DEF Record
  <2> QED
    BY <1>1, <2>3
<1>7. ASSUME NEW d \in Client, NEW b \in Account,
             SignIn(d, b) \/ SignInByPasscode(d, b) \/ SwitchCompany(d, b)
      PROVE  UNCHANGED record
  BY <1>7 DEF SignIn, SignInByPasscode, SwitchCompany
<1>8. ASSUME NEW d \in Client,
             \/ Refresh(d) \/ RefreshRefused(d) \/ SwitchRole(d)
             \/ TouchReads(d) \/ SignOut(d) \/ GoAway(d) \/ TokenExpires(d)
      PROVE  UNCHANGED record
  BY <1>8 DEF Refresh, RefreshRefused, SwitchRole, TouchReads, SignOut, GoAway, TokenExpires
<1>9. ASSUME NEW r \in inFlight, IssueAnswers(r) \/ SwitchLeaves(r) \/ ResetRevokes(r)
      PROVE  UNCHANGED record
  BY <1>9 DEF IssueAnswers, SwitchLeaves, ResetRevokes
<1>10. ASSUME (\E targets \in SUBSET Account : ResetPassword(targets)) \/ Crash \/ UNCHANGED vars
       PROVE  UNCHANGED record
  BY <1>10 DEF ResetPassword, Crash, vars
<1> QED
  BY <1>2, <1>3, <1>4, <1>5, <1>6, <1>7, <1>8, <1>9, <1>10 DEF Next

(* While requests are served one at a time, a session in use goes only by  *)
(* its own client's request, a password reset or a loss of the cache.      *)
THEOREM SessionsInUseAreKept ==
  ASSUME Serial PROVE Spec => LiveSessionKept
<1>1. SoleInv /\ [Next]_vars => SoleInv'
  BY SoleStep
<1>2. SoleInv /\ [Next]_vars =>
        [\A c \in Client :
           InUse(c) /\ record'[held[c].account].sid # held[c].sid
           => \/ \E r \in inFlight \ inFlight' : r.client = c
              \/ ByReset(held[c].account)
              \/ CacheLoses(held[c].account)]_vars
  BY StepTakesNothing DEF NobodyElseTakes
<1> QED
  BY SoleInit, <1>1, <1>2, PTL DEF Spec, LiveSessionKept

-----------------------------------------------------------------------------
(* Handover.                                                               *)
(*                                                                         *)
(* An assumption about the deployment: requests are served one at a time.  *)
OneHandler == \E h : Handlers = {h}

TheHandler == CHOOSE h \in Handlers : TRUE

AtHand == handling[TheHandler]

-----------------------------------------------------------------------------
(* The rows, the entries and what a handler has read.                      *)
Row ==
  [sale : Sale, unit : DOMAIN Units, month : Month, signed : BOOLEAN,
   status : {"recorded", "reversed"}, revenue : Nat, cost : Int]

Sources == {"bill", "supplier_credit_note", "write_down", "cost_catch_up", "handover", "reversal"}

JournalEntry ==
  [source : Sources, of : Nat, month : Month, revenue : Int, wip : Int, total : Int]

ProjectTyped ==
  /\ policy \in [basis : Bases, proceeds : Proceeds \union {Unknown}]
  /\ journal \in Seq(JournalEntry)
  /\ handovers \in Seq(Row)
  /\ DOMAIN handling = Handlers
  /\ stops \in Nat
  /\ answered \in BOOLEAN

NotYetRecognised(n) ==
  n \in Recorded /\ handovers[n].revenue = 0 /\ handovers[n].cost = 0

IsDue(due) ==
  /\ due \in [DOMAIN Units -> Int]
  /\ \A u \in DOMAIN Units : due[u] # 0 => HandedOver(u)

(* What a handler has read still holds: nobody else has written a row.     *)
ToRecord(q) ==
  /\ q.op = "record" /\ q.row \in Row
  /\ q.row.status = "recorded" /\ q.row.revenue = 0 /\ q.row.cost = 0
  /\ q.row.unit = Sales[q.row.sale].unit
  /\ ~AlreadyHandedOver(q.row.sale)

ToAttach(q) ==
  /\ q.op = "attach" /\ q.row \in Recorded
  /\ q.recognised \/ NotYetRecognised(q.row)

ToRecognise(q) ==
  /\ q.op \in {"post", "keep"}
  /\ q = [op |-> q.op, row |-> q.row, revenue |-> q.revenue, cost |-> q.cost]
  /\ NotYetRecognised(q.row)
  /\ q.revenue \in Nat /\ q.revenue <= Sales[handovers[q.row].sale].raised
  /\ q.cost \in Nat

ToReverse(q) ==
  \/ q.op = "reverse" /\ q.row \in Recorded /\ q.entries \subseteq EntriesOf("handover", q.row)
  \/ q.op = "unrecord" /\ q.row \in Recorded

ToCatchUp(q) ==
  /\ q.op \in {"release", "caught"}
  /\ IsDue(q.due)
  /\ q.op = "release" => q.month \in Month /\ q.amount = SumFunctionOnSet(q.due, DOMAIN Units)

ToWriteDown(q) == q.op = "cut" /\ q.month \in Month /\ q.amount \in Nat

AsRead(q) ==
  q = Idle \/ ToRecord(q) \/ ToAttach(q) \/ ToRecognise(q) \/ ToReverse(q) \/ ToCatchUp(q) \/ ToWriteDown(q)

(* A sale has one recorded handover at most, of the sale's unit.           *)
OneEach ==
  /\ \A n \in DOMAIN handovers : handovers[n].unit = Sales[handovers[n].sale].unit
  /\ \A n, m \in Recorded : handovers[n].sale = handovers[m].sale => n = m

(* Every entry of a handover is of a row, and every reversal is of such an *)
(* entry and the only one.                                                 *)
EntriesAgree ==
  \A i \in DOMAIN journal :
    /\ journal[i].source = "handover" => journal[i].of \in DOMAIN handovers /\ journal[i].revenue \in Nat
    /\ journal[i].source = "reversal" =>
         /\ journal[i].of \in DOMAIN journal
         /\ journal[journal[i].of].source = "handover"
         /\ journal[i] = Reversal(journal[i].of)
         /\ \A k \in DOMAIN journal : journal[k].source = "reversal" /\ journal[k].of = journal[i].of => k = i

RecordsInv == ProjectTyped /\ AsRead(AtHand) /\ OneEach /\ EntriesAgree

-----------------------------------------------------------------------------
(* A handler's next step, and the rows and entries there are.              *)
LEMMA HandGoes ==
  ASSUME OneHandler, ProjectTyped, NEW h \in Handlers, NEW q, Goes(h, q)
  PROVE  h = TheHandler /\ AtHand' = q /\ DOMAIN handling' = Handlers
<1>1. PICK o : Handlers = {o}
  BY DEF OneHandler
<1>2. TheHandler \in Handlers /\ h = TheHandler
  BY <1>1 DEF TheHandler
<1>3. handling' = [handling EXCEPT ![h] = q] /\ DOMAIN handling = Handlers
  BY DEF Goes, ProjectTyped
<1> QED
  BY <1>2, <1>3 DEF AtHand, TheHandler

LEMMA HandBegins ==
  ASSUME OneHandler, ProjectTyped, NEW h \in Handlers, NEW q, Begin(h, q)
  PROVE  h = TheHandler /\ AtHand = Idle /\ AtHand' = q /\ DOMAIN handling' = Handlers
<1>1. Goes(h, q) /\ handling[h] = Idle
  BY DEF Begin, Goes
<1> QED
  BY <1>1, HandGoes DEF AtHand

LEMMA HandRows ==
  ASSUME ProjectTyped
  PROVE  /\ IsFiniteSet(DOMAIN handovers) /\ IsFiniteSet(Recorded)
         /\ Recorded \subseteq DOMAIN handovers
         /\ \A n \in DOMAIN handovers : handovers[n] \in Row /\ n \in Nat \ {0}
         /\ DOMAIN handovers = 1..Len(handovers) /\ Len(handovers) \in Nat
<1>1. handovers \in Seq(Row)
  BY DEF ProjectTyped
<1>2. DOMAIN handovers = 1..Len(handovers) /\ Len(handovers) \in Nat /\ \A n \in DOMAIN handovers : handovers[n] \in Row
  BY <1>1
<1>3. IsFiniteSet(DOMAIN handovers)
  BY <1>2, FS_Interval
<1>4. Recorded \subseteq DOMAIN handovers
  BY DEF Recorded
<1> QED
  BY <1>2, <1>3, <1>4, FS_Subset

LEMMA HandEntries ==
  ASSUME ProjectTyped
  PROVE  /\ IsFiniteSet(DOMAIN journal)
         /\ \A i \in DOMAIN journal : journal[i] \in JournalEntry /\ i \in Nat \ {0}
         /\ DOMAIN journal = 1..Len(journal) /\ Len(journal) \in Nat
<1>1. journal \in Seq(JournalEntry)
  BY DEF ProjectTyped
<1>2. DOMAIN journal = 1..Len(journal) /\ Len(journal) \in Nat /\ \A n \in DOMAIN journal : journal[n] \in JournalEntry
  BY <1>1
<1>3. IsFiniteSet(DOMAIN journal)
  BY <1>2, FS_Interval
<1> QED
  BY <1>2, <1>3

-----------------------------------------------------------------------------
(* The figures: what is due is whole, what is deferred was raised.         *)
SomethingWeighs == \A basis \in Bases : \E u \in DOMAIN Units : WeightOf(Units[u], basis) > 0

LEMMA SharesOfProject ==
  ASSUME InputsAreFigures, NEW pool \in Int, NEW basis \in Bases
  PROVE  /\ IsFiniteSet(DOMAIN Units)
         /\ Shares(pool, Units, basis) \in [DOMAIN Units -> Int]
         /\ SomethingWeighs /\ pool > 0 => SumFunctionOnSet(Shares(pool, Units, basis), DOMAIN Units) = pool
<1> DEFINE w == Weights(Units, basis)
           n == Len(Units)
<1>1. Units \in Seq([size : Int, price : Int, quantity : Int])
  BY DEF InputsAreFigures
<1>2. n \in Nat /\ DOMAIN Units = 1..n /\ \A u \in DOMAIN Units : Units[u] \in [size : Int, price : Int, quantity : Int]
  <2> DEFINE U == [size : Int, price : Int, quantity : Int]
  <2>1. Units \in Seq(U)
    BY <1>1
  <2> HIDE DEF U
  <2>2. Len(Units) \in Nat /\ DOMAIN Units = 1..Len(Units) /\ \A u \in DOMAIN Units : Units[u] \in U
    BY <2>1
  <2> QED
    BY <2>2 DEF U
<1>3. \A u \in DOMAIN Units : WeightOf(Units[u], basis) \in Nat
  <2>1. \A a, b \in Int : Greater(a, 1) * Greater(b, 0) \in Nat
    <3>1. \A a, b \in Int : Greater(a, 1) \in Nat /\ Greater(b, 0) \in Nat
      BY DEF Greater
    <3>2. \A a, b \in Nat : a * b \in Nat
      OBVIOUS
    <3> QED
      BY <3>1, <3>2
  <2>2. \A u \in DOMAIN Units : Units[u].size \in Int /\ Units[u].price \in Int /\ Units[u].quantity \in Int
    BY <1>2
  <2> QED
    BY <2>1, <2>2 DEF WeightOf
<1>4. AmountsOver(w, n)
  BY <1>2, <1>3 DEF Weights, AmountsOver
<1>5. IsFiniteSet(DOMAIN Units)
  BY <1>2, FS_Interval
<1>6. CASE pool > 0
  <2>1. pool \in Nat
    BY <1>6
  <2>2. Shares(pool, Units, basis) = AllocateByWeight(pool, w)
    BY <1>6 DEF Shares
  <2>3. /\ AmountsOver(AllocateByWeight(pool, w), n)
        /\ SumFunction(w) # 0 => SumFunction(AllocateByWeight(pool, w)) = pool
    <3> HIDE DEF w, n
    <3> QED
      BY <1>2, <1>4, <2>1, SharesAreAmounts
  <2>4. ASSUME SomethingWeighs PROVE SumFunction(w) # 0
    <3>1. PICK u \in DOMAIN Units : WeightOf(Units[u], basis) > 0
      BY <2>4 DEF SomethingWeighs
    <3>2. w[u] > 0 /\ w[u] \in Nat /\ u \in 1..n
      BY <1>2, <1>3, <3>1 DEF Weights
    <3> HIDE DEF w, n
    <3>3. w[u] <= SumFunction(w) /\ SumFunction(w) \in Nat
      BY <1>2, <1>4, <3>2, AmountsAreWeights
    <3> QED
      BY <3>2, <3>3
  <2> HIDE DEF w, n
  <2> QED
    BY <1>2, <1>5, <2>2, <2>3, <2>4 DEF AmountsOver, SumFunction
<1>7. CASE ~(pool > 0)
  BY <1>5, <1>7 DEF Shares
<1> QED
  BY <1>6, <1>7

(* A sum over what moved, over the rows' costs.                            *)
LEMMA MovementIsWhole ==
  ASSUME ProjectTyped, NEW some \in SUBSET DOMAIN journal
  PROVE  /\ IsFiniteSet(some)
         /\ Moved(some) = SumFunctionOnSet([i \in DOMAIN journal |-> journal[i].wip], some)
         /\ Moved(some) \in Int
<1> DEFINE f == [i \in some |-> journal[i].wip]
           g == [i \in DOMAIN journal |-> journal[i].wip]
<1>1. IsFiniteSet(some)
  BY HandEntries, FS_Subset
<1>2. \A i \in some : f[i] \in Int /\ g[i] = f[i]
  BY HandEntries DEF JournalEntry
<1>3. Moved(some) = SumFunctionOnSet(f, some)
  BY DEF Moved
<1> HIDE DEF f, g
<1>4. WholeOn(f, some)
  BY <1>2 DEF WholeOn
<1>5. SumFunctionOnSet(f, some) \in Int /\ SumFunctionOnSet(f, some) = SumFunctionOnSet(g, some)
  BY <1>1, <1>2, <1>4, SumIsInteger, SumAgrees
<1> QED
  BY <1>1, <1>3, <1>5 DEF g

LEMMA FiguresAreWhole ==
  ASSUME InputsAreFigures, ProjectTyped
  PROVE  /\ Pool \in Int
         /\ \A u \in DOMAIN Units :
              Allocated(u) \in Int /\ ReleasedBy(u) \in Int /\ Outstanding(u) \in Int
              /\ ReleaseForUnit(u) \in Nat
         /\ \A s \in Sale : DeferredFor(s) \in Nat /\ DeferredFor(s) <= Sales[s].raised
<1>1. Pool \in Int
  <2>1. \A sources : Movement(sources) \in Int
    BY MovementIsWhole DEF Movement
  <2> QED
    BY <2>1 DEF Pool
<1>2. ASSUME NEW u \in DOMAIN Units
      PROVE  Allocated(u) \in Int /\ ReleasedBy(u) \in Int /\ Outstanding(u) \in Int
             /\ ReleaseForUnit(u) \in Nat
  <2>1. policy.basis \in Bases
    BY DEF ProjectTyped
  <2>2. Allocated(u) \in Int
    BY <1>1, <2>1, SharesOfProject DEF Allocated
  <2> DEFINE rows == {n \in Recorded : handovers[n].unit = u}
             f == [n \in rows |-> handovers[n].cost]
  <2>3. IsFiniteSet(rows)
    BY HandRows, FS_Subset
  <2>4. WholeOn(f, rows)
    BY HandRows DEF WholeOn, Row
  <2>5. ReleasedBy(u) = SumFunctionOnSet(f, rows)
    BY DEF ReleasedBy
  <2>6. ReleasedBy(u) \in Int
    <3> HIDE DEF f, rows
    <3> QED
      BY <2>3, <2>4, <2>5, SumIsInteger
  <2> QED
    BY <2>2, <2>6 DEF Outstanding, ReleaseForUnit, OutstandingRelease, Greater
<1>3. ASSUME NEW s \in Sale
      PROVE  DeferredFor(s) \in Nat /\ DeferredFor(s) <= Sales[s].raised
  <2> DEFINE rows == {n \in Recorded : handovers[n].sale = s}
             f == [n \in rows |-> handovers[n].revenue]
  <2>1. IsFiniteSet(rows)
    BY HandRows, FS_Subset
  <2>2. \A n \in rows : f[n] \in Nat
    BY HandRows DEF Row
  <2>3. DeferredFor(s) = Greater(Sales[s].raised - SumFunctionOnSet(f, rows), 0)
    BY DEF DeferredFor
  <2>4. SumFunctionOnSet(f, rows) \in Nat
    <3> HIDE DEF f, rows
    <3>1. rows \in SUBSET rows
      OBVIOUS
    <3> QED
      BY <2>1, <2>2, <3>1, SumOfPart
  <2>5. Sales[s].raised \in Nat
    BY DEF InputsAreFigures
  <2> HIDE DEF f, rows
  <2> QED
    BY <2>3, <2>4, <2>5 DEF Greater
<1> QED
  BY <1>1, <1>2, <1>3

-----------------------------------------------------------------------------
(* What a step does to the rows, the journal and the request.              *)
WritesEntry(e) == e \in JournalEntry /\ journal' = Append(journal, e)

WritesRow(n, row) == n \in DOMAIN handovers /\ row \in Row /\ handovers' = [handovers EXCEPT ![n] = row]

Elsewhere == UNCHANGED <<journal, handovers, AtHand, stops, answered>>

Looks ==
  /\ AtHand = Idle
  /\ AsRead(AtHand') /\ AtHand'.op \in {"record", "attach", "reverse", "release", "cut"}
  /\ UNCHANGED <<journal, handovers, stops, answered>>

(* What recogniseFor is about to post, once its row is written.            *)
AboutToPost == AtHand' = Idle \/ (ToRecognise(AtHand)' /\ AtHand'.op = "post")

Records ==
  /\ ToRecord(AtHand)
  /\ handovers' = Append(handovers, AtHand.row)
  /\ AboutToPost
  /\ UNCHANGED <<journal, stops, answered>>

Signs ==
  /\ ToAttach(AtHand)
  /\ WritesRow(AtHand.row, [handovers[AtHand.row] EXCEPT !.signed = TRUE])
  /\ AboutToPost
  /\ UNCHANGED <<journal, stops, answered>>

Recognises ==
  /\ ToRecognise(AtHand) /\ AtHand.op = "post"
  /\ \/ /\ WritesEntry(Recognised(AtHand))
        /\ AtHand' = [AtHand EXCEPT !.op = "keep"] /\ UNCHANGED answered
     \/ /\ UNCHANGED journal
        /\ \/ AtHand' = Idle /\ UNCHANGED answered
           \/ AtHand' = [AtHand EXCEPT !.op = "keep"] /\ answered'
  /\ UNCHANGED <<handovers, stops>>

Keeps ==
  /\ ToRecognise(AtHand) /\ AtHand.op = "keep"
  /\ WritesRow(AtHand.row, [handovers[AtHand.row] EXCEPT !.revenue = AtHand.revenue, !.cost = AtHand.cost])
  /\ AtHand' = Idle
  /\ UNCHANGED <<journal, stops, answered>>

PutsBack ==
  /\ ToReverse(AtHand) /\ AtHand.op = "reverse"
  /\ \/ UNCHANGED journal
     \/ \E i \in EntriesOf("handover", AtHand.row) : Standing(i) /\ WritesEntry(Reversal(i))
  /\ AtHand' = [op |-> "unrecord", row |-> AtHand.row]
  /\ UNCHANGED <<handovers, stops, answered>>

Unrecords ==
  /\ ToReverse(AtHand) /\ AtHand.op = "unrecord"
  /\ WritesRow(AtHand.row, [handovers[AtHand.row] EXCEPT !.status = "reversed"])
  /\ AtHand' = Idle
  /\ UNCHANGED <<journal, stops, answered>>

(* A bill, a credit note or a write-down.                                  *)
MovesPool ==
  /\ \/ UNCHANGED journal
     \/ \E e \in JournalEntry : e.source \in {"bill", "supplier_credit_note", "write_down"} /\ WritesEntry(e)
  /\ AtHand' = AtHand \/ (AtHand.op = "cut" /\ AtHand' = Idle)
  /\ UNCHANGED <<handovers, stops, answered>>

Releases ==
  /\ ToCatchUp(AtHand) /\ AtHand.op = "release"
  /\ \/ /\ WritesEntry(Released(AtHand))
        /\ AtHand' = [op |-> "caught", due |-> AtHand.due] /\ UNCHANGED answered
     \/ /\ UNCHANGED journal
        /\ \/ AtHand' = Idle /\ UNCHANGED answered
           \/ AtHand' = [op |-> "caught", due |-> AtHand.due] /\ answered'
  /\ UNCHANGED <<handovers, stops>>

CatchesUp ==
  /\ ToCatchUp(AtHand) /\ AtHand.op = "caught"
  /\ handovers' = [n \in DOMAIN handovers |->
                     IF n \in Recorded
                     THEN [handovers[n] EXCEPT !.cost = @ + AtHand.due[handovers[n].unit]]
                     ELSE handovers[n]]
  /\ handovers' \in Seq(Row)
  /\ AtHand' = Idle
  /\ UNCHANGED <<journal, stops, answered>>

Stops ==
  /\ stops' = stops + 1
  /\ AtHand' = Idle
  /\ UNCHANGED <<journal, handovers, answered>>

HandStep ==
  \/ Elsewhere \/ Looks \/ Records \/ Signs \/ Recognises \/ Keeps \/ PutsBack \/ Unrecords
  \/ MovesPool \/ Releases \/ CatchesUp \/ Stops

-----------------------------------------------------------------------------
LEMMA EntryIsWritten ==
  ASSUME ProjectTyped, NEW e, WritesEntry(e)
  PROVE  /\ journal' \in Seq(JournalEntry)
         /\ DOMAIN journal' = DOMAIN journal \union {Len(journal) + 1}
         /\ Len(journal) + 1 \notin DOMAIN journal
         /\ journal'[Len(journal) + 1] = e
         /\ \A i \in DOMAIN journal : journal'[i] = journal[i]
<1>1. journal \in Seq(JournalEntry) /\ e \in JournalEntry /\ journal' = Append(journal, e)
  BY DEF ProjectTyped, WritesEntry
<1> HIDE DEF JournalEntry
<1>2. DOMAIN journal = 1..Len(journal) /\ Len(journal) \in Nat
  BY <1>1
<1>3. DOMAIN journal' = 1..(Len(journal) + 1)
  BY <1>1
<1>4. journal' \in Seq(JournalEntry) /\ journal'[Len(journal) + 1] = e
  BY <1>1
<1>5. \A i \in DOMAIN journal : journal'[i] = journal[i]
  BY <1>1, <1>2
<1> QED
  BY <1>2, <1>3, <1>4, <1>5

LEMMA RowIsWritten ==
  ASSUME ProjectTyped, NEW n, NEW row, WritesRow(n, row)
  PROVE  /\ handovers' \in Seq(Row)
         /\ DOMAIN handovers' = DOMAIN handovers
         /\ handovers'[n] = row
         /\ \A m \in DOMAIN handovers : m # n => handovers'[m] = handovers[m]
<1>1. handovers \in Seq(Row) /\ n \in DOMAIN handovers /\ row \in Row /\ handovers' = [handovers EXCEPT ![n] = row]
  BY DEF ProjectTyped, WritesRow
<1> HIDE DEF Row
<1> QED
  BY <1>1

LEMMA PostWrites ==
  ASSUME NEW e \in JournalEntry, Post(e)
  PROVE  (~Posted(e) /\ ~Refused(e) /\ WritesEntry(e)) \/ ((Posted(e) \/ Refused(e)) /\ UNCHANGED journal)
BY DEF Post, WritesEntry

LEMMA RecognitionReads ==
  ASSUME InputsAreFigures, ProjectTyped, NEW n, NEW row \in Row
  PROVE  \/ Recognition(n, row) = Idle
         \/ \E revenue \in Nat, cost \in Nat :
              /\ Recognition(n, row) = [op |-> "post", row |-> n, revenue |-> revenue, cost |-> cost]
              /\ revenue <= Sales[row.sale].raised
<1>1. row.sale \in Sale /\ row.unit \in DOMAIN Units
  BY DEF Row
<1>2. DeferredFor(row.sale) \in Nat /\ DeferredFor(row.sale) <= Sales[row.sale].raised /\ ReleaseForUnit(row.unit) \in Nat
  BY <1>1, FiguresAreWhole
<1> QED
  BY <1>2 DEF Recognition

LEMMA RecordingSteps ==
  ASSUME OneHandler, InputsAreFigures, RecordsInv
  PROVE  /\ RecordReads => Looks /\ DOMAIN handling' = Handlers
         /\ RecordHandover => Records /\ DOMAIN handling' = Handlers
         /\ AttachReads => Looks /\ DOMAIN handling' = Handlers
         /\ AttachAcknowledgement => Signs /\ DOMAIN handling' = Handlers
<1> USE DEF RecordsInv
<1>1. ASSUME RecordReads PROVE Looks /\ DOMAIN handling' = Handlers
  <2>1. PICK h \in Handlers, sale \in Sale, month \in Month, signed \in BOOLEAN :
          /\ ~AlreadyHandedOver(sale)
          /\ Begin(h, [op |-> "record", row |-> [sale |-> sale, unit |-> Sales[sale].unit, month |-> month,
                   signed |-> signed, status |-> "recorded", revenue |-> 0, cost |-> 0]])
          /\ UNCHANGED <<policy, journal, handovers, closed, stops, answered>>
    BY <1>1 DEF RecordReads
  <2> DEFINE row == [sale |-> sale, unit |-> Sales[sale].unit, month |-> month,
                     signed |-> signed, status |-> "recorded", revenue |-> 0, cost |-> 0]
  <2>2. AtHand = Idle /\ AtHand' = [op |-> "record", row |-> row] /\ DOMAIN handling' = Handlers
    BY <2>1, HandBegins
  <2>3. row \in Row
    BY DEF Row, InputsAreFigures
  <2>4. ToRecord(AtHand')
    BY <2>1, <2>2, <2>3 DEF ToRecord
  <2> QED
    BY <2>1, <2>2, <2>4 DEF Looks, AsRead
<1>2. ASSUME RecordHandover PROVE Records /\ DOMAIN handling' = Handlers
  <2>1. PICK h \in Handlers :
          /\ Doing(h, "record")
          /\ handovers' = Append(handovers, handling[h].row)
          /\ Goes(h, Recognition(Len(handovers'), handling[h].row))
          /\ UNCHANGED <<policy, journal, closed, stops, answered>>
    BY <1>2 DEF RecordHandover
  <2>2. h = TheHandler /\ AtHand' = Recognition(Len(handovers'), AtHand.row) /\ DOMAIN handling' = Handlers
    BY <2>1, HandGoes DEF AtHand
  <2>3. ToRecord(AtHand)
    BY <2>1, <2>2 DEF AtHand, Doing, AsRead, ToRecord, ToAttach, ToRecognise, ToReverse, ToCatchUp, ToWriteDown, Idle
  <2>4. AtHand.row \in Row /\ handovers' = Append(handovers, AtHand.row)
    BY <2>1, <2>2, <2>3 DEF ToRecord, AtHand
  <2>9. PICK n : n = Len(handovers')
    OBVIOUS
  <2>5. n \in DOMAIN handovers' /\ handovers'[n] = AtHand.row
    <3>1. handovers \in Seq(Row)
      BY DEF ProjectTyped
    <3> HIDE DEF Row
    <3> QED
      BY <2>4, <2>9, <3>1
  <2>6. NotYetRecognised(n)'
    BY <2>3, <2>5 DEF NotYetRecognised, Recorded, ToRecord
  <2>7. AboutToPost
    <3>1. CASE AtHand' = Idle
      BY <3>1 DEF AboutToPost
    <3>2. CASE AtHand' # Idle
      <4>1. PICK revenue \in Nat, cost \in Nat :
              /\ AtHand' = [op |-> "post", row |-> n, revenue |-> revenue, cost |-> cost]
              /\ revenue <= Sales[AtHand.row.sale].raised
        BY <2>2, <2>4, <2>9, <3>2, RecognitionReads
      <4> QED
        BY <2>5, <2>6, <4>1 DEF AboutToPost, ToRecognise
    <3> QED
      BY <3>1, <3>2
  <2> QED
    BY <2>1, <2>2, <2>3, <2>4, <2>7 DEF Records
<1>3. ASSUME AttachReads PROVE Looks /\ DOMAIN handling' = Handlers
  <2>1. PICK h \in Handlers, n \in Recorded :
          /\ Begin(h, [op |-> "attach", row |-> n,
                       recognised |-> handovers[n].revenue # 0 \/ handovers[n].cost # 0])
          /\ UNCHANGED <<policy, journal, handovers, closed, stops, answered>>
    BY <1>3 DEF AttachReads
  <2>2. AtHand = Idle /\ DOMAIN handling' = Handlers
        /\ AtHand' = [op |-> "attach", row |-> n, recognised |-> handovers[n].revenue # 0 \/ handovers[n].cost # 0]
    BY <2>1, HandBegins
  <2>3. ToAttach(AtHand')
    BY <2>2 DEF ToAttach, NotYetRecognised
  <2> QED
    BY <2>1, <2>2, <2>3 DEF Looks, AsRead
<1>4. ASSUME AttachAcknowledgement PROVE Signs /\ DOMAIN handling' = Handlers
  <2>1. PICK h \in Handlers :
          /\ Doing(h, "attach")
          /\ handovers' = [handovers EXCEPT ![handling[h].row].signed = TRUE]
          /\ Goes(h, IF handling[h].recognised THEN Idle
                        ELSE Recognition(handling[h].row, handovers'[handling[h].row]))
          /\ UNCHANGED <<policy, journal, closed, stops, answered>>
    BY <1>4 DEF AttachAcknowledgement
  <2>2. h = TheHandler /\ DOMAIN handling' = Handlers
        /\ AtHand' = IF AtHand.recognised THEN Idle ELSE Recognition(AtHand.row, handovers'[AtHand.row])
    BY <2>1, HandGoes DEF AtHand
  <2>3. ToAttach(AtHand)
    BY <2>1, <2>2 DEF AtHand, Doing, AsRead, ToRecord, ToAttach, ToRecognise, ToReverse, ToCatchUp, ToWriteDown, Idle
  <2>4. PICK n : n = AtHand.row
    OBVIOUS
  <2>5. n \in Recorded /\ n \in DOMAIN handovers
    BY <2>3, <2>4 DEF ToAttach, Recorded
  <2>6. PICK row : row = [handovers[n] EXCEPT !.signed = TRUE]
    OBVIOUS
  <2>7. row \in Row /\ row.status = "recorded" /\ row.revenue = handovers[n].revenue /\ row.cost = handovers[n].cost
        /\ row.sale = handovers[n].sale
    BY <2>5, <2>6, HandRows DEF Row, Recorded
  <2>8. WritesRow(n, row)
    BY <2>1, <2>2, <2>4, <2>5, <2>6, <2>7 DEF WritesRow, AtHand
  <2>9. handovers'[n] = row /\ DOMAIN handovers' = DOMAIN handovers
    BY <2>8, RowIsWritten
  <2>10. AboutToPost
    <3>1. CASE AtHand' = Idle
      BY <3>1 DEF AboutToPost
    <3>2. CASE AtHand' # Idle
      <4>1. ~AtHand.recognised /\ AtHand' = Recognition(n, row)
        BY <2>2, <2>4, <2>9, <3>2
      <4>2. PICK revenue \in Nat, cost \in Nat :
              /\ AtHand' = [op |-> "post", row |-> n, revenue |-> revenue, cost |-> cost]
              /\ revenue <= Sales[row.sale].raised
        BY <2>7, <3>2, <4>1, RecognitionReads
      <4>3. NotYetRecognised(n)'
        BY <2>3, <2>4, <2>5, <2>7, <2>9, <4>1 DEF ToAttach, NotYetRecognised, Recorded
      <4> QED
        BY <2>9, <4>2, <4>3 DEF AboutToPost, ToRecognise
    <3> QED
      BY <3>1, <3>2
  <2> QED
    BY <2>1, <2>2, <2>3, <2>4, <2>6, <2>8, <2>10 DEF Signs
<1> QED
  BY <1>1, <1>2, <1>3, <1>4

LEMMA LatestOfSome ==
  ASSUME NEW S, IsFiniteSet(S), S \subseteq Nat, S # {}
  PROVE  \E a \in S : \A b \in S : b <= a
<1> DEFINE T == {A \in SUBSET S : A # {} => \E a \in A : \A b \in A : b <= a}
<1>1. {} \in T
  OBVIOUS
<1>2. ASSUME NEW A \in (SUBSET S) \cap T, NEW x \in S \ A PROVE A \union {x} \in T
  <2>1. CASE A = {}
    <3>1. A \union {x} = {x} /\ x <= x
      BY <2>1
    <3> QED
      BY <3>1
  <2>2. CASE A # {}
    <3>1. PICK a \in A : \A b \in A : b <= a
      BY <2>2
    <3>2. a \in Nat /\ x \in Nat /\ A \subseteq Nat
      OBVIOUS
    <3>3. CASE a <= x
      <4>1. \A b \in A \union {x} : b <= x
        BY <3>1, <3>2, <3>3
      <4> QED
        BY <4>1
    <3>4. CASE ~(a <= x)
      <4>1. \A b \in A \union {x} : b <= a
        BY <3>1, <3>2, <3>4
      <4> QED
        BY <4>1
    <3> QED
      BY <3>3, <3>4
  <2> QED
    BY <2>1, <2>2
<1>3. S \in T
  <2> HIDE DEF T
  <2> QED
    BY <1>1, <1>2, BySetInduction
<1> QED
  BY <1>3

LEMMA FigureSteps ==
  ASSUME OneHandler, InputsAreFigures, RecordsInv
  PROVE  /\ PostHandover => Recognises /\ DOMAIN handling' = Handlers
         /\ KeepFigures => Keeps /\ DOMAIN handling' = Handlers
<1> USE DEF RecordsInv
<1>1. ASSUME PostHandover PROVE Recognises /\ DOMAIN handling' = Handlers
  <2>1. PICK h \in Handlers :
          /\ Doing(h, "post")
          /\ Post(Recognised(handling[h]))
          /\ answered' = (answered \/ Posted(Recognised(handling[h])))
          /\ Goes(h, IF Refused(Recognised(handling[h])) THEN Idle
                        ELSE [handling[h] EXCEPT !.op = "keep"])
          /\ UNCHANGED <<policy, handovers, closed, stops>>
    BY <1>1 DEF PostHandover
  <2> DEFINE e == Recognised(AtHand)
  <2>2. h = TheHandler /\ DOMAIN handling' = Handlers
        /\ AtHand' = IF Refused(e) THEN Idle ELSE [AtHand EXCEPT !.op = "keep"]
    BY <2>1, HandGoes DEF AtHand
  <2>3. ToRecognise(AtHand) /\ AtHand.op = "post"
    BY <2>1, <2>2 DEF AtHand, Doing, AsRead, ToRecord, ToAttach, ToRecognise, ToReverse, ToCatchUp, ToWriteDown, Idle
  <2>4. e \in JournalEntry
    <3>1. AtHand.row \in DOMAIN handovers /\ AtHand.revenue \in Nat /\ AtHand.cost \in Nat
      BY <2>3 DEF ToRecognise, NotYetRecognised, Recorded
    <3>2. AtHand.row \in Nat /\ handovers[AtHand.row].month \in Month
      BY <3>1, HandRows DEF Row
    <3> QED
      BY <3>1, <3>2 DEF Recognised, Entry, JournalEntry, Sources
  <2>5. Post(e) /\ answered' = (answered \/ Posted(e))
    BY <2>1, <2>2 DEF AtHand
  <2>6. answered \in BOOLEAN
    BY DEF ProjectTyped
  <2>7. Refused(e) => ~Posted(e)
    BY DEF Refused
  <2> HIDE DEF e
  <2>8. \/ WritesEntry(e) /\ AtHand' = [AtHand EXCEPT !.op = "keep"] /\ UNCHANGED answered
        \/ /\ UNCHANGED journal
           /\ \/ AtHand' = Idle /\ UNCHANGED answered
              \/ AtHand' = [AtHand EXCEPT !.op = "keep"] /\ answered'
    BY <2>2, <2>4, <2>5, <2>6, <2>7, PostWrites
  <2> QED
    BY <2>1, <2>2, <2>3, <2>8 DEF Recognises, e
<1>2. ASSUME KeepFigures PROVE Keeps /\ DOMAIN handling' = Handlers
  <2>1. PICK h \in Handlers :
          /\ Doing(h, "keep")
          /\ handovers' = [handovers EXCEPT ![handling[h].row].revenue = handling[h].revenue,
                                            ![handling[h].row].cost = handling[h].cost]
          /\ Ends(h)
          /\ UNCHANGED <<policy, journal, closed, stops, answered>>
    BY <1>2 DEF KeepFigures
  <2>2. h = TheHandler /\ AtHand' = Idle /\ DOMAIN handling' = Handlers
    BY <2>1, HandGoes DEF Ends
  <2>3. ToRecognise(AtHand) /\ AtHand.op = "keep"
    BY <2>1, <2>2 DEF AtHand, Doing, AsRead, ToRecord, ToAttach, ToRecognise, ToReverse, ToCatchUp, ToWriteDown, Idle
  <2>4. PICK n : n = AtHand.row
    OBVIOUS
  <2>5. n \in DOMAIN handovers /\ handovers[n] \in Row /\ AtHand.revenue \in Nat /\ AtHand.cost \in Nat
    BY <2>3, <2>4, HandRows DEF ToRecognise, NotYetRecognised, Recorded
  <2>6. handovers' = [handovers EXCEPT ![n].revenue = AtHand.revenue, ![n].cost = AtHand.cost]
    BY <2>1, <2>2, <2>4 DEF AtHand
  <2>7. handovers' = [handovers EXCEPT ![n] = [handovers[n] EXCEPT !.revenue = AtHand.revenue, !.cost = AtHand.cost]]
    BY <2>5, <2>6
  <2>8. [handovers[n] EXCEPT !.revenue = AtHand.revenue, !.cost = AtHand.cost] \in Row
    <3>1. \A row \in Row, r \in Nat, c \in Int : [row EXCEPT !.revenue = r, !.cost = c] \in Row
      BY DEF Row
    <3>2. handovers[n] \in Row /\ AtHand.revenue \in Nat /\ AtHand.cost \in Int
      BY <2>5
    <3> QED
      BY <3>1, <3>2
  <2> QED
    BY <2>1, <2>2, <2>3, <2>4, <2>5, <2>7, <2>8 DEF Keeps, WritesRow
<1> QED
  BY <1>1, <1>2

LEMMA ReversingSteps ==
  ASSUME OneHandler, RecordsInv
  PROVE  /\ ReverseReads => Looks /\ DOMAIN handling' = Handlers
         /\ ReverseEntry => PutsBack /\ DOMAIN handling' = Handlers
         /\ ReverseHandover => Unrecords /\ DOMAIN handling' = Handlers
<1> USE DEF RecordsInv
<1>1. ASSUME ReverseReads PROVE Looks /\ DOMAIN handling' = Handlers
  <2>1. PICK h \in Handlers, n \in Recorded :
          /\ Begin(h, [op |-> "reverse", row |-> n, entries |-> EntriesOf("handover", n)])
          /\ UNCHANGED <<policy, journal, handovers, closed, stops, answered>>
    BY <1>1 DEF ReverseReads
  <2>2. AtHand = Idle /\ DOMAIN handling' = Handlers
        /\ AtHand' = [op |-> "reverse", row |-> n, entries |-> EntriesOf("handover", n)]
    BY <2>1, HandBegins
  <2>3. ToReverse(AtHand')
    BY <2>2 DEF ToReverse
  <2> QED
    BY <2>1, <2>2, <2>3 DEF Looks, AsRead
<1>2. ASSUME ReverseEntry PROVE PutsBack /\ DOMAIN handling' = Handlers
  <2>1. PICK h \in Handlers :
          /\ Doing(h, "reverse")
          /\ IF handling[h].entries = {} THEN UNCHANGED journal
             ELSE Post(Reversal(Latest(handling[h].entries)))
          /\ Goes(h, [op |-> "unrecord", row |-> handling[h].row])
          /\ UNCHANGED <<policy, handovers, closed, stops, answered>>
    BY <1>2 DEF ReverseEntry
  <2>2. h = TheHandler /\ AtHand' = [op |-> "unrecord", row |-> AtHand.row] /\ DOMAIN handling' = Handlers
    BY <2>1, HandGoes DEF AtHand
  <2>3. ToReverse(AtHand) /\ AtHand.op = "reverse"
    BY <2>1, <2>2 DEF AtHand, Doing, AsRead, ToRecord, ToAttach, ToRecognise, ToReverse, ToCatchUp, ToWriteDown, Idle
  <2> DEFINE es == AtHand.entries
  <2>4. \/ UNCHANGED journal
        \/ \E i \in EntriesOf("handover", AtHand.row) : Standing(i) /\ WritesEntry(Reversal(i))
    <3>1. CASE es = {}
      BY <2>1, <2>2, <3>1 DEF AtHand
    <3>2. CASE es # {}
      <4>1. es \subseteq EntriesOf("handover", AtHand.row)
        BY <2>3 DEF ToReverse
      <4>2. es \subseteq DOMAIN journal
        BY <4>1 DEF EntriesOf
      <4>3. IsFiniteSet(es) /\ es \subseteq Nat
        BY <4>2, HandEntries, FS_Subset
      <4>4. PICK i : i = Latest(es)
        OBVIOUS
      <4>5. i \in es
        <5>1. \E k \in es : \A j \in es : j <= k
          BY <3>2, <4>3, LatestOfSome
        <5> QED
          BY <4>4, <5>1 DEF Latest
      <4>6. Post(Reversal(i))
        BY <2>1, <2>2, <3>2, <4>4 DEF AtHand
      <4>7. Reversal(i) \in JournalEntry
        BY <4>2, <4>5, HandEntries DEF Reversal, Entry, JournalEntry, Sources
      <4>8. CASE WritesEntry(Reversal(i)) /\ ~Posted(Reversal(i))
        <5>1. Standing(i)
          <6>1. ASSUME NEW k \in DOMAIN journal, journal[k].source = "reversal", journal[k].of = i PROVE FALSE
            <7>1. journal[k] = Reversal(i)
              BY <6>1 DEF EntriesAgree
            <7>2. SameKey(journal[k], Reversal(i))
              BY <7>1 DEF SameKey
            <7> QED
              BY <4>8, <7>2 DEF Posted
          <6> QED
            BY <6>1 DEF Standing, EntriesOf
        <5> QED
          BY <4>1, <4>5, <4>8, <5>1
      <4> QED
        BY <4>6, <4>7, <4>8, PostWrites
    <3> QED
      BY <3>1, <3>2
  <2> QED
    BY <2>1, <2>2, <2>3, <2>4 DEF PutsBack
<1>3. ASSUME ReverseHandover PROVE Unrecords /\ DOMAIN handling' = Handlers
  <2>1. PICK h \in Handlers :
          /\ Doing(h, "unrecord")
          /\ handovers' = [handovers EXCEPT ![handling[h].row].status = "reversed"]
          /\ Ends(h)
          /\ UNCHANGED <<policy, journal, closed, stops, answered>>
    BY <1>3 DEF ReverseHandover
  <2>2. h = TheHandler /\ AtHand' = Idle /\ DOMAIN handling' = Handlers
    BY <2>1, HandGoes DEF Ends
  <2>3. ToReverse(AtHand) /\ AtHand.op = "unrecord"
    BY <2>1, <2>2 DEF AtHand, Doing, AsRead, ToRecord, ToAttach, ToRecognise, ToReverse, ToCatchUp, ToWriteDown, Idle
  <2>4. PICK n : n = AtHand.row
    OBVIOUS
  <2>5. n \in DOMAIN handovers /\ handovers[n] \in Row
    BY <2>3, <2>4, HandRows DEF ToReverse, Recorded
  <2>6. handovers' = [handovers EXCEPT ![n] = [handovers[n] EXCEPT !.status = "reversed"]]
    BY <2>1, <2>2, <2>4, <2>5 DEF AtHand
  <2>7. [handovers[n] EXCEPT !.status = "reversed"] \in Row
    BY <2>5 DEF Row
  <2> QED
    BY <2>1, <2>2, <2>3, <2>4, <2>5, <2>6, <2>7 DEF Unrecords, WritesRow
<1> QED
  BY <1>1, <1>2, <1>3

LEMMA DueIsWhole ==
  ASSUME InputsAreFigures, NEW due, IsDue(due)
  PROVE  SumFunctionOnSet(due, DOMAIN Units) \in Int
<1>1. IsFiniteSet(DOMAIN Units)
  <2>1. \E S : Units \in Seq(S)
    BY DEF InputsAreFigures
  <2>2. DOMAIN Units = 1..Len(Units) /\ Len(Units) \in Nat
    BY <2>1
  <2> QED
    BY <2>2, FS_Interval
<1>2. WholeOn(due, DOMAIN Units)
  BY DEF WholeOn, IsDue
<1> QED
  BY <1>1, <1>2, SumIsInteger

LEMMA FunctionIsSeq ==
  ASSUME NEW S, NEW n \in Nat, NEW f \in [1..n -> S] PROVE f \in Seq(S)
OBVIOUS

LEMMA CostSteps ==
  ASSUME OneHandler, InputsAreFigures, RecordsInv
  PROVE  /\ CatchUpReads => Looks /\ DOMAIN handling' = Handlers
         /\ PostCatchUp => Releases /\ DOMAIN handling' = Handlers
         /\ CatchUpRows => CatchesUp /\ DOMAIN handling' = Handlers
<1> USE DEF RecordsInv
<1>1. ASSUME CatchUpReads PROVE Looks /\ DOMAIN handling' = Handlers
  <2> DEFINE due == [u \in DOMAIN Units |-> Outstanding(u)]
  <2>1. PICK h \in Handlers, month \in Month :
          /\ Begin(h, [op |-> "release", month |-> month, amount |-> CatchUp, due |-> due])
          /\ UNCHANGED <<policy, journal, handovers, closed, stops, answered>>
    BY <1>1 DEF CatchUpReads
  <2>2. AtHand = Idle /\ DOMAIN handling' = Handlers
        /\ AtHand' = [op |-> "release", month |-> month, amount |-> CatchUp, due |-> due]
    BY <2>1, HandBegins
  <2>3. IsDue(due)
    BY FiguresAreWhole DEF IsDue, Outstanding
  <2>4. CatchUp = SumFunctionOnSet(due, DOMAIN Units)
    <3>1. CatchUp = SumFunction(due) /\ DOMAIN due = DOMAIN Units
      BY DEF CatchUp
    <3> HIDE DEF due
    <3> QED
      BY <3>1 DEF SumFunction
  <2> HIDE DEF due
  <2>5. ToCatchUp(AtHand')
    BY <2>2, <2>3, <2>4 DEF ToCatchUp
  <2> QED
    BY <2>1, <2>2, <2>5 DEF Looks, AsRead
<1>2. ASSUME PostCatchUp PROVE Releases /\ DOMAIN handling' = Handlers
  <2>1. PICK h \in Handlers :
          /\ Doing(h, "release")
          /\ Post(Released(handling[h]))
          /\ answered' = (answered \/ Posted(Released(handling[h])))
          /\ Goes(h, IF Refused(Released(handling[h])) THEN Idle
                        ELSE [op |-> "caught", due |-> handling[h].due])
          /\ UNCHANGED <<policy, handovers, closed, stops>>
    BY <1>2 DEF PostCatchUp
  <2> DEFINE e == Released(AtHand)
  <2>2. h = TheHandler /\ DOMAIN handling' = Handlers
        /\ AtHand' = IF Refused(e) THEN Idle ELSE [op |-> "caught", due |-> AtHand.due]
    BY <2>1, HandGoes DEF AtHand
  <2>3. ToCatchUp(AtHand) /\ AtHand.op = "release"
    BY <2>1, <2>2 DEF AtHand, Doing, AsRead, ToRecord, ToAttach, ToRecognise, ToReverse, ToCatchUp, ToWriteDown, Idle
  <2>4. e \in JournalEntry
    <3>1. AtHand.month \in Month /\ AtHand.amount = SumFunctionOnSet(AtHand.due, DOMAIN Units) /\ IsDue(AtHand.due)
      BY <2>3 DEF ToCatchUp
    <3>2. AtHand.amount \in Int
      BY <3>1, DueIsWhole
    <3> QED
      BY <3>1, <3>2 DEF Released, Entry, JournalEntry, Sources
  <2>5. Post(e) /\ answered' = (answered \/ Posted(e))
    BY <2>1, <2>2 DEF AtHand
  <2>6. answered \in BOOLEAN
    BY DEF ProjectTyped
  <2>7. Refused(e) => ~Posted(e)
    BY DEF Refused
  <2> HIDE DEF e
  <2>8. \/ WritesEntry(e) /\ AtHand' = [op |-> "caught", due |-> AtHand.due] /\ UNCHANGED answered
        \/ /\ UNCHANGED journal
           /\ \/ AtHand' = Idle /\ UNCHANGED answered
              \/ AtHand' = [op |-> "caught", due |-> AtHand.due] /\ answered'
    BY <2>2, <2>4, <2>5, <2>6, <2>7, PostWrites
  <2> QED
    BY <2>1, <2>2, <2>3, <2>8 DEF Releases, e
<1>3. ASSUME CatchUpRows PROVE CatchesUp /\ DOMAIN handling' = Handlers
  <2>1. PICK h \in Handlers :
          /\ Doing(h, "caught")
          /\ handovers' = [n \in DOMAIN handovers |->
                             IF n \in Recorded
                             THEN [handovers[n] EXCEPT !.cost = @ + handling[h].due[handovers[n].unit]]
                             ELSE handovers[n]]
          /\ Ends(h)
          /\ UNCHANGED <<policy, journal, closed, stops, answered>>
    BY <1>3 DEF CatchUpRows
  <2>2. h = TheHandler /\ AtHand' = Idle /\ DOMAIN handling' = Handlers
    BY <2>1, HandGoes DEF Ends
  <2>3. ToCatchUp(AtHand) /\ AtHand.op = "caught"
    BY <2>1, <2>2 DEF AtHand, Doing, AsRead, ToRecord, ToAttach, ToRecognise, ToReverse, ToCatchUp, ToWriteDown, Idle
  <2>4. PICK due : due = AtHand.due
    OBVIOUS
  <2>5. handovers' = [n \in DOMAIN handovers |->
                        IF n \in Recorded
                        THEN [handovers[n] EXCEPT !.cost = @ + due[handovers[n].unit]]
                        ELSE handovers[n]]
    BY <2>1, <2>2, <2>4 DEF AtHand
  <2>6. IsDue(due)
    BY <2>3, <2>4 DEF ToCatchUp
  <2>7. \A n \in DOMAIN handovers : handovers'[n] \in Row
    <3> TAKE n \in DOMAIN handovers
    <3>1. handovers[n] \in Row
      BY HandRows
    <3>2. due[handovers[n].unit] \in Int /\ handovers[n].cost \in Int
      BY <2>6, <3>1 DEF IsDue, Row
    <3>3. PICK c \in Int : c = handovers[n].cost + due[handovers[n].unit]
      BY <3>2
    <3>4. handovers'[n] = handovers[n] \/ handovers'[n] = [handovers[n] EXCEPT !.cost = c]
      BY <2>5, <3>3
    <3> QED
      BY <3>1, <3>4 DEF Row
  <2>8. handovers' \in Seq(Row)
    <3>1. DOMAIN handovers' = 1..Len(handovers) /\ Len(handovers) \in Nat
      BY <2>5, HandRows
    <3>2. handovers' \in [1..Len(handovers) -> Row]
      <4>1. handovers' = [n \in DOMAIN handovers |-> handovers'[n]]
        BY <2>5
      <4> HIDE DEF Row
      <4> QED
        BY <2>7, <3>1, <4>1, HandRows
    <3> HIDE DEF Row
    <3> QED
      BY <3>1, <3>2, FunctionIsSeq
  <2>9. CatchesUp
    BY <2>1, <2>2, <2>3, <2>4, <2>5, <2>8 DEF CatchesUp
  <2> QED
    BY <2>2, <2>9
<1> QED
  BY <1>1, <1>2, <1>3

LEMMA PoolSteps ==
  ASSUME OneHandler, InputsAreFigures, RecordsInv
  PROVE  /\ ApproveBill => MovesPool /\ DOMAIN handling' = Handlers
         /\ WriteDownReads => Looks /\ DOMAIN handling' = Handlers
         /\ PostWriteDown => MovesPool /\ DOMAIN handling' = Handlers
<1> USE DEF RecordsInv
<1>1. ASSUME ApproveBill PROVE MovesPool /\ DOMAIN handling' = Handlers
  <2>1. PICK amount \in Bills, month \in Month :
          /\ Post(Entry(IF amount > 0 THEN "bill" ELSE "supplier_credit_note", Len(journal) + 1, month, 0, amount,
                  IF amount > 0 THEN amount ELSE -amount))
          /\ UNCHANGED <<policy, handovers, handling, closed, stops, answered>>
    BY <1>1 DEF ApproveBill
  <2> DEFINE e == Entry(IF amount > 0 THEN "bill" ELSE "supplier_credit_note", Len(journal) + 1, month, 0, amount,
                  IF amount > 0 THEN amount ELSE -amount)
  <2>2. amount \in Int /\ Len(journal) + 1 \in Nat
    BY HandEntries DEF InputsAreFigures
  <2>3. e \in JournalEntry /\ e.source \in {"bill", "supplier_credit_note", "write_down"}
    BY <2>2 DEF Entry, JournalEntry, Sources
  <2> HIDE DEF e
  <2>4. Post(e)
    BY <2>1 DEF e
  <2>5. UNCHANGED journal \/ WritesEntry(e)
    BY <2>3, <2>4, PostWrites
  <2>6. AtHand' = AtHand /\ DOMAIN handling' = Handlers
    BY <2>1 DEF AtHand, ProjectTyped
  <2> QED
    BY <2>1, <2>3, <2>5, <2>6 DEF MovesPool
<1>2. ASSUME WriteDownReads PROVE Looks /\ DOMAIN handling' = Handlers
  <2>1. PICK h \in Handlers, month \in Month :
          /\ Shortfall > 0
          /\ Begin(h, [op |-> "cut", month |-> month, amount |-> Shortfall])
          /\ UNCHANGED <<policy, journal, handovers, closed, stops, answered>>
    BY <1>2 DEF WriteDownReads
  <2>2. AtHand = Idle /\ DOMAIN handling' = Handlers
        /\ AtHand' = [op |-> "cut", month |-> month, amount |-> Shortfall]
    BY <2>1, HandBegins
  <2>3. Shortfall \in Nat
    <3>1. Balance \in Int
      BY MovementIsWhole DEF Balance
    <3>2. policy.proceeds # Unknown => policy.proceeds \in Nat
      BY DEF ProjectTyped, InputsAreFigures
    <3> QED
      BY <3>1, <3>2 DEF Shortfall, Greater
  <2>4. ToWriteDown(AtHand')
    BY <2>2, <2>3 DEF ToWriteDown
  <2> QED
    BY <2>1, <2>2, <2>4 DEF Looks, AsRead
<1>3. ASSUME PostWriteDown PROVE MovesPool /\ DOMAIN handling' = Handlers
  <2>1. PICK h \in Handlers :
          /\ Doing(h, "cut")
          /\ Post(Entry("write_down", 0, handling[h].month, 0, -handling[h].amount, handling[h].amount))
          /\ Ends(h)
          /\ UNCHANGED <<policy, handovers, closed, stops, answered>>
    BY <1>3 DEF PostWriteDown
  <2>2. h = TheHandler /\ AtHand' = Idle /\ DOMAIN handling' = Handlers
    BY <2>1, HandGoes DEF Ends
  <2>3. ToWriteDown(AtHand) /\ AtHand.op = "cut"
    BY <2>1, <2>2 DEF AtHand, Doing, AsRead, ToRecord, ToAttach, ToRecognise, ToReverse, ToCatchUp, ToWriteDown, Idle
  <2> DEFINE e == Entry("write_down", 0, AtHand.month, 0, -AtHand.amount, AtHand.amount)
  <2>4. e \in JournalEntry /\ e.source = "write_down"
    BY <2>3 DEF ToWriteDown, Entry, JournalEntry, Sources
  <2>5. Post(e)
    BY <2>1, <2>2 DEF AtHand
  <2> HIDE DEF e
  <2>6. UNCHANGED journal \/ WritesEntry(e)
    BY <2>4, <2>5, PostWrites
  <2> QED
    BY <2>1, <2>2, <2>3, <2>4, <2>6 DEF MovesPool
<1> QED
  BY <1>1, <1>2, <1>3

LEMMA HandSteps ==
  ASSUME OneHandler, InputsAreFigures, RecordsInv, [HandoverNext]_handoverVars
  PROVE  /\ HandStep
         /\ DOMAIN handling' = Handlers
         /\ policy' \in [basis : Bases, proceeds : Proceeds \union {Unknown}]
<1>1. policy \in [basis : Bases, proceeds : Proceeds \union {Unknown}] /\ DOMAIN handling = Handlers
  BY DEF RecordsInv, ProjectTyped
<1>3. CASE RecordReads \/ RecordHandover \/ AttachReads \/ AttachAcknowledgement
  <2>1. UNCHANGED policy
    BY <1>3 DEF RecordReads, RecordHandover, AttachReads, AttachAcknowledgement
  <2> QED
    BY <1>1, <1>3, <2>1, RecordingSteps DEF HandStep
<1>4. CASE PostHandover \/ KeepFigures
  <2>1. UNCHANGED policy
    BY <1>4 DEF PostHandover, KeepFigures
  <2> QED
    BY <1>1, <1>4, <2>1, FigureSteps DEF HandStep
<1>5. CASE ReverseReads \/ ReverseEntry \/ ReverseHandover
  <2>1. UNCHANGED policy
    BY <1>5 DEF ReverseReads, ReverseEntry, ReverseHandover
  <2> QED
    BY <1>1, <1>5, <2>1, ReversingSteps DEF HandStep
<1>6. CASE CatchUpReads \/ PostCatchUp \/ CatchUpRows
  <2>1. UNCHANGED policy
    BY <1>6 DEF CatchUpReads, PostCatchUp, CatchUpRows
  <2> QED
    BY <1>1, <1>6, <2>1, CostSteps DEF HandStep
<1>7. CASE ApproveBill \/ WriteDownReads \/ PostWriteDown
  <2>1. UNCHANGED policy
    BY <1>7 DEF ApproveBill, WriteDownReads, PostWriteDown
  <2> QED
    BY <1>1, <1>7, <2>1, PoolSteps DEF HandStep
<1>8. CASE SavePolicy
  <2>1. /\ policy' \in [basis : Bases, proceeds : Proceeds \union {Unknown}]
        /\ UNCHANGED <<journal, handovers, handling, closed, stops, answered>>
    BY <1>1, <1>8 DEF SavePolicy
  <2> QED
    BY <1>1, <2>1 DEF HandStep, Elsewhere, AtHand
<1>9. CASE AssessNrv
  <2>1. /\ policy' \in [basis : Bases, proceeds : Proceeds \union {Unknown}]
        /\ UNCHANGED <<journal, handovers, handling, closed, stops, answered>>
    BY <1>1, <1>9 DEF AssessNrv
  <2> QED
    BY <1>1, <2>1 DEF HandStep, Elsewhere, AtHand
<1>10. CASE CloseMonth \/ ReopenMonth \/ UNCHANGED handoverVars
  <2>1. UNCHANGED <<policy, journal, handovers, handling, stops, answered>>
    BY <1>10 DEF CloseMonth, ReopenMonth, handoverVars
  <2> QED
    BY <1>1, <2>1 DEF HandStep, Elsewhere, AtHand
<1>11. CASE Stop
  <2>1. /\ stops' = stops + 1 /\ handling' = [h \in Handlers |-> Idle]
        /\ UNCHANGED <<policy, journal, handovers, closed, answered>>
    BY <1>11 DEF Stop
  <2>2. TheHandler \in Handlers
    BY DEF OneHandler, TheHandler
  <2> QED
    BY <1>1, <2>1, <2>2 DEF HandStep, Stops, AtHand
<1> QED
  BY <1>3, <1>4, <1>5, <1>6, <1>7, <1>8, <1>9, <1>10, <1>11 DEF HandoverNext

-----------------------------------------------------------------------------
(* RecordsInv is kept: form by form.                                       *)
LEMMA IdleIsAsRead == AsRead(Idle)
BY DEF AsRead

LEMMA SameRowsSameReading ==
  ASSUME AsRead(AtHand'), UNCHANGED <<journal, handovers>>
  PROVE  AsRead(AtHand)'
BY DEF AsRead, ToRecord, ToAttach, ToRecognise, ToReverse, ToCatchUp, ToWriteDown, NotYetRecognised, IsDue,
       Recorded, AlreadyHandedOver, HandedOver, EntriesOf

LEMMA SameRowsSameRecords ==
  ASSUME OneEach, EntriesAgree, UNCHANGED <<journal, handovers>>
  PROVE  OneEach' /\ EntriesAgree'
BY DEF OneEach, EntriesAgree, Recorded, Reversal

(* An entry of a row there is, or a first reversal, keeps the journal.     *)
LEMMA WrittenAgrees ==
  ASSUME ProjectTyped, EntriesAgree, NEW e, WritesEntry(e), DOMAIN handovers \subseteq DOMAIN handovers',
         e.source = "handover" => e.of \in DOMAIN handovers' /\ e.revenue \in Nat,
         e.source = "reversal" =>
           \E i \in DOMAIN journal : journal[i].source = "handover" /\ Standing(i) /\ e = Reversal(i)
  PROVE  EntriesAgree'
<1> DEFINE k == Len(journal) + 1
<1>1. /\ DOMAIN journal' = DOMAIN journal \union {k} /\ k \notin DOMAIN journal
      /\ journal'[k] = e
      /\ \A i \in DOMAIN journal : journal'[i] = journal[i]
  BY EntryIsWritten
<1> HIDE DEF k
<1>2. \A i \in DOMAIN journal : Reversal(i)' = Reversal(i)
  BY <1>1 DEF Reversal
<1>3. ASSUME NEW i \in DOMAIN journal
      PROVE  /\ journal'[i].source = "handover" => journal'[i].of \in DOMAIN handovers' /\ journal'[i].revenue \in Nat
             /\ journal'[i].source = "reversal" =>
                  /\ journal'[i].of \in DOMAIN journal'
                  /\ journal'[journal'[i].of].source = "handover"
                  /\ journal'[i] = Reversal(journal[i].of)'
                  /\ \A m \in DOMAIN journal' : journal'[m].source = "reversal" /\ journal'[m].of = journal'[i].of => m = i
  <2>1. journal'[i] = journal[i]
    BY <1>1
  <2>2. journal[i].source = "handover" => journal[i].of \in DOMAIN handovers /\ journal[i].revenue \in Nat
    BY DEF EntriesAgree
  <2>3. ASSUME journal[i].source = "reversal"
        PROVE  /\ journal[i].of \in DOMAIN journal'
               /\ journal'[journal[i].of].source = "handover"
               /\ journal[i] = Reversal(journal[i].of)'
               /\ \A m \in DOMAIN journal' : journal'[m].source = "reversal" /\ journal'[m].of = journal[i].of => m = i
    <3>1. /\ journal[i].of \in DOMAIN journal /\ journal[journal[i].of].source = "handover"
          /\ journal[i] = Reversal(journal[i].of)
          /\ \A m \in DOMAIN journal : journal[m].source = "reversal" /\ journal[m].of = journal[i].of => m = i
      BY <2>3 DEF EntriesAgree
    <3>2. ~(e.source = "reversal" /\ e.of = journal[i].of)
      <4>1. SUFFICES ASSUME e.source = "reversal", e.of = journal[i].of PROVE FALSE
        OBVIOUS
      <4>2. PICK j \in DOMAIN journal : Standing(j) /\ e = Reversal(j)
        BY <4>1
      <4>3. e.of = j
        BY <4>2 DEF Reversal, Entry
      <4> QED
        BY <2>3, <4>1, <4>2, <4>3 DEF Standing, EntriesOf
    <3>3. \A m \in DOMAIN journal' : m \in DOMAIN journal \/ m = k
      BY <1>1
    <3>4. journal[i] = Reversal(journal[i].of)'
      BY <1>1, <3>1 DEF Reversal, Entry
    <3> QED
      BY <1>1, <3>1, <3>2, <3>3, <3>4
  <2>4. journal[i].source = "reversal" => journal'[i] = Reversal(journal[i].of)'
    BY <2>1, <2>3
  <2> QED
    BY <2>1, <2>2, <2>3, <2>4
<1>4. /\ e.source = "handover" => e.of \in DOMAIN handovers' /\ e.revenue \in Nat
      /\ e.source = "reversal" =>
           /\ e.of \in DOMAIN journal'
           /\ journal'[e.of].source = "handover"
           /\ e = Reversal(e.of)'
           /\ \A m \in DOMAIN journal' : journal'[m].source = "reversal" /\ journal'[m].of = e.of => m = k
  <2>1. SUFFICES ASSUME e.source = "reversal"
                 PROVE  /\ e.of \in DOMAIN journal'
                        /\ journal'[e.of].source = "handover"
                        /\ e = Reversal(e.of)'
                        /\ \A m \in DOMAIN journal' : journal'[m].source = "reversal" /\ journal'[m].of = e.of => m = k
    OBVIOUS
  <2>2. PICK j \in DOMAIN journal : journal[j].source = "handover" /\ Standing(j) /\ e = Reversal(j)
    BY <2>1
  <2>3. e.of = j
    BY <2>2 DEF Reversal, Entry
  <2>4. ASSUME NEW m \in DOMAIN journal', journal'[m].source = "reversal", journal'[m].of = j PROVE m = k
    <3>1. CASE m \in DOMAIN journal
      BY <1>1, <2>2, <2>4, <3>1 DEF Standing, EntriesOf
    <3> QED
      BY <1>1, <3>1
  <2> QED
    BY <1>1, <1>2, <2>2, <2>3, <2>4
<1> QED
  BY <1>1, <1>3, <1>4 DEF EntriesAgree

LEMMA OthersRecordsKept ==
  ASSUME RecordsInv, Elsewhere \/ Looks \/ Stops, DOMAIN handling' = Handlers,
         policy' \in [basis : Bases, proceeds : Proceeds \union {Unknown}]
  PROVE  RecordsInv'
<1>1. UNCHANGED <<journal, handovers, answered>> /\ stops' \in Nat
  BY DEF Elsewhere, Looks, Stops, RecordsInv, ProjectTyped
<1>2. ProjectTyped'
  BY <1>1 DEF RecordsInv, ProjectTyped
<1>3. AsRead(AtHand')
  BY IdleIsAsRead DEF Elsewhere, Looks, Stops, RecordsInv
<1>4. AsRead(AtHand)'
  BY <1>1, <1>3, SameRowsSameReading
<1>5. OneEach' /\ EntriesAgree'
  BY <1>1, SameRowsSameRecords DEF RecordsInv
<1> QED
  BY <1>2, <1>4, <1>5 DEF RecordsInv

LEMMA JournalRecordsKept ==
  ASSUME RecordsInv, Recognises \/ PutsBack \/ MovesPool \/ Releases, DOMAIN handling' = Handlers,
         policy' \in [basis : Bases, proceeds : Proceeds \union {Unknown}]
  PROVE  RecordsInv'
<1>1. UNCHANGED <<handovers, stops>> /\ answered' \in BOOLEAN
  BY DEF Recognises, PutsBack, MovesPool, Releases, RecordsInv, ProjectTyped
<1>2. UNCHANGED journal \/ \E e : /\ WritesEntry(e)
                                  /\ e.source = "handover" => e.of \in DOMAIN handovers' /\ e.revenue \in Nat
                                  /\ e.source = "reversal" =>
                                       \E i \in DOMAIN journal : /\ journal[i].source = "handover"
                                                                 /\ Standing(i) /\ e = Reversal(i)
  <2>1. CASE Recognises
    <3>1. AtHand.row \in DOMAIN handovers /\ AtHand.revenue \in Nat
      BY <2>1 DEF Recognises, ToRecognise, NotYetRecognised, Recorded
    <3>2. /\ Recognised(AtHand).source = "handover"
          /\ Recognised(AtHand).of = AtHand.row /\ Recognised(AtHand).revenue = AtHand.revenue
      BY DEF Recognised, Entry
    <3>3. UNCHANGED journal \/ WritesEntry(Recognised(AtHand))
      BY <2>1 DEF Recognises
    <3> QED
      BY <1>1, <3>1, <3>2, <3>3
  <2>2. CASE PutsBack
    <3>1. UNCHANGED journal \/ \E i \in EntriesOf("handover", AtHand.row) : Standing(i) /\ WritesEntry(Reversal(i))
      BY <2>2 DEF PutsBack
    <3>2. \A i : Reversal(i).source = "reversal"
      BY DEF Reversal, Entry
    <3> QED
      BY <3>1, <3>2 DEF EntriesOf
  <2>3. CASE MovesPool
    BY <2>3 DEF MovesPool
  <2>4. CASE Releases
    <3>1. Released(AtHand).source = "cost_catch_up"
      BY DEF Released, Entry
    <3>2. UNCHANGED journal \/ WritesEntry(Released(AtHand))
      BY <2>4 DEF Releases
    <3> QED
      BY <3>1, <3>2
  <2> QED
    BY <2>1, <2>2, <2>3, <2>4
<1>3. journal' \in Seq(JournalEntry) /\ EntriesAgree'
  <2>1. CASE UNCHANGED journal
    BY <1>1, <2>1, SameRowsSameRecords DEF RecordsInv, ProjectTyped
  <2>2. CASE ~UNCHANGED journal
    BY <1>1, <1>2, <2>2, EntryIsWritten, WrittenAgrees DEF RecordsInv
  <2> QED
    BY <2>1, <2>2
<1>4. ProjectTyped'
  BY <1>1, <1>3 DEF RecordsInv, ProjectTyped
<1>5. OneEach'
  BY <1>1 DEF RecordsInv, OneEach, Recorded
<1>6. DOMAIN journal \subseteq DOMAIN journal' /\ \A i \in DOMAIN journal : journal'[i] = journal[i]
  BY <1>2, EntryIsWritten DEF RecordsInv
<1>7. AsRead(AtHand)'
  <2>1. CASE Recognises
    <3>1. ToRecognise(AtHand) /\ (AtHand' = Idle \/ AtHand' = [AtHand EXCEPT !.op = "keep"])
      BY <2>1 DEF Recognises
    <3>2. AtHand' = Idle \/ ToRecognise(AtHand')
      BY <3>1 DEF ToRecognise
    <3>3. AtHand' = Idle \/ ToRecognise(AtHand)'
      BY <1>1, <3>2 DEF ToRecognise, NotYetRecognised, Recorded
    <3> QED
      BY <3>3 DEF AsRead
  <2>2. CASE PutsBack
    BY <1>1, <2>2 DEF PutsBack, AsRead, ToReverse, Recorded
  <2>3. CASE MovesPool
    <3>1. AtHand' = AtHand \/ AtHand' = Idle
      BY <2>3 DEF MovesPool
    <3>2. CASE AtHand' = AtHand
      <4>1. ToReverse(AtHand) => ToReverse(AtHand)'
        BY <1>1, <1>6, <3>2 DEF ToReverse, EntriesOf, Recorded
      <4>2. CASE ToReverse(AtHand)
        BY <4>1, <4>2 DEF AsRead
      <4>3. CASE ~ToReverse(AtHand)
        BY <1>1, <3>2, <4>3 DEF RecordsInv, AsRead, ToRecord, ToAttach, ToRecognise, ToCatchUp, ToWriteDown,
             NotYetRecognised, IsDue, Recorded, AlreadyHandedOver, HandedOver
      <4> QED
        BY <4>2, <4>3
    <3> QED
      BY <3>1, <3>2 DEF AsRead
  <2>4. CASE Releases
    <3>1. AtHand' = Idle \/ (AtHand' = [op |-> "caught", due |-> AtHand.due] /\ IsDue(AtHand.due))
      BY <2>4 DEF Releases, ToCatchUp
    <3>2. AtHand' = Idle \/ ToCatchUp(AtHand)'
      BY <1>1, <3>1 DEF ToCatchUp, IsDue, HandedOver, Recorded
    <3> QED
      BY <3>2 DEF AsRead
  <2> QED
    BY <2>1, <2>2, <2>3, <2>4
<1> QED
  BY <1>3, <1>4, <1>5, <1>7 DEF RecordsInv

LEMMA RowsKeepRecords ==
  ASSUME OneEach, EntriesAgree, UNCHANGED journal, DOMAIN handovers' = DOMAIN handovers,
         \A n \in DOMAIN handovers :
           /\ handovers'[n].sale = handovers[n].sale /\ handovers'[n].unit = handovers[n].unit
           /\ handovers'[n].status = "recorded" => handovers[n].status = "recorded"
  PROVE  OneEach' /\ EntriesAgree' /\ Recorded' \subseteq Recorded
<1>1. Recorded' \subseteq Recorded
  BY DEF Recorded
<1>2. OneEach'
  BY <1>1 DEF OneEach, Recorded
<1>3. EntriesAgree'
  BY DEF EntriesAgree, Reversal
<1> QED
  BY <1>1, <1>2, <1>3

LEMMA RowRecordsKept ==
  ASSUME RecordsInv, Signs \/ Keeps \/ Unrecords \/ CatchesUp, DOMAIN handling' = Handlers,
         policy' \in [basis : Bases, proceeds : Proceeds \union {Unknown}]
  PROVE  /\ RecordsInv' /\ Recorded' \subseteq Recorded
         /\ DOMAIN handovers' = DOMAIN handovers
         /\ \A n \in DOMAIN handovers :
              handovers'[n].sale = handovers[n].sale /\ handovers'[n].unit = handovers[n].unit
<1>1. UNCHANGED <<journal, stops, answered>>
  BY DEF Signs, Keeps, Unrecords, CatchesUp
<1>2. /\ handovers' \in Seq(Row) /\ DOMAIN handovers' = DOMAIN handovers
      /\ \A n \in DOMAIN handovers :
           /\ handovers'[n].sale = handovers[n].sale /\ handovers'[n].unit = handovers[n].unit
           /\ handovers'[n].status = "recorded" => handovers[n].status = "recorded"
  <2>1. ASSUME Signs \/ Keeps \/ Unrecords
        PROVE  /\ handovers' \in Seq(Row) /\ DOMAIN handovers' = DOMAIN handovers
               /\ \A n \in DOMAIN handovers :
                    /\ handovers'[n].sale = handovers[n].sale /\ handovers'[n].unit = handovers[n].unit
                    /\ handovers'[n].status = "recorded" => handovers[n].status = "recorded"
    <3>1. PICK k : k = AtHand.row
      OBVIOUS
    <3>2. PICK row : /\ WritesRow(k, row)
                     /\ \/ row = [handovers[k] EXCEPT !.signed = TRUE]
                        \/ row = [handovers[k] EXCEPT !.revenue = AtHand.revenue, !.cost = AtHand.cost]
                        \/ row = [handovers[k] EXCEPT !.status = "reversed"]
      BY <2>1, <3>1 DEF Signs, Keeps, Unrecords
    <3>3. k \in DOMAIN handovers /\ handovers[k] \in Row
      BY <3>2, HandRows DEF WritesRow, RecordsInv
    <3>4. row.sale = handovers[k].sale /\ row.unit = handovers[k].unit
          /\ (row.status = "recorded" => handovers[k].status = "recorded")
      <4>1. CASE row = [handovers[k] EXCEPT !.revenue = AtHand.revenue, !.cost = AtHand.cost]
        BY <3>3, <4>1 DEF Row
      <4>2. CASE row = [handovers[k] EXCEPT !.signed = TRUE]
        BY <3>3, <4>2 DEF Row
      <4>3. CASE row = [handovers[k] EXCEPT !.status = "reversed"]
        BY <3>3, <4>3 DEF Row
      <4> QED
        BY <3>2, <4>1, <4>2, <4>3
    <3>5. /\ handovers' \in Seq(Row) /\ DOMAIN handovers' = DOMAIN handovers /\ handovers'[k] = row
          /\ \A m \in DOMAIN handovers : m # k => handovers'[m] = handovers[m]
      BY <3>2, RowIsWritten DEF RecordsInv
    <3> QED
      BY <3>3, <3>4, <3>5
  <2>2. ASSUME CatchesUp
        PROVE  /\ handovers' \in Seq(Row) /\ DOMAIN handovers' = DOMAIN handovers
               /\ \A n \in DOMAIN handovers :
                    /\ handovers'[n].sale = handovers[n].sale /\ handovers'[n].unit = handovers[n].unit
                    /\ handovers'[n].status = "recorded" => handovers[n].status = "recorded"
    <3>1. PICK due : due = AtHand.due
      OBVIOUS
    <3>2. /\ handovers' \in Seq(Row)
          /\ handovers' = [n \in DOMAIN handovers |->
                             IF n \in Recorded
                             THEN [handovers[n] EXCEPT !.cost = @ + due[handovers[n].unit]]
                             ELSE handovers[n]]
      BY <2>2, <3>1 DEF CatchesUp
    <3>3. ASSUME NEW n \in DOMAIN handovers
          PROVE  /\ handovers'[n].sale = handovers[n].sale /\ handovers'[n].unit = handovers[n].unit
                 /\ handovers'[n].status = "recorded" => handovers[n].status = "recorded"
      <4>1. handovers[n] \in Row
        BY HandRows DEF RecordsInv
      <4>2. handovers'[n] = handovers[n] \/ handovers'[n] = [handovers[n] EXCEPT !.cost = @ + due[handovers[n].unit]]
        BY <3>2
      <4> QED
        BY <4>1, <4>2 DEF Row
    <3>4. DOMAIN handovers' = DOMAIN handovers
      BY <3>2
    <3> QED
      BY <3>2, <3>3, <3>4
  <2> QED
    BY <2>1, <2>2
<1>3. OneEach' /\ EntriesAgree' /\ Recorded' \subseteq Recorded
  BY <1>1, <1>2, RowsKeepRecords DEF RecordsInv
<1>4. AsRead(AtHand)'
  BY IdleIsAsRead DEF Signs, Keeps, Unrecords, CatchesUp, AboutToPost, AsRead
<1>5. ProjectTyped'
  BY <1>1, <1>2 DEF RecordsInv, ProjectTyped
<1> QED
  BY <1>2, <1>3, <1>4, <1>5 DEF RecordsInv

LEMMA RowIsAdded ==
  ASSUME RecordsInv, Records
  PROVE  /\ handovers' \in Seq(Row)
         /\ DOMAIN handovers' = DOMAIN handovers \union {Len(handovers) + 1}
         /\ Len(handovers) + 1 \notin DOMAIN handovers
         /\ handovers'[Len(handovers) + 1] = AtHand.row
         /\ \A n \in DOMAIN handovers : handovers'[n] = handovers[n]
<1>1. handovers \in Seq(Row) /\ AtHand.row \in Row /\ handovers' = Append(handovers, AtHand.row)
  BY DEF RecordsInv, ProjectTyped, Records, ToRecord
<1>2. PICK row : row = AtHand.row
  OBVIOUS
<1>3. row \in Row /\ handovers' = Append(handovers, row)
  BY <1>1, <1>2
<1> HIDE DEF Row
<1>4. DOMAIN handovers = 1..Len(handovers) /\ Len(handovers) \in Nat
  BY <1>1
<1>5. DOMAIN handovers' = 1..(Len(handovers) + 1)
  BY <1>1, <1>3
<1>6. handovers' \in Seq(Row) /\ handovers'[Len(handovers) + 1] = row
  BY <1>1, <1>3
<1>7. \A n \in DOMAIN handovers : handovers'[n] = handovers[n]
  BY <1>1, <1>3, <1>4
<1> QED
  BY <1>2, <1>4, <1>5, <1>6, <1>7

LEMMA AddedRecordsKept ==
  ASSUME RecordsInv, Records, DOMAIN handling' = Handlers,
         policy' \in [basis : Bases, proceeds : Proceeds \union {Unknown}]
  PROVE  RecordsInv'
<1>1. PICK k : k = Len(handovers) + 1
  OBVIOUS
<1>2. PICK row : row = AtHand.row
  OBVIOUS
<1>3. /\ handovers' \in Seq(Row)
      /\ DOMAIN handovers' = DOMAIN handovers \union {k} /\ k \notin DOMAIN handovers
      /\ handovers'[k] = row
      /\ \A n \in DOMAIN handovers : handovers'[n] = handovers[n]
  BY <1>1, <1>2, RowIsAdded
<1>4. UNCHANGED <<journal, stops, answered>>
  BY DEF Records
<1>5. ProjectTyped'
  BY <1>3, <1>4 DEF RecordsInv, ProjectTyped
<1>6. row.unit = Sales[row.sale].unit /\ \A n \in Recorded : handovers[n].sale # row.sale
  BY <1>2 DEF Records, ToRecord, AlreadyHandedOver
<1>7. OneEach'
  <2>1. \A n \in DOMAIN handovers' : handovers'[n].unit = Sales[handovers'[n].sale].unit
    BY <1>3, <1>6 DEF RecordsInv, OneEach
  <2>2. Recorded' \subseteq Recorded \union {k} /\ Recorded \subseteq DOMAIN handovers
    BY <1>3 DEF Recorded
  <2>3. \A n, m \in Recorded' : handovers'[n].sale = handovers'[m].sale => n = m
    BY <1>3, <1>6, <2>2 DEF RecordsInv, OneEach
  <2> QED
    BY <2>1, <2>3 DEF OneEach
<1>8. EntriesAgree'
  BY <1>3, <1>4 DEF RecordsInv, EntriesAgree, Reversal
<1>9. AsRead(AtHand)'
  BY IdleIsAsRead DEF Records, AboutToPost, AsRead
<1> QED
  BY <1>5, <1>7, <1>8, <1>9 DEF RecordsInv

LEMMA HandInit == OneHandler /\ InputsAreFigures /\ HandoverInit => RecordsInv
<1> SUFFICES ASSUME OneHandler, InputsAreFigures, HandoverInit PROVE RecordsInv
  OBVIOUS
<1>1. policy \in [basis : Bases, proceeds : Proceeds \union {Unknown}]
  BY DEF HandoverInit, Bases
<1>2. journal = <<>> /\ handovers = <<>> /\ stops = 0 /\ answered = FALSE /\ DOMAIN handling = Handlers
  BY DEF HandoverInit
<1>3. ProjectTyped
  <2>1. journal \in Seq(JournalEntry) /\ handovers \in Seq(Row)
    BY <1>2
  <2> QED
    BY <1>1, <1>2, <2>1 DEF ProjectTyped
<1>4. AtHand = Idle
  <2>1. TheHandler \in Handlers
    BY DEF OneHandler, TheHandler
  <2> QED
    BY <2>1 DEF HandoverInit, AtHand
<1>5. OneEach /\ EntriesAgree
  <2>1. DOMAIN journal = {} /\ DOMAIN handovers = {}
    BY <1>2
  <2> QED
    BY <2>1 DEF OneEach, EntriesAgree, Recorded
<1> QED
  BY <1>3, <1>4, <1>5, IdleIsAsRead DEF RecordsInv

LEMMA RecordsStep ==
  ASSUME OneHandler, InputsAreFigures, RecordsInv, [HandoverNext]_handoverVars
  PROVE  RecordsInv' /\ HandStep
BY HandSteps, OthersRecordsKept, JournalRecordsKept, RowRecordsKept, AddedRecordsKept DEF HandStep

-----------------------------------------------------------------------------
(* Revenue: what stands in the journal for a handover is what its row      *)
(* keeps, or is about to, but for what a stop has cut off.                 *)
StandingOf(n) == {i \in EntriesOf("handover", n) : Standing(i)}

RecognisedFor(n) == SumFunctionOnSet([i \in StandingOf(n) |-> journal[i].revenue], StandingOf(n))

KeptFor(n) == IF AtHand.op = "keep" /\ AtHand.row = n THEN AtHand.revenue ELSE handovers[n].revenue

RaisedFor(n) == Sales[handovers[n].sale].raised

RevenueInv ==
  \A n \in Recorded :
    /\ handovers[n].revenue <= RaisedFor(n)
    /\ RecognisedFor(n) <= KeptFor(n) + stops * RaisedFor(n)

LEMMA StandingFigures ==
  ASSUME RecordsInv, NEW n
  PROVE  /\ StandingOf(n) \subseteq DOMAIN journal /\ IsFiniteSet(StandingOf(n))
         /\ \A i \in StandingOf(n) : journal[i].revenue \in Nat
         /\ RecognisedFor(n) \in Nat
<1> DEFINE S == StandingOf(n)
           f == [i \in S |-> journal[i].revenue]
<1>1. S \subseteq DOMAIN journal /\ IsFiniteSet(S)
  <2>1. S \subseteq DOMAIN journal
    BY DEF StandingOf, EntriesOf
  <2> QED
    BY <2>1, HandEntries, FS_Subset DEF RecordsInv
<1>2. \A i \in S : journal[i].revenue \in Nat
  BY DEF StandingOf, EntriesOf, RecordsInv, EntriesAgree
<1>3. \A i \in S : f[i] \in Nat
  BY <1>2
<1>4. SumFunctionOnSet(f, S) \in Nat
  <2> HIDE DEF f, S
  <2>1. S \in SUBSET S
    OBVIOUS
  <2> QED
    BY <1>1, <1>3, <2>1, SumOfPart
<1> QED
  BY <1>1, <1>2, <1>4 DEF RecognisedFor

(* Nothing but an entry of the handover raises what it has recognised.     *)
LEMMA RecognisedFalls ==
  ASSUME RecordsInv, NEW n,
         UNCHANGED journal \/ \E e : WritesEntry(e) /\ ~(e.source = "handover" /\ e.of = n)
  PROVE  RecognisedFor(n)' \in Nat /\ RecognisedFor(n)' <= RecognisedFor(n)
<1>1. PICK S : S = StandingOf(n)
  OBVIOUS
<1>2. PICK f : f = [i \in S |-> journal[i].revenue]
  OBVIOUS
<1>3. PICK A : A = StandingOf(n)'
  OBVIOUS
<1>4. PICK g : g = [i \in A |-> journal'[i].revenue]
  OBVIOUS
<1>5. RecognisedFor(n) = SumFunctionOnSet(f, S) /\ RecognisedFor(n)' = SumFunctionOnSet(g, A)
  BY <1>1, <1>2, <1>3, <1>4 DEF RecognisedFor
<1>6. A \subseteq S /\ \A i \in A : journal'[i] = journal[i]
  <2>1. CASE UNCHANGED journal
    BY <1>1, <1>3, <2>1 DEF StandingOf, EntriesOf, Standing
  <2>2. CASE ~UNCHANGED journal
    <3>1. PICK e : WritesEntry(e) /\ ~(e.source = "handover" /\ e.of = n)
      BY <2>2
    <3>2. /\ DOMAIN journal' = DOMAIN journal \union {Len(journal) + 1}
          /\ journal'[Len(journal) + 1] = e
          /\ \A i \in DOMAIN journal : journal'[i] = journal[i]
      BY <3>1, EntryIsWritten DEF RecordsInv
    <3>3. A \subseteq DOMAIN journal
      BY <1>3, <3>1, <3>2 DEF StandingOf, EntriesOf
    <3>4. ASSUME NEW i \in A PROVE i \in S
      <4>1. i \in DOMAIN journal /\ journal[i].source = "handover" /\ journal[i].of = n
        BY <1>3, <3>2, <3>3 DEF StandingOf, EntriesOf
      <4>2. {k \in DOMAIN journal' : journal'[k].source = "reversal" /\ journal'[k].of = i} = {}
        BY <1>3 DEF StandingOf, Standing, EntriesOf
      <4>3. {k \in DOMAIN journal : journal[k].source = "reversal" /\ journal[k].of = i} = {}
        BY <3>2, <4>2
      <4> QED
        BY <1>1, <4>1, <4>3 DEF StandingOf, Standing, EntriesOf
    <3> QED
      BY <3>2, <3>3, <3>4
  <2> QED
    BY <2>1, <2>2
<1>7. IsFiniteSet(S) /\ \A i \in S : f[i] \in Nat
  BY <1>1, <1>2, StandingFigures
<1>8. \A i \in A : g[i] = f[i] /\ f[i] \in Int
  BY <1>2, <1>4, <1>6, <1>7
<1>9. SumFunctionOnSet(f, A) \in Nat /\ SumFunctionOnSet(f, A) <= SumFunctionOnSet(f, S)
  BY <1>6, <1>7, SumOfPart
<1>10. SumFunctionOnSet(g, A) = SumFunctionOnSet(f, A)
  <2>1. IsFiniteSet(A) /\ WholeOn(f, A)
    BY <1>6, <1>7, <1>8, FS_Subset DEF WholeOn
  <2> QED
    BY <1>8, <2>1, SumAgrees
<1> QED
  BY <1>5, <1>9, <1>10

LEMMA RecognisedGrows ==
  ASSUME RecordsInv, NEW n, NEW e, WritesEntry(e), e.source = "handover", e.of = n, e.revenue \in Nat
  PROVE  RecognisedFor(n)' = RecognisedFor(n) + e.revenue
<1>1. PICK S : S = StandingOf(n)
  OBVIOUS
<1>2. PICK f : f = [i \in S |-> journal[i].revenue]
  OBVIOUS
<1>3. PICK k : k = Len(journal) + 1
  OBVIOUS
<1>4. PICK g : g = [i \in S \union {k} |-> journal'[i].revenue]
  OBVIOUS
<1>5. /\ DOMAIN journal' = DOMAIN journal \union {k} /\ k \notin DOMAIN journal
      /\ journal'[k] = e
      /\ \A i \in DOMAIN journal : journal'[i] = journal[i]
  BY <1>3, EntryIsWritten DEF RecordsInv
<1>6. \A j \in DOMAIN journal : journal[j].source = "reversal" => journal[j].of \in DOMAIN journal
  BY DEF RecordsInv, EntriesAgree
<1>7. StandingOf(n)' = S \union {k}
  <2>1. \A i \in DOMAIN journal \union {k} :
          {j \in DOMAIN journal' : journal'[j].source = "reversal" /\ journal'[j].of = i} =
          {j \in DOMAIN journal : journal[j].source = "reversal" /\ journal[j].of = i}
    BY <1>5
  <2>2. {j \in DOMAIN journal : journal[j].source = "reversal" /\ journal[j].of = k} = {}
    BY <1>5, <1>6
  <2>3. \A i \in DOMAIN journal : Standing(i)' <=> Standing(i)
    BY <1>5, <2>1 DEF Standing, EntriesOf
  <2>4. Standing(k)'
    BY <1>5, <2>1, <2>2 DEF Standing, EntriesOf
  <2>5. EntriesOf("handover", n)' = EntriesOf("handover", n) \union {k}
    BY <1>5 DEF EntriesOf
  <2>6. EntriesOf("handover", n) \subseteq DOMAIN journal
    BY DEF EntriesOf
  <2>7. StandingOf(n)' = {i \in EntriesOf("handover", n)' : Standing(i)'}
    BY DEF StandingOf
  <2> QED
    BY <1>1, <2>3, <2>4, <2>5, <2>6, <2>7 DEF StandingOf
<1>8. /\ IsFiniteSet(S) /\ S \subseteq DOMAIN journal /\ k \notin S
      /\ \A i \in S : f[i] \in Nat /\ g[i] = f[i]
      /\ g[k] = e.revenue
  BY <1>1, <1>2, <1>4, <1>5, StandingFigures
<1>9. WholeOn(g, S \union {k}) /\ WholeOn(f, S)
  BY <1>8 DEF WholeOn
<1>10. SumFunctionOnSet(g, S \union {k}) = SumFunctionOnSet(g, S) + e.revenue
  BY <1>8, <1>9, SumWith
<1>11. SumFunctionOnSet(g, S) = SumFunctionOnSet(f, S)
  BY <1>8, <1>9, SumAgrees
<1>12. RecognisedFor(n)' = SumFunctionOnSet(g, S \union {k}) /\ RecognisedFor(n) = SumFunctionOnSet(f, S)
  BY <1>1, <1>2, <1>4, <1>7 DEF RecognisedFor
<1> QED
  BY <1>10, <1>11, <1>12

LEMMA RaisedIsWhole ==
  ASSUME InputsAreFigures, RecordsInv
  PROVE  /\ \A n \in DOMAIN handovers : RaisedFor(n) \in Nat
         /\ \A n \in DOMAIN handovers : handovers[n].revenue \in Nat
         /\ \A n \in DOMAIN handovers : KeptFor(n) \in Nat
<1>1. \A n \in DOMAIN handovers : RaisedFor(n) \in Nat /\ handovers[n].revenue \in Nat
  BY HandRows DEF RecordsInv, Row, RaisedFor, InputsAreFigures
<1>2. AtHand.op = "keep" => AtHand.revenue \in Nat
  BY DEF RecordsInv, AsRead, ToRecord, ToAttach, ToRecognise, ToReverse, ToCatchUp, ToWriteDown, Idle
<1> QED
  BY <1>1, <1>2 DEF KeptFor

LEMMA RevenueStays ==
  ASSUME InputsAreFigures, RecordsInv, RevenueInv, NEW n \in Recorded,
         DOMAIN handovers \subseteq DOMAIN handovers',
         handovers'[n].sale = handovers[n].sale, handovers'[n].revenue \in Nat,
         handovers'[n].revenue <= RaisedFor(n),
         RecognisedFor(n)' \in Nat, RecognisedFor(n)' <= RecognisedFor(n),
         KeptFor(n)' = KeptFor(n), UNCHANGED stops
  PROVE  /\ handovers'[n].revenue <= RaisedFor(n)'
         /\ RecognisedFor(n)' <= KeptFor(n)' + stops' * RaisedFor(n)'
<1>1. RaisedFor(n)' = RaisedFor(n)
  BY DEF RaisedFor
<1>2. n \in DOMAIN handovers
  BY DEF Recorded
<1>3. RaisedFor(n) \in Nat /\ KeptFor(n) \in Nat /\ RecognisedFor(n) \in Nat /\ stops \in Nat
  BY <1>2, RaisedIsWhole, StandingFigures DEF RecordsInv, ProjectTyped
<1>4. stops * RaisedFor(n) \in Nat
  BY <1>3
<1>5. RecognisedFor(n) <= KeptFor(n) + stops * RaisedFor(n)
  BY DEF RevenueInv
<1>6. RecognisedFor(n)' <= KeptFor(n) + stops * RaisedFor(n)
  BY <1>3, <1>4, <1>5
<1> QED
  BY <1>1, <1>6

LEMMA RevenueElsewhere ==
  ASSUME InputsAreFigures, RecordsInv, RecordsInv', RevenueInv,
         Elsewhere \/ Looks \/ PutsBack \/ MovesPool \/ Releases
  PROVE  RevenueInv'
<1>1. UNCHANGED <<handovers, stops>>
  BY DEF Elsewhere, Looks, PutsBack, MovesPool, Releases
<1>2. Recorded' = Recorded /\ Recorded \subseteq DOMAIN handovers
  BY <1>1 DEF Recorded
<1>3. \/ AtHand' = AtHand
      \/ AtHand.op # "keep" /\ AtHand'.op # "keep"
  BY DEF Elsewhere, Looks, PutsBack, MovesPool, Releases, Idle
<1>4. ASSUME NEW n \in Recorded PROVE KeptFor(n)' = KeptFor(n)
  BY <1>1, <1>3 DEF KeptFor
<1>5. UNCHANGED journal \/ \E e : WritesEntry(e) /\ e.source # "handover"
  <2>1. CASE Elsewhere \/ Looks
    BY <2>1 DEF Elsewhere, Looks
  <2>2. CASE PutsBack
    <3>1. \A i : Reversal(i).source = "reversal"
      BY DEF Reversal, Entry
    <3> QED
      BY <2>2, <3>1 DEF PutsBack
  <2>3. CASE MovesPool
    BY <2>3 DEF MovesPool
  <2>4. CASE Releases
    <3>1. Released(AtHand).source = "cost_catch_up"
      BY DEF Released, Entry
    <3> QED
      BY <2>4, <3>1 DEF Releases
  <2> QED
    BY <2>1, <2>2, <2>3, <2>4
<1>6. ASSUME NEW n \in Recorded PROVE RecognisedFor(n)' \in Nat /\ RecognisedFor(n)' <= RecognisedFor(n)
  BY <1>5, RecognisedFalls
<1>7. ASSUME NEW n \in Recorded
      PROVE  /\ handovers'[n].revenue <= RaisedFor(n)'
             /\ RecognisedFor(n)' <= KeptFor(n)' + stops' * RaisedFor(n)'
  <2>1. handovers[n].revenue \in Nat /\ handovers[n].revenue <= RaisedFor(n)
    BY <1>2, RaisedIsWhole DEF RevenueInv
  <2> QED
    BY <1>1, <1>4, <1>6, <2>1, RevenueStays
<1> QED
  BY <1>2, <1>7 DEF RevenueInv

LEMMA RevenueOfRows ==
  ASSUME InputsAreFigures, RecordsInv, RecordsInv', RevenueInv,
         Signs \/ Keeps \/ Unrecords \/ CatchesUp,
         Recorded' \subseteq Recorded, DOMAIN handovers' = DOMAIN handovers,
         \A n \in DOMAIN handovers : handovers'[n].sale = handovers[n].sale
  PROVE  RevenueInv'
<1>1. UNCHANGED <<journal, stops>>
  BY DEF Signs, Keeps, Unrecords, CatchesUp
<1>2. ASSUME NEW n \in Recorded, n \in Recorded'
      PROVE  /\ KeptFor(n)' = KeptFor(n)
             /\ handovers'[n].revenue \in Nat /\ handovers'[n].revenue <= RaisedFor(n)
  <2>1. n \in DOMAIN handovers /\ handovers[n] \in Row
    BY HandRows DEF Recorded, RecordsInv
  <2>2. handovers[n].revenue \in Nat /\ handovers[n].revenue <= RaisedFor(n)
    BY <2>1, RaisedIsWhole DEF RevenueInv
  <2>3. CASE Signs \/ Unrecords
    <3>1. AtHand.op # "keep" /\ AtHand'.op # "keep"
      BY <2>3 DEF Signs, Unrecords, ToAttach, ToReverse, AboutToPost, Idle
    <3>2. PICK k : k = AtHand.row
      OBVIOUS
    <3>3. PICK row : /\ WritesRow(k, row)
                     /\ row = [handovers[k] EXCEPT !.signed = TRUE] \/ row = [handovers[k] EXCEPT !.status = "reversed"]
      BY <2>3, <3>2 DEF Signs, Unrecords
    <3>4. handovers'[k] = row /\ \A m \in DOMAIN handovers : m # k => handovers'[m] = handovers[m]
      BY <3>3, RowIsWritten DEF RecordsInv
    <3>5. handovers[k] \in Row
      BY <3>3, HandRows DEF WritesRow, RecordsInv
    <3>6. row.revenue = handovers[k].revenue
      BY <3>3, <3>5 DEF Row
    <3>7. handovers'[n].revenue = handovers[n].revenue
      BY <2>1, <3>4, <3>6
    <3> QED
      BY <2>2, <3>1, <3>7 DEF KeptFor
  <2>4. CASE Keeps
    <3>1. PICK k : k = AtHand.row
      OBVIOUS
    <3>2. PICK revenue \in Nat : revenue = AtHand.revenue /\ revenue <= RaisedFor(k)
      BY <2>4, <3>1 DEF Keeps, ToRecognise, RaisedFor
    <3>3. PICK row : WritesRow(k, row) /\ row = [handovers[k] EXCEPT !.revenue = revenue, !.cost = AtHand.cost]
      BY <2>4, <3>1, <3>2 DEF Keeps
    <3>4. handovers'[k] = row /\ \A m \in DOMAIN handovers : m # k => handovers'[m] = handovers[m]
      BY <3>3, RowIsWritten DEF RecordsInv
    <3>5. row.revenue = revenue
      <4>1. handovers[k] \in Row
        BY <3>3, HandRows DEF WritesRow, RecordsInv
      <4> QED
        BY <3>3, <4>1 DEF Row
    <3>6. AtHand.op = "keep" /\ AtHand'.op # "keep"
      BY <2>4 DEF Keeps, Idle
    <3> QED
      BY <2>1, <2>2, <3>1, <3>2, <3>4, <3>5, <3>6 DEF KeptFor
  <2>5. CASE CatchesUp
    <3>1. AtHand.op # "keep" /\ AtHand'.op # "keep"
      BY <2>5 DEF CatchesUp, Idle
    <3>2. PICK due : due = AtHand.due
      OBVIOUS
    <3>3. handovers'[n] = handovers[n] \/ handovers'[n] = [handovers[n] EXCEPT !.cost = @ + due[handovers[n].unit]]
      BY <2>1, <2>5, <3>2 DEF CatchesUp
    <3>4. handovers'[n].revenue = handovers[n].revenue
      BY <2>1, <3>3 DEF Row
    <3> QED
      BY <2>2, <3>1, <3>4 DEF KeptFor
  <2> QED
    BY <2>3, <2>4, <2>5
<1>3. ASSUME NEW n \in Recorded' 
      PROVE  /\ handovers'[n].revenue <= RaisedFor(n)'
             /\ RecognisedFor(n)' <= KeptFor(n)' + stops' * RaisedFor(n)'
  <2>1. n \in Recorded /\ n \in DOMAIN handovers
    BY DEF Recorded
  <2>2. RecognisedFor(n)' \in Nat /\ RecognisedFor(n)' <= RecognisedFor(n)
    BY <1>1, RecognisedFalls
  <2> QED
    BY <1>1, <1>2, <2>1, <2>2, RevenueStays
<1> QED
  BY <1>3 DEF RevenueInv

LEMMA RevenueOfNew ==
  ASSUME InputsAreFigures, RecordsInv, RecordsInv', RevenueInv, Records
  PROVE  RevenueInv'
<1>1. PICK k : k = Len(handovers) + 1
  OBVIOUS
<1>2. /\ DOMAIN handovers' = DOMAIN handovers \union {k} /\ k \notin DOMAIN handovers
      /\ handovers'[k] = AtHand.row
      /\ \A n \in DOMAIN handovers : handovers'[n] = handovers[n]
  BY <1>1, RowIsAdded
<1>3. UNCHANGED <<journal, stops>> /\ AtHand.op # "keep" /\ AtHand'.op # "keep"
  BY DEF Records, ToRecord, AboutToPost, Idle
<1>4. ASSUME NEW n \in Recorded', n \in DOMAIN handovers
      PROVE  /\ handovers'[n].revenue <= RaisedFor(n)'
             /\ RecognisedFor(n)' <= KeptFor(n)' + stops' * RaisedFor(n)'
  <2>1. n \in Recorded /\ handovers'[n] = handovers[n]
    BY <1>2, <1>4 DEF Recorded
  <2>2. RecognisedFor(n)' \in Nat /\ RecognisedFor(n)' <= RecognisedFor(n)
    BY <1>3, RecognisedFalls
  <2>3. KeptFor(n)' = KeptFor(n)
    BY <1>3, <2>1 DEF KeptFor
  <2>4. handovers[n].revenue \in Nat /\ handovers[n].revenue <= RaisedFor(n)
    BY <1>4, <2>1, RaisedIsWhole DEF RevenueInv
  <2> QED
    BY <1>2, <1>3, <2>1, <2>2, <2>3, <2>4, RevenueStays
<1>5. /\ handovers'[k].revenue <= RaisedFor(k)'
      /\ RecognisedFor(k)' <= KeptFor(k)' + stops' * RaisedFor(k)'
  <2>1. handovers'[k].revenue = 0
    BY <1>2 DEF Records, ToRecord
  <2>2. RaisedFor(k)' \in Nat /\ stops' \in Nat
    <3>1. k \in DOMAIN handovers'
      BY <1>2
    <3>2. handovers'[k] \in Row
      BY <1>2 DEF Records, ToRecord
    <3>3. stops' \in Nat
      BY DEF RecordsInv, ProjectTyped
    <3> QED
      BY <3>2, <3>3 DEF RaisedFor, Row, InputsAreFigures
  <2>3. StandingOf(k)' = {}
    <3>1. \A i \in DOMAIN journal : journal[i].source = "handover" => journal[i].of # k
      BY <1>2 DEF RecordsInv, EntriesAgree
    <3> QED
      BY <1>3, <3>1 DEF StandingOf, EntriesOf
  <2>4. RecognisedFor(k)' = 0
    <3>1. PICK f : f = [i \in StandingOf(k)' |-> journal'[i].revenue]
      OBVIOUS
    <3>2. RecognisedFor(k)' = SumFunctionOnSet(f, {})
      BY <2>3, <3>1 DEF RecognisedFor
    <3> QED
      BY <3>2, SumOfNone
  <2>5. KeptFor(k)' = 0
    BY <1>3, <2>1 DEF KeptFor
  <2>6. stops' * RaisedFor(k)' \in Nat
    BY <2>2
  <2> QED
    BY <2>1, <2>2, <2>4, <2>5, <2>6
<1>6. Recorded' \subseteq DOMAIN handovers \union {k}
  BY <1>2 DEF Recorded
<1> QED
  BY <1>4, <1>5, <1>6 DEF RevenueInv

LEMMA RevenueOfStops ==
  ASSUME InputsAreFigures, RecordsInv, RecordsInv', RevenueInv, Stops
  PROVE  RevenueInv'
<1>1. UNCHANGED <<journal, handovers>> /\ stops' = stops + 1 /\ AtHand'.op # "keep"
  BY DEF Stops, Idle
<1>2. ASSUME NEW n \in Recorded
      PROVE  /\ handovers'[n].revenue <= RaisedFor(n)'
             /\ RecognisedFor(n)' <= KeptFor(n)' + stops' * RaisedFor(n)'
  <2>1. n \in DOMAIN handovers
    BY DEF Recorded
  <2>2. /\ RaisedFor(n) \in Nat /\ KeptFor(n) \in Nat /\ RecognisedFor(n) \in Nat /\ stops \in Nat
        /\ handovers[n].revenue \in Nat
    BY <2>1, RaisedIsWhole, StandingFigures DEF RecordsInv, ProjectTyped
  <2>3. KeptFor(n) <= RaisedFor(n)
    <3>1. CASE AtHand.op = "keep" /\ AtHand.row = n
      <4>1. ToRecognise(AtHand)
        BY <3>1 DEF RecordsInv, AsRead, ToRecord, ToAttach, ToRecognise, ToReverse, ToCatchUp, ToWriteDown, Idle
      <4> QED
        BY <3>1, <4>1 DEF ToRecognise, KeptFor, RaisedFor
    <3>2. CASE ~(AtHand.op = "keep" /\ AtHand.row = n)
      BY <3>2 DEF KeptFor, RevenueInv
    <3> QED
      BY <3>1, <3>2
  <2>4. RecognisedFor(n) <= KeptFor(n) + stops * RaisedFor(n) /\ handovers[n].revenue <= RaisedFor(n)
    BY DEF RevenueInv
  <2>5. RecognisedFor(n)' = RecognisedFor(n) /\ RaisedFor(n)' = RaisedFor(n) /\ KeptFor(n)' = handovers[n].revenue
    BY <1>1 DEF RecognisedFor, StandingOf, EntriesOf, Standing, RaisedFor, KeptFor
  <2>6. (stops + 1) * RaisedFor(n) = stops * RaisedFor(n) + RaisedFor(n) /\ stops * RaisedFor(n) \in Nat
    <3>1. \A a, b \in Nat : (a + 1) * b = a * b + b /\ a * b \in Nat
      OBVIOUS
    <3> QED
      BY <2>2, <3>1
  <2>7. RecognisedFor(n) <= handovers[n].revenue + (stops + 1) * RaisedFor(n)
    BY <2>2, <2>3, <2>4, <2>6
  <2> QED
    BY <1>1, <2>4, <2>5, <2>7
<1>3. Recorded' = Recorded
  BY <1>1 DEF Recorded
<1> QED
  BY <1>2, <1>3 DEF RevenueInv

LEMMA RevenueOfPosting ==
  ASSUME InputsAreFigures, RecordsInv, RecordsInv', RevenueInv, Recognises
  PROVE  RevenueInv'
<1>1. UNCHANGED <<handovers, stops>> /\ AtHand.op # "keep" /\ ToRecognise(AtHand)
  BY DEF Recognises
<1>2. PICK k : k = AtHand.row
  OBVIOUS
<1>3. PICK e : e = Recognised(AtHand)
  OBVIOUS
<1>4. /\ e.source = "handover" /\ e.of = k /\ e.revenue = AtHand.revenue
      /\ AtHand.revenue \in Nat
  BY <1>1, <1>2, <1>3 DEF Recognised, Entry, ToRecognise
<1>5. \/ WritesEntry(e) /\ AtHand' = [AtHand EXCEPT !.op = "keep"]
      \/ UNCHANGED journal /\ (AtHand' = Idle \/ AtHand' = [AtHand EXCEPT !.op = "keep"])
  BY <1>3 DEF Recognises
<1>6. \/ AtHand'.op = "keep" /\ AtHand'.row = k /\ AtHand'.revenue = AtHand.revenue
      \/ UNCHANGED journal /\ AtHand'.op = "idle"
  BY <1>1, <1>2, <1>5 DEF ToRecognise, Idle
<1>7. Recorded' = Recorded /\ Recorded \subseteq DOMAIN handovers
  BY <1>1 DEF Recorded
<1>8. ASSUME NEW n \in Recorded
      PROVE  /\ handovers'[n].revenue <= RaisedFor(n)'
             /\ RecognisedFor(n)' <= KeptFor(n)' + stops' * RaisedFor(n)'
  <2>1. handovers[n].revenue \in Nat /\ handovers[n].revenue <= RaisedFor(n) /\ handovers'[n] = handovers[n]
    BY <1>1, <1>7, RaisedIsWhole DEF RevenueInv
  <2>2. CASE UNCHANGED journal /\ AtHand'.op = "idle"
    <3>1. RecognisedFor(n)' \in Nat /\ RecognisedFor(n)' <= RecognisedFor(n)
      BY <2>2, RecognisedFalls
    <3>2. KeptFor(n)' = KeptFor(n)
      BY <1>1, <2>2 DEF KeptFor
    <3> QED
      BY <1>1, <2>1, <3>1, <3>2, RevenueStays
  <2>3. CASE AtHand'.op = "keep" /\ AtHand'.row = k /\ AtHand'.revenue = AtHand.revenue /\ n # k
    <3>1. UNCHANGED journal \/ (WritesEntry(e) /\ ~(e.source = "handover" /\ e.of = n))
      BY <1>4, <1>5, <2>3
    <3>2. RecognisedFor(n)' \in Nat /\ RecognisedFor(n)' <= RecognisedFor(n)
      BY <3>1, RecognisedFalls
    <3>3. KeptFor(n)' = KeptFor(n)
      BY <1>1, <2>3 DEF KeptFor
    <3> QED
      BY <1>1, <2>1, <3>2, <3>3, RevenueStays
  <2>4. CASE AtHand'.op = "keep" /\ AtHand'.row = k /\ AtHand'.revenue = AtHand.revenue /\ n = k
    <3>1. handovers[n].revenue = 0
      BY <1>1, <1>2, <2>4 DEF ToRecognise, NotYetRecognised
    <3>2. KeptFor(n)' = AtHand.revenue /\ KeptFor(n) = 0
      BY <1>1, <2>4, <3>1 DEF KeptFor
    <3>3. RecognisedFor(n)' \in Nat /\ RecognisedFor(n) \in Nat /\ RecognisedFor(n)' <= RecognisedFor(n) + AtHand.revenue
      <4>1. RecognisedFor(n) \in Nat
        BY StandingFigures
      <4>2. CASE UNCHANGED journal
        <5>1. RecognisedFor(n)' \in Nat /\ RecognisedFor(n)' <= RecognisedFor(n)
          BY <4>2, RecognisedFalls
        <5> QED
          BY <1>4, <4>1, <5>1
      <4>3. CASE WritesEntry(e)
        <5>1. RecognisedFor(n)' = RecognisedFor(n) + e.revenue
          BY <1>4, <2>4, <4>3, RecognisedGrows
        <5> QED
          BY <1>4, <4>1, <5>1
      <4> QED
        BY <1>5, <4>2, <4>3
    <3>4. RaisedFor(n)' = RaisedFor(n) /\ RaisedFor(n) \in Nat /\ stops' = stops /\ stops \in Nat
      BY <1>1, <1>7, RaisedIsWhole DEF RaisedFor, RecordsInv, ProjectTyped
    <3>5. stops * RaisedFor(n) \in Nat
      BY <3>4
    <3>6. RecognisedFor(n) <= KeptFor(n) + stops * RaisedFor(n)
      BY DEF RevenueInv
    <3>7. RecognisedFor(n)' <= AtHand.revenue + stops * RaisedFor(n)
      BY <1>4, <3>2, <3>3, <3>5, <3>6
    <3> QED
      BY <2>1, <3>2, <3>4, <3>7
  <2> QED
    BY <1>6, <2>2, <2>3, <2>4
<1> QED
  BY <1>7, <1>8 DEF RevenueInv

(* While requests are served one at a time, a sale's deferred revenue is   *)
(* recognised once by its recorded handover, and again at most by a        *)
(* request that was stopped before it kept its figures (recogniseFor,      *)
(* deferredFor): a sale has one recorded handover, whose row keeps what    *)
(* its standing entries took, and one that has kept anything takes no      *)
(* more.                                                                   *)
THEOREM RevenueIsRecognisedOnce ==
  ASSUME OneHandler PROVE HandoverSpec => []RecognisedOnce
<1> USE HandoverAssumptions
<1> DEFINE Inv == RecordsInv /\ RevenueInv
<1>1. HandoverInit => Inv
  <2>1. HandoverInit => Recorded = {}
    BY DEF HandoverInit, Recorded
  <2> QED
    BY <2>1, HandInit DEF RevenueInv
<1>2. Inv /\ [HandoverNext]_handoverVars => Inv'
  <2> SUFFICES ASSUME RecordsInv, RevenueInv, [HandoverNext]_handoverVars PROVE RecordsInv' /\ RevenueInv'
    OBVIOUS
  <2>1. RecordsInv' /\ HandStep
    BY RecordsStep
  <2>2. DOMAIN handling' = Handlers /\ policy' \in [basis : Bases, proceeds : Proceeds \union {Unknown}]
    BY HandSteps
  <2>3. CASE Elsewhere \/ Looks \/ PutsBack \/ MovesPool \/ Releases
    BY <2>1, <2>3, RevenueElsewhere
  <2>4. CASE Signs \/ Keeps \/ Unrecords \/ CatchesUp
    <3>1. /\ Recorded' \subseteq Recorded /\ DOMAIN handovers' = DOMAIN handovers
          /\ \A n \in DOMAIN handovers : handovers'[n].sale = handovers[n].sale
      BY <2>2, <2>4, RowRecordsKept
    <3> QED
      BY <2>1, <2>4, <3>1, RevenueOfRows
  <2>5. CASE Records
    BY <2>1, <2>5, RevenueOfNew
  <2>6. CASE Recognises
    BY <2>1, <2>6, RevenueOfPosting
  <2>7. CASE Stops
    BY <2>1, <2>7, RevenueOfStops
  <2> QED
    BY <2>1, <2>3, <2>4, <2>5, <2>6, <2>7 DEF HandStep
<1>3. ASSUME Inv PROVE RecognisedOnce
  <2>1. SUFFICES ASSUME NEW s \in Sale PROVE RevenueOf(s) <= (1 + stops) * Sales[s].raised
    BY DEF RecognisedOnce
  <2>2. stops \in Nat /\ Sales[s].raised \in Nat
    BY <1>3 DEF RecordsInv, ProjectTyped, InputsAreFigures
  <2>3. (1 + stops) * Sales[s].raised = Sales[s].raised + stops * Sales[s].raised /\ stops * Sales[s].raised \in Nat
    <3>1. \A a, b \in Nat : (1 + a) * b = b + a * b /\ a * b \in Nat
      OBVIOUS
    <3> QED
      BY <2>2, <3>1
  <2>4. CASE \E n \in Recorded : handovers[n].sale = s
    <3>1. PICK n \in Recorded : handovers[n].sale = s
      BY <2>4
    <3>2. \A m \in Recorded : handovers[m].sale = s => m = n
      BY <1>3, <3>1 DEF RecordsInv, OneEach
    <3>3. StandingFor(s) = StandingOf(n)
      BY <3>1, <3>2 DEF StandingFor, StandingOf, EntriesOf
    <3>4. RevenueOf(s) = RecognisedFor(n)
      BY <3>3 DEF RevenueOf, RecognisedFor
    <3>5. n \in DOMAIN handovers
      BY DEF Recorded
    <3>6. KeptFor(n) <= RaisedFor(n)
      <4>1. CASE AtHand.op = "keep" /\ AtHand.row = n
        <5>1. ToRecognise(AtHand)
          BY <1>3, <4>1 DEF RecordsInv, AsRead, ToRecord, ToAttach, ToRecognise, ToReverse, ToCatchUp, ToWriteDown, Idle
        <5> QED
          BY <4>1, <5>1 DEF ToRecognise, KeptFor, RaisedFor
      <4>2. CASE ~(AtHand.op = "keep" /\ AtHand.row = n)
        BY <1>3, <4>2 DEF KeptFor, RevenueInv
      <4> QED
        BY <4>1, <4>2
    <3>7. RecognisedFor(n) <= KeptFor(n) + stops * RaisedFor(n) /\ RaisedFor(n) = Sales[s].raised
      BY <1>3, <3>1 DEF RevenueInv, RaisedFor
    <3>8. RecognisedFor(n) \in Nat /\ KeptFor(n) \in Nat /\ RaisedFor(n) \in Nat
      BY <1>3, <3>5, RaisedIsWhole, StandingFigures
    <3> QED
      BY <2>2, <2>3, <3>4, <3>6, <3>7, <3>8
  <2>5. CASE ~(\E n \in Recorded : handovers[n].sale = s)
    <3>1. StandingFor(s) = {}
      BY <2>5 DEF StandingFor
    <3>2. RevenueOf(s) = 0
      BY <3>1, SumOfNone DEF RevenueOf
    <3> QED
      BY <2>2, <2>3, <3>2
  <2> QED
    BY <2>4, <2>5
<1>4. Inv => RecognisedOnce
  BY <1>3
<1> QED
  BY <1>1, <1>2, <1>4, PTL DEF HandoverSpec

-----------------------------------------------------------------------------
(* Cost: what left work in progress for handovers is what their rows keep, *)
(* or are about to keep.                                                   *)
MovedBy(source) == Moved({i \in DOMAIN journal : journal[i].source = source})

CostKept == SumFunctionOnSet([n \in DOMAIN handovers |-> handovers[n].cost], DOMAIN handovers)

Pending ==
  IF AtHand.op = "keep" THEN AtHand.cost
  ELSE IF AtHand.op = "caught" THEN SumFunctionOnSet(AtHand.due, DOMAIN Units) ELSE 0

CostInv ==
  stops = 0 /\ ~answered => MovedBy("handover") + MovedBy("cost_catch_up") + CostKept + Pending = 0

(* A reversal is of an entry whose row is reversed, or is about to be.     *)
ReversedInv ==
  stops = 0 =>
    \A j \in DOMAIN journal : journal[j].source = "reversal" =>
      \/ handovers[journal[journal[j].of].of].status = "reversed"
      \/ AtHand.op = "unrecord" /\ AtHand.row = journal[journal[j].of].of

UnitsSoldOnce == \A s, t \in Sale : Sales[s].unit = Sales[t].unit => s = t

(* A sum over what maps into N is the sum of what maps to each of N.       *)
LEMMA SumOfFibres ==
  ASSUME NEW S, IsFiniteSet(S), NEW f, WholeOn(f, S), NEW h, NEW N, IsFiniteSet(N), NEW g,
         NEW all \in SUBSET S, \A x \in S : x \in all <=> h[x] \in N,
         NEW part, \A n \in N : part[n] \subseteq S /\ \A x \in S : x \in part[n] <=> h[x] = n,
         \A n \in N : g[n] = SumFunctionOnSet(f, part[n])
  PROVE  SumFunctionOnSet(f, all) = SumFunctionOnSet(g, N)
<1> DEFINE Over(A) == {x \in S : h[x] \in A}
           T == {A \in SUBSET N : WholeOn(g, A) /\ SumFunctionOnSet(f, Over(A)) = SumFunctionOnSet(g, A)}
<1>1. {} \in T
  <2>1. Over({}) = {}
    OBVIOUS
  <2> QED
    BY <2>1, SumOfNone DEF WholeOn
<1>2. ASSUME NEW A \in (SUBSET N) \cap T, NEW y \in N \ A PROVE A \union {y} \in T
  <2> DEFINE U == Over(A \union {y})
  <2>1. Over(A) \in SUBSET U /\ U \ Over(A) = {x \in S : h[x] = y}
    OBVIOUS
  <2>2. IsFiniteSet(U) /\ IsFiniteSet(U \ Over(A)) /\ IsFiniteSet(A)
    BY FS_Subset
  <2>3. WholeOn(f, U) /\ WholeOn(f, U \ Over(A))
    BY DEF WholeOn
  <2>4. SumFunctionOnSet(f, U \ Over(A)) = g[y]
    <3>1. part[y] = {x \in S : h[x] = y}
      OBVIOUS
    <3>2. U \ Over(A) = part[y]
      BY <2>1, <3>1
    <3> HIDE DEF Over, U
    <3> QED
      BY <3>2
  <2>5. g[y] \in Int
    BY <2>2, <2>3, <2>4, SumIsInteger
  <2>6. WholeOn(g, A \union {y})
    BY <2>5 DEF WholeOn
  <2>7. SumFunctionOnSet(f, Over(A)) = SumFunctionOnSet(g, A)
    OBVIOUS
  <2> HIDE DEF Over, U
  <2>8. SumFunctionOnSet(f, U) = SumFunctionOnSet(f, Over(A)) + SumFunctionOnSet(f, U \ Over(A))
    BY <2>1, <2>2, <2>3, SumSplit
  <2>9. SumFunctionOnSet(g, A \union {y}) = SumFunctionOnSet(g, A) + g[y]
    <3>1. y \notin A
      OBVIOUS
    <3> HIDE DEF T
    <3> QED
      BY <2>2, <2>6, <3>1, SumWith
  <2>10. SumFunctionOnSet(f, U) = SumFunctionOnSet(g, A \union {y})
    BY <2>4, <2>7, <2>8, <2>9
  <2> QED
    BY <2>6, <2>10 DEF U
<1>3. N \in T
  <2> HIDE DEF T
  <2> QED
    BY <1>1, <1>2, BySetInduction
<1>4. all = Over(N)
  OBVIOUS
<1>5. SumFunctionOnSet(f, Over(N)) = SumFunctionOnSet(g, N)
  BY <1>3
<1> HIDE DEF Over
<1> QED
  BY <1>4, <1>5

LEMMA MovedByIsWhole == ASSUME RecordsInv, NEW source PROVE MovedBy(source) \in Int
BY MovementIsWhole DEF MovedBy, RecordsInv

LEMMA MovedByGrows ==
  ASSUME RecordsInv, NEW e, WritesEntry(e), NEW source
  PROVE  MovedBy(source)' = MovedBy(source) + (IF e.source = source THEN e.wip ELSE 0)
<1>1. PICK k : k = Len(journal) + 1
  OBVIOUS
<1>2. /\ DOMAIN journal' = DOMAIN journal \union {k} /\ k \notin DOMAIN journal
      /\ journal'[k] = e
      /\ \A i \in DOMAIN journal : journal'[i] = journal[i]
  BY <1>1, EntryIsWritten DEF RecordsInv
<1>3. PICK S : S = {i \in DOMAIN journal : journal[i].source = source}
  OBVIOUS
<1>4. PICK f : f = [i \in DOMAIN journal |-> journal[i].wip]
  OBVIOUS
<1>5. PICK A : A = {i \in DOMAIN journal' : journal'[i].source = source}
  OBVIOUS
<1>6. PICK g : g = [i \in A |-> journal'[i].wip]
  OBVIOUS
<1>7. MovedBy(source) = SumFunctionOnSet(f, S) /\ IsFiniteSet(S)
  <2>1. S \in SUBSET DOMAIN journal
    BY <1>3
  <2> QED
    BY <1>3, <1>4, <2>1, MovementIsWhole DEF MovedBy, RecordsInv
<1>8. MovedBy(source)' = SumFunctionOnSet(g, A)
  BY <1>5, <1>6 DEF MovedBy, Moved
<1>9. /\ \A i \in S : f[i] \in Int /\ g[i] = f[i]
      /\ k \in A => g[k] = e.wip
  BY <1>2, <1>3, <1>4, <1>5, <1>6, HandEntries DEF RecordsInv, JournalEntry
<1>10. WholeOn(f, S) /\ k \notin S /\ e.wip \in Int
  BY <1>2, <1>3, <1>9 DEF WholeOn, WritesEntry, JournalEntry
<1>11. SumFunctionOnSet(g, S) = SumFunctionOnSet(f, S)
  BY <1>7, <1>9, <1>10, SumAgrees
<1>12. CASE e.source = source
  <2>1. A = S \union {k}
    BY <1>2, <1>3, <1>5, <1>12
  <2>2. WholeOn(g, S \union {k})
    BY <1>9, <1>10, <2>1 DEF WholeOn
  <2>3. SumFunctionOnSet(g, S \union {k}) = SumFunctionOnSet(g, S) + g[k]
    BY <1>7, <1>10, <2>2, SumWith
  <2> QED
    BY <1>7, <1>8, <1>9, <1>10, <1>11, <1>12, <2>1, <2>3
<1>13. CASE e.source # source
  <2>1. A = S
    BY <1>2, <1>3, <1>5, <1>13
  <2>2. SumFunctionOnSet(f, S) \in Int
    BY <1>7, <1>10, SumIsInteger
  <2> QED
    BY <1>7, <1>8, <1>11, <1>13, <2>1, <2>2
<1> QED
  BY <1>12, <1>13

-----------------------------------------------------------------------------
(* How the cost the rows keep changes.                                     *)
LEMMA CostsAreWhole ==
  ASSUME RecordsInv
  PROVE  /\ IsFiniteSet(DOMAIN handovers)
         /\ \A n \in DOMAIN handovers : handovers[n].cost \in Int
         /\ CostKept \in Int
<1> DEFINE f == [n \in DOMAIN handovers |-> handovers[n].cost]
<1>1. IsFiniteSet(DOMAIN handovers) /\ \A n \in DOMAIN handovers : handovers[n].cost \in Int
  BY HandRows DEF RecordsInv, Row
<1>2. WholeOn(f, DOMAIN handovers)
  BY <1>1 DEF WholeOn
<1>3. SumFunctionOnSet(f, DOMAIN handovers) \in Int
  <2> HIDE DEF f
  <2> QED
    BY <1>1, <1>2, SumIsInteger
<1> QED
  BY <1>1, <1>3 DEF CostKept

LEMMA KeptWithRow ==
  ASSUME RecordsInv, NEW k, NEW row, WritesRow(k, row)
  PROVE  CostKept' = CostKept + row.cost - handovers[k].cost
<1>1. PICK f : f = [n \in DOMAIN handovers |-> handovers[n].cost]
  OBVIOUS
<1>2. PICK g : g = [n \in DOMAIN handovers |-> handovers'[n].cost]
  OBVIOUS
<1>3. /\ DOMAIN handovers' = DOMAIN handovers /\ handovers'[k] = row
      /\ \A m \in DOMAIN handovers : m # k => handovers'[m] = handovers[m]
  BY RowIsWritten DEF RecordsInv
<1>4. k \in DOMAIN handovers /\ row.cost \in Int
  BY DEF WritesRow, Row
<1>5. CostKept = SumFunctionOnSet(f, DOMAIN handovers) /\ CostKept' = SumFunctionOnSet(g, DOMAIN handovers)
  BY <1>1, <1>2, <1>3 DEF CostKept
<1>6. \A n \in DOMAIN handovers : f[n] \in Int /\ g[n] \in Int /\ (n # k => g[n] = f[n])
  BY <1>1, <1>2, <1>3, <1>4, CostsAreWhole
<1>7. WholeOn(f, DOMAIN handovers) /\ WholeOn(g, DOMAIN handovers)
  BY <1>6 DEF WholeOn
<1>8. \A x \in DOMAIN handovers \ {k} : g[x] = f[x]
  BY <1>6
<1>9. SumFunctionOnSet(g, DOMAIN handovers) = SumFunctionOnSet(f, DOMAIN handovers) + g[k] - f[k]
  BY <1>4, <1>7, <1>8, CostsAreWhole, SumChanged
<1> QED
  BY <1>1, <1>2, <1>3, <1>4, <1>5, <1>9

LEMMA KeptWithNew ==
  ASSUME RecordsInv, Records
  PROVE  CostKept' = CostKept
<1>1. PICK f : f = [n \in DOMAIN handovers |-> handovers[n].cost]
  OBVIOUS
<1>2. PICK g : g = [n \in DOMAIN handovers' |-> handovers'[n].cost]
  OBVIOUS
<1>3. PICK k : k = Len(handovers) + 1
  OBVIOUS
<1>4. /\ DOMAIN handovers' = DOMAIN handovers \union {k} /\ k \notin DOMAIN handovers
      /\ handovers'[k].cost = 0
      /\ \A n \in DOMAIN handovers : handovers'[n] = handovers[n]
  BY <1>3, RowIsAdded DEF Records, ToRecord
<1>5. CostKept = SumFunctionOnSet(f, DOMAIN handovers) /\ CostKept' = SumFunctionOnSet(g, DOMAIN handovers \union {k})
  BY <1>1, <1>2, <1>4 DEF CostKept
<1>6. g[k] = 0 /\ \A n \in DOMAIN handovers : f[n] \in Int /\ g[n] = f[n]
  BY <1>1, <1>2, <1>4, CostsAreWhole
<1>7. WholeOn(f, DOMAIN handovers) /\ WholeOn(g, DOMAIN handovers \union {k})
  BY <1>6 DEF WholeOn
<1>8. SumFunctionOnSet(g, DOMAIN handovers) = SumFunctionOnSet(f, DOMAIN handovers)
  BY <1>6, <1>7, CostsAreWhole, SumAgrees
<1>9. SumFunctionOnSet(g, DOMAIN handovers \union {k}) = SumFunctionOnSet(g, DOMAIN handovers) + g[k]
  BY <1>4, <1>7, CostsAreWhole, SumWith
<1> QED
  BY <1>5, <1>6, <1>8, <1>9, CostsAreWhole

(* A unit that was sold once is caught up by what it owed, once.           *)
LEMMA KeptWithDue ==
  ASSUME InputsAreFigures, UnitsSoldOnce, RecordsInv, CatchesUp
  PROVE  /\ SumFunctionOnSet(AtHand.due, DOMAIN Units) \in Int
         /\ CostKept' = CostKept + SumFunctionOnSet(AtHand.due, DOMAIN Units)
<1>1. PICK due : due = AtHand.due
  OBVIOUS
<1>2. IsDue(due)
  BY <1>1 DEF CatchesUp, ToCatchUp
<1>3. PICK R : R = Recorded
  OBVIOUS
<1>4. R \in SUBSET DOMAIN handovers /\ IsFiniteSet(R) /\ IsFiniteSet(DOMAIN handovers)
  BY <1>3, HandRows DEF RecordsInv
<1>5. \A n \in DOMAIN handovers : handovers[n] \in Row /\ handovers[n].unit \in DOMAIN Units
  BY HandRows DEF RecordsInv, Row
<1>6. due \in [DOMAIN Units -> Int] /\ \A u \in DOMAIN Units : due[u] # 0 => \E n \in R : handovers[n].unit = u
  BY <1>2, <1>3 DEF IsDue, HandedOver
<1>7. PICK f : f = [n \in DOMAIN handovers |-> handovers[n].cost]
  OBVIOUS
<1>8. PICK e : e = [n \in DOMAIN handovers |-> IF n \in R THEN due[handovers[n].unit] ELSE 0]
  OBVIOUS
<1>9. PICK g : g = [n \in DOMAIN handovers |-> handovers'[n].cost]
  OBVIOUS
<1>10. DOMAIN handovers' = DOMAIN handovers
       /\ \A n \in DOMAIN handovers :
            handovers'[n] = IF n \in R THEN [handovers[n] EXCEPT !.cost = @ + due[handovers[n].unit]] ELSE handovers[n]
  BY <1>1, <1>3 DEF CatchesUp
<1>11. \A n \in DOMAIN handovers : f[n] \in Int /\ e[n] \in Int /\ g[n] = f[n] + e[n]
  <2>1. \A row \in Row, c \in Int : [row EXCEPT !.cost = @ + c].cost = row.cost + c /\ row.cost \in Int
    BY DEF Row
  <2> SUFFICES ASSUME NEW n \in DOMAIN handovers PROVE f[n] \in Int /\ e[n] \in Int /\ g[n] = f[n] + e[n]
    OBVIOUS
  <2>2. due[handovers[n].unit] \in Int /\ handovers[n] \in Row /\ handovers[n].cost \in Int
    BY <1>5, <1>6, <2>1
  <2>3. CASE n \in R
    <3>1. PICK c \in Int : c = due[handovers[n].unit]
      BY <2>2
    <3>2. handovers'[n] = [handovers[n] EXCEPT !.cost = @ + c]
      BY <1>10, <2>3, <3>1
    <3>3. handovers'[n].cost = handovers[n].cost + c
      BY <2>1, <2>2, <3>2
    <3>4. f[n] = handovers[n].cost /\ e[n] = c /\ g[n] = handovers'[n].cost
      BY <1>7, <1>8, <1>9, <2>3, <3>1
    <3> QED
      BY <2>2, <3>1, <3>3, <3>4
  <2>4. CASE n \notin R
    BY <1>7, <1>8, <1>9, <1>10, <2>2, <2>4
  <2> QED
    BY <2>3, <2>4
<1>12. WholeOn(f, DOMAIN handovers) /\ WholeOn(e, DOMAIN handovers) /\ WholeOn(e, R)
  BY <1>4, <1>11 DEF WholeOn
<1>13. SumFunctionOnSet(g, DOMAIN handovers) = SumFunctionOnSet(f, DOMAIN handovers) + SumFunctionOnSet(e, DOMAIN handovers)
  BY <1>4, <1>11, <1>12, SumOfSums
<1>14. SumFunctionOnSet(e, DOMAIN handovers) = SumFunctionOnSet(e, R)
  <2>1. \A x \in DOMAIN handovers \ R : e[x] = 0
    BY <1>8
  <2> QED
    BY <1>4, <1>12, <2>1, SumOfSupport
<1>15. PICK h : h = [n \in DOMAIN handovers |-> handovers[n].unit]
  OBVIOUS
<1>16. PICK I : I = {h[n] : n \in R}
  OBVIOUS
<1>17. SumFunctionOnSet(due, I) = SumFunctionOnSet(e, R)
  <2>1. \A n \in R : due[h[n]] = e[n]
    BY <1>4, <1>8, <1>15
  <2>2. \A n, m \in R : h[n] = h[m] => n = m
    BY <1>3, <1>4, <1>15, HandRows DEF UnitsSoldOnce, RecordsInv, OneEach, Row
  <2> QED
    BY <1>4, <1>12, <1>16, <2>1, <2>2, SumCarriedOver
<1>18. IsFiniteSet(DOMAIN Units)
  <2>1. Bases # {} /\ 0 \in Int
    BY DEF Bases
  <2> QED
    BY <2>1, SharesOfProject
<1>19. SumFunctionOnSet(due, DOMAIN Units) = SumFunctionOnSet(due, I)
  <2>1. I \in SUBSET DOMAIN Units
    BY <1>4, <1>5, <1>15, <1>16
  <2>2. WholeOn(due, DOMAIN Units)
    BY <1>6 DEF WholeOn
  <2>3. \A u \in DOMAIN Units \ I : due[u] = 0
    BY <1>4, <1>6, <1>15, <1>16
  <2> QED
    BY <1>18, <2>1, <2>2, <2>3, SumOfSupport
<1>20. CostKept = SumFunctionOnSet(f, DOMAIN handovers) /\ CostKept' = SumFunctionOnSet(g, DOMAIN handovers)
  BY <1>7, <1>9, <1>10 DEF CostKept
<1>21. SumFunctionOnSet(due, DOMAIN Units) \in Int
  BY <1>2, DueIsWhole
<1> QED
  BY <1>1, <1>13, <1>14, <1>17, <1>19, <1>20, <1>21

-----------------------------------------------------------------------------
(* CostInv and ReversedInv are kept.                                       *)
LEMMA PendingIsWhole ==
  ASSUME InputsAreFigures, RecordsInv
  PROVE  Pending \in Int
<1>1. CASE AtHand.op = "keep"
  <2>1. ToRecognise(AtHand)
    BY <1>1 DEF RecordsInv, AsRead, ToRecord, ToAttach, ToRecognise, ToReverse, ToCatchUp, ToWriteDown, Idle
  <2> QED
    BY <1>1, <2>1 DEF ToRecognise, Pending
<1>2. CASE AtHand.op = "caught"
  <2>1. ToCatchUp(AtHand)
    BY <1>2 DEF RecordsInv, AsRead, ToRecord, ToAttach, ToRecognise, ToReverse, ToCatchUp, ToWriteDown, Idle
  <2>2. IsDue(AtHand.due)
    BY <2>1 DEF ToCatchUp
  <2>3. PICK due : due = AtHand.due
    OBVIOUS
  <2>4. SumFunctionOnSet(due, DOMAIN Units) \in Int
    BY <2>2, <2>3, DueIsWhole
  <2> QED
    BY <1>2, <2>3, <2>4 DEF Pending
<1> QED
  BY <1>1, <1>2 DEF Pending

LEMMA CostStays ==
  ASSUME CostInv, UNCHANGED <<stops, answered>>,
         MovedBy("handover")' = MovedBy("handover"), MovedBy("cost_catch_up")' = MovedBy("cost_catch_up"),
         CostKept' = CostKept, Pending' = Pending
  PROVE  CostInv'
BY DEF CostInv

LEMMA CostElsewhere ==
  ASSUME RecordsInv, CostInv, Elsewhere \/ Looks \/ PutsBack \/ MovesPool
  PROVE  CostInv'
<1>1. UNCHANGED <<handovers, stops, answered>>
  BY DEF Elsewhere, Looks, PutsBack, MovesPool
<1>2. Pending' = Pending
  BY DEF Elsewhere, Looks, PutsBack, MovesPool, Pending, Idle
<1>3. UNCHANGED journal \/ \E e : WritesEntry(e) /\ e.source \notin {"handover", "cost_catch_up"}
  <2>1. \A i : Reversal(i).source = "reversal"
    BY DEF Reversal, Entry
  <2> QED
    BY <2>1 DEF Elsewhere, Looks, PutsBack, MovesPool
<1>4. \A source \in {"handover", "cost_catch_up"} : MovedBy(source)' = MovedBy(source)
  <2> SUFFICES ASSUME NEW source \in {"handover", "cost_catch_up"} PROVE MovedBy(source)' = MovedBy(source)
    OBVIOUS
  <2>1. CASE UNCHANGED journal
    BY <2>1 DEF MovedBy, Moved
  <2>2. CASE ~UNCHANGED journal
    <3>1. PICK e : WritesEntry(e) /\ e.source \notin {"handover", "cost_catch_up"}
      BY <1>3, <2>2
    <3>2. e.source # source
      BY <3>1
    <3> QED
      BY <3>1, <3>2, MovedByGrows, MovedByIsWhole
  <2> QED
    BY <2>1, <2>2
<1>5. CostKept' = CostKept
  BY <1>1 DEF CostKept
<1> QED
  BY <1>1, <1>2, <1>4, <1>5, CostStays

LEMMA CostOfPosting ==
  ASSUME InputsAreFigures, RecordsInv, CostInv, Recognises \/ Releases
  PROVE  CostInv'
<1>1. UNCHANGED <<handovers, stops>> /\ CostKept' = CostKept /\ CostKept \in Int /\ Pending \in Int /\ Pending = 0
  <2>1. UNCHANGED <<handovers, stops>>
    BY DEF Recognises, Releases
  <2> QED
    BY <2>1, CostsAreWhole DEF CostKept, Pending, Recognises, Releases
<1>2. SUFFICES ASSUME stops' = 0, ~answered'
               PROVE  MovedBy("handover")' + MovedBy("cost_catch_up")' + CostKept' + Pending' = 0
  BY DEF CostInv
<1>3. CASE UNCHANGED journal
  <2>1. UNCHANGED answered /\ AtHand' = Idle
    <3>1. ASSUME Recognises PROVE UNCHANGED answered /\ AtHand' = Idle
      <4>1. PICK e : e = Recognised(AtHand)
        OBVIOUS
      <4>2. ~WritesEntry(e)
        BY <1>3, EntryIsWritten DEF RecordsInv
      <4> QED
        BY <1>2, <3>1, <4>1, <4>2 DEF Recognises
    <3>2. ASSUME Releases PROVE UNCHANGED answered /\ AtHand' = Idle
      <4>1. PICK e : e = Released(AtHand)
        OBVIOUS
      <4>2. ~WritesEntry(e)
        BY <1>3, EntryIsWritten DEF RecordsInv
      <4> QED
        BY <1>2, <3>2, <4>1, <4>2 DEF Releases
    <3> QED
      BY <3>1, <3>2
  <2>2. Pending' = 0
    BY <2>1 DEF Pending, Idle
  <2>3. MovedBy("handover")' = MovedBy("handover") /\ MovedBy("cost_catch_up")' = MovedBy("cost_catch_up")
    BY <1>3 DEF MovedBy, Moved
  <2>4. CostInv'
    BY <1>1, <2>1, <2>2, <2>3, CostStays
  <2> QED
    BY <1>2, <2>4 DEF CostInv
<1>4. CASE Recognises /\ ~UNCHANGED journal
  <2>1. PICK e : e = Recognised(AtHand)
    OBVIOUS
  <2>2. WritesEntry(e) /\ AtHand' = [AtHand EXCEPT !.op = "keep"] /\ UNCHANGED answered
    BY <1>4, <2>1 DEF Recognises
  <2>3. AtHand = [op |-> AtHand.op, row |-> AtHand.row, revenue |-> AtHand.revenue, cost |-> AtHand.cost] /\ AtHand.cost \in Nat
    BY <1>4 DEF Recognises, ToRecognise
  <2>4. e.source = "handover" /\ e.wip = -AtHand.cost
    BY <2>1 DEF Recognised, Entry
  <2>5. Pending' = AtHand.cost
    <3>1. AtHand'.op = "keep" /\ AtHand'.cost = AtHand.cost
      BY <2>2, <2>3
    <3> QED
      BY <3>1 DEF Pending
  <2>6. MovedBy("handover")' = MovedBy("handover") - AtHand.cost
    <3>1. MovedBy("handover")' = MovedBy("handover") + (IF e.source = "handover" THEN e.wip ELSE 0)
      BY <2>2, MovedByGrows
    <3> QED
      BY <2>3, <2>4, <3>1, MovedByIsWhole
  <2>7. MovedBy("cost_catch_up")' = MovedBy("cost_catch_up")
    <3>1. MovedBy("cost_catch_up")' = MovedBy("cost_catch_up") + (IF e.source = "cost_catch_up" THEN e.wip ELSE 0)
      BY <2>2, MovedByGrows
    <3> QED
      BY <2>4, <3>1, MovedByIsWhole
  <2>8. MovedBy("handover") + MovedBy("cost_catch_up") + CostKept + Pending = 0
    BY <1>1, <1>2, <2>2 DEF CostInv
  <2>9. MovedBy("handover") \in Int /\ MovedBy("cost_catch_up") \in Int
    BY MovedByIsWhole
  <2> QED
    BY <1>1, <2>3, <2>5, <2>6, <2>7, <2>8, <2>9
<1>5. CASE Releases /\ ~UNCHANGED journal
  <2>1. PICK e : e = Released(AtHand)
    OBVIOUS
  <2>2. WritesEntry(e) /\ AtHand' = [op |-> "caught", due |-> AtHand.due] /\ UNCHANGED answered
    BY <1>5, <2>1 DEF Releases
  <2>10. PICK due : due = AtHand.due
    OBVIOUS
  <2>3. IsDue(due) /\ AtHand.amount = SumFunctionOnSet(due, DOMAIN Units)
    BY <1>5, <2>10 DEF Releases, ToCatchUp
  <2>11. PICK amount \in Int : amount = SumFunctionOnSet(due, DOMAIN Units)
    BY <2>3, DueIsWhole
  <2>4. e.source = "cost_catch_up" /\ e.wip = -amount
    BY <2>1, <2>3, <2>11 DEF Released, Entry
  <2>5. Pending' = amount
    <3>1. AtHand'.op = "caught" /\ AtHand'.due = due
      BY <2>2, <2>10
    <3> QED
      BY <2>11, <3>1 DEF Pending
  <2>6. MovedBy("cost_catch_up")' = MovedBy("cost_catch_up") - amount
    <3>1. MovedBy("cost_catch_up")' = MovedBy("cost_catch_up") + (IF e.source = "cost_catch_up" THEN e.wip ELSE 0)
      BY <2>2, MovedByGrows
    <3> QED
      BY <2>4, <3>1, MovedByIsWhole
  <2>7. MovedBy("handover")' = MovedBy("handover")
    <3>1. MovedBy("handover")' = MovedBy("handover") + (IF e.source = "handover" THEN e.wip ELSE 0)
      BY <2>2, MovedByGrows
    <3> QED
      BY <2>4, <3>1, MovedByIsWhole
  <2>8. MovedBy("handover") + MovedBy("cost_catch_up") + CostKept + Pending = 0
    BY <1>1, <1>2, <2>2 DEF CostInv
  <2>9. MovedBy("handover") \in Int /\ MovedBy("cost_catch_up") \in Int
    BY MovedByIsWhole
  <2> QED
    BY <1>1, <2>5, <2>6, <2>7, <2>8, <2>9
<1> QED
  BY <1>3, <1>4, <1>5

LEMMA CostOfRows ==
  ASSUME InputsAreFigures, UnitsSoldOnce, RecordsInv, CostInv,
         Records \/ Signs \/ Keeps \/ Unrecords \/ CatchesUp
  PROVE  CostInv'
<1>1. UNCHANGED <<journal, stops, answered>>
  BY DEF Records, Signs, Keeps, Unrecords, CatchesUp
<1>2. MovedBy("handover")' = MovedBy("handover") /\ MovedBy("cost_catch_up")' = MovedBy("cost_catch_up")
  BY <1>1 DEF MovedBy, Moved
<1>3. Pending' = 0
  BY DEF Records, Signs, Keeps, Unrecords, CatchesUp, AboutToPost, Pending, Idle
<1>4. CostKept' = CostKept + Pending
  <2>1. CostKept \in Int
    BY CostsAreWhole
  <2>2. CASE Records
    <3>1. Pending = 0
      BY <2>2 DEF Records, ToRecord, Pending
    <3> QED
      BY <2>1, <2>2, <3>1, KeptWithNew
  <2>3. CASE Signs \/ Unrecords
    <3>1. Pending = 0
      BY <2>3 DEF Signs, ToAttach, Unrecords, ToReverse, Pending
    <3>2. PICK k : k = AtHand.row
      OBVIOUS
    <3>3. PICK row : /\ WritesRow(k, row)
                     /\ row = [handovers[k] EXCEPT !.signed = TRUE] \/ row = [handovers[k] EXCEPT !.status = "reversed"]
      BY <2>3, <3>2 DEF Signs, Unrecords
    <3>4. handovers[k] \in Row
      BY <3>3, HandRows DEF WritesRow, RecordsInv
    <3>5. row.cost = handovers[k].cost /\ handovers[k].cost \in Int
      BY <3>3, <3>4 DEF Row
    <3>6. CostKept' = CostKept + row.cost - handovers[k].cost
      BY <3>3, KeptWithRow
    <3> QED
      BY <2>1, <3>1, <3>5, <3>6
  <2>4. CASE Keeps
    <3>1. PICK k : k = AtHand.row
      OBVIOUS
    <3>2. PICK cost \in Nat : cost = AtHand.cost
      BY <2>4 DEF Keeps, ToRecognise
    <3>3. PICK row : WritesRow(k, row) /\ row = [handovers[k] EXCEPT !.revenue = AtHand.revenue, !.cost = cost]
      BY <2>4, <3>1, <3>2 DEF Keeps
    <3>4. handovers[k] \in Row
      BY <3>3, HandRows DEF WritesRow, RecordsInv
    <3>5. row.cost = cost
      BY <3>3, <3>4 DEF Row
    <3>6. handovers[k].cost = 0
      BY <2>4, <3>1 DEF Keeps, ToRecognise, NotYetRecognised
    <3>7. CostKept' = CostKept + row.cost - handovers[k].cost
      BY <3>3, KeptWithRow
    <3>8. Pending = cost
      BY <2>4, <3>2 DEF Keeps, Pending
    <3> QED
      BY <2>1, <3>2, <3>5, <3>6, <3>7, <3>8
  <2>5. CASE CatchesUp
    <3>1. Pending = SumFunctionOnSet(AtHand.due, DOMAIN Units)
      BY <2>5 DEF CatchesUp, Pending
    <3> QED
      BY <2>5, <3>1, KeptWithDue
  <2> QED
    BY <2>2, <2>3, <2>4, <2>5
<1>5. /\ MovedBy("handover") \in Int /\ MovedBy("cost_catch_up") \in Int
      /\ CostKept \in Int /\ Pending \in Int
  BY MovedByIsWhole, CostsAreWhole, PendingIsWhole
<1> QED
  BY <1>1, <1>2, <1>3, <1>4, <1>5 DEF CostInv

LEMMA ReversedKept ==
  ASSUME RecordsInv, RecordsInv', ReversedInv, HandStep, stops' = 0,
         DOMAIN handovers \subseteq DOMAIN handovers'
  PROVE  ReversedInv'
<1>1. stops = 0 /\ ~Stops
  BY DEF HandStep, Elsewhere, Looks, Records, Signs, Recognises, Keeps, PutsBack, Unrecords, MovesPool, Releases, CatchesUp,
         Stops, RecordsInv, ProjectTyped
<1> DEFINE RowOf(j) == journal[journal[j].of].of
<1>2. \A j \in DOMAIN journal : journal[j].source = "reversal" =>
        /\ journal[j].of \in DOMAIN journal /\ RowOf(j) \in DOMAIN handovers
        /\ handovers[RowOf(j)].status = "reversed" \/ (AtHand.op = "unrecord" /\ AtHand.row = RowOf(j))
  BY <1>1 DEF RecordsInv, EntriesAgree, ReversedInv
<1>3. \A n \in DOMAIN handovers :
        handovers[n].status = "reversed" \/ (AtHand.op = "unrecord" /\ AtHand.row = n)
          => handovers'[n].status = "reversed" \/ (AtHand'.op = "unrecord" /\ AtHand'.row = n)
  <2> SUFFICES ASSUME NEW n \in DOMAIN handovers,
                      handovers[n].status = "reversed" \/ (AtHand.op = "unrecord" /\ AtHand.row = n)
               PROVE  handovers'[n].status = "reversed" \/ (AtHand'.op = "unrecord" /\ AtHand'.row = n)
    OBVIOUS
  <2>1. CASE Elsewhere \/ Looks \/ Recognises \/ PutsBack \/ MovesPool \/ Releases
    <3>1. UNCHANGED handovers /\ (AtHand' = AtHand \/ AtHand.op # "unrecord")
      BY <2>1 DEF Elsewhere, Looks, Recognises, PutsBack, MovesPool, Releases, Idle
    <3> QED
      BY <3>1
  <2>2. CASE Records
    <3>1. handovers'[n] = handovers[n]
      BY <2>2, RowIsAdded
    <3> QED
      BY <2>2, <3>1 DEF Records, ToRecord
  <2>3. CASE Signs \/ Keeps \/ Unrecords
    <3>1. PICK k : k = AtHand.row
      OBVIOUS
    <3>2. PICK row : /\ WritesRow(k, row)
                     /\ \/ row = [handovers[k] EXCEPT !.signed = TRUE] /\ AtHand.op # "unrecord"
                        \/ /\ row = [handovers[k] EXCEPT !.revenue = AtHand.revenue, !.cost = AtHand.cost]
                           /\ AtHand.op # "unrecord"
                        \/ row = [handovers[k] EXCEPT !.status = "reversed"]
      BY <2>3, <3>1 DEF Signs, ToAttach, Keeps, Unrecords
    <3>3. handovers[k] \in Row
      BY <3>2, HandRows DEF WritesRow, RecordsInv
    <3>4. \/ row.status = handovers[k].status /\ AtHand.op # "unrecord"
          \/ row.status = "reversed"
      <4>1. CASE row = [handovers[k] EXCEPT !.revenue = AtHand.revenue, !.cost = AtHand.cost] /\ AtHand.op # "unrecord"
        BY <3>3, <4>1 DEF Row
      <4>2. CASE row = [handovers[k] EXCEPT !.signed = TRUE] /\ AtHand.op # "unrecord"
        BY <3>3, <4>2 DEF Row
      <4>3. CASE row = [handovers[k] EXCEPT !.status = "reversed"]
        BY <3>3, <4>3 DEF Row
      <4> QED
        BY <3>2, <4>1, <4>2, <4>3
    <3>5. handovers'[k] = row /\ \A m \in DOMAIN handovers : m # k => handovers'[m] = handovers[m]
      BY <3>2, RowIsWritten DEF RecordsInv
    <3> QED
      BY <3>1, <3>4, <3>5
  <2>4. CASE CatchesUp
    <3>1. PICK due : due = AtHand.due
      OBVIOUS
    <3>2. handovers'[n] = handovers[n] \/ handovers'[n] = [handovers[n] EXCEPT !.cost = @ + due[handovers[n].unit]]
      BY <2>4, <3>1 DEF CatchesUp
    <3>3. handovers'[n].status = handovers[n].status
      BY <3>2, HandRows DEF RecordsInv, Row
    <3> QED
      BY <2>4, <3>3 DEF CatchesUp
  <2> QED
    BY <1>1, <2>1, <2>2, <2>3, <2>4 DEF HandStep
<1>4. CASE UNCHANGED journal
  BY <1>2, <1>3, <1>4 DEF ReversedInv
<1>5. CASE ~UNCHANGED journal
  <2>1. PICK e : /\ WritesEntry(e)
                 /\ e.source = "reversal" =>
                      /\ e.of \in DOMAIN journal
                      /\ AtHand'.op = "unrecord" /\ AtHand'.row = journal[e.of].of
    <3>1. \A i : Reversal(i).source = "reversal" /\ Reversal(i).of = i
      BY DEF Reversal, Entry
    <3>2. \A q : Recognised(q).source = "handover" /\ Released(q).source = "cost_catch_up"
      BY DEF Recognised, Released, Entry
    <3>3. CASE PutsBack
      <4>1. PICK i \in EntriesOf("handover", AtHand.row) : WritesEntry(Reversal(i))
        BY <1>5, <3>3 DEF PutsBack
      <4>2. i \in DOMAIN journal /\ journal[i].of = AtHand.row
        BY DEF EntriesOf
      <4> QED
        BY <3>1, <3>3, <4>1, <4>2 DEF PutsBack
    <3>4. CASE Recognises \/ Releases \/ MovesPool
      BY <1>5, <3>2, <3>4 DEF Recognises, Releases, MovesPool
    <3> QED
      BY <1>1, <1>5, <3>3, <3>4 DEF HandStep, Elsewhere, Looks, Records, Signs, Keeps, Unrecords, CatchesUp
  <2>2. PICK k : k = Len(journal) + 1
    OBVIOUS
  <2>3. /\ DOMAIN journal' = DOMAIN journal \union {k} /\ k \notin DOMAIN journal
        /\ journal'[k] = e
        /\ \A i \in DOMAIN journal : journal'[i] = journal[i]
    BY <2>1, <2>2, EntryIsWritten DEF RecordsInv
  <2>4. ASSUME NEW j \in DOMAIN journal', journal'[j].source = "reversal"
        PROVE  \/ handovers'[journal'[journal'[j].of].of].status = "reversed"
               \/ AtHand'.op = "unrecord" /\ AtHand'.row = journal'[journal'[j].of].of
    <3>1. CASE j = k
      BY <2>1, <2>3, <2>4, <3>1
    <3>2. CASE j \in DOMAIN journal
      <4>1. journal[j].source = "reversal"
        BY <2>3, <2>4, <3>2
      <4>2. journal'[journal'[j].of].of = RowOf(j) /\ RowOf(j) \in DOMAIN handovers
        BY <1>2, <2>3, <3>2, <4>1
      <4> QED
        BY <1>2, <1>3, <3>2, <4>1, <4>2
    <3> QED
      BY <2>3, <3>1, <3>2
  <2> QED
    BY <2>4 DEF ReversedInv
<1> QED
  BY <1>4, <1>5

-----------------------------------------------------------------------------
(* What is moved, source by source.                                        *)
Wips == [i \in DOMAIN journal |-> journal[i].wip]

From(sources) == {i \in DOMAIN journal : journal[i].source \in sources}

LEMMA MovedIsSum ==
  ASSUME RecordsInv
  PROVE  /\ IsFiniteSet(DOMAIN journal) /\ WholeOn(Wips, DOMAIN journal)
         /\ \A some \in SUBSET DOMAIN journal :
              /\ IsFiniteSet(some) /\ WholeOn(Wips, some)
              /\ Moved(some) = SumFunctionOnSet(Wips, some) /\ SumFunctionOnSet(Wips, some) \in Int
<1>1. IsFiniteSet(DOMAIN journal) /\ \A i \in DOMAIN journal : Wips[i] \in Int
  BY HandEntries DEF RecordsInv, Wips, JournalEntry
<1>2. WholeOn(Wips, DOMAIN journal) /\ \A some \in SUBSET DOMAIN journal : WholeOn(Wips, some)
  BY <1>1 DEF WholeOn
<1> QED
  BY <1>1, <1>2, MovementIsWhole DEF RecordsInv, Wips

LEMMA BalanceBySource ==
  ASSUME RecordsInv
  PROVE  Balance = Pool + MovedBy("handover") + MovedBy("cost_catch_up") + MovedBy("reversal")
<1> DEFINE D == DOMAIN journal
           M(S) == SumFunctionOnSet(Wips, S)
           pool == Capitalising \union WritingDown
<1>1. \A S, T : S \in SUBSET D /\ T \in SUBSET S => M(S) = M(T) + M(S \ T)
  <2> SUFFICES ASSUME NEW S \in SUBSET D, NEW T \in SUBSET S PROVE M(S) = M(T) + M(S \ T)
    OBVIOUS
  <2>1. IsFiniteSet(S) /\ WholeOn(Wips, S)
    BY MovedIsSum
  <2> HIDE DEF D
  <2> QED
    BY <2>1, SumSplit
<1>2. \A i \in D : journal[i].source \in Sources
  BY HandEntries DEF RecordsInv, JournalEntry
<1>3. \A A : From(A) \in SUBSET D
  BY DEF From
<1>4. \A A, B : B \in SUBSET A => From(A) \ From(B) = From(A \ B) /\ From(B) \in SUBSET From(A)
  BY DEF From
<1>5. \A A, B : B \in SUBSET A => M(From(A)) = M(From(B)) + M(From(A \ B))
  <2> SUFFICES ASSUME NEW A, NEW B, B \in SUBSET A PROVE M(From(A)) = M(From(B)) + M(From(A \ B))
    OBVIOUS
  <2>1. From(A) \in SUBSET D /\ From(B) \in SUBSET From(A) /\ From(A) \ From(B) = From(A \ B)
    BY <1>3, <1>4
  <2>2. M(From(A)) = M(From(B)) + M(From(A) \ From(B))
    BY <1>1, <2>1
  <2> QED
    BY <2>1, <2>2
<1>6. D = From(Sources)
  BY <1>2 DEF From
<1>7. \A A : M(From(A)) = Movement(A) /\ M(From(A)) \in Int
  BY <1>3, MovedIsSum DEF From, Movement
<1>8. \A source : M(From({source})) = MovedBy(source)
  <2> TAKE source
  <2>1. From({source}) = {i \in D : journal[i].source = source}
    BY DEF From
  <2> QED
    BY <1>3, <2>1, MovedIsSum DEF MovedBy
<1> HIDE DEF M, D
<1>9. M(D) = Balance
  <2>1. D \in SUBSET DOMAIN journal
    BY DEF D
  <2> QED
    BY <2>1, MovedIsSum DEF Balance, M, D
<1>10. M(From(Sources)) = M(From(pool)) + M(From({"handover", "cost_catch_up", "reversal"}))
  <2>1. pool \in SUBSET Sources /\ Sources \ pool = {"handover", "cost_catch_up", "reversal"}
    BY DEF Sources, Capitalising, WritingDown
  <2>2. M(From(Sources)) = M(From(pool)) + M(From(Sources \ pool))
    BY <1>5, <2>1
  <2> QED
    BY <2>1, <2>2
<1>11. M(From(pool)) = Pool
  <2>1. WritingDown \in SUBSET pool /\ pool \ WritingDown = Capitalising
    BY DEF Capitalising, WritingDown
  <2>2. M(From(pool)) = M(From(WritingDown)) + M(From(pool \ WritingDown))
    BY <1>5, <2>1
  <2>3. M(From(WritingDown)) = Movement(WritingDown) /\ M(From(WritingDown)) \in Int
    BY <1>7
  <2>4. M(From(Capitalising)) = Movement(Capitalising) /\ M(From(Capitalising)) \in Int
    BY <1>7
  <2>5. M(From(pool)) = M(From(WritingDown)) + M(From(Capitalising))
    BY <2>1, <2>2
  <2> HIDE DEF pool
  <2> QED
    BY <2>3, <2>4, <2>5 DEF Pool
<1>12. M(From({"handover", "cost_catch_up", "reversal"})) = M(From({"handover"})) + M(From({"cost_catch_up", "reversal"}))
  <2>1. {"handover", "cost_catch_up", "reversal"} \ {"handover"} = {"cost_catch_up", "reversal"}
    OBVIOUS
  <2>2. {"handover"} \in SUBSET {"handover", "cost_catch_up", "reversal"}
    OBVIOUS
  <2> QED
    BY <1>5, <2>1, <2>2
<1>13. M(From({"cost_catch_up", "reversal"})) = M(From({"cost_catch_up"})) + M(From({"reversal"}))
  <2>1. {"cost_catch_up", "reversal"} \ {"cost_catch_up"} = {"reversal"}
    OBVIOUS
  <2>2. {"cost_catch_up"} \in SUBSET {"cost_catch_up", "reversal"}
    OBVIOUS
  <2> QED
    BY <1>5, <2>1, <2>2
<1>14. M(From({"handover"})) \in Int /\ M(From({"cost_catch_up"})) \in Int /\ M(From({"reversal"})) \in Int
       /\ M(From(pool)) \in Int
  BY <1>7
<1>15. /\ M(From({"handover"})) = MovedBy("handover")
       /\ M(From({"cost_catch_up"})) = MovedBy("cost_catch_up")
       /\ M(From({"reversal"})) = MovedBy("reversal")
  BY <1>8
<1> QED
  BY <1>6, <1>9, <1>10, <1>11, <1>12, <1>13, <1>14, <1>15

(* What reversals put back is what the entries they reverse had taken.     *)
ReversedEntries == {journal[j].of : j \in From({"reversal"})}

LEMMA PutBackByReversals ==
  ASSUME RecordsInv
  PROVE  ReversedEntries \in SUBSET DOMAIN journal
         /\ MovedBy("reversal") = -SumFunctionOnSet(Wips, ReversedEntries)
<1>1. PICK S : S = From({"reversal"})
  OBVIOUS
<1>2. S \in SUBSET DOMAIN journal /\ S = {i \in DOMAIN journal : journal[i].source = "reversal"}
  BY <1>1 DEF From
<1>3. PICK h : h = [j \in DOMAIN journal |-> journal[j].of]
  OBVIOUS
<1>4. PICK f : f = [j \in DOMAIN journal |-> journal[journal[j].of].wip]
  OBVIOUS
<1>13. PICK less \in Int : \A x \in Int : less * x = -x
  <2>1. -1 \in Int /\ \A x \in Int : (-1) * x = -x
    OBVIOUS
  <2> QED
    BY <2>1
<1>5. ReversedEntries = {h[j] : j \in S}
  BY <1>1, <1>2, <1>3 DEF ReversedEntries
<1>6. \A j \in S : /\ h[j] \in DOMAIN journal
                   /\ journal[j] = Reversal(h[j])
                   /\ \A k \in S : h[k] = h[j] => k = j
  BY <1>2, <1>3 DEF RecordsInv, EntriesAgree
<1>7. \A j \in S : f[j] \in Int /\ Wips[h[j]] = f[j] /\ Wips[j] = less * f[j]
  <2> SUFFICES ASSUME NEW j \in S PROVE f[j] \in Int /\ Wips[h[j]] = f[j] /\ Wips[j] = less * f[j]
    OBVIOUS
  <2>1. j \in DOMAIN journal /\ h[j] = journal[j].of /\ h[j] \in DOMAIN journal
    BY <1>2, <1>3, <1>6
  <2>2. f[j] = journal[h[j]].wip /\ Wips[h[j]] = journal[h[j]].wip /\ Wips[j] = journal[j].wip
    BY <1>4, <2>1 DEF Wips
  <2>3. journal[j].wip = -journal[h[j]].wip
    <3>1. journal[j] = Reversal(h[j])
      BY <1>6
    <3> QED
      BY <3>1 DEF Reversal, Entry
  <2>4. journal[h[j]].wip \in Int
    BY <2>1, HandEntries DEF RecordsInv, JournalEntry
  <2> QED
    BY <1>13, <2>2, <2>3, <2>4
<1>8. ReversedEntries \in SUBSET DOMAIN journal
  BY <1>5, <1>6
<1>9. IsFiniteSet(S) /\ WholeOn(f, S)
  BY <1>2, <1>7, MovedIsSum DEF WholeOn
<1>10. SumFunctionOnSet(Wips, {h[j] : j \in S}) = SumFunctionOnSet(f, S)
  BY <1>6, <1>7, <1>9, SumCarriedOver
<1>11. SumFunctionOnSet(Wips, S) = less * SumFunctionOnSet(f, S)
  BY <1>7, <1>9, SumOfMultiples
<1>12. MovedBy("reversal") = SumFunctionOnSet(Wips, S) /\ SumFunctionOnSet(f, S) \in Int
  BY <1>2, <1>9, MovedIsSum, SumIsInteger DEF MovedBy
<1> QED
  BY <1>5, <1>8, <1>10, <1>11, <1>12, <1>13

-----------------------------------------------------------------------------
Costs == [n \in DOMAIN handovers |-> handovers[n].cost]

Reversed == DOMAIN handovers \ Recorded

LEMMA RowCosts ==
  ASSUME RecordsInv
  PROVE  /\ \A some \in SUBSET DOMAIN handovers :
              IsFiniteSet(some) /\ WholeOn(Costs, some) /\ SumFunctionOnSet(Costs, some) \in Int
         /\ CostKept = SumFunctionOnSet(Costs, Recorded) + SumFunctionOnSet(Costs, Reversed)
<1>1. IsFiniteSet(DOMAIN handovers) /\ \A n \in DOMAIN handovers : Costs[n] \in Int
  BY CostsAreWhole DEF Costs
<1>2. \A some \in SUBSET DOMAIN handovers : IsFiniteSet(some) /\ WholeOn(Costs, some)
  BY <1>1, FS_Subset DEF WholeOn
<1>3. \A some \in SUBSET DOMAIN handovers : SumFunctionOnSet(Costs, some) \in Int
  BY <1>2, SumIsInteger
<1>4. Recorded \in SUBSET DOMAIN handovers
  BY DEF Recorded
<1>5. WholeOn(Costs, DOMAIN handovers)
  BY <1>2
<1>6. SumFunctionOnSet(Costs, DOMAIN handovers)
        = SumFunctionOnSet(Costs, Recorded) + SumFunctionOnSet(Costs, DOMAIN handovers \ Recorded)
  BY <1>1, <1>4, <1>5, SumSplit
<1>7. CostKept = SumFunctionOnSet(Costs, DOMAIN handovers)
  BY DEF CostKept, Costs
<1> QED
  BY <1>2, <1>3, <1>6, <1>7 DEF Reversed

(* Where every reversed handover was put back whole, reversals have put    *)
(* back the cost of their rows.                                            *)
LEMMA PutBackOfRows ==
  ASSUME RecordsInv, ReversedInv, stops = 0, AtHand = Idle,
         \A n \in Reversed : PutBackWhole(n)
  PROVE  MovedBy("reversal") = SumFunctionOnSet(Costs, Reversed)
<1>1. PICK S : S = {i \in DOMAIN journal : journal[i].source = "handover"}
  OBVIOUS
<1>2. PICK h : h = [i \in DOMAIN journal |-> journal[i].of]
  OBVIOUS
<1>3. PICK g : g = [n \in Reversed |-> Moved(EntriesOf("handover", n))]
  OBVIOUS
<1>4. S \in SUBSET DOMAIN journal /\ IsFiniteSet(S) /\ WholeOn(Wips, S)
  BY <1>1, MovedIsSum
<1>5. Reversed \in SUBSET DOMAIN handovers
  BY DEF Reversed
<1>6. IsFiniteSet(Reversed) /\ WholeOn(Costs, Reversed) /\ SumFunctionOnSet(Costs, Reversed) \in Int
  BY <1>5, RowCosts
<1>7. ReversedEntries = {i \in S : h[i] \in Reversed}
  <2>1. ASSUME NEW i \in ReversedEntries PROVE i \in S /\ h[i] \in Reversed
    <3>1. PICK j \in DOMAIN journal : journal[j].source = "reversal" /\ i = journal[j].of
      BY DEF ReversedEntries, From
    <3>2. i \in DOMAIN journal /\ journal[i].source = "handover"
      BY <3>1 DEF RecordsInv, EntriesAgree
    <3>3. journal[i].of \in DOMAIN handovers
      BY <3>2 DEF RecordsInv, EntriesAgree
    <3>4. handovers[journal[i].of].status = "reversed"
      BY <3>1 DEF ReversedInv, Idle
    <3> QED
      BY <1>1, <1>2, <3>2, <3>3, <3>4 DEF Reversed, Recorded
  <2>2. ASSUME NEW i \in S, h[i] \in Reversed PROVE i \in ReversedEntries
    <3>1. i \in EntriesOf("handover", h[i])
      BY <1>1, <1>2 DEF EntriesOf
    <3>2. ~Standing(i)
      BY <2>2, <3>1 DEF PutBackWhole
    <3> QED
      BY <3>2 DEF Standing, EntriesOf, ReversedEntries, From
  <2> QED
    BY <2>1, <2>2
<1>8. \A n \in Reversed : g[n] = SumFunctionOnSet(Wips, {i \in S : h[i] = n})
  <2> SUFFICES ASSUME NEW n \in Reversed PROVE g[n] = SumFunctionOnSet(Wips, {i \in S : h[i] = n})
    OBVIOUS
  <2>1. EntriesOf("handover", n) = {i \in S : h[i] = n}
    BY <1>1, <1>2 DEF EntriesOf
  <2>2. {i \in S : h[i] = n} \in SUBSET DOMAIN journal
    BY <1>4
  <2> QED
    BY <1>3, <2>1, <2>2, MovedIsSum
<1>9. SumFunctionOnSet(Wips, ReversedEntries) = SumFunctionOnSet(g, Reversed)
  <2>1. PICK part : part = [n \in Reversed |-> {i \in S : h[i] = n}]
    OBVIOUS
  <2>2. \A n \in Reversed : part[n] \subseteq S /\ \A i \in S : i \in part[n] <=> h[i] = n
    BY <2>1
  <2>3. \A n \in Reversed : g[n] = SumFunctionOnSet(Wips, part[n])
    BY <1>8, <2>1
  <2>4. ReversedEntries \in SUBSET S /\ \A i \in S : i \in ReversedEntries <=> h[i] \in Reversed
    BY <1>7
  <2> QED
    BY <1>4, <1>6, <2>2, <2>3, <2>4, SumOfFibres
<1>10. PICK less \in Int : \A x \in Int : less * x = -x
  <2>1. -1 \in Int /\ \A x \in Int : (-1) * x = -x
    OBVIOUS
  <2> QED
    BY <2>1
<1>11. \A n \in Reversed : g[n] = less * Costs[n]
  <2> SUFFICES ASSUME NEW n \in Reversed PROVE g[n] = less * Costs[n]
    OBVIOUS
  <2>1. handovers[n].cost = -g[n]
    BY <1>3 DEF PutBackWhole
  <2>2. Costs[n] = handovers[n].cost /\ Costs[n] \in Int
    BY <1>5, <1>6 DEF Costs, WholeOn
  <2>3. EntriesOf("handover", n) \in SUBSET DOMAIN journal
    BY DEF EntriesOf
  <2>4. g[n] \in Int
    BY <1>3, <2>3, MovedIsSum
  <2> QED
    BY <1>10, <2>1, <2>2, <2>4
<1>12. SumFunctionOnSet(g, Reversed) = less * SumFunctionOnSet(Costs, Reversed)
  BY <1>6, <1>11, SumOfMultiples
<1>13. MovedBy("reversal") = -SumFunctionOnSet(Wips, ReversedEntries)
  BY PutBackByReversals
<1> QED
  <2>1. SumFunctionOnSet(g, Reversed) = -SumFunctionOnSet(Costs, Reversed)
    BY <1>6, <1>10, <1>12
  <2> QED
    BY <1>6, <1>9, <1>13, <2>1

(* Where every unit handed over has been charged its share, the shares of  *)
(* the others are the pool, less what the recorded rows keep.              *)
LEMMA UnsoldSharesAreTheRest ==
  ASSUME InputsAreFigures, SomethingWeighs, RecordsInv, Pool > 0,
         \A u \in DOMAIN Units : Outstanding(u) = 0,
         NEW unsold, unsold = {u \in DOMAIN Units : ~HandedOver(u)}
  PROVE  SumFunctionOnSet([u \in unsold |-> Allocated(u)], unsold)
           = Pool - SumFunctionOnSet(Costs, Recorded)
<1>1. PICK shares : shares = Shares(Pool, Units, policy.basis)
  OBVIOUS
<1>2. Pool \in Int /\ policy.basis \in Bases
  BY FiguresAreWhole DEF RecordsInv, ProjectTyped
<1>3. /\ IsFiniteSet(DOMAIN Units) /\ shares \in [DOMAIN Units -> Int]
      /\ SumFunctionOnSet(shares, DOMAIN Units) = Pool
  BY <1>1, <1>2, SharesOfProject
<1>4. \A u : Allocated(u) = shares[u]
  BY <1>1 DEF Allocated
<1>5. PICK sold : sold = DOMAIN Units \ unsold
  OBVIOUS
<1>6. /\ unsold \in SUBSET DOMAIN Units /\ DOMAIN Units \ unsold = sold /\ sold \in SUBSET DOMAIN Units
      /\ IsFiniteSet(unsold) /\ IsFiniteSet(sold)
  BY <1>3, <1>5, FS_Subset
<1>7. WholeOn(shares, DOMAIN Units) /\ WholeOn(shares, unsold)
  BY <1>3, <1>6 DEF WholeOn
<1>8. SumFunctionOnSet(shares, DOMAIN Units) = SumFunctionOnSet(shares, unsold) + SumFunctionOnSet(shares, sold)
  BY <1>3, <1>6, <1>7, SumSplit
<1>9. PICK h : h = [n \in DOMAIN handovers |-> handovers[n].unit]
  OBVIOUS
<1>10. PICK R : R = Recorded
  OBVIOUS
<1>11. R \in SUBSET DOMAIN handovers /\ \A n \in DOMAIN handovers : handovers[n].unit \in DOMAIN Units
  BY <1>10, HandRows DEF RecordsInv, Row, Recorded
<1>12. IsFiniteSet(R) /\ WholeOn(Costs, R) /\ SumFunctionOnSet(Costs, R) \in Int
  BY <1>11, RowCosts
<1>13. \A u \in sold : shares[u] = SumFunctionOnSet(Costs, {n \in R : h[n] = u})
  <2> SUFFICES ASSUME NEW u \in sold PROVE shares[u] = SumFunctionOnSet(Costs, {n \in R : h[n] = u})
    OBVIOUS
  <2>1. u \in DOMAIN Units /\ HandedOver(u)
    BY <1>5
  <2>2. shares[u] - ReleasedBy(u) = 0 /\ shares[u] \in Int /\ ReleasedBy(u) \in Int
    <3>1. Outstanding(u) = 0 /\ shares[u] \in Int
      BY <1>3, <2>1
    <3>2. ReleasedBy(u) \in Int
      BY <2>1, FiguresAreWhole DEF RecordsInv
    <3> QED
      BY <1>4, <2>1, <3>1, <3>2 DEF Outstanding, OutstandingRelease
  <2>3. PICK rows : rows = {n \in R : handovers[n].unit = u}
    OBVIOUS
  <2>4. PICK f : f = [n \in rows |-> handovers[n].cost]
    OBVIOUS
  <2>5. ReleasedBy(u) = SumFunctionOnSet(f, rows)
    BY <1>10, <2>3, <2>4 DEF ReleasedBy
  <2>6. rows = {n \in R : h[n] = u} /\ rows \in SUBSET DOMAIN handovers
    BY <1>9, <1>11, <2>3
  <2>7. IsFiniteSet(rows) /\ WholeOn(Costs, rows)
    BY <2>6, RowCosts
  <2>8. \A n \in rows : f[n] = Costs[n]
    BY <2>4, <2>6 DEF Costs
  <2>9. SumFunctionOnSet(Costs, rows) = SumFunctionOnSet(f, rows)
    BY <2>7, <2>8, SumAgrees
  <2> QED
    BY <2>2, <2>5, <2>6, <2>9
<1>15. \A n \in R : h[n] \in sold
  BY <1>5, <1>9, <1>10, <1>11 DEF HandedOver
<1>14. SumFunctionOnSet(Costs, R) = SumFunctionOnSet(shares, sold)
  <2>1. PICK part : part = [u \in sold |-> {n \in R : h[n] = u}]
    OBVIOUS
  <2>2. \A u \in sold : part[u] \subseteq R /\ \A n \in R : n \in part[u] <=> h[n] = u
    BY <2>1
  <2>3. \A u \in sold : shares[u] = SumFunctionOnSet(Costs, part[u])
    BY <1>13, <2>1
  <2>4. R \in SUBSET R
    OBVIOUS
  <2> QED
    BY <1>6, <1>12, <1>15, <2>2, <2>3, <2>4, SumOfFibres
<1>16. SumFunctionOnSet([u \in unsold |-> Allocated(u)], unsold) = SumFunctionOnSet(shares, unsold)
  <2>1. PICK a : a = [u \in unsold |-> Allocated(u)]
    OBVIOUS
  <2>2. \A u \in unsold : a[u] = shares[u]
    BY <1>4, <2>1
  <2> QED
    BY <1>6, <1>7, <2>1, <2>2, SumAgrees
<1>17. SumFunctionOnSet(shares, unsold) \in Int
  BY <1>6, <1>7, SumIsInteger
<1> QED
  BY <1>2, <1>3, <1>8, <1>10, <1>12, <1>14, <1>16, <1>17

(* Where requests are served one at a time, a unit is sold once and        *)
(* something weighs on either basis: with no request cut short, every unit *)
(* handed over charged its share and every reversed handover put back      *)
(* whole, what is in work in progress is the shares of the units that are  *)
(* not handed over (projectCost).  What left for handovers is what their   *)
(* rows keep, through recognition, catch-up and reversal; and the shares   *)
(* add up to the pool, whichever basis they are on.                        *)
THEOREM WorkInProgressStaysUnsold ==
  ASSUME OneHandler, UnitsSoldOnce, SomethingWeighs
  PROVE  HandoverSpec => []WorkInProgressIsUnsold
<1> USE HandoverAssumptions
<1> DEFINE Inv == RecordsInv /\ CostInv /\ ReversedInv
<1>1. HandoverInit => Inv
  <2> SUFFICES ASSUME HandoverInit PROVE CostInv /\ ReversedInv
    BY HandInit
  <2>1. DOMAIN journal = {} /\ DOMAIN handovers = {} /\ RecordsInv
    BY HandInit DEF HandoverInit
  <2>2. ReversedInv
    BY <2>1 DEF ReversedInv
  <2>3. \A source : MovedBy(source) = 0
    <3> TAKE source
    <3>1. {i \in DOMAIN journal : journal[i].source = source} = {} /\ {} \in SUBSET DOMAIN journal
      BY <2>1
    <3> QED
      BY <2>1, <3>1, MovedIsSum, SumOfNone DEF MovedBy
  <2>4. CostKept = 0
    BY <2>1, SumOfNone DEF CostKept
  <2>5. Pending = 0
    <3>1. TheHandler \in Handlers
      BY DEF OneHandler, TheHandler
    <3>2. AtHand = Idle
      BY <3>1 DEF HandoverInit, AtHand
    <3> QED
      BY <3>2 DEF Pending, Idle
  <2> QED
    BY <2>2, <2>3, <2>4, <2>5 DEF CostInv
<1>2. Inv /\ [HandoverNext]_handoverVars => Inv'
  <2> SUFFICES ASSUME RecordsInv, CostInv, ReversedInv, [HandoverNext]_handoverVars
               PROVE  RecordsInv' /\ CostInv' /\ ReversedInv'
    OBVIOUS
  <2>1. RecordsInv' /\ HandStep
    BY RecordsStep
  <2>2. CostInv'
    <3>1. CASE Elsewhere \/ Looks \/ PutsBack \/ MovesPool
      BY <3>1, CostElsewhere
    <3>2. CASE Recognises \/ Releases
      BY <3>2, CostOfPosting
    <3>3. CASE Records \/ Signs \/ Keeps \/ Unrecords \/ CatchesUp
      BY <3>3, CostOfRows
    <3>4. CASE Stops
      <4>1. stops' # 0
        BY <3>4 DEF Stops, RecordsInv, ProjectTyped
      <4> QED
        BY <4>1 DEF CostInv
    <3> QED
      BY <2>1, <3>1, <3>2, <3>3, <3>4 DEF HandStep
  <2>3. DOMAIN handovers \subseteq DOMAIN handovers'
    <3>1. CASE Signs \/ Keeps \/ Unrecords \/ CatchesUp
      BY <3>1, HandSteps, RowRecordsKept
    <3>2. CASE Records
      BY <3>2, RowIsAdded
    <3>3. CASE Elsewhere \/ Looks \/ Recognises \/ PutsBack \/ MovesPool \/ Releases \/ Stops
      BY <3>3 DEF Elsewhere, Looks, Recognises, PutsBack, MovesPool, Releases, Stops
    <3> QED
      BY <2>1, <3>1, <3>2, <3>3 DEF HandStep
  <2>4. ReversedInv'
    <3>1. CASE stops' = 0
      BY <2>1, <2>3, <3>1, ReversedKept
    <3>2. CASE stops' # 0
      BY <3>2 DEF ReversedInv
    <3> QED
      BY <3>1, <3>2
  <2> QED
    BY <2>1, <2>2, <2>4
<1>3. ASSUME Inv PROVE WorkInProgressIsUnsold
  <2>1. PICK unsold : unsold = {u \in DOMAIN Units : ~HandedOver(u)}
    OBVIOUS
  <2>2. SUFFICES ASSUME ~answered, stops = 0,
                        \A h \in Handlers : handling[h] = Idle,
                        \A u \in DOMAIN Units : Outstanding(u) = 0,
                        \A n \in DOMAIN handovers \ Recorded : PutBackWhole(n),
                        Pool > 0
                 PROVE  Balance = SumFunctionOnSet([u \in unsold |-> Allocated(u)], unsold)
    BY <2>1 DEF WorkInProgressIsUnsold
  <2>3. AtHand = Idle
    BY <2>2 DEF OneHandler, TheHandler, AtHand
  <2>4. MovedBy("handover") + MovedBy("cost_catch_up") + CostKept = 0
    <3>1. Pending = 0
      BY <2>3 DEF Pending, Idle
    <3> QED
      BY <1>3, <2>2, <3>1, CostsAreWhole, MovedByIsWhole DEF CostInv
  <2>5. MovedBy("reversal") = SumFunctionOnSet(Costs, Reversed)
    BY <1>3, <2>2, <2>3, PutBackOfRows DEF Reversed
  <2>6. CostKept = SumFunctionOnSet(Costs, Recorded) + SumFunctionOnSet(Costs, Reversed)
    BY <1>3, RowCosts
  <2>7. Balance = Pool + MovedBy("handover") + MovedBy("cost_catch_up") + MovedBy("reversal")
    BY <1>3, BalanceBySource
  <2>8. SumFunctionOnSet([u \in unsold |-> Allocated(u)], unsold)
          = Pool - SumFunctionOnSet(Costs, Recorded)
    BY <1>3, <2>1, <2>2, UnsoldSharesAreTheRest
  <2>9. /\ Pool \in Int /\ MovedBy("handover") \in Int /\ MovedBy("cost_catch_up") \in Int
        /\ MovedBy("reversal") \in Int /\ SumFunctionOnSet(Costs, Reversed) \in Int
        /\ SumFunctionOnSet(Costs, Recorded) \in Int
    <3>1. Reversed \in SUBSET DOMAIN handovers /\ Recorded \in SUBSET DOMAIN handovers
      BY DEF Reversed, Recorded
    <3> QED
      BY <1>3, <3>1, FiguresAreWhole, MovedByIsWhole, RowCosts DEF RecordsInv
  <2> QED
    BY <2>4, <2>5, <2>6, <2>7, <2>8, <2>9
<1>4. Inv => WorkInProgressIsUnsold
  BY <1>3
<1> QED
  BY <1>1, <1>2, <1>4, PTL DEF HandoverSpec

=============================================================================
