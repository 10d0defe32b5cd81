------------------------------ MODULE Sessions ------------------------------
(***************************************************************************)
(* One session per account: sign-in by password or passcode, refresh, role *)
(* and company switch, sign-out, password reset, and the guard every       *)
(* request passes (sessionRegistry.js, sessionGuard.js, authController.js, *)
(* passcodeController.js).                                                 *)
(*                                                                         *)
(* The record of an account's session lives in a cache that may lose it; a *)
(* handler awaits between reading and writing it, so a request is several  *)
(* steps and a crash loses the rest.  Time is ages, in ticks, that stop    *)
(* counting at the window they are compared with.  A password, a code or a *)
(* proof the person was asked for was right where a handler goes on; the   *)
(* refusals that change nothing here (inactive, suspended, pinned,         *)
(* two-factor, a wrong passcode and the lock it counts towards) leave      *)
(* nothing to model.  A device id is the client's or, from a client  *)
(* that sends none, NoDevice.  Of the refresh token rows only the one a     *)
(* client could present is kept: the others change nothing.                *)
(*                                                                         *)
(* NoneIsSame, LapsedStillHolds and EverySignIn stand for plausible        *)
(* mistakes in what follows them.                                          *)
(***************************************************************************)
EXTENDS Integers, FiniteSets

CONSTANTS
  Account,          \* the accounts of one person, at one company each
  Client,           \* browsers and apps
  Sid,              \* session ids; one nobody knows any more may come again
  Inactivity,       \* ticks without activity before a session lapses
  PasscodeWindow,   \* ticks after a full sign-in a passcode suffices
  MaxInFlight       \* bound: requests in flight at once

ASSUME SessionBounds ==
  {Inactivity, PasscodeWindow, MaxInFlight} \subseteq Nat \ {0}

(* What stands for nothing is no name.                                     *)
ASSUME SessionNames == "none" \notin Account \union Client \union Sid

VARIABLES
  record,       \* cache: the session of each account
  tokens,       \* clients whose refresh token row is there
  held,         \* the session each client was given
  sinceLogin,   \* age of each account's last_login_at
  sinceProof,   \* age of the last sign-in that proved who it was: history
  inFlight      \* requests between two of their steps

vars == <<record, tokens, held, sinceLogin, sinceProof, inFlight>>

NoRecord == [sid |-> "none", device |-> "none", idle |-> 0]
NoDevice == "none"
NoSession == [account |-> "none", sid |-> "none"]
Session(a, s) == [account |-> a, sid |-> s]

Init ==
  /\ record = [a \in Account |-> NoRecord]
  /\ tokens = {}
  /\ held = [c \in Client |-> NoSession]
  /\ sinceLogin = [a \in Account |-> PasscodeWindow]
  /\ sinceProof = [a \in Account |-> PasscodeWindow]
  /\ inFlight = {}

CanServe == Cardinality(inFlight) < MaxInFlight
Ask(r) == inFlight' = inFlight \union {r}
GoesOn(r, next) == inFlight' = (inFlight \ {r}) \union next
Done(r) == GoesOn(r, {})

Logins == <<sinceLogin, sinceProof>>

-----------------------------------------------------------------------------
(* sessionRegistry.                                                        *)
HasRecord(a) == record[a] # NoRecord

HasLapsed(a) == record[a].idle = Inactivity

NoneIsSame(a, device) ==
  ~HasRecord(a) \/ HasLapsed(a) \/ record[a].device = device
LapsedStillHolds(a, device) ==
  ~HasRecord(a) \/ (device # NoDevice /\ record[a].device = device)
CanSignIn(a, device) ==
  \/ ~HasRecord(a) \/ HasLapsed(a)
  \/ device # NoDevice /\ record[a].device = device

IsCurrent(s) ==
  \/ ~HasRecord(s.account)
  \/ ~HasLapsed(s.account) /\ record[s.account].sid = s.sid

(* startSession: without a device it keeps the one recorded for this sid.  *)
Started(a, sid, device) ==
  [sid |-> sid, idle |-> 0,
   device |-> IF device = NoDevice /\ record[a].sid = sid THEN record[a].device ELSE device]

(* endSession: whether the session there is the caller's to end.           *)
OwnOrNone(s) == record[s.account].sid \in {s.sid, NoRecord.sid}

(* newSessionId.                                                           *)
KnownSids ==
  {record[a].sid : a \in Account} \union {held[c].sid : c \in Client}
  \union {r.session.sid : r \in inFlight}

NewSid(sid) == Sid \ KnownSids # {} /\ sid = CHOOSE s \in Sid \ KnownSids : TRUE

-----------------------------------------------------------------------------
(* issueSession: the login times and the record, then the refresh token    *)
(* and the answer.                                                         *)
Start(c, device, s, full) ==
  [kind |-> "start", client |-> c, device |-> device, session |-> s, full |-> full]

EverySignIn(r) == TRUE
MovesLastLogin(r) == r.full

IssueStarts(r) ==
  /\ r.kind = "start"
  /\ LET a == r.session.account
     IN  /\ record' = [record EXCEPT ![a] = Started(a, r.session.sid, r.device)]
         /\ sinceLogin' = IF MovesLastLogin(r) THEN [sinceLogin EXCEPT ![a] = 0] ELSE sinceLogin
         /\ sinceProof' = IF r.full THEN [sinceProof EXCEPT ![a] = 0] ELSE sinceProof
  /\ GoesOn(r, {[kind |-> "answer", client |-> r.client, session |-> r.session]})
  /\ UNCHANGED <<tokens, held>>

IssueAnswers(r) ==
  /\ r.kind = "answer"
  /\ tokens' = tokens \union {r.client}
  /\ held' = [held EXCEPT ![r.client] = r.session]
  /\ Done(r)
  /\ UNCHANGED <<record, Logins>>

DevicesOf(c) == {c, NoDevice}

(* completeSignIn, verify2FA.                                              *)
SignIn(c, a) ==
  /\ CanServe
  /\ \E device \in DevicesOf(c), sid \in Sid :
       /\ CanSignIn(a, device)
       /\ NewSid(sid)
       /\ Ask(Start(c, device, Session(a, sid), TRUE))
  /\ UNCHANGED <<record, tokens, held, Logins>>

(* loginWithPasscode.  The account is the one last signed in to.           *)
MostRecent(a) == \A b \in Account : sinceLogin[a] <= sinceLogin[b]

WithinWindow(a) == sinceLogin[a] < PasscodeWindow

SignInByPasscode(c, a) ==
  /\ CanServe
  /\ MostRecent(a)
  /\ WithinWindow(a)
  /\ \E device \in DevicesOf(c), sid \in Sid :
       /\ CanSignIn(a, device)
       /\ NewSid(sid)
       /\ Ask(Start(c, device, Session(a, sid), FALSE))
  /\ UNCHANGED <<record, tokens, held, Logins>>

-----------------------------------------------------------------------------
(* refresh: a token whose session is no longer the live one is destroyed.  *)
Refresh(c) ==
  /\ CanServe
  /\ c \in tokens
  /\ IsCurrent(held[c])
  /\ \E device \in DevicesOf(c) : Ask(Start(c, device, held[c], FALSE))
  /\ UNCHANGED <<record, tokens, held, Logins>>

RefreshRefused(c) ==
  /\ held[c] # NoSession
  /\ c \notin tokens \/ ~IsCurrent(held[c])
  /\ tokens' = tokens \ {c}
  /\ held' = [held EXCEPT ![c] = NoSession]
  /\ UNCHANGED <<record, inFlight, Logins>>

(* switchRole, enableProfile: the same session, and a new refresh token.   *)
SwitchRole(c) ==
  /\ CanServe
  /\ held[c] # NoSession
  /\ IsCurrent(held[c])
  /\ \E device \in DevicesOf(c) : Ask(Start(c, device, held[c], FALSE))
  /\ UNCHANGED <<record, tokens, held, Logins>>

(* sessionGuard and touchSession: read, and written back as active now.    *)
TouchReads(c) ==
  /\ CanServe
  /\ LET s == held[c]
     IN  /\ s # NoSession
         /\ HasRecord(s.account) /\ IsCurrent(s)
         /\ Ask([kind |-> "touch", client |-> c, session |-> s,
                 device |-> record[s.account].device])
  /\ UNCHANGED <<record, tokens, held, Logins>>

TouchWrites(r) ==
  /\ r.kind = "touch"
  /\ record' = [record EXCEPT ![r.session.account] =
       [sid |-> r.session.sid, device |-> r.device, idle |-> 0]]
  /\ Done(r)
  /\ UNCHANGED <<tokens, held, Logins>>

(* switchCompany: every refresh token of the account left is destroyed and *)
(* its session ended before the next one starts.                           *)
SwitchCompany(c, b) ==
  /\ CanServe
  /\ held[c] # NoSession
  /\ held[c].account # b
  /\ IsCurrent(held[c])
  /\ \E device \in DevicesOf(c), sid \in Sid :
       /\ CanSignIn(b, device)
       /\ NewSid(sid)
       /\ Ask([kind |-> "leave", client |-> c, session |-> held[c],
               next |-> {Start(c, device, Session(b, sid), FALSE)}])
  /\ UNCHANGED <<record, tokens, held, Logins>>

SwitchLeaves(r) ==
  /\ r.kind = "leave"
  /\ tokens' = {c \in tokens : held[c].account # r.session.account}
  /\ GoesOn(r, IF OwnOrNone(r.session) THEN {[r EXCEPT !.kind = "end"]} ELSE r.next)
  /\ UNCHANGED <<record, held, Logins>>

(* logout: who signs out is known from the refresh token.                  *)
SignsOut(s, mayEnd) ==
  IF mayEnd
  THEN Ask([kind |-> "end", client |-> "none", session |-> s, next |-> {}])
  ELSE UNCHANGED inFlight

SignOut(c) ==
  /\ CanServe
  /\ held[c] # NoSession
  /\ tokens' = tokens \ {c}
  /\ held' = [held EXCEPT ![c] = NoSession]
  /\ SignsOut(held[c], c \in tokens /\ OwnOrNone(held[c]))
  /\ UNCHANGED <<record, Logins>>

EndDeletes(r) ==
  /\ r.kind = "end"
  /\ record' = [record EXCEPT ![r.session.account] = NoRecord]
  /\ GoesOn(r, r.next)
  /\ UNCHANGED <<tokens, held, Logins>>

(* resetPassword: the passwords are set, then the tokens of those accounts *)
(* go, then their sessions, whoever's they are.                            *)
ResetPassword(targets) ==
  /\ CanServe
  /\ targets # {}
  /\ Ask([kind |-> "reset", client |-> "none", session |-> NoSession, targets |-> targets])
  /\ UNCHANGED <<record, tokens, held, Logins>>

ResetRevokes(r) ==
  /\ r.kind = "reset"
  /\ tokens' = {c \in tokens : held[c].account \notin r.targets}
  /\ GoesOn(r, {[r EXCEPT !.kind = "revoked"]})
  /\ UNCHANGED <<record, held, Logins>>

ResetEnds(r) ==
  /\ r.kind = "revoked"
  /\ record' = [a \in Account |-> IF a \in r.targets THEN NoRecord ELSE record[a]]
  /\ Done(r)
  /\ UNCHANGED <<tokens, held, Logins>>

-----------------------------------------------------------------------------
(* The cache loses a record; a refresh token's days run out; a client goes *)
(* away without signing out; the service stops; time passes.               *)
CacheLoses(a) ==
  /\ HasRecord(a)
  /\ record' = [record EXCEPT ![a] = NoRecord]
  /\ UNCHANGED <<tokens, held, inFlight, Logins>>

TokenExpires(c) ==
  /\ c \in tokens
  /\ tokens' = tokens \ {c}
  /\ UNCHANGED <<record, held, inFlight, Logins>>

GoAway(c) ==
  /\ held[c] # NoSession
  /\ held' = [held EXCEPT ![c] = NoSession]
  /\ tokens' = tokens \ {c}
  /\ UNCHANGED <<record, inFlight, Logins>>

Crash ==
  /\ inFlight # {}
  /\ inFlight' = {}
  /\ UNCHANGED <<record, tokens, held, Logins>>

Older(age, limit) == IF age = limit THEN age ELSE age + 1

Tick ==
  /\ record' = [a \in Account |->
       IF HasRecord(a) THEN [record[a] EXCEPT !.idle = Older(@, Inactivity)] ELSE record[a]]
  /\ sinceLogin' = [a \in Account |-> Older(sinceLogin[a], PasscodeWindow)]
  /\ sinceProof' = [a \in Account |-> Older(sinceProof[a], PasscodeWindow)]
  /\ UNCHANGED <<tokens, held, inFlight>>

-----------------------------------------------------------------------------
Next ==
  \/ \E c \in Client :
       \/ \E a \in Account : SignIn(c, a) \/ SignInByPasscode(c, a) \/ SwitchCompany(c, a)
       \/ Refresh(c) \/ RefreshRefused(c) \/ SwitchRole(c)
       \/ TouchReads(c) \/ SignOut(c) \/ GoAway(c) \/ TokenExpires(c)
  \/ \E a \in Account : CacheLoses(a)
  \/ \E targets \in SUBSET Account : ResetPassword(targets)
  \/ \E r \in inFlight :
       \/ IssueStarts(r) \/ IssueAnswers(r) \/ TouchWrites(r)
       \/ SwitchLeaves(r) \/ EndDeletes(r) \/ ResetRevokes(r) \/ ResetEnds(r)
  \/ Crash \/ Tick

Spec == Init /\ [][Next]_vars

(* Time passes whatever the requests do.                                   *)
FairSpec == Spec /\ WF_vars(Tick)

-----------------------------------------------------------------------------
(* A session in use is not taken from its client by anyone else: until it  *)
(* lapses its record goes only by that client's own request, by a password *)
(* reset or by the cache losing it (canSignIn, endSession, refresh).       *)
InUse(c) ==
  /\ held[c] # NoSession
  /\ HasRecord(held[c].account)
  /\ IsCurrent(held[c])

ByReset(a) == \E r \in inFlight \ inFlight' : r.kind = "revoked" /\ a \in r.targets

LiveSessionKept ==
  [][\A c \in Client :
       InUse(c) /\ record'[held[c].account].sid # held[c].sid
       => \/ \E r \in inFlight \ inFlight' : r.client = c
          \/ ByReset(held[c].account)
          \/ CacheLoses(held[c].account)]_vars

(* A passcode lets nobody in more than its window after the last sign-in   *)
(* that proved who it was, however often it, a refresh or a switch was     *)
(* used meanwhile (issueSession, loginWithPasscode).                       *)
PasscodeWindowCloses ==
  [][\A c \in Client, a \in Account :
       SignInByPasscode(c, a) => sinceProof[a] < PasscodeWindow]_vars

(* An abandoned session does not lock its owner out: once no client holds  *)
(* it and no request is about it, it lets another device in, unless it is  *)
(* taken up again or replaced (canSignIn).                                 *)
Abandoned(a, s) ==
  /\ HasRecord(a) /\ record[a].sid = s
  /\ \A c \in Client : held[c] # Session(a, s)
  /\ \A r \in inFlight : r.session # Session(a, s)

AbandonedLetsGo ==
  \A a \in Account, s \in Sid :
    Abandoned(a, s) ~> (~Abandoned(a, s) \/ CanSignIn(a, NoDevice))
=============================================================================
