------------------------------ MODULE Journal ------------------------------
(***************************************************************************)
(* What the general ledger promises, whatever services, charts and         *)
(* requests are behind it: a journal that only grows, one entry at a time, *)
(* never twice for the same thing and never into a closed month; months    *)
(* close, and reopen from the last one backwards.                          *)
(***************************************************************************)
EXTENDS Integers

CONSTANTS
  Month,          \* months, in order
  Repeatable      \* sources that may be written more than once for one thing

VARIABLES
  journal,        \* entries written
  closed          \* closed months

vars == <<journal, closed>>

(* What an entry is for: its key's source and id, or all of its key.       *)
Subject(n) == IF n.key[1] \in Repeatable THEN n.key ELSE <<n.key[1], n.key[2]>>

Init ==
  /\ journal = {}
  /\ closed = {}

Write(n) ==
  /\ n.month \notin closed
  /\ \A other \in journal : Subject(other) # Subject(n)
  /\ journal' = journal \union {n}
  /\ UNCHANGED closed

Close(m) ==
  /\ closed' = closed \union {m}
  /\ UNCHANGED journal

Reopen(m) ==
  /\ \A later \in closed : later <= m
  /\ closed' = closed \ {m}
  /\ UNCHANGED journal

Next ==
  \/ \E n \in journal' \ journal : Write(n)
  \/ \E m \in Month : Close(m) \/ Reopen(m)

Spec == Init /\ [][Next]_vars

-----------------------------------------------------------------------------
(* A thing has one entry.                                                  *)
OneEntryEach == \A n1, n2 \in journal : Subject(n1) = Subject(n2) => n1 = n2

(* The entries of a month stay as they are while it is closed.             *)
EntriesIn(m) == {n \in journal : n.month = m}

ClosedIsFinal ==
  [][\A m \in closed \intersect closed' : EntriesIn(m)' = EntriesIn(m)]_vars
=============================================================================
