----------------------- MODULE MC_BankReconciliation -----------------------
(***************************************************************************)
(* Instances of BankReconciliation for TLC: one account and a statement    *)
(* with its running balance, oldest or newest first.                       *)
(***************************************************************************)
EXTENDS BankReconciliation

Movement(date, ref, amount, balance) ==
  [date |-> date, ref |-> ref, amount |-> amount, balance |-> balance, movement |-> TRUE]
Forward(date, balance) ==
  [date |-> date, ref |-> "forward", amount |-> 0, balance |-> {balance}, movement |-> FALSE]

OldestFirst ==
  [account |-> "bank",
   rows |-> <<Forward(1, 0), Movement(1, "a", 20, {20}), Movement(1, "b", 20, {40}),
              Forward(1, 40), Movement(2, "c", -10, {30})>>]
NewestFirst ==
  [account |-> "bank",
   rows |-> <<Movement(2, "c", -10, {30}), Forward(1, 40), Movement(1, "b", 20, {40}),
              Movement(1, "a", 20, {20}), Forward(1, 0)>>]
MCStatements == {OldestFirst}
MCNewestFirst == {NewestFirst}
MCDateOf == [receipt |-> 1, late |-> 2]
MCMovesOf == [d \in {"receipt", "late"} |-> [a \in {"bank"} |-> 20]]
=============================================================================
