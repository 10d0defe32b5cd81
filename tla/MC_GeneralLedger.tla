-------------------------- MODULE MC_GeneralLedger --------------------------
(***************************************************************************)
(* An instance of GeneralLedger for TLC: a sale and its payment, a bill,   *)
(* and a person moving what is in suspense to revenue; or two sales, the   *)
(* second not income before it is handed over.                             *)
(***************************************************************************)
EXTENDS GeneralLedger

MCRuleOf ==
  [invoice |-> "invoice", payment |-> "invoice_payment", bill |-> "bill", deferred |-> "invoice"]
MCAmountOf == [invoice |-> 2, payment |-> 2, bill |-> 1, deferred |-> 2]
MCServiceOf ==
  [invoice |-> "property", payment |-> "finance", bill |-> "finance", deferred |-> "property"]
MCInvoiceOf == [payment |-> "invoice"]
MCLinesOf ==
  [invoice |-> InvoiceRaised(2, 0, 0, "ON_INVOICE"),
   payment |-> PaymentApproved(2),
   bill |-> BillApproved(1, 0, 0, "COST_OF_SALES", NoAccount),
   deferred |-> InvoiceRaised(2, 0, 0, "ON_HANDOVER")]

MCRoles ==
  [bank |-> "BANK", receivable |-> "ACCOUNTS_RECEIVABLE", payable |-> "ACCOUNTS_PAYABLE",
   sales |-> "REVENUE_UNIT_SALES", spare |-> NoRole, costs |-> "COST_OF_SALES",
   suspense |-> "SUSPENSE", retained |-> "RETAINED_EARNINGS"]
MCAccount == DOMAIN MCRoles
MCTypeOf ==
  [bank |-> "asset", receivable |-> "asset", payable |-> "liability", sales |-> "income",
   spare |-> "income", costs |-> "expense", suspense |-> "asset", retained |-> "equity"]
(* The chart has lost its sales account; one with no role could stand in.  *)
MCSeeded ==
  [a \in MCAccount |->
     IF a = "sales" THEN [state |-> "absent", role |-> NoRole]
     ELSE [state |-> "active", role |-> MCRoles[a]]]

(* The accounts of a sale that is income at once and of one at handover.   *)
MCSalesRoles ==
  [receivable |-> "ACCOUNTS_RECEIVABLE", sales |-> "REVENUE_UNIT_SALES", deferred |-> "CONTRACT_LIABILITY",
   suspense |-> "SUSPENSE"]
MCSalesAccount == DOMAIN MCSalesRoles
MCSalesTypeOf == [receivable |-> "asset", sales |-> "income", deferred |-> "liability", suspense |-> "asset"]
MCSalesSeeded == [a \in MCSalesAccount |-> [state |-> "active", role |-> MCSalesRoles[a]]]

(* Dr suspense, Cr sales.                                                  *)
MCManualLines ==
  {<<Coded(Dr(NoRole, 2), "suspense"), Coded(Cr(NoRole, 2), "sales")>>}

(* What every rule builds balances whatever the amounts: discount and      *)
(* withholding are clamped and the residual leg is derived (rules.js).     *)
ASSUME RulesBalance == \A lines \in RuleOutputs(0..3) : ImbalanceOf(lines) = 0
=============================================================================
