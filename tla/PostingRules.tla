---------------------------- MODULE PostingRules ----------------------------
(***************************************************************************)
(* What each business event becomes in the general ledger                  *)
(* (shared/src/accounting/rules.js): a rule is an operator from the event's *)
(* amounts to a sequence of lines.  A line names the role of the account   *)
(* it is for or, for an expense coded to one account, the account itself,  *)
(* and is a debit or a credit.  Amounts are integers of minor units; the   *)
(* dimensions of a line (project, branch, party) are left out.             *)
(***************************************************************************)
EXTENDS Integers, SequencesExt

NoAccount == "no account"
NoRole == "no role"

Positive(n) == IF n > 0 THEN n ELSE 0

AtMost(n, limit) == IF n < limit THEN n ELSE limit

Dr(role, amount) == [role |-> role, account |-> NoAccount, debit |-> amount, credit |-> 0]
Cr(role, amount) == [role |-> role, account |-> NoAccount, debit |-> 0, credit |-> amount]

(* A line coded to one account, the role being the second choice.          *)
Coded(line, account) == [line EXCEPT !.account = account]

(* Lines with nothing on them are not lines.                               *)
Real(lines) == SelectSeq(lines, LAMBDA l : l.debit > 0 \/ l.credit > 0)

ImbalanceOf(lines) == SumFunction([i \in DOMAIN lines |-> lines[i].debit - lines[i].credit])

Debits(lines) == SumFunction([i \in DOMAIN lines |-> lines[i].debit])

-----------------------------------------------------------------------------
(* recognition: whether a sale is income when invoiced or when handed over. *)
InvoiceRaised(gross, discount, vat, recognition) ==
  LET off == AtMost(Positive(discount), gross)
      tax == Positive(vat)
      income == IF recognition = "ON_INVOICE" THEN "REVENUE_UNIT_SALES"
                ELSE "CONTRACT_LIABILITY"
  IN  Real(<<Dr("ACCOUNTS_RECEIVABLE", gross - off + tax), Dr("REVENUE_DISCOUNTS", off),
             Cr(income, gross), Cr("VAT_OUTPUT", tax)>>)

FeeInvoiceRaised(gross, vat) ==
  Real(<<Dr("ACCOUNTS_RECEIVABLE", gross + Positive(vat)), Cr("REVENUE_FEES", gross),
         Cr("VAT_OUTPUT", Positive(vat))>>)

PaymentApproved(amount) == Real(<<Dr("BANK", amount), Cr("ACCOUNTS_RECEIVABLE", amount)>>)

OverpaymentHeld(surplus) ==
  Real(<<Dr("BANK", surplus), Cr("CUSTOMER_CREDIT_BALANCES", surplus)>>)

CreditNoteApproved(net, vat) ==
  Real(<<Dr("REVENUE_UNIT_SALES", net), Dr("VAT_OUTPUT", Positive(vat)),
         Cr("ACCOUNTS_RECEIVABLE", net + Positive(vat))>>)

RefundPaid(amount) == Real(<<Dr("CUSTOMER_CREDIT_BALANCES", amount), Cr("BANK", amount)>>)

(* The accounts each commission movement debits and credits; a movement    *)
(* that is not here (BREAKAGE, for one) posts nothing.                     *)
CommissionAccounts ==
  [ACCRUAL    |-> <<"COMMISSION_EXPENSE", "COMMISSION_ACCRUED">>,
   RELEASE    |-> <<"COMMISSION_ACCRUED", "COMMISSION_PAYABLE">>,
   PAYOUT     |-> <<"COMMISSION_PAYABLE", "BANK">>,
   FORFEIT    |-> <<"COMMISSION_ACCRUED", "COMMISSION_BREAKAGE">>,
   HOLD       |-> <<"COMMISSION_ACCRUED", "COMMISSION_HELD">>,
   REVERSAL   |-> <<"COMMISSION_ACCRUED", "COMMISSION_EXPENSE">>,
   ADJUSTMENT |-> <<"COMMISSION_EXPENSE", "COMMISSION_ACCRUED">>,
   RECOVERY   |-> <<"COMMISSION_PAYABLE", "COMMISSION_RECEIVABLE">>,
   AWARD      |-> <<"COMMISSION_EXPENSE", "COMMISSION_AWARDS">>,
   DEDUCTION  |-> <<"BANK", "WITHHOLDING_PAYABLE">>]

CommissionEntry(type, amount) ==
  IF type \notin DOMAIN CommissionAccounts THEN <<>>
  ELSE Real(<<Dr(CommissionAccounts[type][1], amount), Cr(CommissionAccounts[type][2], amount)>>)

BillApproved(net, tax, withholding, role, account) ==
  LET vat == Positive(tax)
      withheld == AtMost(Positive(withholding), net)
  IN  Real(<<Coded(Dr(role, net), account), Dr("VAT_INPUT", vat),
             Cr("ACCOUNTS_PAYABLE", net + vat - withheld), Cr("WITHHOLDING_PAYABLE", withheld)>>)

BillPaid(amount) == Real(<<Dr("ACCOUNTS_PAYABLE", amount), Cr("BANK", amount)>>)

SupplierCreditNote(net, tax, role, account) ==
  LET vat == Positive(tax)
  IN  Real(<<Dr("ACCOUNTS_PAYABLE", net + vat), Coded(Cr(role, net), account),
             Cr("VAT_INPUT", vat)>>)

HandoverRecognised(revenue, cost) ==
  Real(<<Dr("CONTRACT_LIABILITY", revenue), Cr("REVENUE_UNIT_SALES", revenue),
         Dr("COST_OF_SALES", Positive(cost)), Cr("DEVELOPMENT_WIP", Positive(cost))>>)

(* From the pool to expense, or back when the amount is negative.          *)
OutOfWip(expense, amount) ==
  IF amount >= 0 THEN Real(<<Dr(expense, amount), Cr("DEVELOPMENT_WIP", amount)>>)
  ELSE Real(<<Dr("DEVELOPMENT_WIP", -amount), Cr(expense, -amount)>>)

CostCatchUp(amount) == OutOfWip("COST_OF_SALES", amount)

InventoryWriteDown(amount) == OutOfWip("INVENTORY_WRITE_DOWN", amount)

-----------------------------------------------------------------------------
(* Every rule, over the amounts given.                                     *)
RuleOutputs(amounts) ==
  LET role == {"COST_OF_SALES", "DEVELOPMENT_WIP"}
      account == {NoAccount, "5120"}
  IN  {InvoiceRaised(g, d, v, r) : g \in amounts, d \in amounts, v \in amounts,
                                   r \in {"ON_INVOICE", "ON_HANDOVER"}}
        \union {FeeInvoiceRaised(g, v) : g \in amounts, v \in amounts}
        \union {PaymentApproved(a) : a \in amounts}
        \union {OverpaymentHeld(a) : a \in amounts}
        \union {CreditNoteApproved(n, v) : n \in amounts, v \in amounts}
        \union {RefundPaid(a) : a \in amounts}
        \union {CommissionEntry(t, a) :
                  t \in (DOMAIN CommissionAccounts) \union {"BREAKAGE"}, a \in amounts}
        \union {BillApproved(n, t, w, r, c) :
                  n \in amounts, t \in amounts, w \in amounts, r \in role, c \in account}
        \union {BillPaid(a) : a \in amounts}
        \union {SupplierCreditNote(n, t, r, c) :
                  n \in amounts, t \in amounts, r \in role, c \in account}
        \union {HandoverRecognised(r, c) : r \in amounts, c \in amounts}
        \union {CostCatchUp(s * a) : s \in {1, -1}, a \in amounts}
        \union {InventoryWriteDown(s * a) : s \in {1, -1}, a \in amounts}
=============================================================================
