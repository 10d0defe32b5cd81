-------------------------- MODULE CommissionRules --------------------------
(***************************************************************************)
(* What a commission plan decides about money that has been earned: when   *)
(* it vests (shared/src/commission/vesting.js), what a lapse costs and who *)
(* gets it (deductions.js), what a payout withholds (deductions.js,        *)
(* reversal.js) and how a shrunken deal takes money back (reversal.js).    *)
(*                                                                         *)
(* A plan is a record; percentages are whole numbers of hundredths.        *)
(*                                                                         *)
(* LostSwapped, LostWithoutReleased and OffsettableIgnoringPaid are        *)
(* plausible mistakes in the operator that follows them, used only to      *)
(* confirm that a property notices them.                                   *)
(***************************************************************************)
EXTENDS Money

MoneyTriggers ==
  {"ON_DEAL_CONFIRMATION", "ON_INITIAL_DEPOSIT", "ON_THRESHOLD", "PRO_RATA",
   "ON_FULL_PAYMENT"}

Plan ==
  [trigger     : MoneyTriggers,
   threshold   : 0..100,     \* threshold_percentage, of the base
   holdback    : 0..100,     \* holdback_percentage, of the entitlement
   partial     : BOOLEAN,    \* policy.partial_release is not FORBID
   enforced    : BOOLEAN,    \* policy.gate is ENFORCE
   lapseScope  : {"INCREMENT", "REMAINING"},
   disposition : {"BREAKAGE", "REDISTRIBUTE", "HOLD_PENDING_REINSTATEMENT"},
   withholding : 0..100,     \* one percentage deduction on the gross
   recovery    : 0..100,     \* clawback_recovery_percentage
   clawback    : BOOLEAN,    \* the deal is inside its clawback window
   cascades    : BOOLEAN]    \* clawback_scope is not PROTECT_UPLINE

-----------------------------------------------------------------------------
(***************************************************************************)
(* Vesting.  The CUMULATIVE amount of an entitlement that the buyer's      *)
(* cumulative receipts have earned.                                        *)
(***************************************************************************)
VestedOnMoney(p, entitled, base, received) ==
  CASE p.trigger = "ON_DEAL_CONFIRMATION" -> entitled
    [] p.trigger = "ON_INITIAL_DEPOSIT"   -> IF received > 0 THEN entitled ELSE 0
    [] p.trigger = "ON_THRESHOLD" ->
         LET needed == CeilDiv(base * p.threshold, 100)
         IN  IF received >= needed /\ needed > 0 THEN entitled ELSE 0
    [] p.trigger = "PRO_RATA" ->
         IF base <= 0 THEN 0 ELSE (entitled * Lesser(received, base)) \div base
    [] OTHER -> IF received >= base /\ base > 0 THEN entitled ELSE 0

(* applyHoldback: a share of the entitlement is kept past the trigger.     *)
AfterHoldback(p, vested, entitled) ==
  IF p.holdback = 0
  THEN vested
  ELSE Greater(Lesser(vested, entitled - CeilDiv(entitled * p.holdback, 100)), 0)

(* The amount a release pass sets released_minor to; a plan that forbids a *)
(* partial release vests the whole entitlement or nothing.                 *)
Payable(p, entitled, base, received) ==
  LET vested == IF entitled <= 0 THEN 0 ELSE VestedOnMoney(p, entitled, base, received)
      amount == Lesser(AfterHoldback(p, vested, entitled), entitled)
  IN  IF ~p.partial /\ amount < entitled THEN 0 ELSE amount

-----------------------------------------------------------------------------
(* What a realtor who is not active at the checkpoint loses.               *)
LostSwapped(p, entitled, already, payable) ==
  IF p.lapseScope = "REMAINING" THEN Greater(entitled - already, 0) ELSE already - payable

LostWithoutReleased(p, entitled, already, payable) ==
  IF p.lapseScope = "REMAINING" THEN entitled ELSE payable - already

LostOnLapse(p, entitled, already, payable) ==
  IF p.lapseScope = "REMAINING" THEN Greater(entitled - already, 0) ELSE payable - already

(* redistribute: a forfeited amount goes to the remaining lines of the     *)
(* deal, in proportion to what each of them was already allocated.  order  *)
(* lists the recipients; weight gives what each was allocated.             *)
Redistributed(forfeitedMinor, order, weight) ==
  LET amount == AsMinor(forfeitedMinor)
      shares == AllocateByWeight(amount, [i \in DOMAIN order |-> weight[order[i]]])
  IN  [e \in Range(order) |->
         IF amount <= 0 THEN 0 ELSE shares[CHOOSE i \in DOMAIN order : order[i] = e]]

(* applyDeductions for one deduction: taken is rounded up and never more   *)
(* than what is left.                                                      *)
DeductionTaken(gross, running, d) ==
  LET basis  == IF d.basis = "RUNNING" THEN running ELSE gross
      amount == IF d.type = "FLAT" THEN d.value ELSE CeilDiv(basis * d.value, 100)
  IN  Greater(Lesser(amount, running), 0)

(* What is left of the gross after the first n deductions of the ordered   *)
(* profile ds.                                                             *)
RunningAfter(gross, ds) ==
  LET left[n \in 0..Len(ds)] ==
        IF n = 0 THEN gross
        ELSE left[n - 1] - DeductionTaken(gross, left[n - 1], ds[n])
  IN  left

Deducted(gross, ds) == gross - Greater(RunningAfter(gross, ds)[Len(ds)], 0)

(* recoveryFromPayout: what of a payout is withheld against what the       *)
(* realtor owes.  A percentage of 0 reads as unset, which is 100.          *)
RecoveryFromPayout(payoutMinor, owedMinor, p) ==
  LET payout  == AsMinor(payoutMinor)
      owed    == AsMinor(owedMinor)
      percent == IF p.recovery = 0 THEN 100 ELSE p.recovery
  IN  IF payout <= 0 \/ owed <= 0 THEN 0 ELSE Lesser(owed, (payout * percent) \div 100)

-----------------------------------------------------------------------------
(* reverseLine: what a revised entitlement takes back, cheapest first:     *)
(* what was not released yet is cancelled, what was released but not paid  *)
(* is offset, and only the rest is clawed back.                            *)
Cancellable(entitled, released) == Greater(entitled - released, 0)

OffsettableIgnoringPaid(released, paid) == released

Offsettable(released, paid) == Greater(released - paid, 0)

ReverseLine(entitled, released, paid, revisedMinor) ==
  LET revised     == Greater(revisedMinor, 0)
      surrendered == entitled - revised
      cancel      == Lesser(surrendered, Cancellable(entitled, released))
      offset      == Lesser(surrendered - cancel, Offsettable(released, paid))
  IN  IF revised >= entitled
      THEN [unchanged |-> TRUE, revised |-> revised, cancel |-> 0, offset |-> 0,
            clawback |-> 0]
      ELSE [unchanged |-> FALSE, revised |-> revised, cancel |-> cancel, offset |-> offset,
            clawback |-> Greater(surrendered - cancel - offset, 0)]
=============================================================================
