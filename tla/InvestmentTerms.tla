-------------------------- MODULE InvestmentTerms --------------------------
(***************************************************************************)
(* shared/src/investments: what a subscription has earned by a day, what   *)
(* of it may be released, and what leaving early would cost.  Nothing here *)
(* reads the clock or the database.                                        *)
(*                                                                         *)
(* Terms are a record                                                      *)
(*   rate         percent a year                                           *)
(*   frequency    "at_maturity", "monthly" or "quarterly"                  *)
(*   basis        "simple" or "compound"                                   *)
(*   tenor        days of the commitment; 0: none was stated               *)
(*   growth       <<n, d>>: 1 + the rate of one period, in lowest terms    *)
(*   exitAllowed, lockIn, penalty, penaltyValue                            *)
(* A moment is the day it falls on.                                        *)
(*                                                                         *)
(* Uncapped is a plausible mistake in the operator that follows it.        *)
(***************************************************************************)
EXTENDS Money

DaysInYear == 365

Never == -1

PeriodsInYear(terms) ==
  CASE terms.frequency = "monthly" -> 12
    [] terms.frequency = "quarterly" -> 4
    [] OTHER -> 0

IsPeriodic(terms) == PeriodsInYear(terms) > 0

AreFigures(terms) ==
  /\ {terms.rate, terms.tenor, terms.lockIn, terms.penaltyValue} \subseteq Nat
  /\ terms.growth \in (Nat \ {0}) \X (Nat \ {0})

GrowthAgrees(terms) ==
  IsPeriodic(terms) =>
    terms.growth[1] * 100 * PeriodsInYear(terms) = terms.growth[2] * (100 * PeriodsInYear(terms) + terms.rate)

-----------------------------------------------------------------------------
(* accrual.js.                                                             *)
DaysBetween(from, to) == Greater(to - from, 0)

ElapsedDays(terms, fundedAt, asAt) ==
  LET elapsed == DaysBetween(fundedAt, asAt)
  IN  IF terms.tenor > 0 THEN Lesser(elapsed, terms.tenor) ELSE elapsed

(* The periods that are over after so many days, and the days they took:   *)
(* whole, and to the nearest day.                                          *)
CompletePeriods(terms, days) == (days * PeriodsInYear(terms)) \div DaysInYear

WholeDaysOf(terms, periods) == (periods * DaysInYear) \div PeriodsInYear(terms)

NearestDayOf(terms, periods) == RoundWith(periods * DaysInYear, PeriodsInYear(terms), "half_up")

Simple(principal, rate, days) == (principal * rate * days) \div (100 * DaysInYear)

Power(base, n) ==
  LET power[k \in Nat] == IF k = 0 THEN 1 ELSE base * power[k - 1]
  IN  power[n]

Grown(terms, principal, periods) ==
  RoundWith(principal * Power(terms.growth[1], periods), Power(terms.growth[2], periods), "half_up")

(* Everything earned from the funding to a day.  Complete periods compound *)
(* and the days after them earn simple interest on what has grown.         *)
AccruedAt(terms, principal, fundedAt, asAt) ==
  LET days    == ElapsedDays(terms, fundedAt, asAt)
      periods == CompletePeriods(terms, days)
      grown   == Grown(terms, principal, periods)
  IN  IF principal <= 0 \/ terms.rate <= 0 \/ fundedAt = Never THEN 0
      ELSE IF terms.basis = "compound" /\ IsPeriodic(terms)
      THEN Greater(grown - principal + Simple(grown, terms.rate, days - WholeDaysOf(terms, periods)), 0)
      ELSE Greater(Simple(principal, terms.rate, days), 0)

Maturity(terms, fundedAt) == fundedAt + Greater(terms.tenor, 0)

HasMatured(terms, fundedAt, asAt) == fundedAt # Never /\ asAt >= Maturity(terms, fundedAt)

(* The last day a release fell due; Never: none has.                       *)
LastRelease(terms, fundedAt, asAt) ==
  LET completed == CompletePeriods(terms, DaysBetween(fundedAt, asAt))
  IN  IF fundedAt = Never THEN Never
      ELSE IF HasMatured(terms, fundedAt, asAt) THEN Maturity(terms, fundedAt)
      ELSE IF IsPeriodic(terms) /\ completed > 0 THEN fundedAt + NearestDayOf(terms, completed)
      ELSE Never

(* What may be paid now: earned to the last release, less what was paid.   *)
Releasable(terms, principal, fundedAt, asAt, paid) ==
  LET boundary == LastRelease(terms, fundedAt, asAt)
  IN  IF boundary = Never THEN 0
      ELSE Greater(AccruedAt(terms, principal, fundedAt, boundary) - paid, 0)

-----------------------------------------------------------------------------
(* exit.js.  The penalty is taken from the return still owed and from      *)
(* nothing else; who has waited the whole term pays none.                  *)
PenaltyOn(terms, earned) ==
  CASE terms.penalty = "forfeit_all_return" -> earned
    [] terms.penalty = "percentage_of_return" -> CeilDiv(earned * terms.penaltyValue, 100)
    [] terms.penalty = "flat_fee" -> terms.penaltyValue * 100
    [] OTHER -> 0

Uncapped(terms, outstanding) == PenaltyOn(terms, outstanding)

Charged(terms, outstanding) == Lesser(PenaltyOn(terms, outstanding), outstanding)

MayExit(terms, fundedAt, asAt) ==
  \/ HasMatured(terms, fundedAt, asAt)
  \/ terms.exitAllowed /\ DaysBetween(fundedAt, asAt) >= Greater(terms.lockIn, 0)

QuoteExit(terms, status, principal, fundedAt, paid, asAt) ==
  LET outstanding == Greater(AccruedAt(terms, principal, fundedAt, asAt) - paid, 0)
      penalty     == IF HasMatured(terms, fundedAt, asAt) THEN 0 ELSE Charged(terms, outstanding)
  IN  IF \/ status \in {"completed", "cancelled", "exited"}
         \/ principal <= 0 \/ fundedAt = Never
         \/ ~MayExit(terms, fundedAt, asAt)
      THEN [allowed |-> FALSE]
      ELSE [allowed |-> TRUE, capital |-> principal, earned |-> outstanding, penalty |-> penalty,
            net |-> principal + outstanding - penalty]
=============================================================================
