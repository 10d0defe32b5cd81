------------------------------- MODULE Money -------------------------------
(***************************************************************************)
(* The integer money arithmetic of shared/src/money.js: every amount is a  *)
(* whole number of minor units (kobo), and every division of an amount     *)
(* says where the left-over units go.                                      *)
(*                                                                         *)
(* FirstCome and AllocateFloors are plausible mistakes in the operator     *)
(* that follows them, used only to confirm that a property notices them.   *)
(***************************************************************************)
EXTENDS Integers, Sequences, FiniteSets, Functions

Lesser(a, b) == IF a <= b THEN a ELSE b

Greater(a, b) == IF a >= b THEN a ELSE b

(* Number(x) of a value that is not a finite number is not an amount: 0.   *)
AsMinor(x) == IF x \in Int THEN x ELSE 0

CeilDiv(a, b) == -((-a) \div b)

(* percentageOf: a percentage of an amount, the half rounded up.           *)
PercentageOf(minor, rate) == (2 * minor * rate + 100) \div 200

(* roundWith for the ratio n/d, d > 0.                                     *)
RoundWith(n, d, mode) ==
  LET floor == n \div d
      twice == 2 * (n % d)
  IN  CASE mode = "floor" -> floor
        [] mode = "half_even" ->
             IF twice > d \/ (twice = d /\ floor % 2 # 0) THEN floor + 1 ELSE floor
        [] OTHER -> (2 * n + d) \div (2 * d)

-----------------------------------------------------------------------------
(***************************************************************************)
(* allocateByWeight: the largest-remainder division of a total.  Index i   *)
(* is served before j in the hand-out of the left-over units when the      *)
(* floor cut it harder; then the larger weight; then the earlier index.    *)
(***************************************************************************)
FirstCome(total, w, i, j) == i < j

ServedBefore(total, w, i, j) ==
  LET sum == SumFunction(w)
      cut(k) == (total * w[k]) % sum
  IN  \/ cut(i) > cut(j)
      \/ cut(i) = cut(j) /\ w[i] > w[j]
      \/ cut(i) = cut(j) /\ w[i] = w[j] /\ i < j

(* The sum of a list of amounts is an amount.                              *)
Total(amounts) == AsMinor(SumFunction(amounts))

AllocateFloors(totalMinor, weights) ==
  [i \in DOMAIN weights |->
     (AsMinor(totalMinor) * weights[i]) \div Greater(SumFunction(weights), 1)]

(* The weights are a sequence; a weight that is negative or unreadable     *)
(* counts as zero.                                                         *)
AllocateByWeight(totalMinor, weights) ==
  LET total    == AsMinor(totalMinor)
      w        == [i \in DOMAIN weights |-> Greater(AsMinor(weights[i]), 0)]
      sum      == Total(w)
      floor(i) == (total * w[i]) \div sum
      residual == total - Total([i \in DOMAIN w |-> floor(i)])
      place(i) == Cardinality({j \in DOMAIN w : ServedBefore(total, w, j, i)})
  IN  IF sum <= 0 \/ total = 0
      THEN [i \in DOMAIN w |-> 0]
      ELSE [i \in DOMAIN w |-> floor(i) + (IF place(i) < residual THEN 1 ELSE 0)]
=============================================================================
