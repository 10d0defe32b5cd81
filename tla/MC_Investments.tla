--------------------------- MODULE MC_Investments ---------------------------
(* Instances of Investments: an opportunity that compounds by the quarter, *)
(* and the same one edited to pay a plain return by the month.             *)
EXTENDS Investments

Quarterly ==
  [rate |-> 100, frequency |-> "quarterly", basis |-> "compound", tenor |-> 183, growth |-> <<5, 4>>,
   exitAllowed |-> TRUE, lockIn |-> 31, penalty |-> "flat_fee", penaltyValue |-> 5]

Monthly ==
  [rate |-> 12, frequency |-> "monthly", basis |-> "simple", tenor |-> 62, growth |-> <<101, 100>>,
   exitAllowed |-> TRUE, lockIn |-> 0, penalty |-> "percentage_of_return", penaltyValue |-> 50]

MCOffers ==
  {[status |-> "active", terms |-> Quarterly, cap |-> 3000, opens |-> 0, closes |-> 31],
   [status |-> "active", terms |-> Monthly, cap |-> 2000, opens |-> 0, closes |-> 0]}

MCDays == {0, 31, 93, 276}

(* Capital that a month compounds, over a term that ends the day after     *)
(* the third month was released.                                           *)
ByTheMonth ==
  {[status |-> "active", cap |-> 3000, opens |-> 0, closes |-> 0,
    terms |-> [Monthly EXCEPT !.basis = "compound", !.tenor = 93]]}
AtOnce == {[amount |-> 577, day |-> 0]}
RoundingDays == {0, 92, 93}

MCPayments == {[amount |-> 1000, day |-> 31]}
=============================================================================
