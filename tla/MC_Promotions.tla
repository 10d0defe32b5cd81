--------------------------- MODULE MC_Promotions ---------------------------
(* Small instances of Promotions: a campaign limited to one redemption,    *)
(* one that repeats for the unit it is bought with, one with tiers behind  *)
(* a code, and one that is not coherent.                                   *)
EXTENDS Promotions, TLC

CONSTANTS b1, i1, i2, i3

MCPromotion == {1}

Plot == 1
Half == 2

MCPropertyOf == [unit \in {Plot} |-> 7]

MCProfile == (b1 :> [category |-> "any", realtor |-> 1, level |-> 1])

MCSurcharge == [p \in Plan |-> 20]

MCQuantities == {3}

MCListPrice == [unit \in {Plot} |-> 100]

MCPrices == {100, 60}

MCCodes == {{"C"}}

Nothing == [q \in {} |-> 0]

Unlimited == [total |-> 0, customer |-> 0, day |-> 0, units |-> 0]

Plain ==
  [status |-> "DRAFT", starts |-> 1, ends |-> 9, trigger |-> "AUTOMATIC", code |-> AnyCode,
   priority |-> 100, stackable |-> FALSE, scope |-> [units |-> {}, properties |-> {}],
   combination |-> Nothing, audience |-> "EVERYONE", chosen |-> {}, payment |-> "ANY",
   plans |-> {}, upfront |-> 0, minQuantity |-> 0, minValue |-> 0, limits |-> Unlimited,
   benefit |-> "PERCENTAGE", basis |-> "QUALIFYING_LINES", rate |-> 10, amount |-> 0, cap |-> 0,
   perks |-> {}, tiers |-> {}, tierOn |-> "QUANTITY", buy |-> [unit |-> AnyUnit, quantity |-> 0],
   reward |-> [unit |-> AnyUnit, quantity |-> 0], repeatable |-> FALSE, maxRewards |-> 0]

LastOne == [Plain EXCEPT !.limits.total = 1, !.payment = "OUTRIGHT_ONLY"]

OnePerBuyer == [Plain EXCEPT !.rate = 33, !.limits.customer = 1, !.cap = 50]

BuyTwoGetOne ==
  [Plain EXCEPT !.benefit = "BUY_X_GET_Y", !.buy = [unit |-> Plot, quantity |-> 2],
                !.reward = [unit |-> Plot, quantity |-> 1], !.rate = 100, !.repeatable = TRUE,
                !.cap = 150]

PlotsEarnHalf ==
  [Plain EXCEPT !.benefit = "BUY_X_GET_Y", !.buy = [unit |-> Plot, quantity |-> 2],
                !.reward = [unit |-> Half, quantity |-> 1], !.rate = 50, !.maxRewards = 2,
                !.repeatable = TRUE]

Tiers ==
  [Plain EXCEPT !.benefit = "TIERED", !.trigger = "CODE", !.code = "C", !.priority = 1,
                !.tiers = {[from |-> 1, rate |-> 0, amount |-> 10], [from |-> 3, rate |-> 25, amount |-> 0]},
                !.limits.units = 3]

FixedOnWhole ==
  [Plain EXCEPT !.benefit = "FIXED_AMOUNT", !.amount = 101, !.basis = "WHOLE_BASKET",
                !.scope.units = {Plot}, !.combination = (Plot :> 2), !.ends = 1]

Incoherent == [Plain EXCEPT !.rate = 0]

MCForms == {LastOne, Tiers}

MCDrafts == {LastOne, OnePerBuyer, BuyTwoGetOne, PlotsEarnHalf, Tiers, FixedOnWhole, Incoherent}

Lines == [unit : {Plot}, property : {7}, quantity : {2, 3, 6}, price : {100}] \union
         [unit : {Half}, property : {7}, quantity : {1, 3}, price : {61}]

MCBaskets == {<<a>> : a \in Lines} \union {<<a, b>> : a \in Lines, b \in Lines}

(* Two campaigns at once, by every rule for choosing between them: the     *)
(* buyer is never paid to buy, what forbids company is given alone, and no *)
(* rule for one campaign saves more than the highest benefit does.         *)
Pairs ==
  {<<[a EXCEPT !.status = "ACTIVE", !.stackable = s], [b EXCEPT !.status = "ACTIVE", !.stackable = t]>> :
     a \in MCDrafts, b \in {OnePerBuyer, Tiers, [FixedOnWhole EXCEPT !.amount = 1000]},
     s \in BOOLEAN, t \in BOOLEAN}

Given(pair, basket, resolution) ==
  EvaluateBasket([k \in 1..2 |-> [rules |-> pair[k], usage |-> Unused]], basket,
    [today |-> 1, buyer |-> [id |-> b1, purchases |-> 0, category |-> "any", realtor |-> 1, level |-> 1],
     plan |-> Outright, upfront |-> 0, payment |-> Outright, codes |-> {"C"}, resolution |-> resolution])

ASSUME ContestIsSound ==
  \A pair \in Pairs, basket \in {<<a>> : a \in Lines} :
    LET best  == Given(pair, basket, "HIGHEST_BENEFIT")
        stack == Given(pair, basket, "STACK")
    IN  /\ stack.payable >= 0
        /\ Cardinality(stack.applied) > 1 => \A k \in stack.applied : pair[k].stackable
        /\ Given(pair, basket, "HIGHEST_PRIORITY").discount <= best.discount

Symmetric == Permutations({i1, i2, i3})
=============================================================================
