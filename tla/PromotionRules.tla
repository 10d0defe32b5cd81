--------------------------- MODULE PromotionRules ---------------------------
(***************************************************************************)
(* shared/src/promotions: whether a basket qualifies for a promotion, what *)
(* the promotion is then worth, line by line, and which of the promotions  *)
(* that qualify is given.  Nothing here reads the clock or the database.   *)
(*                                                                         *)
(* A basket is a sequence of lines [unit, property, quantity, price]; the  *)
(* lines selected of one keep their places in it.  A promotion is its row  *)
(* and its rules in one record:                                            *)
(*   status, starts, ends, trigger, code, priority, stackable              *)
(*   scope        [units, properties], sets; both empty: the whole company *)
(*   combination  the quantity required of each unit it names              *)
(*   audience     one of AUDIENCE; chosen: who it names                    *)
(*   payment      one of PAYMENT_CONDITION; plans: the plans it names      *)
(*   upfront, minQuantity, minValue                        0: not asked    *)
(*   limits       [total, customer, day, units]            0: unlimited    *)
(*   benefit      one of BENEFIT; basis; rate, amount, cap, perks          *)
(*   tiers        a set of [from, rate, amount]; tierOn                    *)
(*   buy, reward  [unit, quantity]; repeatable, maxRewards                 *)
(* The days of starts and ends stand for their moments: a promotion that   *)
(* ends on a bare date runs to the end of it.                              *)
(*                                                                         *)
(* OverLimit and SetsOfBought are plausible mistakes in the operator that  *)
(* follows them.                                                           *)
(***************************************************************************)
EXTENDS Money

AnyUnit == 0

AnyCode == "no code"

LineValue(line) == AsMinor(line.price) * line.quantity

ValueOf(lines) == Total([k \in DOMAIN lines |-> LineValue(lines[k])])

TotalQuantity(lines) == Total([k \in DOMAIN lines |-> lines[k].quantity])

OfUnit(lines, unit) ==
  Restrict(lines, {k \in DOMAIN lines : unit \in {AnyUnit, lines[k].unit}})

-----------------------------------------------------------------------------
(* conditions.js                                                           *)
InScope(promotion, line) ==
  LET scope == promotion.scope
  IN  \/ line.unit \in scope.units
      \/ line.property \in scope.properties
      \/ scope.units = {} /\ scope.properties = {}

QualifyingLines(promotion, lines) ==
  Restrict(lines, {k \in DOMAIN lines : InScope(promotion, lines[k])})

MeetsCombination(promotion, lines) ==
  \A unit \in DOMAIN promotion.combination :
    TotalQuantity(OfUnit(lines, unit)) >= promotion.combination[unit]

WithinDates(promotion, today) == today \in promotion.starts..promotion.ends

(* An audience nobody recognises is nobody.                                *)
AudienceAllows(promotion, buyer) ==
  CASE promotion.audience = "EVERYONE" -> TRUE
    [] promotion.audience \in {"NEW_CUSTOMERS", "FIRST_PURCHASE"} -> buyer.purchases = 0
    [] promotion.audience = "EXISTING_CUSTOMERS" -> buyer.purchases > 0
    [] promotion.audience = "SELECTED_CUSTOMERS" -> buyer.id \in promotion.chosen
    [] promotion.audience = "CUSTOMER_CATEGORY" -> buyer.category \in promotion.chosen
    [] promotion.audience = "SELECTED_REALTORS" -> buyer.realtor \in promotion.chosen
    [] promotion.audience = "REALTOR_LEVELS" -> buyer.level \in promotion.chosen
    [] OTHER -> FALSE

PaymentAllows(promotion, context) ==
  /\ promotion.payment = "OUTRIGHT_ONLY" => context.payment = "outright"
  /\ promotion.payment = "INSTALLMENT_ONLY" => context.payment = "installment"
  /\ promotion.plans # {} /\ context.payment = "installment" => context.plan \in promotion.plans
  /\ context.upfront >= promotion.upfront

(* A limit is reached when what still stands reaches it.                   *)
OverLimit(limit, used) == limit = 0 \/ used <= limit

LeftUnder(limit, used) == limit = 0 \/ used < limit

WithinUsageLimits(promotion, usage) ==
  /\ LeftUnder(promotion.limits.total, usage.total)
  /\ LeftUnder(promotion.limits.customer, usage.customer)
  /\ LeftUnder(promotion.limits.day, usage.day)
  /\ LeftUnder(promotion.limits.units, usage.units)

Qualifies(promotion, basket, context, usage) ==
  LET lines == QualifyingLines(promotion, basket)
  IN  /\ promotion.status = "ACTIVE"
      /\ WithinDates(promotion, context.today)
      /\ AudienceAllows(promotion, context.buyer)
      /\ PaymentAllows(promotion, context)
      /\ WithinUsageLimits(promotion, usage)
      /\ DOMAIN lines # {}
      /\ MeetsCombination(promotion, lines)
      /\ TotalQuantity(lines) >= promotion.minQuantity
      /\ ValueOf(lines) >= promotion.minValue

-----------------------------------------------------------------------------
(* benefits.js                                                             *)
Clamped(discount, ceiling) == Greater(Lesser(discount, ceiling), 0)

Rate(percentage) == Clamped(percentage, 100)

(* The highest tier the basket reaches.                                    *)
ReachedTiers(promotion, lines) ==
  LET measured == IF promotion.tierOn = "VALUE" THEN ValueOf(lines) ELSE TotalQuantity(lines)
  IN  {tier \in promotion.tiers : measured >= tier.from}

TierFor(promotion, lines) ==
  LET reached == ReachedTiers(promotion, lines)
  IN  CHOOSE tier \in reached : \A other \in reached : tier.from >= other.from

(* The reward is the unit it names, or else the unit that is bought; a set *)
(* is what is bought and, when it is of the same unit, the reward too.     *)
RewardUnit(promotion) ==
  IF promotion.reward.unit = AnyUnit THEN promotion.buy.unit ELSE promotion.reward.unit

RewardIsQualifier(promotion) ==
  RewardUnit(promotion) # AnyUnit /\ RewardUnit(promotion) = promotion.buy.unit

SetsOfBought(promotion, qualifying) ==
  LET bought == TotalQuantity(OfUnit(qualifying, promotion.buy.unit))
  IN  IF promotion.repeatable THEN bought \div promotion.buy.quantity
      ELSE IF bought >= promotion.buy.quantity THEN 1 ELSE 0

Sets(promotion, qualifying) ==
  LET bought == TotalQuantity(OfUnit(qualifying, promotion.buy.unit))
      size   == promotion.buy.quantity +
                (IF RewardIsQualifier(promotion) THEN promotion.reward.quantity ELSE 0)
  IN  IF promotion.buy.quantity = 0 THEN 0
      ELSE IF promotion.repeatable THEN bought \div size
      ELSE IF bought >= size THEN 1 ELSE 0

RewardsEarned(promotion, qualifying) ==
  LET earned == Sets(promotion, qualifying) * promotion.reward.quantity
  IN  IF promotion.maxRewards > 0 THEN Lesser(earned, promotion.maxRewards) ELSE earned

(* Units of a line that may be the reward: not those that earned it.       *)
Rewardable(promotion, qualifying, line) ==
  IF RewardUnit(promotion) \in {AnyUnit, line.unit}
  THEN Greater(line.quantity -
               (IF RewardIsQualifier(promotion)
                THEN Sets(promotion, qualifying) * promotion.buy.quantity ELSE 0), 0)
  ELSE 0

(* The rewards are taken from the lines in their order, until none is left *)
(* to give.                                                                *)
RewardsTaken(promotion, qualifying, basket) ==
  LET upTo(k) == Total([j \in 1..k |-> Rewardable(promotion, qualifying, basket[j])])
      earned  == RewardsEarned(promotion, qualifying)
  IN  [k \in DOMAIN basket |-> Lesser(earned, upTo(k)) - Lesser(earned, upTo(k - 1))]

BuyXGetY(promotion, qualifying, basket) ==
  LET taken == RewardsTaken(promotion, qualifying, basket)
  IN  [k \in DOMAIN basket |->
         taken[k] * ((AsMinor(basket[k].price) * Rate(promotion.rate)) \div 100)]

(* What a rate takes off a value, rounded down; and a tier, which has a    *)
(* rate or else an amount.                                                 *)
PercentOff(rate, value) == (value * Rate(rate)) \div 100

AmountOff(amount, value) == Clamped(AsMinor(amount), value)

TierOff(tier, value) ==
  IF tier.rate > 0 THEN PercentOff(tier.rate, value) ELSE AmountOff(tier.amount, value)

Basis(promotion, basket) ==
  IF promotion.basis = "WHOLE_BASKET" THEN basket ELSE QualifyingLines(promotion, basket)

(* What the promotion claims before the company's own ceiling.             *)
Claimed(promotion, basket) ==
  LET qualifying == QualifyingLines(promotion, basket)
      value      == ValueOf(Basis(promotion, basket))
  IN  CASE promotion.benefit = "PERCENTAGE" -> PercentOff(promotion.rate, value)
        [] promotion.benefit = "FIXED_AMOUNT" -> AmountOff(promotion.amount, value)
        [] promotion.benefit = "TIERED" /\ ReachedTiers(promotion, qualifying) # {} ->
             TierOff(TierFor(promotion, qualifying), value)
        [] promotion.benefit = "BUY_X_GET_Y" -> Total(BuyXGetY(promotion, qualifying, basket))
        [] OTHER -> 0

(* A ceiling of 0 is none.                                                 *)
Capped(amount, ceiling) == IF ceiling > 0 THEN Lesser(amount, ceiling) ELSE amount

Discount(promotion, basket) == Capped(Claimed(promotion, basket), AsMinor(promotion.cap))

(* The discount over the lines of its basis; a reward stays on the line it *)
(* was taken from, scaled down when the ceiling cut the whole.             *)
Shares(promotion, basket) ==
  LET basis == IF promotion.benefit = "BUY_X_GET_Y" THEN basket ELSE Basis(promotion, basket)
  IN  AllocateByWeight(Discount(promotion, basket),
        IF promotion.benefit = "BUY_X_GET_Y"
        THEN BuyXGetY(promotion, QualifyingLines(promotion, basket), basket)
        ELSE [k \in DOMAIN basis |-> LineValue(basis[k])])

-----------------------------------------------------------------------------
(* evaluate.js.  The candidates are [rules, usage] by their ids, and come  *)
(* in the order of priority and then of id.  One that qualifies for        *)
(* nothing is not in the contest.                                          *)
Offered(promotion, codes) == promotion.trigger = "CODE" => promotion.code \in codes

Contestants(promotions, basket, context) ==
  {k \in DOMAIN promotions :
     LET promotion == promotions[k].rules
     IN  /\ Offered(promotion, context.codes)
         /\ Qualifies(promotion, basket, context, promotions[k].usage)
         /\ Discount(promotion, basket) > 0 \/ promotion.perks # {}}

Ranks(promotions, j, k) ==
  \/ promotions[j].rules.priority < promotions[k].rules.priority
  \/ promotions[j].rules.priority = promotions[k].rules.priority /\ j <= k

(* What the company gives of those that qualified, by its rule; a tie on   *)
(* the highest benefit goes by priority.                                   *)
First(promotions, qualified) ==
  {k \in qualified : \A j \in qualified : Ranks(promotions, k, j)}

Highest(worth) == {k \in DOMAIN worth : \A j \in DOMAIN worth : worth[j] <= worth[k]}

Resolved(promotions, qualified, basket, resolution) ==
  LET first == First(promotions, qualified)
  IN  CASE resolution = "STACK" ->
             first \union
               {k \in qualified : \A j \in first \union {k} : promotions[j].rules.stackable}
        [] resolution \in {"HIGHEST_PRIORITY", "FIRST_MATCHING"} -> first
        [] OTHER ->
             First(promotions, Highest([k \in qualified |-> Discount(promotions[k].rules, basket)]))

Chosen(promotions, basket, context) ==
  Resolved(promotions, Contestants(promotions, basket, context), basket, context.resolution)

(* The whole of what is given, never more than the basket is worth.        *)
Outcome(original, raw, chosen) ==
  [original |-> original, discount |-> Lesser(raw, original),
   payable |-> original - Lesser(raw, original), applied |-> chosen]

EvaluateBasket(promotions, basket, context) ==
  LET chosen == Chosen(promotions, basket, context)
  IN  Outcome(ValueOf(basket), Total([k \in chosen |-> Discount(promotions[k].rules, basket)]), chosen)

-----------------------------------------------------------------------------
(* validate.js: what stops a promotion from going live.                    *)
Coherent(promotion) ==
  /\ promotion.starts <= promotion.ends
  /\ promotion.trigger = "CODE" => promotion.code # AnyCode
  /\ CASE promotion.benefit = "PERCENTAGE" -> promotion.rate \in 1..100
       [] promotion.benefit = "FIXED_AMOUNT" -> promotion.amount > 0
       [] promotion.benefit = "TIERED" ->
            /\ promotion.tiers # {}
            /\ \A tier \in promotion.tiers : tier.rate > 0 \/ tier.amount > 0
            /\ \A a, b \in promotion.tiers : a.from = b.from => a = b
       [] promotion.benefit = "BUY_X_GET_Y" ->
            promotion.buy.quantity > 0 /\ promotion.reward.quantity > 0
       [] promotion.benefit = "NON_MONETARY" -> promotion.perks # {}
       [] OTHER -> FALSE
  /\ promotion.audience \in {"SELECTED_CUSTOMERS", "SELECTED_REALTORS"} => promotion.chosen # {}
  /\ \A unit \in DOMAIN promotion.combination :
       /\ promotion.combination[unit] > 0
       /\ promotion.scope.units # {} => unit \in promotion.scope.units
=============================================================================
