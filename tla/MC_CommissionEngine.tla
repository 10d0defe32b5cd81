------------------------ MODULE MC_CommissionEngine ------------------------
(***************************************************************************)
(* Instances of CommissionEngine for TLC.                                  *)
(***************************************************************************)
EXTENDS CommissionEngine

CONSTANTS r1, r2, r3, r4

MCNoRate == -1

(* The seller earns a percentage, two sponsors and a referrer the rest; no *)
(* ceiling of any kind.                                                    *)
Open ==
  [base |-> "GROSS_PRICE", declared |-> 0, alsoNet |-> FALSE, penalties |-> FALSE,
   pool |-> "UNCAPPED", percentage |-> 0, flat |-> 0, bands |-> <<>>,
   floor |-> NoRate, ceiling |-> NoRate,
   levelRate |-> NoRate, direct |-> 10, fallback |-> NoRate, referral |-> 3,
   tiers |-> <<[flat |-> FALSE, basis |-> "BASE", value |-> 5],
               [flat |-> TRUE, basis |-> "BASE", value |-> 4]>>,
   open |-> NoRate, openFrom |-> 3, openTo |-> 9, matching |-> NoRate, matchingDepth |-> 1,
   differential |-> FALSE, compression |-> "NONE", stacking |-> "STACK",
   roleCap |-> [DIRECT |-> NoRate, REFERRER |-> NoRate, UPLINE |-> NoRate],
   gate |-> "ENFORCE", resolution |-> "PRORATE", surplus |-> "BREAKAGE",
   cap |-> 0, overflow |-> "FORFEIT", least |-> 0, keepsSmall |-> FALSE]

Fixed    == [Open EXCEPT !.pool = "FLAT_PER_UNIT", !.flat = 12]
Cut      == [Open EXCEPT !.pool = "FLAT", !.flat = 11]
Rounded  == [Open EXCEPT !.compression = "ROLL_UP"]
Laddered == [Open EXCEPT !.compression = "DYNAMIC", !.open = 1, !.levelRate = 7]
Ranked   == [Open EXCEPT !.tiers = <<>>, !.differential = TRUE, !.direct = NoRate,
                         !.base = "NET_OF_DISCOUNT", !.penalties = TRUE]
Matched  == [Open EXCEPT !.matching = 50, !.stacking = "HIGHEST_ONLY",
                         !.tiers = <<[flat |-> FALSE, basis |-> "DOWNLINE", value |-> 20],
                                     [flat |-> FALSE, basis |-> "DIRECT_EARNER", value |-> 60]>>,
                         !.roleCap = [Open.roleCap EXCEPT !.UPLINE = 4],
                         !.pool = "HYBRID", !.percentage = 10, !.floor = 6, !.ceiling = 9]

MCPlans ==
  {Open, Rounded, Laddered, Ranked, Matched,
   [Cut EXCEPT !.resolution = "PROTECT_DIRECT", !.direct = 8],
   [Cut EXCEPT !.resolution = "PROTECT_DIRECT", !.direct = 13],
   [Cut EXCEPT !.resolution = "PRIORITY_ORDER", !.direct = 8],
   [Cut EXCEPT !.resolution = "REJECT", !.gate = "ADVISORY"],
   [Cut EXCEPT !.pool = "PERCENTAGE", !.percentage = 9, !.least = 2],
   [Cut EXCEPT !.pool = "TIERED", !.base = "NET_OF_COMPONENTS", !.alsoNet = TRUE,
               !.bands = <<[upTo |-> 80, value |-> 20], [upTo |-> NoRate, value |-> 8]>>],
   [Cut EXCEPT !.base = "DECLARED_AMOUNT", !.declared = 60, !.least = 3, !.keepsSmall = TRUE]}
    \cup {[Fixed EXCEPT !.surplus = u] :
            u \in {"BREAKAGE", "REDISTRIBUTE_PRORATA", "REDISTRIBUTE_TO_DIRECT",
                   "REDISTRIBUTE_TO_HOUSE_ACCOUNT"}}
    \cup {[Cut EXCEPT !.cap = 6, !.overflow = o, !.least = 3] :
            o \in {"FORFEIT", "CARRY_FORWARD", "PAY_ANYWAY_FLAGGED"}}

Capping == {[Open EXCEPT !.cap = 12]}

OneSale ==
  [gross |-> 100, discount |-> 10, components |-> 15, penalty |-> 5, units |-> 2,
   seller |-> r1, referrer |-> Nobody, ancestors |-> <<r2, r3>>]

MCDeals ==
  {OneSale, [OneSale EXCEPT !.referrer = r4, !.units = 1],
   [OneSale EXCEPT !.gross = 90, !.referrer = r2, !.ancestors = <<r2>>],
   [OneSale EXCEPT !.ancestors = <<r2, r3, r4>>]}

Standard == [rate |-> 4, qualified |-> TRUE, depth |-> NoRate, active |-> TRUE]

Sponsors ==
  [rate : {2, 6}, qualified : BOOLEAN, depth : {NoRate, 1}, active : BOOLEAN]

MCProfiles ==
  {[r \in Realtor |-> CASE r = r2 -> x [] r = r3 -> y
                       [] r = r1 -> [Standard EXCEPT !.active = z] [] OTHER -> Standard] :
     x \in Sponsors, y \in {q \in Sponsors : q.depth = NoRate}, z \in BOOLEAN}

OneProfile == {[r \in Realtor |-> Standard]}
=============================================================================
