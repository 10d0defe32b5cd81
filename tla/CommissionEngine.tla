-------------------------- MODULE CommissionEngine --------------------------
(***************************************************************************)
(* What one sale pays each realtor (shared/src/commission/index.js,        *)
(* calculate, and the modules it runs in order): the commissionable base   *)
(* and the pool, the participants and the status gate, one claim after     *)
(* another in dependency order, then the three constraint phases: the      *)
(* deal's pool, the realtor's periodic cap, the floor below which a share  *)
(* is not worth paying.  commissionStore.js then records the lines.        *)
(*                                                                         *)
(* calculate is one synchronous function; its stages are steps here so     *)
(* that a property can speak of each of them.  Percentages are whole.  A   *)
(* deal recorded by the store never has co-agents (computeForDeal).        *)
(*                                                                         *)
(* BeforeReversed is a plausible mistake in the operator that follows it,  *)
(* used only to confirm that a property notices it.                        *)
(***************************************************************************)
EXTENDS Money, FiniteSetsExt

CONSTANTS
  Realtor,
  Nobody,       \* no realtor: a deal without a referrer
  NoRate,       \* a rate or a limit that is not configured
  Plans,        \* plan versions (see PlanVersion)
  Deals,        \* sales (see Sale)
  Profiles,     \* what the realtors are like when a deal is attributed
  MaxDeals      \* bound: deals recorded in one period

Rate == Nat \cup {NoRate}

Roles == {"DIRECT", "REFERRER", "UPLINE"}

Bases == {"BASE", "POOL", "DIRECT_EARNER", "DOWNLINE"}

PlanVersion ==
  [base : {"GROSS_PRICE", "DECLARED_AMOUNT", "NET_OF_DISCOUNT", "NET_OF_COMPONENTS"},
   declared : Nat, alsoNet : BOOLEAN, penalties : BOOLEAN,
   pool : {"UNCAPPED", "PERCENTAGE", "FLAT", "FLAT_PER_UNIT", "TIERED", "HYBRID"},
   percentage : Nat, flat : Nat, floor : Rate, ceiling : Rate,
   bands : Seq([upTo : Rate, value : Nat]),
   levelRate : Rate, direct : Rate, fallback : Rate, referral : Rate,
   tiers : Seq([flat : BOOLEAN, basis : Bases, value : Nat]),
   open : Rate, openFrom : Nat, openTo : Nat, matching : Rate, matchingDepth : Nat,
   differential : BOOLEAN, compression : {"NONE", "ROLL_UP", "DYNAMIC"},
   stacking : {"STACK", "HIGHEST_ONLY"}, roleCap : [Roles -> Rate],
   gate : {"ENFORCE", "ADVISORY"},
   resolution : {"PRORATE", "PROTECT_DIRECT", "PRIORITY_ORDER", "REJECT"},
   surplus : {"BREAKAGE", "REDISTRIBUTE_PRORATA", "REDISTRIBUTE_TO_DIRECT",
              "REDISTRIBUTE_TO_HOUSE_ACCOUNT"},
   cap : Nat, overflow : {"FORFEIT", "CARRY_FORWARD", "PAY_ANYWAY_FLAGGED"},
   least : Nat, keepsSmall : BOOLEAN]

Sale ==
  [gross : Nat, discount : Nat, components : Nat, penalty : Nat, units : Nat \ {0},
   seller : Realtor, referrer : Realtor \cup {Nobody}, ancestors : Seq(Realtor)]

Profile == [Realtor -> [rate : Rate, qualified : BOOLEAN, depth : Rate, active : BOOLEAN]]

ASSUME EngineAssumption ==
  /\ Nobody \notin Realtor
  /\ NoRate = -1
  /\ MaxDeals \in Nat

ASSUME InputsAreRead ==
  /\ Plans \subseteq PlanVersion
  /\ Deals \subseteq Sale
  /\ Profiles \subseteq Profile

VARIABLES
  plan, deal, profile,
  phase,        \* the stage of calculate that comes next
  waiting,      \* participants that have not claimed yet
  lines,        \* claims, then what each of them is constrained to
  excluded,      \* generations reported as excluded, and why
  pool,         \* the pool, or NoRate when the plan has no ceiling
  left,         \* money that reached nobody, by the stage that kept it
  earned,       \* what the period's recorded deals gave each realtor
  recorded      \* how many deals were recorded

vars == <<plan, deal, profile, phase, waiting, lines, excluded, pool, left, earned, recorded>>

-----------------------------------------------------------------------------
Amounts(field) == SumFunction([i \in DOMAIN lines |-> lines[i][field]])

Claims == Amounts("gross")

Allocated == Amounts("amount")

(* bandFor: bands are ordered by ceiling, the last one open; a ceiling is  *)
(* inside its band, and the first of those that cover an amount is its.    *)
Covering(amount, bands) ==
  {k \in DOMAIN bands : bands[k].upTo = NoRate \/ amount <= bands[k].upTo}

CommissionableBase(p, d) ==
  LET net == Greater(d.gross - d.discount, 0)
      raw == CASE p.base = "DECLARED_AMOUNT"   -> p.declared * d.units
               [] p.base = "NET_OF_DISCOUNT"   -> net
               [] p.base = "NET_OF_COMPONENTS" ->
                    Greater((IF p.alsoNet THEN net ELSE d.gross) - d.components, 0)
               [] OTHER                        -> d.gross
  IN  raw + (IF p.penalties THEN d.penalty ELSE 0)

DerivePool(p, base, units) ==
  LET share == PercentageOf(base, p.percentage)
      bands == Covering(base, p.bands)
      least == IF p.floor = NoRate THEN share ELSE Greater(share, p.floor)
  IN  CASE p.pool = "PERCENTAGE"    -> share
        [] p.pool = "FLAT"          -> p.flat
        [] p.pool = "FLAT_PER_UNIT" -> p.flat * units
        [] p.pool = "TIERED"        ->
             IF bands = {} THEN 0 ELSE PercentageOf(base, p.bands[Min(bands)].value)
        [] p.pool = "HYBRID"        ->
             IF p.ceiling = NoRate THEN least ELSE Lesser(least, p.ceiling)
        [] OTHER                    -> NoRate

-----------------------------------------------------------------------------
(***************************************************************************)
(* Participants.  The upline chain is numbered, and the tiers that nobody  *)
(* occupies are reported.                                                  *)
(***************************************************************************)
Paying(p) == p.tiers # <<>> \/ p.open # NoRate

HasTier(p, generation) ==
  \/ generation \in DOMAIN p.tiers
  \/ p.open # NoRate /\ generation \in p.openFrom..p.openTo

WithinLevelDepth(f, r, generation) == f[r].depth = NoRate \/ generation <= f[r].depth

Upline(r, generation) == [realtor |-> r, role |-> "UPLINE", generation |-> generation]

(* DYNAMIC takes the unqualified out of the ladder and numbers the others; *)
(* NONE and ROLL_UP number by distance.                                    *)
GenerationOf(p, f, chain, n) ==
  IF p.compression = "DYNAMIC" THEN Cardinality({m \in 1..n : f[chain[m]].qualified}) ELSE n

Seated(p, f, chain) ==
  {n \in DOMAIN chain :
     f[chain[n]].qualified /\ WithinLevelDepth(f, chain[n], GenerationOf(p, f, chain, n))}

(* Under ROLL_UP a vacated tier is carried to the next ancestor who is     *)
(* seated, if there is one.                                                *)
Vacated(p, f, chain) ==
  IF p.compression = "ROLL_UP"
  THEN {g \in DOMAIN chain \ Seated(p, f, chain) : HasTier(p, g)}
  ELSE {}

HeirTo(g, seated) == {n \in seated : n > g /\ \A m \in seated : m > g => n <= m}

Uplines(p, f, chain) ==
  LET seated == Seated(p, f, chain)
  IN  {Upline(chain[n], GenerationOf(p, f, chain, n)) : n \in seated}
        \cup UNION {{Upline(chain[n], g) : n \in HeirTo(g, seated)} : g \in Vacated(p, f, chain)}

LeftOut(p, f, chain, n) ==
  IF f[chain[n]].qualified THEN <<GenerationOf(p, f, chain, n), "BEYOND_LEVEL_DEPTH">>
  ELSE <<IF p.compression = "DYNAMIC" THEN 0 ELSE n, "UNQUALIFIED">>

(* Tiers the tree was never deep enough to reach.                          *)
Unreached(p, f, chain) ==
  {g \in DOMAIN p.tiers : \A n \in DOMAIN chain : g > GenerationOf(p, f, chain, n)}

ExcludedFrom(p, f, chain) ==
  LET seated == Seated(p, f, chain)
      absent == Unreached(p, f, chain)
                  \cup {g \in Vacated(p, f, chain) : HeirTo(g, seated) = {}}
  IN  {LeftOut(p, f, chain, n) : n \in DOMAIN chain \ seated}
        \cup {<<g, "ABSENT">> : g \in absent}

(* buildParticipants: the seller, the referrer when it is somebody else,   *)
(* and the upline chain when some rule pays uplines.                       *)
PaysUpline(p) == Paying(p) \/ p.matching # NoRate \/ p.differential

BuildParticipants(p, f, d) ==
  {[realtor |-> d.seller, role |-> "DIRECT", generation |-> 0]}
    \cup (IF d.referrer \in {Nobody, d.seller} THEN {}
          ELSE {[realtor |-> d.referrer, role |-> "REFERRER", generation |-> 0]})
    \cup (IF PaysUpline(p) THEN Uplines(p, f, d.ancestors) ELSE {})

(* gateParticipants: ENFORCE leaves out whoever is not active.             *)
GateParticipants(p, f, participants) ==
  {q \in participants : p.gate = "ADVISORY" \/ f[q.realtor].active}

(* The dependency order: the seller, the referrer, then the uplines by     *)
(* generation, of which no two have the same.                              *)
PlaceOf(q) ==
  CASE q.role = "DIRECT" -> 0 [] q.role = "REFERRER" -> 1 [] OTHER -> 1 + q.generation

-----------------------------------------------------------------------------
(***************************************************************************)
(* Claims.  A rule reads what those nearer the sale already claimed.       *)
(***************************************************************************)

(* resolveRate: the plan's rate for the realtor's level, else the rule's   *)
(* own value, else the level's rate, else the plan's default.              *)
ResolveRate(p, f, r) ==
  LET sources == <<p.levelRate, p.direct, f[r].rate, p.fallback>>
      given   == {k \in 1..4 : sources[k] # NoRate}
  IN  IF given = {} THEN 0 ELSE sources[Min(given)]

ClaimedBy(test(_)) ==
  SumFunction([i \in DOMAIN lines |-> IF test(lines[i]) THEN lines[i].gross ELSE 0])

IsDirect(line) == line.role = "DIRECT"

Below(q, line) ==
  IF q.generation <= 1 THEN IsDirect(line)
  ELSE line.role = "UPLINE" /\ line.generation = q.generation - 1

(* resolveBasis                                                            *)
BasisAmount(basis, q, base) ==
  CASE basis = "POOL"            -> IF pool = NoRate THEN 0 ELSE pool
    [] basis = "DIRECT_EARNER"   -> ClaimedBy(IsDirect)
    [] basis = "DOWNLINE"        -> ClaimedBy(LAMBDA line : Below(q, line))
    [] OTHER                     -> base

(* The rate a line was paid at, as the differential of somebody above      *)
(* reads it: the rank for a differential line, else its rate.              *)
RateBelow(line) == IF line.rank # NoRate THEN line.rank ELSE line.rate

(* rankDifferential: the spread over the highest rate paid below.          *)
Spread(q) ==
  LET rank    == IF profile[q.realtor].rate = NoRate THEN 0 ELSE profile[q.realtor].rate
      beneath == {i \in DOMAIN lines :
                    \/ IsDirect(lines[i])
                    \/ lines[i].role = "UPLINE" /\ lines[i].generation < q.generation}
      paid    == {RateBelow(lines[i]) : i \in beneath}
  IN  Greater(rank - Max(paid \cup {0}), 0)

Claim(q, rule, gross, rate, rank) ==
  [realtor |-> q.realtor, role |-> q.role, generation |-> q.generation, rule |-> rule,
   gross |-> gross, amount |-> gross, rate |-> rate, rank |-> rank]

TierFor(generation) ==
  IF generation \in DOMAIN plan.tiers THEN plan.tiers[generation]
  ELSE [flat |-> FALSE, basis |-> "BASE", value |-> plan.open]

(* rulesFor and valueFor: the claims a participant's rules give it.        *)
ClaimsOf(q, base) ==
  LET rate  == ResolveRate(plan, profile, q.realtor)
      tier  == TierFor(q.generation)
      basis == BasisAmount(tier.basis, q, base)
      below == BasisAmount("DOWNLINE", q, base)
      rank  == IF profile[q.realtor].rate = NoRate THEN 0 ELSE profile[q.realtor].rate
  IN  CASE q.role = "DIRECT" ->
             <<Claim(q, "DIRECT_SALE", PercentageOf(base, rate), rate, NoRate)>>
        [] q.role = "REFERRER" ->
             IF plan.referral = NoRate THEN <<>>
             ELSE <<Claim(q, "REFERRAL_BONUS", plan.referral, 0, NoRate)>>
        [] OTHER ->
             (IF HasTier(plan, q.generation)
              THEN <<Claim(q, "GENERATIONAL_OVERRIDE",
                           IF tier.flat THEN tier.value ELSE PercentageOf(basis, tier.value),
                           IF tier.flat THEN 0 ELSE tier.value, NoRate)>>
              ELSE <<>>)
             \o (IF plan.matching # NoRate /\ q.generation <= plan.matchingDepth
                 THEN <<Claim(q, "MATCHING_BONUS", PercentageOf(below, plan.matching),
                              plan.matching, NoRate)>>
                 ELSE <<>>)
             \o (IF plan.differential
                 THEN <<Claim(q, "RANK_DIFFERENTIAL", PercentageOf(base, Spread(q)),
                              Spread(q), rank)>>
                 ELSE <<>>)

(* applyCaps: the role's ceiling on one deal.                              *)
Capped(claims) ==
  [i \in DOMAIN claims |->
     LET most == Lesser(claims[i].gross, plan.roleCap[claims[i].role])
     IN  IF plan.roleCap[claims[i].role] = NoRate THEN claims[i]
         ELSE [claims[i] EXCEPT !.gross = most, !.amount = most]]

(* Under HIGHEST_ONLY a participant keeps the first of its largest claims. *)
Stacked(claims) ==
  LET best == {i \in DOMAIN claims :
                 \A j \in DOMAIN claims :
                   \/ claims[j].gross < claims[i].gross
                   \/ claims[j].gross = claims[i].gross /\ i <= j}
  IN  IF plan.stacking = "HIGHEST_ONLY" /\ Len(claims) > 1
      THEN <<claims[CHOOSE i \in best : TRUE]>>
      ELSE claims

-----------------------------------------------------------------------------
(***************************************************************************)
(* Constraints.                                                            *)
(***************************************************************************)
WithAmounts(amount) == [i \in DOMAIN lines |-> [lines[i] EXCEPT !.amount = amount[i]]]

Gross == [i \in DOMAIN lines |-> lines[i].gross]

Prorate == AllocateByWeight(pool, Gross)

(* The claims of the lines of a set, the others weightless.                *)
GrossOf(S) == [i \in DOMAIN lines |-> IF i \in S THEN lines[i].gross ELSE 0]

ProtectDirect ==
  LET direct == {i \in DOMAIN lines : IsDirect(lines[i])}
      total  == SumFunction(GrossOf(direct))
      shares == AllocateByWeight(pool - total, GrossOf(DOMAIN lines \ direct))
  IN  IF total >= pool THEN AllocateByWeight(pool, GrossOf(direct))
      ELSE [i \in DOMAIN lines |-> IF i \in direct THEN lines[i].gross ELSE shares[i]]

(* PRIORITY_ORDER: no line carries a priority, so the order is the role    *)
(* and then the generation; each takes what the ones before it left.       *)
BeforeReversed(i, j) == PlaceOf(lines[i]) > PlaceOf(lines[j])

Before(i, j) ==
  \/ PlaceOf(lines[i]) < PlaceOf(lines[j])
  \/ PlaceOf(lines[i]) = PlaceOf(lines[j]) /\ i < j

TakenInOrder(i, taken) == Greater(Lesser(lines[i].gross, pool - taken), 0)

PriorityOrder ==
  [i \in DOMAIN lines |->
     TakenInOrder(i, SumFunction(GrossOf({j \in DOMAIN lines : Before(j, i)})))]

FixedPool == plan.pool \in {"FLAT", "FLAT_PER_UNIT"}

(* applySurplus: what each line gets of a fixed pool that is not used up.  *)
Surplus == pool - Claims

WithSurplus ==
  LET direct == {i \in DOMAIN lines : IsDirect(lines[i])}
  IN  CASE plan.surplus = "REDISTRIBUTE_PRORATA" -> AllocateByWeight(pool, Gross)
        [] plan.surplus = "REDISTRIBUTE_TO_DIRECT" /\ direct # {} ->
             [Gross EXCEPT ![Min(direct)] = @ + Surplus]
        [] OTHER -> Gross

Kept(breakage, house) == [left EXCEPT !.breakage = breakage, !.house = house]

-----------------------------------------------------------------------------
Nothing == [breakage |-> 0, house |-> 0, carried |-> 0, forfeited |-> 0, dropped |-> 0]

Init ==
  /\ plan \in Plans /\ deal \in Deals /\ profile \in Profiles
  /\ phase = "participants"
  /\ waiting = {} /\ lines = <<>> /\ excluded = {}
  /\ pool = NoRate
  /\ left = Nothing
  /\ earned = [r \in Realtor |-> 0]
  /\ recorded = 0

Base == CommissionableBase(plan, deal)

(* The base, the pool, the participants and the gate.                      *)
Participants ==
  LET built == BuildParticipants(plan, profile, deal)
      gated == GateParticipants(plan, profile, built)
      beside == IF PaysUpline(plan) THEN ExcludedFrom(plan, profile, deal.ancestors) ELSE {}
  IN  /\ phase = "participants"
      /\ pool' = DerivePool(plan, Base, deal.units)
      /\ waiting' = gated
      /\ excluded' = beside \cup {<<q.generation, "INELIGIBLE">> : q \in built \ gated}
      /\ phase' = "claims"
      /\ UNCHANGED <<plan, deal, profile, lines, left, earned, recorded>>

(* computeEntitlements, one participant at a time.                         *)
NextInOrder(q) == q \in waiting /\ \A other \in waiting : PlaceOf(q) <= PlaceOf(other)

ClaimNext ==
  \E q \in waiting :
    LET claims == Capped(ClaimsOf(q, Base))
        untiered == claims = <<>> /\ q.role = "UPLINE"
        surpassed == Len(claims) > Len(Stacked(claims))
    IN  /\ phase = "claims"
        /\ NextInOrder(q)
        /\ lines' = lines \o Stacked(claims)
        /\ waiting' = waiting \ {q}
        /\ excluded' = excluded
             \cup (IF untiered THEN {<<q.generation, "NO_TIER">>} ELSE {})
             \cup (IF surpassed THEN {<<q.generation, "SUPERSEDED_BY_HIGHER_RULE">>} ELSE {})
        /\ UNCHANGED <<plan, deal, profile, phase, pool, left, earned, recorded>>

(* applyConstraints: the claims do not fit the pool ...                    *)
ConstrainExcess ==
  LET amounts == CASE plan.resolution = "PROTECT_DIRECT" -> ProtectDirect
                   [] plan.resolution = "PRIORITY_ORDER" -> PriorityOrder
                   [] OTHER -> Prorate
  IN  /\ phase = "claims" /\ waiting = {}
      /\ pool # NoRate /\ Claims > pool
      /\ IF plan.resolution = "REJECT"
         THEN /\ lines' = <<>> /\ phase' = "rejected" /\ UNCHANGED left
         ELSE /\ lines' = WithAmounts(amounts)
              /\ left' = Kept(pool - SumFunction(amounts), 0)
              /\ phase' = "caps"
      /\ UNCHANGED <<plan, deal, profile, waiting, excluded, pool, earned, recorded>>

(* ... or they do: every claim stands, and only a fixed pool has a surplus *)
(* to dispose of.                                                          *)
ConstrainWithin ==
  LET spare  == FixedPool /\ Claims < pool
      nobody == \A i \in DOMAIN lines : ~IsDirect(lines[i])
      breaks == \/ plan.surplus = "BREAKAGE"
                \/ plan.surplus = "REDISTRIBUTE_TO_DIRECT" /\ nobody
      house  == plan.surplus = "REDISTRIBUTE_TO_HOUSE_ACCOUNT"
  IN  /\ phase = "claims" /\ waiting = {}
      /\ pool = NoRate \/ Claims <= pool
      /\ lines' = IF spare THEN WithAmounts(WithSurplus) ELSE lines
      /\ left' = IF spare THEN Kept(IF breaks THEN Surplus ELSE 0, IF house THEN Surplus ELSE 0)
                 ELSE left
      /\ phase' = "caps"
      /\ UNCHANGED <<plan, deal, profile, waiting, excluded, pool, earned, recorded>>

(* applyPeriodicCaps, with the map of earlier earnings that computeForDeal *)
(* gives it, which is empty: only the lines of this deal count.            *)
Headroom(i) ==
  LET sameRealtor == {j \in 1..(i - 1) : lines[j].realtor = lines[i].realtor}
      already     == SumFunctionOnSet([j \in DOMAIN lines |-> lines[j].amount], sameRealtor)
  IN  Greater(plan.cap - already, 0)

Over(i) == Greater(lines[i].amount - Headroom(i), 0)

ApplyPeriodicCaps ==
  LET over  == IF plan.cap = 0 THEN [i \in DOMAIN lines |-> 0]
               ELSE [i \in DOMAIN lines |-> Over(i)]
      total == SumFunction(over)
  IN  /\ phase = "caps"
      /\ IF plan.overflow = "PAY_ANYWAY_FLAGGED"
         THEN UNCHANGED <<lines, left>>
         ELSE /\ lines' = WithAmounts([i \in DOMAIN lines |-> lines[i].amount - over[i]])
              /\ left' = IF plan.overflow = "CARRY_FORWARD"
                         THEN [left EXCEPT !.carried = total]
                         ELSE [left EXCEPT !.forfeited = total]
      /\ phase' = "floor"
      /\ UNCHANGED <<plan, deal, profile, waiting, excluded, pool, earned, recorded>>

(* applyFloor: a share too small to send is dropped.                       *)
ApplyFloor ==
  LET dropped == {i \in DOMAIN lines : /\ ~plan.keepsSmall
                                       /\ lines[i].amount > 0
                                       /\ lines[i].amount < plan.least}
  IN  /\ phase = "floor"
      /\ lines' = WithAmounts([i \in DOMAIN lines |-> IF i \in dropped THEN 0
                                                      ELSE lines[i].amount])
      /\ left' = [left EXCEPT !.dropped =
                    SumFunctionOnSet([i \in DOMAIN lines |-> lines[i].amount], dropped)]
      /\ phase' = "done"
      /\ UNCHANGED <<plan, deal, profile, waiting, excluded, pool, earned, recorded>>

(* accrueForDeal records the lines, or nothing of a rejected deal, and the *)
(* next sale of the period comes.                                          *)
Record ==
  LET mine(r) == {i \in DOMAIN lines : lines[i].realtor = r}
      amount  == [i \in DOMAIN lines |-> lines[i].amount]
  IN  /\ phase \in {"done", "rejected"}
      /\ recorded < MaxDeals
      /\ recorded' = recorded + 1
      /\ earned' = [r \in Realtor |-> earned[r] + SumFunctionOnSet(amount, mine(r))]
      /\ deal' \in Deals
      /\ phase' = "participants"
      /\ waiting' = {} /\ lines' = <<>> /\ excluded' = {}
      /\ pool' = NoRate /\ left' = Nothing
      /\ UNCHANGED <<plan, profile>>

Next ==
  \/ Participants \/ ClaimNext
  \/ ConstrainExcess \/ ConstrainWithin
  \/ ApplyPeriodicCaps \/ ApplyFloor \/ Record

Spec == Init /\ [][Next]_vars

-----------------------------------------------------------------------------
(***************************************************************************)
(* Properties                                                              *)
(***************************************************************************)
Stages == {"participants", "claims", "caps", "floor", "done", "rejected"}

Rules == {"DIRECT_SALE", "REFERRAL_BONUS", "GENERATIONAL_OVERRIDE", "MATCHING_BONUS",
          "RANK_DIFFERENTIAL"}

Participant == [realtor : Realtor, role : Roles, generation : Nat]

Line ==
  [realtor : Realtor, role : Roles, generation : Nat,
   rule : Rules, gross : Nat, amount : Nat, rate : Nat, rank : Rate]

(* The type of a calculation.                                              *)
TypeOK ==
  /\ plan \in PlanVersion /\ deal \in Sale /\ profile \in Profile
  /\ phase \in Stages
  /\ waiting \subseteq Participant
  /\ lines \in Seq(Line)
  /\ pool \in Rate
  /\ left \in [DOMAIN Nothing -> Nat]
  /\ earned \in [Realtor -> Nat]

(* The constraint phase was entered with claims that exceed the pool.      *)
Excess == pool # NoRate /\ Claims > pool

(* A fixed pool that is to be shared in proportion has nobody to share it  *)
(* with.                                                                   *)
NobodyToShareWith == FixedPool /\ Claims = 0 /\ plan.surplus = "REDISTRIBUTE_PRORATA"

(* Every unit of a fixed or an exceeded pool, and else every unit that was *)
(* claimed, ends with a realtor or is reported by the stage that kept it.  *)
PoolAccountedFor ==
  phase = "done" =>
    Allocated + SumFunction(left) = IF FixedPool \/ Excess THEN pool ELSE Claims

(* And so it does, no stage keeping less than nothing, wherever somebody   *)
(* claims something: the three constraint phases lose nothing and invent   *)
(* nothing between them.                                                   *)
MoneyAccountedFor ==
  /\ \A stage \in DOMAIN left : left[stage] >= 0
  /\ ~NobodyToShareWith => PoolAccountedFor

(* Claims cut by PRORATE are cut alike: each share is within one unit of   *)
(* its exact quota, and a larger claim never ends below a smaller one.     *)
CutInProportion ==
  phase = "caps" /\ Excess /\ plan.resolution = "PRORATE" =>
    \A i \in DOMAIN lines :
      LET error == lines[i].amount * Claims - lines[i].gross * pool
      IN  /\ error < Claims /\ -error < Claims
          /\ \A j \in DOMAIN lines :
               lines[i].gross > lines[j].gross => lines[i].amount >= lines[j].amount

(* Under PROTECT_DIRECT nobody else is paid from a pool that cuts the      *)
(* seller; under PRIORITY_ORDER nobody is paid before everybody nearer the *)
(* sale is paid in full.                                                   *)
PrecedenceKept ==
  phase = "caps" /\ Excess =>
    \A i, j \in DOMAIN lines :
      LET first == \/ plan.resolution = "PROTECT_DIRECT" /\ IsDirect(lines[i])
                   \/ plan.resolution = "PRIORITY_ORDER"
      IN  first /\ PlaceOf(lines[i]) < PlaceOf(lines[j]) /\ lines[j].amount > 0
            => lines[i].amount = lines[i].gross

(* The ceiling on what one realtor may earn in a period holds over all the *)
(* deals of the period.                                                    *)
EarnedWithinPeriodicCap ==
  plan.cap > 0 /\ plan.overflow # "PAY_ANYWAY_FLAGGED" =>
    \A r \in Realtor : earned[r] <= plan.cap
=============================================================================
