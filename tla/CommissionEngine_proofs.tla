----------------------- MODULE CommissionEngine_proofs -----------------------
(***************************************************************************)
(* What holds of CommissionEngine for every family of realtors, plan       *)
(* versions, sales and profiles: whatever the rules of a plan claim, the   *)
(* constraint phases account for the money, cut alike what is cut in       *)
(* proportion and keep the precedence where one is configured.             *)
(***************************************************************************)
EXTENDS CommissionEngine, Money_proofs, SequenceTheorems, TLAPS

(* The least of some places, and the greatest of some amounts.             *)
LEMMA MinIsIn ==
  ASSUME NEW T, T \subseteq Nat, T # {}
  PROVE  Min(T) \in T /\ \A y \in T : Min(T) <= y
<1>1. \E x \in T : \A y \in T : x <= y
  BY LeastNatural
<1> QED
  BY <1>1 DEF Min

LEMMA GreatestInteger ==
  ASSUME NEW T, IsFiniteSet(T), T \subseteq Int, T # {}
  PROVE  \E x \in T : \A y \in T : y <= x
<1> DEFINE P == {A \in SUBSET T : A # {} => \E x \in A : \A y \in A : y <= x}
<1>1. {} \in P
  OBVIOUS
<1>2. ASSUME NEW A \in (SUBSET T) \cap P, NEW x \in T \ A PROVE A \union {x} \in P
  <2>1. CASE A = {}
    BY <2>1
  <2>2. CASE A # {}
    <3>1. PICK m \in A : \A y \in A : y <= m
      BY <2>2
    <3>2. m \in Int /\ x \in Int
      OBVIOUS
    <3>3. CASE x <= m
      BY <3>1, <3>2, <3>3
    <3>4. CASE ~(x <= m)
      BY <3>1, <3>2, <3>4
    <3> QED
      BY <3>3, <3>4
  <2> QED
    BY <2>1, <2>2
<1>3. T \in P
  <2> HIDE DEF P
  <2> QED
    BY <1>1, <1>2, BySetInduction
<1> QED
  BY <1>3

LEMMA MaxIsIn ==
  ASSUME NEW T, IsFiniteSet(T), T \subseteq Int, T # {}
  PROVE  Max(T) \in T
<1>1. PICK x \in T : \A y \in T : y <= x
  BY GreatestInteger
<1>2. \A y \in T : x >= y
  BY <1>1
<1> QED
  BY <1>2 DEF Max

-----------------------------------------------------------------------------
(* What is derived from the plan and the sale is an amount.                *)
LEMMA PercentageIsAmount ==
  ASSUME NEW minor \in Nat, NEW rate \in Nat
  PROVE  PercentageOf(minor, rate) \in Nat
<1>1. 2 * minor * rate + 100 \in Nat
  OBVIOUS
<1>2. \A x \in Nat : x \div 200 \in Nat
  OBVIOUS
<1> QED
  BY <1>1, <1>2 DEF PercentageOf

LEMMA GreaterIsAmount ==
  ASSUME NEW a \in Int, NEW b \in Nat
  PROVE  Greater(a, b) \in Nat /\ Greater(a, b) >= a /\ Greater(a, b) >= b
BY DEF Greater

LEMMA LesserIsAmount ==
  ASSUME NEW a \in Nat, NEW b \in Nat
  PROVE  Lesser(a, b) \in Nat /\ Lesser(a, b) <= a /\ Lesser(a, b) <= b
BY DEF Lesser

LEMMA RatesAreRead == NoRate = -1 /\ NoRate \in Int /\ NoRate \notin Nat
BY EngineAssumption

LEMMA BaseIsAmount ==
  ASSUME NEW p \in PlanVersion, NEW d \in Sale
  PROVE  CommissionableBase(p, d) \in Nat
<1> DEFINE net == Greater(d.gross - d.discount, 0)
<1>1. /\ d.gross \in Nat /\ d.discount \in Nat /\ d.components \in Nat
      /\ d.penalty \in Nat /\ d.units \in Nat /\ p.declared \in Nat
  BY DEF Sale, PlanVersion
<1>2. net \in Nat
  BY <1>1 DEF Greater
<1>3. p.declared * d.units \in Nat
  BY <1>1
<1>4. Greater((IF p.alsoNet THEN net ELSE d.gross) - d.components, 0) \in Nat
  <2> HIDE DEF net
  <2> QED
    BY <1>1, <1>2 DEF Greater
<1> HIDE DEF net
<1>5. (CASE p.base = "DECLARED_AMOUNT"   -> p.declared * d.units
         [] p.base = "NET_OF_DISCOUNT"   -> net
         [] p.base = "NET_OF_COMPONENTS" ->
              Greater((IF p.alsoNet THEN net ELSE d.gross) - d.components, 0)
         [] OTHER                        -> d.gross) \in Nat
  BY <1>1, <1>2, <1>3, <1>4
<1> QED
  BY <1>1, <1>5 DEF CommissionableBase, net

LEMMA PoolIsRead ==
  ASSUME NEW p \in PlanVersion, NEW base \in Nat, NEW units \in Nat
  PROVE  /\ DerivePool(p, base, units) \in Rate
         /\ p.pool \in {"FLAT", "FLAT_PER_UNIT"} => DerivePool(p, base, units) \in Nat
<1> DEFINE share == PercentageOf(base, p.percentage)
           bands == Covering(base, p.bands)
           least == IF p.floor = NoRate THEN share ELSE Greater(share, p.floor)
<1>1. /\ p.percentage \in Nat /\ p.flat \in Nat /\ p.floor \in Rate /\ p.ceiling \in Rate
      /\ p.bands \in Seq([upTo : Rate, value : Nat])
  BY DEF PlanVersion
<1>2. share \in Nat
  BY <1>1, PercentageIsAmount
<1>3. p.flat * units \in Nat
  BY <1>1
<1>4. least \in Nat
  <2> HIDE DEF share
  <2> QED
    BY <1>1, <1>2 DEF Rate, Greater
<1>5. p.ceiling # NoRate => Lesser(least, p.ceiling) \in Nat
  <2> HIDE DEF least
  <2> QED
    BY <1>1, <1>4, LesserIsAmount DEF Rate
<1>6. bands # {} => PercentageOf(base, p.bands[Min(bands)].value) \in Nat
  <2> SUFFICES ASSUME bands # {} PROVE PercentageOf(base, p.bands[Min(bands)].value) \in Nat
    OBVIOUS
  <2>1. bands \subseteq 1..Len(p.bands)
    BY <1>1 DEF Covering
  <2>2. Min(bands) \in bands
    <3>1. bands \subseteq Nat
      BY <1>1, <2>1
    <3> HIDE DEF bands
    <3> QED
      BY <3>1, MinIsIn
  <2>3. p.bands[Min(bands)].value \in Nat
    <3> HIDE DEF bands
    <3>1. p.bands[Min(bands)] \in [upTo : Rate, value : Nat]
      BY <1>1, <2>1, <2>2, ElementOfSeq
    <3> QED
      BY <3>1
  <2> HIDE DEF bands
  <2> QED
    BY <2>3, PercentageIsAmount
<1>7. NoRate \in Rate /\ Nat \subseteq Rate
  BY DEF Rate
<1> HIDE DEF share, bands, least
<1>8. /\ (CASE p.pool = "PERCENTAGE"    -> share
            [] p.pool = "FLAT"          -> p.flat
            [] p.pool = "FLAT_PER_UNIT" -> p.flat * units
            [] p.pool = "TIERED"        ->
                 IF bands = {} THEN 0 ELSE PercentageOf(base, p.bands[Min(bands)].value)
            [] p.pool = "HYBRID"        ->
                 IF p.ceiling = NoRate THEN least ELSE Lesser(least, p.ceiling)
            [] OTHER                    -> NoRate) \in Rate
  BY <1>1, <1>2, <1>3, <1>4, <1>5, <1>6, <1>7
<1>9. DerivePool(p, base, units) \in Rate
  BY <1>8 DEF DerivePool, share, bands, least
<1>10. p.pool \in {"FLAT", "FLAT_PER_UNIT"} => DerivePool(p, base, units) \in Nat
  BY <1>1, <1>3 DEF DerivePool
<1> QED
  BY <1>9, <1>10

(* The greatest of finitely many numbers, and the images of a finite set.  *)
LEMMA FiniteImage ==
  ASSUME NEW S, IsFiniteSet(S), NEW f
  PROVE  IsFiniteSet({f[x] : x \in S})
<1> DEFINE T == {f[x] : x \in S}
           g == [x \in S |-> f[x]]
<1>1. g \in Surjection(S, T)
  BY DEF Surjection
<1>2. IsFiniteSet(T)
  <2> HIDE DEF T, g
  <2> QED
    BY <1>1, FS_Surjection
<1> QED
  BY <1>2

-----------------------------------------------------------------------------
(* Whoever the tree seats is a participant.                                *)
LEMMA GenerationIsNumbered ==
  ASSUME NEW p, NEW f, NEW chain, NEW n \in Nat
  PROVE  GenerationOf(p, f, chain, n) \in Nat
<1>1. IsFiniteSet(1..n)
  BY FS_Interval
<1>2. {m \in 1..n : f[chain[m]].qualified} \in SUBSET (1..n)
  OBVIOUS
<1>3. IsFiniteSet({m \in 1..n : f[chain[m]].qualified})
  BY <1>1, <1>2, FS_Subset
<1>4. Cardinality({m \in 1..n : f[chain[m]].qualified}) \in Nat
  BY <1>3, FS_CardinalityType
<1> QED
  BY <1>4 DEF GenerationOf

LEMMA UplinesAreParticipants ==
  ASSUME NEW p, NEW f, NEW chain \in Seq(Realtor)
  PROVE  Uplines(p, f, chain) \subseteq Participant
<1> DEFINE seated == Seated(p, f, chain)
<1>1. seated \subseteq DOMAIN chain /\ DOMAIN chain \subseteq Nat
  BY DEF Seated
<1>2. \A n \in DOMAIN chain : chain[n] \in Realtor
  OBVIOUS
<1>3. \A n \in seated, g \in Nat : Upline(chain[n], g) \in Participant
  BY <1>1, <1>2 DEF Upline, Participant, Roles
<1>4. \A n \in seated : GenerationOf(p, f, chain, n) \in Nat
  BY <1>1, GenerationIsNumbered
<1>5. \A g : HeirTo(g, seated) \subseteq seated
  BY DEF HeirTo
<1>6. Vacated(p, f, chain) \subseteq Nat
  BY <1>1 DEF Vacated
<1> HIDE DEF seated
<1>7. \A n \in seated : Upline(chain[n], GenerationOf(p, f, chain, n)) \in Participant
  BY <1>3, <1>4
<1>8. \A g \in Vacated(p, f, chain) : \A n \in HeirTo(g, seated) :
        Upline(chain[n], g) \in Participant
  BY <1>3, <1>5, <1>6
<1>9. {Upline(chain[n], GenerationOf(p, f, chain, n)) : n \in seated} \subseteq Participant
  BY <1>7
<1>10. UNION {{Upline(chain[n], g) : n \in HeirTo(g, seated)} : g \in Vacated(p, f, chain)}
         \subseteq Participant
  BY <1>8
<1> QED
  BY <1>9, <1>10 DEF Uplines, seated

LEMMA BuiltAreParticipants ==
  ASSUME NEW p, NEW f, NEW d \in Sale
  PROVE  BuildParticipants(p, f, d) \subseteq Participant
<1>1. /\ d.seller \in Realtor /\ d.referrer \in Realtor \cup {Nobody}
      /\ d.ancestors \in Seq(Realtor)
  BY DEF Sale
<1>2. Uplines(p, f, d.ancestors) \subseteq Participant
  BY <1>1, UplinesAreParticipants
<1>3. [realtor |-> d.seller, role |-> "DIRECT", generation |-> 0] \in Participant
  BY <1>1 DEF Participant, Roles
<1>4. d.referrer \notin {Nobody, d.seller} =>
        [realtor |-> d.referrer, role |-> "REFERRER", generation |-> 0] \in Participant
  BY <1>1 DEF Participant, Roles
<1> QED
  BY <1>2, <1>3, <1>4 DEF BuildParticipants

-----------------------------------------------------------------------------
(* The lines of a calculation, and the amounts in them.                    *)
LEMMA LinesAreLines ==
  ASSUME lines \in Seq(Line)
  PROVE  /\ Len(lines) \in Nat /\ DOMAIN lines = 1..Len(lines)
         /\ IsFiniteSet(DOMAIN lines) /\ DOMAIN lines \subseteq Nat
         /\ \A i \in DOMAIN lines :
              /\ lines[i] \in Line
              /\ lines[i].realtor \in Realtor /\ lines[i].role \in Roles
              /\ lines[i].generation \in Nat
              /\ lines[i].gross \in Nat /\ lines[i].amount \in Nat
              /\ lines[i].rate \in Nat /\ lines[i].rank \in Rate
<1>1. Len(lines) \in Nat /\ DOMAIN lines = 1..Len(lines)
  OBVIOUS
<1>2. IsFiniteSet(1..Len(lines))
  BY <1>1, FS_Interval
<1>3. \A i \in DOMAIN lines : lines[i] \in Line
  OBVIOUS
<1>4. \A l \in Line : /\ l.realtor \in Realtor /\ l.role \in Roles
                      /\ l.generation \in Nat
                      /\ l.gross \in Nat /\ l.amount \in Nat
                      /\ l.rate \in Nat /\ l.rank \in Rate
  BY DEF Line
<1> QED
  BY <1>1, <1>2, <1>3, <1>4

LEMMA AmountsAreSummed ==
  ASSUME lines \in Seq(Line), NEW f, f \in [DOMAIN lines -> Nat]
  PROVE  /\ AmountsOver(f, Len(lines))
         /\ SumFunction(f) \in Nat
         /\ SumFunction(f) = SumFunctionOnSet(f, DOMAIN lines)
         /\ WholeOn(f, DOMAIN lines)
<1>1. AmountsOver(f, Len(lines)) /\ Len(lines) \in Nat
  BY LinesAreLines DEF AmountsOver
<1>2. SumFunction(f) \in Nat
  BY <1>1, AmountsAreWeights
<1>3. DOMAIN f = DOMAIN lines
  OBVIOUS
<1> QED
  BY <1>1, <1>2, <1>3 DEF SumFunction, WholeOn

LEMMA GrossIsAmounts ==
  ASSUME lines \in Seq(Line)
  PROVE  /\ Gross \in [DOMAIN lines -> Nat]
         /\ \A i \in DOMAIN lines : Gross[i] = lines[i].gross
         /\ Claims = SumFunction(Gross) /\ Claims \in Nat
         /\ \A S : /\ GrossOf(S) \in [DOMAIN lines -> Nat]
                   /\ \A i \in DOMAIN lines :
                        GrossOf(S)[i] = IF i \in S THEN lines[i].gross ELSE 0
                   /\ SumFunction(GrossOf(S)) \in Nat
<1>1. Gross \in [DOMAIN lines -> Nat] /\ \A i \in DOMAIN lines : Gross[i] = lines[i].gross
  BY LinesAreLines DEF Gross
<1>2. Claims = SumFunction(Gross)
  BY DEF Claims, Amounts, Gross
<1>3. SumFunction(Gross) \in Nat
  BY <1>1, AmountsAreSummed
<1>4. ASSUME NEW S
      PROVE  /\ GrossOf(S) \in [DOMAIN lines -> Nat]
             /\ \A i \in DOMAIN lines :
                  GrossOf(S)[i] = IF i \in S THEN lines[i].gross ELSE 0
             /\ SumFunction(GrossOf(S)) \in Nat
  <2>1. /\ GrossOf(S) \in [DOMAIN lines -> Nat]
        /\ \A i \in DOMAIN lines :
             GrossOf(S)[i] = IF i \in S THEN lines[i].gross ELSE 0
    BY LinesAreLines DEF GrossOf
  <2>2. SumFunction(GrossOf(S)) \in Nat
    BY <2>1, AmountsAreSummed
  <2> QED
    BY <2>1, <2>2
<1> QED
  BY <1>1, <1>2, <1>3, <1>4

-----------------------------------------------------------------------------
(* A claim is a line.                                                      *)
LEMMA RateIsResolved ==
  ASSUME NEW p \in PlanVersion, NEW f \in Profile, NEW r \in Realtor
  PROVE  ResolveRate(p, f, r) \in Nat
<1> DEFINE sources == <<p.levelRate, p.direct, f[r].rate, p.fallback>>
           given   == {k \in 1..4 : sources[k] # NoRate}
<1>1. p.levelRate \in Rate /\ p.direct \in Rate /\ p.fallback \in Rate
  BY DEF PlanVersion
<1>2. f[r].rate \in Rate
  BY DEF Profile
<1>3. \A k \in 1..4 : sources[k] \in Rate
  BY <1>1, <1>2
<1>4. given \subseteq 1..4
  OBVIOUS
<1>5. given # {} => sources[Min(given)] \in Nat
  <2> SUFFICES ASSUME given # {} PROVE sources[Min(given)] \in Nat
    OBVIOUS
  <2>1. Min(given) \in given
    <3>1. given \subseteq Nat
      BY <1>4
    <3> HIDE DEF given
    <3> QED
      BY <3>1, MinIsIn
  <2>2. Min(given) \in 1..4 /\ sources[Min(given)] # NoRate
    BY <2>1
  <2> HIDE DEF sources, given
  <2> QED
    BY <1>3, <2>2 DEF Rate
<1> HIDE DEF sources, given
<1>6. (IF given = {} THEN 0 ELSE sources[Min(given)]) \in Nat
  BY <1>5
<1> QED
  BY <1>6 DEF ResolveRate, sources, given

LEMMA BasisIsAmount ==
  ASSUME TypeOK, NEW basis, NEW q, NEW base \in Nat
  PROVE  BasisAmount(basis, q, base) \in Nat
<1> DEFINE direct == [i \in DOMAIN lines |-> IF IsDirect(lines[i]) THEN lines[i].gross ELSE 0]
           down   == [i \in DOMAIN lines |-> IF Below(q, lines[i]) THEN lines[i].gross ELSE 0]
<1>1. lines \in Seq(Line) /\ pool \in Rate
  BY DEF TypeOK
<1>2. direct \in [DOMAIN lines -> Nat] /\ down \in [DOMAIN lines -> Nat]
  BY <1>1, LinesAreLines
<1>3. SumFunction(direct) \in Nat
  <2> HIDE DEF direct, down
  <2> QED
    BY <1>1, <1>2, AmountsAreSummed
<1>4. SumFunction(down) \in Nat
  <2> HIDE DEF direct, down
  <2> QED
    BY <1>1, <1>2, AmountsAreSummed
<1>5. ClaimedBy(IsDirect) = SumFunction(direct)
  BY DEF ClaimedBy
<1>6. ClaimedBy(LAMBDA line : Below(q, line)) = SumFunction(down)
  BY DEF ClaimedBy
<1>7. pool # NoRate => pool \in Nat
  BY <1>1 DEF Rate
<1> HIDE DEF direct, down
<1> QED
  BY <1>3, <1>4, <1>5, <1>6, <1>7 DEF BasisAmount

LEMMA SpreadIsRate ==
  ASSUME TypeOK, NEW q \in Participant
  PROVE  Spread(q) \in Nat
<1> DEFINE rank    == IF profile[q.realtor].rate = NoRate THEN 0 ELSE profile[q.realtor].rate
           beneath == {i \in DOMAIN lines :
                         \/ IsDirect(lines[i])
                         \/ lines[i].role = "UPLINE" /\ lines[i].generation < q.generation}
           below   == [i \in DOMAIN lines |-> RateBelow(lines[i])]
           paid    == {RateBelow(lines[i]) : i \in beneath}
<1>1. lines \in Seq(Line) /\ profile \in Profile /\ q.realtor \in Realtor
  BY DEF TypeOK, Participant
<1>2. profile[q.realtor].rate \in Rate
  BY <1>1 DEF Profile
<1>3. rank \in Nat
  BY <1>2 DEF Rate
<1>4. IsFiniteSet(beneath)
  <2>1. beneath \in SUBSET DOMAIN lines
    OBVIOUS
  <2> QED
    BY <1>1, <2>1, LinesAreLines, FS_Subset
<1>5. paid = {below[i] : i \in beneath}
  OBVIOUS
<1>6. IsFiniteSet(paid)
  <2> HIDE DEF paid, below, beneath
  <2> QED
    BY <1>4, <1>5, FiniteImage
<1>7. paid \subseteq Int
  <2>1. \A i \in DOMAIN lines : RateBelow(lines[i]) \in Int
    BY <1>1, LinesAreLines, RatesAreRead DEF RateBelow, Rate
  <2> QED
    BY <2>1
<1>8. Max(paid \cup {0}) \in Int
  <2> HIDE DEF paid
  <2>1. IsFiniteSet(paid \cup {0})
    BY <1>6, FS_AddElement
  <2>2. paid \cup {0} \subseteq Int /\ paid \cup {0} # {}
    BY <1>7
  <2>3. Max(paid \cup {0}) \in paid \cup {0}
    BY <2>1, <2>2, MaxIsIn
  <2> QED
    BY <2>2, <2>3
<1> HIDE DEF rank, paid
<1>9. Greater(rank - Max(paid \cup {0}), 0) \in Nat
  BY <1>3, <1>8 DEF Greater
<1> QED
  BY <1>9 DEF Spread, rank, paid, beneath

(* Until the constraints a line pays what was claimed.                     *)
Uncut == {l \in Line : l.amount = l.gross}

LEMMA ClaimIsUncut ==
  ASSUME NEW q \in Participant, NEW rule \in Rules, NEW gross \in Nat, NEW rate \in Nat,
         NEW rank \in Rate
  PROVE  Claim(q, rule, gross, rate, rank) \in Uncut
BY DEF Claim, Uncut, Line, Participant

LEMMA ClaimsAreUncut ==
  ASSUME TypeOK, NEW q \in Participant, NEW base \in Nat
  PROVE  ClaimsOf(q, base) \in Seq(Uncut)
<1> DEFINE rate  == ResolveRate(plan, profile, q.realtor)
           tier  == TierFor(q.generation)
           basis == BasisAmount(tier.basis, q, base)
           below == BasisAmount("DOWNLINE", q, base)
           rank  == IF profile[q.realtor].rate = NoRate THEN 0 ELSE profile[q.realtor].rate
           spread == Spread(q)
           sale  == Claim(q, "DIRECT_SALE", PercentageOf(base, rate), rate, NoRate)
           bonus == Claim(q, "REFERRAL_BONUS", plan.referral, 0, NoRate)
           over  == Claim(q, "GENERATIONAL_OVERRIDE",
                          IF tier.flat THEN tier.value ELSE PercentageOf(basis, tier.value),
                          IF tier.flat THEN 0 ELSE tier.value, NoRate)
           match == Claim(q, "MATCHING_BONUS", PercentageOf(below, plan.matching),
                          plan.matching, NoRate)
           diff  == Claim(q, "RANK_DIFFERENTIAL", PercentageOf(base, spread), spread, rank)
<1>1. /\ plan \in PlanVersion /\ profile \in Profile
      /\ q.realtor \in Realtor /\ q.role \in Roles /\ q.generation \in Nat
  BY DEF TypeOK, Participant
<1>2. NoRate \in Rate /\ 0 \in Rate
  BY DEF Rate
<1>3. rate \in Nat
  BY <1>1, RateIsResolved
<1>4. basis \in Nat /\ below \in Nat
  BY BasisIsAmount
<1>5. rank \in Nat /\ rank \in Rate
  <2>1. profile[q.realtor].rate \in Rate
    BY <1>1 DEF Profile
  <2> QED
    BY <2>1 DEF Rate
<1>6. spread \in Nat
  BY SpreadIsRate
<1>7. plan.referral \in Rate /\ plan.matching \in Rate /\ plan.open \in Rate
  BY <1>1 DEF PlanVersion
<1>8. HasTier(plan, q.generation) => tier.value \in Nat
  <2> SUFFICES ASSUME HasTier(plan, q.generation) PROVE tier.value \in Nat
    OBVIOUS
  <2>1. CASE q.generation \in DOMAIN plan.tiers
    <3>1. plan.tiers \in Seq([flat : BOOLEAN, basis : Bases, value : Nat])
      BY <1>1 DEF PlanVersion
    <3>2. q.generation \in 1..Len(plan.tiers)
      BY <2>1, <3>1, LenProperties
    <3>3. plan.tiers[q.generation] \in [flat : BOOLEAN, basis : Bases, value : Nat]
      BY <3>1, <3>2, ElementOfSeq
    <3> QED
      BY <2>1, <3>3 DEF TierFor
  <2>2. CASE q.generation \notin DOMAIN plan.tiers
    <3>1. plan.open # NoRate
      BY <2>2 DEF HasTier
    <3> QED
      BY <1>7, <2>2, <3>1 DEF TierFor, Rate
  <2> QED
    BY <2>1, <2>2
<1> HIDE DEF rate, tier, basis, below, rank, spread
<1>9. sale \in Uncut
  <2>1. PercentageOf(base, rate) \in Nat
    BY <1>3, PercentageIsAmount
  <2>2. "DIRECT_SALE" \in Rules
    BY DEF Rules
  <2> QED
    BY <1>2, <1>3, <2>1, <2>2, ClaimIsUncut
<1>10. plan.referral # NoRate => bonus \in Uncut
  <2>1. "REFERRAL_BONUS" \in Rules
    BY DEF Rules
  <2>2. plan.referral # NoRate => plan.referral \in Nat
    BY <1>7 DEF Rate
  <2> QED
    BY <1>2, <2>1, <2>2, ClaimIsUncut
<1>11. HasTier(plan, q.generation) => over \in Uncut
  <2> SUFFICES ASSUME HasTier(plan, q.generation) PROVE over \in Uncut
    OBVIOUS
  <2> DEFINE gross == IF tier.flat THEN tier.value ELSE PercentageOf(basis, tier.value)
             paid  == IF tier.flat THEN 0 ELSE tier.value
  <2>1. gross \in Nat /\ paid \in Nat
    BY <1>4, <1>8, PercentageIsAmount
  <2>2. "GENERATIONAL_OVERRIDE" \in Rules
    BY DEF Rules
  <2> HIDE DEF gross, paid
  <2>3. Claim(q, "GENERATIONAL_OVERRIDE", gross, paid, NoRate) \in Uncut
    BY <1>2, <2>1, <2>2, ClaimIsUncut
  <2> QED
    BY <2>3 DEF gross, paid
<1>12. plan.matching # NoRate => match \in Uncut
  <2>1. plan.matching # NoRate => plan.matching \in Nat
    BY <1>7 DEF Rate
  <2>2. plan.matching # NoRate => PercentageOf(below, plan.matching) \in Nat
    BY <1>4, <2>1, PercentageIsAmount
  <2>3. "MATCHING_BONUS" \in Rules
    BY DEF Rules
  <2> QED
    BY <1>2, <2>1, <2>2, <2>3, ClaimIsUncut
<1>13. diff \in Uncut
  <2>1. PercentageOf(base, spread) \in Nat
    BY <1>6, PercentageIsAmount
  <2>2. "RANK_DIFFERENTIAL" \in Rules
    BY DEF Rules
  <2> QED
    BY <1>5, <1>6, <2>1, <2>2, ClaimIsUncut
<1> HIDE DEF sale, bonus, over, match, diff
<1> DEFINE first  == IF HasTier(plan, q.generation) THEN <<over>> ELSE <<>>
           second == IF plan.matching # NoRate /\ q.generation <= plan.matchingDepth
                     THEN <<match>> ELSE <<>>
           third  == IF plan.differential THEN <<diff>> ELSE <<>>
<1>14. /\ first \in Seq(Uncut) /\ second \in Seq(Uncut) /\ third \in Seq(Uncut)
  BY <1>11, <1>12, <1>13
<1> HIDE DEF first, second, third
<1>15. first \o second \o third \in Seq(Uncut)
  BY <1>14, ConcatProperties
<1>16. <<sale>> \in Seq(Uncut) /\ <<>> \in Seq(Uncut)
  BY <1>9
<1>17. plan.referral # NoRate => <<bonus>> \in Seq(Uncut)
  BY <1>10
<1>18. ClaimsOf(q, base) =
         CASE q.role = "DIRECT" -> <<sale>>
           [] q.role = "REFERRER" -> IF plan.referral = NoRate THEN <<>> ELSE <<bonus>>
           [] OTHER -> first \o second \o third
  BY DEF ClaimsOf, sale, bonus, first, second, third, over, match, diff, rate, tier, basis,
         below, rank, spread
<1> QED
  BY <1>15, <1>16, <1>17, <1>18

LEMMA CappedAreLines ==
  ASSUME plan \in PlanVersion, NEW claims \in Seq(Uncut)
  PROVE  Capped(claims) \in Seq(Uncut)
<1> DEFINE new(i) == LET most == Lesser(claims[i].gross, plan.roleCap[claims[i].role])
                     IN  IF plan.roleCap[claims[i].role] = NoRate THEN claims[i]
                         ELSE [claims[i] EXCEPT !.gross = most, !.amount = most]
<1>1. ASSUME NEW i \in DOMAIN claims
      PROVE  new(i) \in Uncut
  <2>0. claims[i] \in Uncut
    BY <1>1
  <2>1. claims[i] \in Line
    BY <2>0 DEF Uncut
  <2>2. claims[i].gross \in Nat /\ claims[i].role \in Roles
    BY <2>1 DEF Line
  <2>3. plan.roleCap[claims[i].role] \in Rate
    BY <2>2 DEF PlanVersion
  <2>4. CASE plan.roleCap[claims[i].role] = NoRate
    BY <2>0, <2>4
  <2>5. CASE plan.roleCap[claims[i].role] # NoRate
    <3> DEFINE most == Lesser(claims[i].gross, plan.roleCap[claims[i].role])
    <3>1. most \in Nat
      BY <2>2, <2>3, <2>5 DEF Lesser, Rate
    <3> HIDE DEF most
    <3>2. [claims[i] EXCEPT !.gross = most, !.amount = most] \in Line
      BY <2>1, <3>1 DEF Line
    <3>3. /\ [claims[i] EXCEPT !.gross = most, !.amount = most].gross = most
          /\ [claims[i] EXCEPT !.gross = most, !.amount = most].amount = most
      BY <2>1 DEF Line
    <3> QED
      BY <2>5, <3>2, <3>3 DEF most, Uncut
  <2> QED
    BY <2>4, <2>5
<1>2. Capped(claims) = [i \in DOMAIN claims |-> new(i)]
  BY DEF Capped
<1>3. Len(claims) \in Nat /\ DOMAIN claims = 1..Len(claims)
  OBVIOUS
<1> HIDE DEF new
<1>4. Capped(claims) \in [1..Len(claims) -> Uncut]
  BY <1>1, <1>2, <1>3
<1> QED
  BY <1>3, <1>4

(* Of some claims one is the first of the largest.                         *)
LEMMA StackedAreClaims ==
  ASSUME NEW claims \in Seq(Uncut)
  PROVE  Stacked(claims) \in Seq(Uncut)
<1> DEFINE gross == [i \in DOMAIN claims |-> claims[i].gross]
           sizes == {gross[i] : i \in DOMAIN claims}
           best == {i \in DOMAIN claims :
                      \A j \in DOMAIN claims :
                        \/ claims[j].gross < claims[i].gross
                        \/ claims[j].gross = claims[i].gross /\ i <= j}
<1>1. /\ Len(claims) \in Nat /\ DOMAIN claims = 1..Len(claims)
      /\ \A i \in DOMAIN claims : claims[i].gross \in Nat
  <2>1. \A i \in DOMAIN claims : claims[i] \in Uncut
    OBVIOUS
  <2> QED
    BY <2>1 DEF Uncut, Line
<1>2. CASE plan.stacking = "HIGHEST_ONLY" /\ Len(claims) > 1
  <2>1. IsFiniteSet(DOMAIN claims)
    BY <1>1, FS_Interval
  <2>2. IsFiniteSet(sizes) /\ sizes \subseteq Int /\ sizes # {}
    <3>1. sizes # {} /\ sizes \subseteq Int
      BY <1>1, <1>2
    <3>2. IsFiniteSet(sizes)
      <4> HIDE DEF gross
      <4> QED
        BY <2>1, FiniteImage
    <3> QED
      BY <3>1, <3>2
  <2>3. PICK most \in sizes : \A y \in sizes : y <= most
    <3> HIDE DEF sizes
    <3> QED
      BY <2>2, GreatestInteger
  <2> DEFINE top == {i \in DOMAIN claims : gross[i] = most}
  <2>4. top \subseteq Nat /\ top # {}
    BY <1>1, <2>3
  <2>5. PICK k \in top : \A y \in top : k <= y
    <3> HIDE DEF top
    <3> QED
      BY <2>4, LeastNatural
  <2>6. k \in best
    <3>1. k \in DOMAIN claims /\ claims[k].gross = most
      BY <2>5
    <3>2. ASSUME NEW j \in DOMAIN claims
          PROVE  \/ claims[j].gross < claims[k].gross
                 \/ claims[j].gross = claims[k].gross /\ k <= j
      <4>1. claims[j].gross <= most
        BY <2>3
      <4>2. claims[j].gross = most => k <= j
        BY <2>5
      <4> QED
        BY <1>1, <3>1, <4>1, <4>2
    <3> QED
      BY <3>1, <3>2
  <2>7. (CHOOSE i \in best : TRUE) \in DOMAIN claims
    BY <2>6
  <2> DEFINE chosen == claims[CHOOSE i \in best : TRUE]
  <2>8. chosen \in Uncut
    BY <2>7
  <2>9. Stacked(claims) = <<chosen>>
    BY <1>2 DEF Stacked
  <2> QED
    BY <2>8, <2>9
<1>3. CASE ~(plan.stacking = "HIGHEST_ONLY" /\ Len(claims) > 1)
  BY <1>3 DEF Stacked
<1> QED
  BY <1>2, <1>3

-----------------------------------------------------------------------------
(* The constraint phases change the amounts of the lines and nothing else. *)
Rewritten(s, a, t) == t = [i \in DOMAIN s |-> [s[i] EXCEPT !.amount = a[i]]]

LEMMA AmountsAreRewritten ==
  ASSUME NEW s, s \in Seq(Line), NEW a, a \in [DOMAIN s -> Nat], NEW t, Rewritten(s, a, t)
  PROVE  /\ t \in Seq(Line) /\ DOMAIN t = DOMAIN s
         /\ \A i \in DOMAIN s :
              /\ t[i].amount = a[i] /\ t[i].gross = s[i].gross
              /\ t[i].role = s[i].role /\ t[i].generation = s[i].generation
              /\ t[i].realtor = s[i].realtor
<1>1. Len(s) \in Nat /\ DOMAIN s = 1..Len(s) /\ \A i \in DOMAIN s : s[i] \in Line
  OBVIOUS
<1>2. ASSUME NEW l \in Line, NEW x \in Nat, NEW m, m = [l EXCEPT !.amount = x]
      PROVE  /\ m \in Line /\ m.amount = x /\ m.gross = l.gross
             /\ m.role = l.role /\ m.generation = l.generation /\ m.realtor = l.realtor
  BY <1>2 DEF Line
<1>3. ASSUME NEW i \in DOMAIN s
      PROVE  /\ t[i] \in Line /\ t[i].amount = a[i] /\ t[i].gross = s[i].gross
             /\ t[i].role = s[i].role /\ t[i].generation = s[i].generation
             /\ t[i].realtor = s[i].realtor
  <2>1. t[i] = [s[i] EXCEPT !.amount = a[i]]
    BY DEF Rewritten
  <2>2. s[i] \in Line /\ a[i] \in Nat
    BY <1>1
  <2> QED
    BY <1>2, <2>1, <2>2
<1>4. t \in [1..Len(s) -> Line]
  BY <1>1, <1>3 DEF Rewritten
<1> QED
  BY <1>1, <1>3, <1>4

(* What is claimed stays claimed, and what is paid is the new amounts.     *)
LEMMA RewritingKeepsClaims ==
  ASSUME lines \in Seq(Line), NEW a, a \in [DOMAIN lines -> Nat], lines' = WithAmounts(a)
  PROVE  /\ lines' \in Seq(Line) /\ DOMAIN lines' = DOMAIN lines
         /\ \A i \in DOMAIN lines :
              /\ lines'[i].amount = a[i] /\ lines'[i].gross = lines[i].gross
              /\ lines'[i].role = lines[i].role /\ lines'[i].generation = lines[i].generation
         /\ Claims' = Claims
         /\ Allocated' = SumFunction(a)
<1>1. Rewritten(lines, a, lines')
  BY DEF Rewritten, WithAmounts
<1>2. /\ lines' \in Seq(Line) /\ DOMAIN lines' = DOMAIN lines
      /\ \A i \in DOMAIN lines :
           /\ lines'[i].amount = a[i] /\ lines'[i].gross = lines[i].gross
           /\ lines'[i].role = lines[i].role /\ lines'[i].generation = lines[i].generation
  BY <1>1, AmountsAreRewritten
<1>3. [i \in DOMAIN lines' |-> lines'[i].gross] = [i \in DOMAIN lines |-> lines[i].gross]
  BY <1>2
<1>4. [i \in DOMAIN lines' |-> lines'[i].amount] = a
  BY <1>2
<1>5. Claims' = Claims
  BY <1>3 DEF Claims, Amounts
<1>6. Allocated' = SumFunction(a)
  BY <1>4 DEF Allocated, Amounts
<1> QED
  BY <1>2, <1>5, <1>6

LEMMA AllocatedIsPaid ==
  ASSUME lines \in Seq(Line), NEW a, a = [i \in DOMAIN lines |-> lines[i].amount]
  PROVE  /\ a \in [DOMAIN lines -> Nat]
         /\ Allocated = SumFunction(a) /\ Allocated \in Nat
         /\ Allocated = SumFunctionOnSet(a, DOMAIN lines)
<1>1. a \in [DOMAIN lines -> Nat]
  BY LinesAreLines
<1>2. Allocated = SumFunction(a)
  BY DEF Allocated, Amounts
<1> QED
  BY <1>1, <1>2, AmountsAreSummed

(* Until the constraints as much is paid as is claimed.                    *)
LEMMA UncutPaysClaims ==
  ASSUME lines \in Seq(Uncut)
  PROVE  lines \in Seq(Line) /\ Allocated = Claims
<1>1. \A i \in DOMAIN lines : lines[i] \in Uncut
  OBVIOUS
<1>2. [i \in DOMAIN lines |-> lines[i].amount] = [i \in DOMAIN lines |-> lines[i].gross]
  BY <1>1 DEF Uncut
<1>3. lines \in Seq(Line)
  <2>1. Uncut \subseteq Line
    BY DEF Uncut
  <2> QED
    BY <2>1, SeqMonotonic
<1> QED
  BY <1>2, <1>3 DEF Allocated, Claims, Amounts

LEMMA LeftIsSummed ==
  ASSUME NEW l, l \in [DOMAIN Nothing -> Nat]
  PROVE  SumFunction(l) = l.breakage + l.house + l.carried + l.forfeited + l.dropped
<1> DEFINE S1 == {"breakage"}
           S2 == S1 \union {"house"}
           S3 == S2 \union {"carried"}
           S4 == S3 \union {"forfeited"}
           S5 == S4 \union {"dropped"}
<1>1. DOMAIN Nothing = S5 /\ l \in [S5 -> Nat] /\ DOMAIN l = S5
  BY DEF Nothing
<1>2. /\ "house" \notin S1 /\ "carried" \notin S2 /\ "forfeited" \notin S3 /\ "dropped" \notin S4
      /\ S1 = {} \union {"breakage"} /\ "breakage" \notin {}
  OBVIOUS
<1>3. /\ IsFiniteSet({}) /\ IsFiniteSet(S1) /\ IsFiniteSet(S2) /\ IsFiniteSet(S3)
      /\ IsFiniteSet(S4)
  <2>1. IsFiniteSet({}) /\ IsFiniteSet(S1)
    BY FS_EmptySet, FS_Singleton
  <2>2. \A T, x : IsFiniteSet(T) => IsFiniteSet(T \union {x})
    BY FS_AddElement
  <2> QED
    BY <2>1, <2>2
<1>4. /\ WholeOn(l, S1) /\ WholeOn(l, S2) /\ WholeOn(l, S3) /\ WholeOn(l, S4) /\ WholeOn(l, S5)
  BY <1>1 DEF WholeOn
<1>5. /\ l.breakage \in Nat /\ l.house \in Nat /\ l.carried \in Nat /\ l.forfeited \in Nat
      /\ l.dropped \in Nat
  BY <1>1
<1>6. SumFunctionOnSet(l, S1) = l.breakage
  <2>1. SumFunctionOnSet(l, {} \union {"breakage"}) = SumFunctionOnSet(l, {}) + l["breakage"]
    <3>1. WholeOn(l, {} \union {"breakage"})
      BY <1>2, <1>4
    <3> QED
      BY <1>2, <1>3, <3>1, SumWith
  <2> QED
    BY <1>2, <1>5, <2>1, SumOfNone
<1>7. /\ SumFunctionOnSet(l, S2) = SumFunctionOnSet(l, S1) + l["house"]
      /\ SumFunctionOnSet(l, S3) = SumFunctionOnSet(l, S2) + l["carried"]
      /\ SumFunctionOnSet(l, S4) = SumFunctionOnSet(l, S3) + l["forfeited"]
      /\ SumFunctionOnSet(l, S5) = SumFunctionOnSet(l, S4) + l["dropped"]
  <2>1. SumFunctionOnSet(l, S2) = SumFunctionOnSet(l, S1) + l["house"]
    <3> HIDE DEF S1
    <3> QED
      BY <1>2, <1>3, <1>4, SumWith
  <2>2. SumFunctionOnSet(l, S3) = SumFunctionOnSet(l, S2) + l["carried"]
    <3> HIDE DEF S2
    <3> QED
      BY <1>2, <1>3, <1>4, SumWith
  <2>3. SumFunctionOnSet(l, S4) = SumFunctionOnSet(l, S3) + l["forfeited"]
    <3> HIDE DEF S3
    <3> QED
      BY <1>2, <1>3, <1>4, SumWith
  <2>4. SumFunctionOnSet(l, S5) = SumFunctionOnSet(l, S4) + l["dropped"]
    <3> HIDE DEF S4
    <3> QED
      BY <1>2, <1>3, <1>4, SumWith
  <2> QED
    BY <2>1, <2>2, <2>3, <2>4
<1>8. SumFunction(l) = SumFunctionOnSet(l, S5)
  BY <1>1 DEF SumFunction
<1> HIDE DEF S1, S2, S3, S4, S5
<1> QED
  BY <1>5, <1>6, <1>7, <1>8

-----------------------------------------------------------------------------
(* The order of PRIORITY_ORDER, and what is claimed ahead of a line.       *)
LEMMA LinesAreOrdered ==
  ASSUME lines \in Seq(Line)
  PROVE  /\ \A i \in DOMAIN lines : PlaceOf(lines[i]) \in Nat
         /\ \A i \in DOMAIN lines : ~Before(i, i)
         /\ \A i, j, k \in DOMAIN lines : Before(i, j) /\ Before(j, k) => Before(i, k)
         /\ \A i, j \in DOMAIN lines : i = j \/ Before(i, j) \/ Before(j, i)
<1>1. DOMAIN lines \subseteq Nat
  BY LinesAreLines
<1>2. \A i \in DOMAIN lines : PlaceOf(lines[i]) \in Nat
  <2>1. \A i \in DOMAIN lines : lines[i].generation \in Nat
    BY LinesAreLines
  <2> QED
    BY <2>1 DEF PlaceOf
<1> QED
  BY <1>1, <1>2 DEF Before

AheadOf(i) == {j \in DOMAIN lines : Before(j, i)}

ClaimedAhead(i) == SumFunction(GrossOf(AheadOf(i)))

(* A line's claim and what is claimed ahead of it are ahead of whoever     *)
(* comes after it, and are among all the claims.                           *)
LEMMA ClaimsAddUp ==
  ASSUME lines \in Seq(Line), NEW i \in DOMAIN lines,
         NEW f, f \in [DOMAIN lines -> Nat],
         \A j \in DOMAIN lines : Before(j, i) \/ j = i => f[j] = lines[j].gross
  PROVE  ClaimedAhead(i) + lines[i].gross <= SumFunction(f)
<1> DEFINE S == DOMAIN lines
           e == GrossOf(AheadOf(i))
           g == [e EXCEPT ![i] = lines[i].gross]
<1>1. /\ IsFiniteSet(S) /\ \A j \in S : lines[j].gross \in Nat
      /\ ~Before(i, i)
  BY LinesAreLines, LinesAreOrdered
<1>2. /\ e \in [S -> Nat]
      /\ \A j \in S : e[j] = IF j \in AheadOf(i) THEN lines[j].gross ELSE 0
  BY GrossIsAmounts
<1>3. e[i] = 0
  BY <1>1, <1>2 DEF AheadOf
<1>4. /\ g \in [S -> Nat] /\ g[i] = lines[i].gross
      /\ \A j \in S \ {i} : g[j] = e[j]
  <2> HIDE DEF e
  <2> QED
    BY <1>1, <1>2
<1>5. \A j \in S : g[j] <= f[j]
  <2> SUFFICES ASSUME NEW j \in S PROVE g[j] <= f[j]
    OBVIOUS
  <2>1. CASE j = i
    BY <1>1, <1>4, <2>1
  <2>2. CASE j # i /\ Before(j, i)
    BY <1>1, <1>2, <1>4, <2>2 DEF AheadOf
  <2>3. CASE j # i /\ ~Before(j, i)
    <3>1. g[j] = 0
      BY <1>2, <1>4, <2>3 DEF AheadOf
    <3> QED
      BY <3>1
  <2> QED
    BY <2>1, <2>2, <2>3
<1> HIDE DEF e, g
<1>6. WholeOn(e, S) /\ WholeOn(g, S) /\ WholeOn(f, S)
  BY <1>2, <1>4 DEF WholeOn
<1>7. SumFunctionOnSet(g, S) = SumFunctionOnSet(e, S) + g[i] - e[i]
  <2> HIDE DEF S
  <2>1. i \in S
    BY DEF S
  <2> QED
    BY <1>1, <1>4, <1>6, <2>1, SumChanged
<1>8. SumFunctionOnSet(g, S) <= SumFunctionOnSet(f, S)
  <2> HIDE DEF S
  <2> QED
    BY <1>1, <1>5, <1>6, SumAtMost
<1>9. /\ SumFunction(e) = SumFunctionOnSet(e, S) /\ SumFunction(e) \in Nat
      /\ SumFunction(f) = SumFunctionOnSet(f, S) /\ SumFunction(f) \in Nat
  BY <1>2, AmountsAreSummed
<1>10. ClaimedAhead(i) = SumFunction(e)
  BY DEF ClaimedAhead, e
<1> QED
  BY <1>1, <1>3, <1>4, <1>7, <1>8, <1>9, <1>10

LEMMA AheadIsAmount ==
  ASSUME lines \in Seq(Line)
  PROVE  /\ \A i \in DOMAIN lines : ClaimedAhead(i) \in Nat
         /\ \A i \in DOMAIN lines : ClaimedAhead(i) + lines[i].gross <= Claims
         /\ \A i, j \in DOMAIN lines :
              Before(i, j) => ClaimedAhead(i) + lines[i].gross <= ClaimedAhead(j)
<1>1. ASSUME NEW i \in DOMAIN lines PROVE ClaimedAhead(i) \in Nat
  BY GrossIsAmounts DEF ClaimedAhead
<1>2. ASSUME NEW i \in DOMAIN lines PROVE ClaimedAhead(i) + lines[i].gross <= Claims
  <2>1. /\ Gross \in [DOMAIN lines -> Nat] /\ Claims = SumFunction(Gross)
        /\ \A j \in DOMAIN lines : Before(j, i) \/ j = i => Gross[j] = lines[j].gross
    BY GrossIsAmounts
  <2> QED
    BY <2>1, ClaimsAddUp
<1>3. ASSUME NEW i \in DOMAIN lines, NEW j \in DOMAIN lines, Before(i, j)
      PROVE  ClaimedAhead(i) + lines[i].gross <= ClaimedAhead(j)
  <2> DEFINE f == GrossOf(AheadOf(j))
  <2>1. /\ f \in [DOMAIN lines -> Nat]
        /\ \A k \in DOMAIN lines : f[k] = IF k \in AheadOf(j) THEN lines[k].gross ELSE 0
    BY GrossIsAmounts
  <2>2. \A k \in DOMAIN lines : Before(k, i) \/ k = i => k \in AheadOf(j)
    BY <1>3, LinesAreOrdered DEF AheadOf
  <2>3. \A k \in DOMAIN lines : Before(k, i) \/ k = i => f[k] = lines[k].gross
    <3> HIDE DEF f
    <3> QED
      BY <2>1, <2>2
  <2>4. ClaimedAhead(i) + lines[i].gross <= SumFunction(f)
    <3> HIDE DEF f
    <3> QED
      BY <2>1, <2>3, ClaimsAddUp
  <2> QED
    BY <2>4 DEF ClaimedAhead
<1> QED
  BY <1>1, <1>2, <1>3

(* Taking in order, a line gets what those ahead of it left, as far as it  *)
(* claims it, and together they never take more than there is.             *)
LEMMA TakingInOrder ==
  ASSUME lines \in Seq(Line), pool \in Nat
  PROVE  /\ PriorityOrder \in [DOMAIN lines -> Nat]
         /\ \A i \in DOMAIN lines :
              /\ PriorityOrder[i] = Greater(Lesser(lines[i].gross, pool - ClaimedAhead(i)), 0)
              /\ PriorityOrder[i] <= lines[i].gross
         /\ SumFunction(PriorityOrder) <= pool
<1> DEFINE S == DOMAIN lines
           a == PriorityOrder
<1>1. /\ IsFiniteSet(S) /\ \A j \in S : lines[j].gross \in Nat
  BY LinesAreLines
<1>2. /\ \A i \in S : ClaimedAhead(i) \in Nat
      /\ \A i \in S : ClaimedAhead(i) + lines[i].gross <= Claims
      /\ \A i, j \in S : Before(i, j) => ClaimedAhead(i) + lines[i].gross <= ClaimedAhead(j)
  BY AheadIsAmount
<1>3. \A i \in S : a[i] = Greater(Lesser(lines[i].gross, pool - ClaimedAhead(i)), 0)
  BY DEF PriorityOrder, TakenInOrder, ClaimedAhead, AheadOf
<1>4. \A i \in S : /\ a[i] \in Nat /\ a[i] <= lines[i].gross
                   /\ ClaimedAhead(i) >= pool => a[i] = 0
                   /\ ClaimedAhead(i) < pool => a[i] <= pool - ClaimedAhead(i)
  <2> SUFFICES ASSUME NEW i \in S
               PROVE  /\ a[i] \in Nat /\ a[i] <= lines[i].gross
                      /\ ClaimedAhead(i) >= pool => a[i] = 0
                      /\ ClaimedAhead(i) < pool => a[i] <= pool - ClaimedAhead(i)
    OBVIOUS
  <2>1. a[i] = Greater(Lesser(lines[i].gross, pool - ClaimedAhead(i)), 0)
    BY <1>3
  <2>2. lines[i].gross \in Nat /\ ClaimedAhead(i) \in Nat
    BY <1>1, <1>2
  <2> HIDE DEF a
  <2> QED
    BY <2>1, <2>2 DEF Greater, Lesser
<1>5. a \in [S -> Nat]
  <2>1. a = [i \in S |-> a[i]]
    BY DEF PriorityOrder
  <2> HIDE DEF a
  <2> QED
    BY <1>4, <2>1
<1>6. /\ SumFunction(a) = SumFunctionOnSet(a, S) /\ SumFunction(a) \in Nat
      /\ WholeOn(a, S)
  <2> HIDE DEF a
  <2> QED
    BY <1>5, AmountsAreSummed
<1> HIDE DEF a
<1> DEFINE reached == {i \in S : ClaimedAhead(i) < pool}
<1>7. CASE reached = {}
  <2>1. \A i \in S \ {} : a[i] = 0
    BY <1>2, <1>4, <1>7
  <2>2. SumFunctionOnSet(a, S) = SumFunctionOnSet(a, {})
    <3>1. {} \in SUBSET S
      OBVIOUS
    <3> HIDE DEF S
    <3> QED
      BY <1>1, <1>6, <2>1, <3>1, SumOfSupport
  <2>3. SumFunction(a) = 0
    BY <1>6, <2>2, SumOfNone
  <2> QED
    BY <1>3, <1>4, <1>5, <2>3 DEF a
<1>8. CASE reached # {}
  <2> DEFINE end == [i \in reached |-> ClaimedAhead(i) + lines[i].gross]
             ends == {end[i] : i \in reached}
  <2>1. IsFiniteSet(reached)
    <3>1. reached \in SUBSET S
      OBVIOUS
    <3> QED
      BY <1>1, <3>1, FS_Subset
  <2>2. IsFiniteSet(ends) /\ ends \subseteq Int /\ ends # {}
    <3>1. ends \subseteq Int
      BY <1>1, <1>2
    <3>2. ends # {}
      BY <1>8
    <3>3. IsFiniteSet(ends)
      <4> HIDE DEF end, reached
      <4> QED
        BY <2>1, FiniteImage
    <3> QED
      BY <3>1, <3>2, <3>3
  <2>3. PICK most \in ends : \A y \in ends : y <= most
    <3> HIDE DEF ends
    <3> QED
      BY <2>2, GreatestInteger
  <2>4. PICK l \in reached : end[l] = most
    BY <2>3
  <2>5. \A j \in reached : ClaimedAhead(j) + lines[j].gross <= ClaimedAhead(l) + lines[l].gross
    BY <2>3, <2>4
  <2>6. l \in S /\ ClaimedAhead(l) < pool
    BY <2>4
  <2> DEFINE e == GrossOf(AheadOf(l))
             g == [e EXCEPT ![l] = a[l]]
  <2>7. /\ e \in [S -> Nat]
        /\ \A j \in S : e[j] = IF j \in AheadOf(l) THEN lines[j].gross ELSE 0
        /\ SumFunction(e) = ClaimedAhead(l)
    BY GrossIsAmounts DEF ClaimedAhead
  <2>8. e[l] = 0
    BY <2>6, <2>7, LinesAreOrdered DEF AheadOf
  <2>9. /\ g \in [S -> Nat] /\ g[l] = a[l]
        /\ \A j \in S \ {l} : g[j] = e[j]
    <3> HIDE DEF e
    <3> QED
      BY <1>4, <2>6, <2>7
  <2>10. \A j \in S : a[j] <= g[j]
    <3> SUFFICES ASSUME NEW j \in S PROVE a[j] <= g[j]
      OBVIOUS
    <3>1. CASE j = l
      BY <1>4, <2>6, <2>9, <3>1
    <3>2. CASE j # l /\ Before(j, l)
      <4>1. g[j] = lines[j].gross
        BY <2>7, <2>9, <3>2 DEF AheadOf
      <4> QED
        BY <1>4, <4>1
    <3>3. CASE j # l /\ ~Before(j, l)
      <4>1. Before(l, j)
        BY <2>6, <3>3, LinesAreOrdered
      <4>2. ClaimedAhead(l) + lines[l].gross <= ClaimedAhead(j)
        BY <1>2, <2>6, <4>1
      <4>3. g[j] \in Nat
        BY <2>9
      <4>4. CASE j \in reached
        <5>1. lines[j].gross = 0
          <6>1. ClaimedAhead(j) + lines[j].gross <= ClaimedAhead(l) + lines[l].gross
            BY <2>5, <4>4
          <6>2. /\ ClaimedAhead(j) \in Nat /\ ClaimedAhead(l) \in Nat
                /\ lines[j].gross \in Nat /\ lines[l].gross \in Nat
            BY <1>1, <1>2, <2>6
          <6> QED
            BY <4>2, <6>1, <6>2
        <5> QED
          BY <1>4, <4>3, <5>1
      <4>5. CASE j \notin reached
        <5>1. a[j] = 0
          BY <1>2, <1>4, <4>5
        <5> QED
          BY <4>3, <5>1
      <4> QED
        BY <4>4, <4>5
    <3> QED
      BY <3>1, <3>2, <3>3
  <2> HIDE DEF e, g
  <2>11. WholeOn(e, S) /\ WholeOn(g, S)
    BY <2>7, <2>9 DEF WholeOn
  <2>12. SumFunctionOnSet(g, S) = SumFunctionOnSet(e, S) + g[l] - e[l]
    <3> HIDE DEF S
    <3> QED
      BY <1>1, <2>6, <2>9, <2>11, SumChanged
  <2>13. SumFunctionOnSet(a, S) <= SumFunctionOnSet(g, S)
    <3> HIDE DEF S
    <3> QED
      BY <1>1, <1>6, <2>10, <2>11, SumAtMost
  <2>14. SumFunction(e) = SumFunctionOnSet(e, S)
    BY <2>7, AmountsAreSummed
  <2>15. a[l] \in Nat /\ a[l] <= pool - ClaimedAhead(l) /\ ClaimedAhead(l) \in Nat
    BY <1>2, <1>4, <2>6
  <2>16. SumFunction(a) <= pool
    BY <1>6, <2>7, <2>8, <2>9, <2>12, <2>13, <2>14, <2>15
  <2> QED
    BY <1>3, <1>4, <1>5, <2>16 DEF a
<1> QED
  BY <1>7, <1>8

-----------------------------------------------------------------------------
(* Sharing the pool out in proportion, and the seller's claim first.       *)
LEMMA SharingOut ==
  ASSUME lines \in Seq(Line), NEW total \in Nat, NEW f, f \in [DOMAIN lines -> Nat]
  PROVE  /\ AllocateByWeight(total, f) \in [DOMAIN lines -> Nat]
         /\ SumFunction(f) # 0 => SumFunction(AllocateByWeight(total, f)) = total
         /\ SumFunction(AllocateByWeight(total, f)) <= total
         /\ total <= SumFunction(f) =>
              \A i \in DOMAIN lines : AllocateByWeight(total, f)[i] <= f[i]
<1> DEFINE a == AllocateByWeight(total, f)
<1>1. Len(lines) \in Nat /\ DOMAIN lines = 1..Len(lines) /\ IsFiniteSet(DOMAIN lines)
  BY LinesAreLines
<1>2. AmountsOver(f, Len(lines))
  BY AmountsAreSummed
<1>3. /\ AmountsOver(a, Len(lines))
      /\ SumFunction(f) # 0 => SumFunction(a) = total
      /\ SumFunction(f) = 0 => \A i \in 1..Len(lines) : a[i] = 0
      /\ total <= SumFunction(f) => \A i \in 1..Len(lines) : a[i] <= f[i]
  BY <1>1, <1>2, SharesAreAmounts
<1> HIDE DEF a
<1>4. a \in [DOMAIN lines -> Nat]
  BY <1>1, <1>3 DEF AmountsOver
<1>5. SumFunction(a) <= total
  <2>1. CASE SumFunction(f) # 0
    BY <1>3, <2>1
  <2>2. CASE SumFunction(f) = 0
    <3>1. /\ SumFunction(a) = SumFunctionOnSet(a, DOMAIN lines)
          /\ WholeOn(a, DOMAIN lines)
      BY <1>4, AmountsAreSummed
    <3>2. \A i \in DOMAIN lines \ {} : a[i] = 0
      BY <1>1, <1>3, <2>2
    <3>3. SumFunctionOnSet(a, DOMAIN lines) = SumFunctionOnSet(a, {})
      <4>1. {} \in SUBSET DOMAIN lines
        OBVIOUS
      <4> QED
        BY <1>1, <3>1, <3>2, <4>1, SumOfSupport
    <3> QED
      BY <3>1, <3>3, SumOfNone
  <2> QED
    BY <2>1, <2>2
<1> QED
  BY <1>1, <1>3, <1>4, <1>5 DEF a

LEMMA ProtectingTheSeller ==
  ASSUME lines \in Seq(Line), pool \in Nat, Claims > pool
  PROVE  /\ ProtectDirect \in [DOMAIN lines -> Nat]
         /\ SumFunction(ProtectDirect) <= pool
         /\ \A i, j \in DOMAIN lines :
              /\ IsDirect(lines[i]) /\ ~IsDirect(lines[j])
              /\ ProtectDirect[j] > 0
              => ProtectDirect[i] = lines[i].gross
<1> DEFINE S      == DOMAIN lines
           direct == {i \in S : IsDirect(lines[i])}
           mine   == GrossOf(direct)
           others == GrossOf(S \ direct)
           total  == SumFunction(mine)
           shares == AllocateByWeight(pool - total, others)
           a      == ProtectDirect
<1>1. IsFiniteSet(S) /\ \A i \in S : lines[i].gross \in Nat
  BY LinesAreLines
<1>2. /\ mine \in [S -> Nat] /\ others \in [S -> Nat]
      /\ \A i \in S : mine[i] = IF i \in direct THEN lines[i].gross ELSE 0
      /\ \A i \in S : others[i] = IF i \in S \ direct THEN lines[i].gross ELSE 0
      /\ total \in Nat /\ SumFunction(others) \in Nat
      /\ Gross \in [S -> Nat] /\ \A i \in S : Gross[i] = lines[i].gross
      /\ Claims = SumFunction(Gross) /\ Claims \in Nat
  BY GrossIsAmounts
<1>3. a = IF total >= pool THEN AllocateByWeight(pool, mine)
          ELSE [i \in S |-> IF i \in direct THEN lines[i].gross ELSE shares[i]]
  BY DEF ProtectDirect
<1> HIDE DEF a, mine, others
<1>4. CASE total >= pool
  <2>1. /\ a \in [S -> Nat] /\ SumFunction(a) <= pool
        /\ \A i \in S : a[i] <= mine[i]
    <3>1. pool <= SumFunction(mine)
      BY <1>2, <1>4
    <3>2. a = AllocateByWeight(pool, mine)
      BY <1>3, <1>4
    <3> QED
      BY <1>2, <3>1, <3>2, SharingOut
  <2>2. \A j \in S : ~IsDirect(lines[j]) => a[j] <= 0 /\ a[j] \in Nat
    BY <1>2, <2>1
  <2> QED
    BY <2>1, <2>2 DEF a
<1>5. CASE ~(total >= pool)
  <2>1. a = [i \in S |-> IF i \in direct THEN lines[i].gross ELSE shares[i]]
    BY <1>3, <1>5
  <2>2. pool - total \in Nat /\ pool - total # 0
    BY <1>2, <1>5
  <2>3. Claims = total + SumFunction(others)
    <3>1. /\ WholeOn(mine, S) /\ WholeOn(others, S)
          /\ total = SumFunctionOnSet(mine, S)
          /\ SumFunction(others) = SumFunctionOnSet(others, S)
          /\ SumFunction(Gross) = SumFunctionOnSet(Gross, S)
      BY <1>2, AmountsAreSummed
    <3>2. \A i \in S : Gross[i] = mine[i] + others[i]
      <4> SUFFICES ASSUME NEW i \in S PROVE Gross[i] = mine[i] + others[i]
        OBVIOUS
      <4>1. lines[i].gross \in Nat /\ Gross[i] = lines[i].gross
        BY <1>1, <1>2
      <4>2. CASE i \in direct
        <5>1. mine[i] = lines[i].gross /\ others[i] = 0
          BY <1>2, <4>2
        <5> QED
          BY <4>1, <5>1
      <4>3. CASE i \notin direct
        <5>1. mine[i] = 0 /\ others[i] = lines[i].gross
          BY <1>2, <4>3
        <5> QED
          BY <4>1, <5>1
      <4> QED
        BY <4>2, <4>3
    <3>3. SumFunctionOnSet(Gross, S) = SumFunctionOnSet(mine, S) + SumFunctionOnSet(others, S)
      <4> HIDE DEF S
      <4> QED
        BY <1>1, <3>1, <3>2, SumOfSums
    <3> QED
      BY <1>2, <3>1, <3>3
  <2>4. SumFunction(others) # 0 /\ pool - total <= SumFunction(others)
    BY <1>2, <2>2, <2>3
  <2>5. /\ shares \in [S -> Nat] /\ SumFunction(shares) = pool - total
        /\ \A i \in S : shares[i] <= others[i]
    <3> DEFINE rest == pool - total
    <3>1. rest \in Nat /\ rest <= SumFunction(others)
      BY <2>2, <2>4
    <3> HIDE DEF rest
    <3>2. /\ AllocateByWeight(rest, others) \in [S -> Nat]
          /\ SumFunction(AllocateByWeight(rest, others)) = rest
          /\ \A i \in S : AllocateByWeight(rest, others)[i] <= others[i]
      BY <1>2, <2>4, <3>1, SharingOut
    <3> QED
      BY <3>2 DEF rest
  <2> HIDE DEF shares, total
  <2>6. a \in [S -> Nat]
    BY <1>1, <2>1, <2>5
  <2>7. \A i \in S : a[i] = mine[i] + shares[i]
    <3> SUFFICES ASSUME NEW i \in S PROVE a[i] = mine[i] + shares[i]
      OBVIOUS
    <3>1. CASE i \in direct
      <4>1. shares[i] = 0
        BY <1>2, <2>5, <3>1
      <4> QED
        BY <1>1, <1>2, <2>1, <3>1, <4>1
    <3>2. CASE i \notin direct
      BY <1>2, <2>1, <2>5, <3>2
    <3> QED
      BY <3>1, <3>2
  <2>8. SumFunction(a) = pool
    <3>1. /\ WholeOn(mine, S) /\ WholeOn(shares, S)
          /\ total = SumFunctionOnSet(mine, S)
          /\ SumFunction(shares) = SumFunctionOnSet(shares, S)
          /\ SumFunction(a) = SumFunctionOnSet(a, S)
      BY <1>2, <2>5, <2>6, AmountsAreSummed DEF total
    <3>2. SumFunctionOnSet(a, S) = SumFunctionOnSet(mine, S) + SumFunctionOnSet(shares, S)
      <4> HIDE DEF S
      <4> QED
        BY <1>1, <2>7, <3>1, SumOfSums
    <3> QED
      BY <1>2, <2>5, <3>1, <3>2
  <2>9. \A i \in S : IsDirect(lines[i]) => a[i] = lines[i].gross
    BY <2>1
  <2> QED
    BY <2>6, <2>8, <2>9 DEF a
<1> QED
  BY <1>4, <1>5

(* A fixed pool that is not used up: what each line gets of it.            *)
LEMMA DisposingOfSurplus ==
  ASSUME lines \in Seq(Line), pool \in Nat, Claims < pool,
         NEW share, share = (plan.surplus = "REDISTRIBUTE_PRORATA"),
         NEW direct, direct = (plan.surplus = "REDISTRIBUTE_TO_DIRECT"
                                 /\ \E i \in DOMAIN lines : IsDirect(lines[i]))
  PROVE  /\ WithSurplus \in [DOMAIN lines -> Nat]
         /\ share /\ Claims # 0 => SumFunction(WithSurplus) = pool
         /\ direct => SumFunction(WithSurplus) = pool
         /\ ~share /\ ~direct => SumFunction(WithSurplus) = Claims
<1> DEFINE S    == DOMAIN lines
           mine == {i \in S : IsDirect(lines[i])}
           a    == WithSurplus
<1>1. /\ IsFiniteSet(S) /\ S \subseteq Nat
      /\ Gross \in [S -> Nat] /\ Claims = SumFunction(Gross) /\ Claims \in Nat
      /\ SumFunction(Gross) = SumFunctionOnSet(Gross, S) /\ WholeOn(Gross, S)
  BY LinesAreLines, GrossIsAmounts, AmountsAreSummed
<1>2. Surplus \in Nat /\ Claims + Surplus = pool
  BY <1>1 DEF Surplus
<1>3. CASE share
  <2>1. a = AllocateByWeight(pool, Gross)
    BY <1>3 DEF WithSurplus
  <2>2. ~direct
    BY <1>3
  <2> HIDE DEF a
  <2>3. a \in [S -> Nat] /\ (SumFunction(Gross) # 0 => SumFunction(a) = pool)
    BY <1>1, <2>1, SharingOut
  <2> QED
    BY <1>1, <1>3, <2>2, <2>3 DEF a
<1>4. CASE direct
  <2> DEFINE m == Min(mine)
  <2>1. mine \subseteq Nat /\ mine # {} /\ plan.surplus = "REDISTRIBUTE_TO_DIRECT"
    BY <1>1, <1>4
  <2>2. a = [Gross EXCEPT ![m] = @ + Surplus]
    BY <2>1 DEF WithSurplus
  <2>3. m \in S
    <3>1. m \in mine
      <4> HIDE DEF mine
      <4> QED
        BY <2>1, MinIsIn
    <3> QED
      BY <3>1
  <2> HIDE DEF m, a
  <2>4. /\ a \in [S -> Nat] /\ a[m] = Gross[m] + Surplus
        /\ \A i \in S \ {m} : a[i] = Gross[i]
    BY <1>1, <1>2, <2>2, <2>3
  <2>5. SumFunction(a) = SumFunctionOnSet(a, S) /\ WholeOn(a, S)
    BY <2>4, AmountsAreSummed
  <2>6. SumFunctionOnSet(a, S) = SumFunctionOnSet(Gross, S) + a[m] - Gross[m]
    <3> HIDE DEF S, mine
    <3>1. /\ IsFiniteSet(S) /\ WholeOn(Gross, S) /\ WholeOn(a, S) /\ m \in S
          /\ \A i \in S \ {m} : a[i] = Gross[i]
      BY <1>1, <2>3, <2>4, <2>5
    <3> QED
      BY ONLY <3>1, SumChanged
  <2>7. Gross[m] \in Nat
    BY <1>1, <2>3
  <2>8. SumFunction(a) = pool
    BY <1>1, <1>2, <2>4, <2>5, <2>6, <2>7
  <2>9. ~share
    BY <2>1
  <2> QED
    BY <1>4, <2>4, <2>8, <2>9 DEF a
<1>5. CASE ~share /\ ~direct
  <2>1. a = Gross
    BY <1>5 DEF WithSurplus
  <2> QED
    BY <1>1, <1>5, <2>1
<1> QED
  BY <1>3, <1>4, <1>5

-----------------------------------------------------------------------------
(* The inductive invariant: what each stage has kept so far, and that what *)
(* is paid and what is kept come to what there was to share.               *)
KeptSoFar ==
  /\ phase = "participants" => lines = <<>> /\ left = Nothing
  /\ phase = "claims" => lines \in Seq(Uncut) /\ left = Nothing
  /\ phase = "caps" => left.carried = 0 /\ left.forfeited = 0 /\ left.dropped = 0
  /\ phase = "floor" => left.dropped = 0

FixedIsRead == phase # "participants" /\ FixedPool => pool \in Nat

Due == IF FixedPool \/ Excess THEN pool ELSE Claims

NothingLost ==
  phase \in {"caps", "floor", "done"} /\ ~NobodyToShareWith =>
    Allocated + SumFunction(left) = Due

EngineInv == TypeOK /\ KeptSoFar /\ FixedIsRead /\ NothingLost

(* What is due depends on the plan, the pool and the claims alone.         *)
LEMMA DueIsKept ==
  ASSUME UNCHANGED <<plan, pool>>, Claims' = Claims
  PROVE  /\ Due' = Due /\ Excess' = Excess /\ NobodyToShareWith' = NobodyToShareWith
         /\ FixedPool' = FixedPool
<1>1. FixedPool' = FixedPool
  BY DEF FixedPool
<1>2. Excess' = Excess
  BY DEF Excess
<1>3. NobodyToShareWith' = NobodyToShareWith
  BY <1>1 DEF NobodyToShareWith
<1>4. Due' = Due
  BY <1>1, <1>2 DEF Due
<1> QED
  BY <1>1, <1>2, <1>3, <1>4

LEMMA EngineInit == Init => EngineInv
<1> SUFFICES ASSUME Init PROVE EngineInv
  OBVIOUS
<1>1. plan \in PlanVersion /\ deal \in Sale /\ profile \in Profile
  BY InputsAreRead DEF Init
<1>2. TypeOK
  BY <1>1 DEF Init, TypeOK, Stages, Rate, Nothing
<1>3. KeptSoFar /\ FixedIsRead /\ NothingLost
  BY DEF Init, KeptSoFar, FixedIsRead, NothingLost
<1> QED
  BY <1>2, <1>3 DEF EngineInv

LEMMA ParticipantsStep == EngineInv /\ Participants => EngineInv'
<1> SUFFICES ASSUME EngineInv, Participants PROVE EngineInv'
  OBVIOUS
<1> DEFINE built == BuildParticipants(plan, profile, deal)
<1>1. /\ plan \in PlanVersion /\ deal \in Sale /\ profile \in Profile
      /\ lines \in Seq(Line) /\ left \in [DOMAIN Nothing -> Nat] /\ earned \in [Realtor -> Nat]
      /\ phase = "participants" /\ lines = <<>> /\ left = Nothing
  BY DEF EngineInv, TypeOK, KeptSoFar, Participants
<1>2. /\ phase' = "claims"
      /\ UNCHANGED <<plan, deal, profile, lines, left, earned, recorded>>
      /\ pool' = DerivePool(plan, Base, deal.units)
      /\ waiting' = GateParticipants(plan, profile, built)
  BY DEF Participants
<1>3. Base \in Nat /\ deal.units \in Nat
  BY <1>1, BaseIsAmount DEF Base, Sale
<1>4. pool' \in Rate /\ (FixedPool => pool' \in Nat)
  BY <1>1, <1>2, <1>3, PoolIsRead DEF FixedPool
<1>5. waiting' \subseteq Participant
  <2>1. built \subseteq Participant
    BY <1>1, BuiltAreParticipants
  <2> HIDE DEF built
  <2> QED
    BY <1>2, <2>1 DEF GateParticipants
<1>6. TypeOK'
  <2>1. phase' \in Stages
    BY <1>2 DEF Stages
  <2> QED
    BY <1>1, <1>2, <1>4, <1>5, <2>1 DEF TypeOK
<1>7. KeptSoFar'
  <2>1. <<>> \in Seq(Uncut)
    OBVIOUS
  <2> QED
    BY <1>1, <1>2, <2>1 DEF KeptSoFar, Nothing
<1>8. FixedIsRead' /\ NothingLost'
  BY <1>2, <1>4 DEF FixedIsRead, FixedPool, NothingLost
<1> QED
  BY <1>6, <1>7, <1>8 DEF EngineInv

LEMMA ClaimStep == EngineInv /\ ClaimNext => EngineInv'
<1> SUFFICES ASSUME EngineInv, NEW q \in waiting,
                    phase = "claims",
                    lines' = lines \o Stacked(Capped(ClaimsOf(q, Base))),
                    waiting' = waiting \ {q},
                    UNCHANGED <<plan, deal, profile, phase, pool, left, earned, recorded>>
             PROVE  EngineInv'
  BY DEF ClaimNext
<1>1. /\ TypeOK /\ plan \in PlanVersion /\ deal \in Sale /\ q \in Participant
      /\ lines \in Seq(Uncut) /\ left = Nothing
  BY DEF EngineInv, TypeOK, KeptSoFar
<1>2. Base \in Nat
  BY <1>1, BaseIsAmount DEF Base
<1>3. ClaimsOf(q, Base) \in Seq(Uncut)
  BY <1>1, <1>2, ClaimsAreUncut
<1>4. Stacked(Capped(ClaimsOf(q, Base))) \in Seq(Uncut)
  BY <1>1, <1>3, CappedAreLines, StackedAreClaims
<1>5. lines' \in Seq(Uncut)
  BY <1>1, <1>4, ConcatProperties
<1>6. lines' \in Seq(Line)
  <2>1. Uncut \subseteq Line
    BY DEF Uncut
  <2> QED
    BY <1>5, <2>1, SeqMonotonic
<1>7. TypeOK'
  BY <1>1, <1>6 DEF TypeOK
<1>8. KeptSoFar'
  BY <1>1, <1>5 DEF KeptSoFar
<1>9. FixedIsRead' /\ NothingLost'
  BY DEF EngineInv, FixedIsRead, FixedPool, NothingLost
<1> QED
  BY <1>7, <1>8, <1>9 DEF EngineInv

(* The amounts an excess is cut to, whatever the resolution.               *)
Resolved ==
  CASE plan.resolution = "PROTECT_DIRECT" -> ProtectDirect
    [] plan.resolution = "PRIORITY_ORDER" -> PriorityOrder
    [] OTHER -> Prorate

LEMMA ResolvedFits ==
  ASSUME lines \in Seq(Line), pool \in Nat, Claims > pool
  PROVE  Resolved \in [DOMAIN lines -> Nat] /\ SumFunction(Resolved) <= pool
<1>1. ProtectDirect \in [DOMAIN lines -> Nat] /\ SumFunction(ProtectDirect) <= pool
  BY ProtectingTheSeller
<1>2. PriorityOrder \in [DOMAIN lines -> Nat] /\ SumFunction(PriorityOrder) <= pool
  BY TakingInOrder
<1>3. Prorate \in [DOMAIN lines -> Nat] /\ SumFunction(Prorate) <= pool
  BY GrossIsAmounts, SharingOut DEF Prorate
<1> QED
  BY <1>1, <1>2, <1>3 DEF Resolved

LEMMA ExcessIsResolved ==
  ASSUME EngineInv, ConstrainExcess
  PROVE  /\ lines \in Seq(Line) /\ pool \in Nat /\ Claims > pool
         /\ phase = "claims" /\ left = Nothing
         /\ UNCHANGED <<plan, deal, profile, waiting, pool, earned>>
         /\ \/ lines' = <<>> /\ phase' = "rejected" /\ UNCHANGED left
            \/ /\ lines' = WithAmounts(Resolved)
               /\ left' = Kept(pool - SumFunction(Resolved), 0)
               /\ phase' = "caps"
<1>1. /\ lines \in Seq(Line) /\ pool \in Nat /\ Claims > pool
      /\ phase = "claims" /\ left = Nothing
  BY DEF EngineInv, TypeOK, Rate, KeptSoFar, ConstrainExcess
<1> QED
  BY <1>1 DEF ConstrainExcess, Resolved

(* The money a stage keeps.                                                *)
LEMMA KeepingIsTyped ==
  ASSUME left = Nothing, NEW b \in Nat, NEW h \in Nat, NEW l, l = Kept(b, h)
  PROVE  /\ l \in [DOMAIN Nothing -> Nat] /\ SumFunction(l) = b + h
         /\ l.carried = 0 /\ l.forfeited = 0 /\ l.dropped = 0
<1>1. l = [breakage |-> b, house |-> h, carried |-> 0, forfeited |-> 0, dropped |-> 0]
  BY DEF Kept, Nothing
<1>2. /\ l.breakage = b /\ l.house = h /\ l.carried = 0 /\ l.forfeited = 0 /\ l.dropped = 0
      /\ l \in [DOMAIN Nothing -> Nat]
  BY <1>1 DEF Nothing
<1>3. SumFunction(l) = l.breakage + l.house + l.carried + l.forfeited + l.dropped
  BY <1>2, LeftIsSummed
<1> QED
  BY <1>2, <1>3

LEMMA ExcessStep == EngineInv /\ ConstrainExcess => EngineInv'
<1> SUFFICES ASSUME EngineInv, ConstrainExcess PROVE EngineInv'
  OBVIOUS
<1>1. /\ lines \in Seq(Line) /\ pool \in Nat /\ Claims > pool
      /\ phase = "claims" /\ left = Nothing
      /\ UNCHANGED <<plan, deal, profile, waiting, pool, earned>>
      /\ \/ lines' = <<>> /\ phase' = "rejected" /\ UNCHANGED left
         \/ /\ lines' = WithAmounts(Resolved)
            /\ left' = Kept(pool - SumFunction(Resolved), 0)
            /\ phase' = "caps"
  BY ExcessIsResolved
<1>2. TypeOK
  BY DEF EngineInv
<1>3. FixedIsRead'
  BY <1>1 DEF FixedIsRead
<1>4. CASE lines' = <<>> /\ phase' = "rejected" /\ UNCHANGED left
  <2>1. <<>> \in Seq(Line) /\ phase' \in Stages
    BY <1>4 DEF Stages
  <2>2. TypeOK'
    BY <1>1, <1>2, <1>4, <2>1 DEF TypeOK
  <2>3. KeptSoFar' /\ NothingLost'
    BY <1>4 DEF KeptSoFar, NothingLost
  <2> QED
    BY <1>3, <2>2, <2>3 DEF EngineInv
<1>5. CASE /\ lines' = WithAmounts(Resolved)
           /\ left' = Kept(pool - SumFunction(Resolved), 0)
           /\ phase' = "caps"
  <2>1. Resolved \in [DOMAIN lines -> Nat] /\ SumFunction(Resolved) <= pool
    BY <1>1, ResolvedFits
  <2>2. SumFunction(Resolved) \in Nat
    BY <1>1, <2>1, AmountsAreSummed
  <2>3. lines' \in Seq(Line) /\ Claims' = Claims /\ Allocated' = SumFunction(Resolved)
    BY <1>1, <1>5, <2>1, RewritingKeepsClaims
  <2> DEFINE rest == pool - SumFunction(Resolved)
  <2>4. rest \in Nat /\ left' = Kept(rest, 0)
    BY <1>1, <1>5, <2>1, <2>2
  <2>5. /\ left' \in [DOMAIN Nothing -> Nat] /\ SumFunction(left') = rest + 0
        /\ left'.carried = 0 /\ left'.forfeited = 0 /\ left'.dropped = 0
    <3> HIDE DEF rest
    <3> QED
      BY <1>1, <2>4, KeepingIsTyped
  <2>6. phase' \in Stages
    BY <1>5 DEF Stages
  <2>7. TypeOK'
    BY <1>1, <1>2, <2>3, <2>5, <2>6 DEF TypeOK
  <2>8. KeptSoFar'
    BY <1>5, <2>5 DEF KeptSoFar
  <2>9. Due' = pool
    <3>1. Excess
      BY <1>1, RatesAreRead DEF Excess
    <3> QED
      BY <1>1, <2>3, <3>1, DueIsKept DEF Due
  <2>10. NothingLost'
    BY <1>1, <2>2, <2>3, <2>5, <2>9 DEF NothingLost
  <2> QED
    BY <1>3, <2>7, <2>8, <2>10 DEF EngineInv
<1> QED
  BY <1>1, <1>4, <1>5

LEMMA WithinStep == EngineInv /\ ConstrainWithin => EngineInv'
<1> SUFFICES ASSUME EngineInv, ConstrainWithin PROVE EngineInv'
  OBVIOUS
<1> DEFINE spare  == FixedPool /\ Claims < pool
           nobody == \A i \in DOMAIN lines : ~IsDirect(lines[i])
           breaks == \/ plan.surplus = "BREAKAGE"
                     \/ plan.surplus = "REDISTRIBUTE_TO_DIRECT" /\ nobody
           house  == plan.surplus = "REDISTRIBUTE_TO_HOUSE_ACCOUNT"
           b      == IF breaks THEN Surplus ELSE 0
           h      == IF house THEN Surplus ELSE 0
<1>1. /\ TypeOK /\ lines \in Seq(Line) /\ pool \in Rate
      /\ phase = "claims" /\ left = Nothing /\ lines \in Seq(Uncut)
      /\ FixedPool => pool \in Nat
      /\ plan \in PlanVersion
  BY DEF EngineInv, TypeOK, KeptSoFar, FixedIsRead, ConstrainWithin
<1>2. /\ UNCHANGED <<plan, deal, profile, waiting, pool, earned>>
      /\ pool = NoRate \/ Claims <= pool
      /\ phase' = "caps"
      /\ lines' = IF spare THEN WithAmounts(WithSurplus) ELSE lines
      /\ left' = IF spare THEN Kept(b, h) ELSE left
  BY Zenon, <1>1 DEF ConstrainWithin
<1>3. Claims \in Nat /\ Allocated = Claims
  BY <1>1, GrossIsAmounts, UncutPaysClaims
<1>4. FixedIsRead' /\ phase' \in Stages
  BY <1>1, <1>2 DEF FixedIsRead, FixedPool, Stages
<1>5. ~Excess
  BY <1>1, <1>2, <1>3, RatesAreRead DEF Excess, Rate
<1>6. CASE ~spare
  <2>1. lines' = lines /\ left' = left
    BY <1>2, <1>6
  <2>2. Claims' = Claims /\ Allocated' = Allocated
    BY <2>1 DEF Claims, Allocated, Amounts
  <2>3. Due = Claims
    BY <1>1, <1>2, <1>3, <1>5, <1>6, RatesAreRead DEF Due
  <2>4. SumFunction(left) = 0
    <3>1. left \in [DOMAIN Nothing -> Nat]
      BY <1>1 DEF TypeOK
    <3>2. SumFunction(left) = left.breakage + left.house + left.carried + left.forfeited
                                + left.dropped
      BY <3>1, LeftIsSummed
    <3> QED
      BY <1>1, <3>2 DEF Nothing
  <2>5. TypeOK'
    BY <1>1, <1>2, <1>4, <2>1 DEF TypeOK
  <2>6. KeptSoFar'
    BY <1>1, <1>2, <2>1 DEF KeptSoFar, Nothing
  <2>7. Due' = Due
    BY <1>2, <2>2, DueIsKept
  <2>8. NothingLost'
    BY <1>3, <2>1, <2>2, <2>3, <2>4, <2>7 DEF NothingLost
  <2> QED
    BY <1>4, <2>5, <2>6, <2>8 DEF EngineInv
<1>7. CASE spare
  <2> DEFINE share == (plan.surplus = "REDISTRIBUTE_PRORATA")
             direct == (plan.surplus = "REDISTRIBUTE_TO_DIRECT"
                          /\ \E i \in DOMAIN lines : IsDirect(lines[i]))
             a == WithSurplus
  <2>1. pool \in Nat /\ Claims < pool /\ FixedPool
    BY <1>1, <1>7
  <2>2. Surplus \in Nat /\ Claims + Surplus = pool
    BY <1>3, <2>1 DEF Surplus
  <2>3. /\ a \in [DOMAIN lines -> Nat]
        /\ share /\ Claims # 0 => SumFunction(a) = pool
        /\ direct => SumFunction(a) = pool
        /\ ~share /\ ~direct => SumFunction(a) = Claims
    <3> HIDE DEF a
    <3> QED
      BY <1>1, <2>1, DisposingOfSurplus DEF a
  <2>4. b \in Nat /\ h \in Nat
    BY <2>2
  <2>5. /\ share => b = 0 /\ h = 0
        /\ direct => b = 0 /\ h = 0
        /\ ~share /\ ~direct => b + h = Surplus
    <3>1. plan.surplus \in {"BREAKAGE", "REDISTRIBUTE_PRORATA", "REDISTRIBUTE_TO_DIRECT",
                            "REDISTRIBUTE_TO_HOUSE_ACCOUNT"}
      BY <1>1 DEF PlanVersion
    <3>2. nobody <=> ~\E i \in DOMAIN lines : IsDirect(lines[i])
      OBVIOUS
    <3> HIDE DEF nobody
    <3> QED
      BY <2>2, <3>1, <3>2
  <2> HIDE DEF a, b, h, share, direct
  <2>6. lines' = WithAmounts(a) /\ left' = Kept(b, h)
    BY <1>2, <1>7 DEF a
  <2>7. lines' \in Seq(Line) /\ Claims' = Claims /\ Allocated' = SumFunction(a)
    BY <1>1, <2>3, <2>6, RewritingKeepsClaims
  <2>8. /\ left' \in [DOMAIN Nothing -> Nat] /\ SumFunction(left') = b + h
        /\ left'.carried = 0 /\ left'.forfeited = 0 /\ left'.dropped = 0
    BY <1>1, <2>4, <2>6, KeepingIsTyped
  <2>9. TypeOK'
    BY <1>1, <1>2, <1>4, <2>7, <2>8 DEF TypeOK
  <2>10. KeptSoFar'
    BY <1>2, <2>8 DEF KeptSoFar
  <2>11. Due' = pool /\ (NobodyToShareWith' <=> NobodyToShareWith)
    BY <1>2, <2>1, <2>7, DueIsKept DEF Due
  <2>12. ~NobodyToShareWith => ~(share /\ Claims = 0)
    BY <2>1 DEF NobodyToShareWith, share
  <2>13. ~NobodyToShareWith => SumFunction(a) + (b + h) = pool
    BY <1>3, <2>1, <2>2, <2>3, <2>4, <2>5, <2>12
  <2>14. NothingLost'
    BY <2>7, <2>8, <2>11, <2>13 DEF NothingLost
  <2> QED
    BY <1>4, <2>9, <2>10, <2>14 DEF EngineInv
<1> QED
  BY <1>6, <1>7

(* A stage that has kept nothing so far keeps some money.                  *)
Stage == {"breakage", "house", "carried", "forfeited", "dropped"}

KeptBy(k, l, t, m) == m = [l EXCEPT ![k] = t]

LEMMA KeepingMore ==
  ASSUME NEW l, l \in [DOMAIN Nothing -> Nat], NEW k \in Stage, l[k] = 0,
         NEW t \in Nat, NEW m, KeptBy(k, l, t, m)
  PROVE  /\ m \in [DOMAIN Nothing -> Nat]
         /\ SumFunction(m) = SumFunction(l) + t /\ SumFunction(l) \in Nat
         /\ \A o \in Stage \ {k} : m[o] = l[o]
<1>1. DOMAIN Nothing = Stage
  BY DEF Nothing, Stage
<1>2. /\ m \in [Stage -> Nat] /\ m[k] = t /\ l \in [Stage -> Nat]
      /\ \A o \in Stage \ {k} : m[o] = l[o]
  <2>1. l \in [Stage -> Nat]
    BY <1>1
  <2> QED
    BY <2>1 DEF KeptBy
<1>3. IsFiniteSet(Stage)
  <2>1. \A T, x : IsFiniteSet(T) => IsFiniteSet(T \union {x})
    BY FS_AddElement
  <2>2. IsFiniteSet({"breakage"})
    BY FS_Singleton
  <2>3. Stage = ((({"breakage"} \union {"house"}) \union {"carried"}) \union {"forfeited"})
                  \union {"dropped"}
    BY DEF Stage
  <2> QED
    BY <2>1, <2>2, <2>3
<1>4. WholeOn(l, Stage) /\ WholeOn(m, Stage)
  BY <1>2 DEF WholeOn
<1>5. SumFunctionOnSet(m, Stage) = SumFunctionOnSet(l, Stage) + m[k] - l[k]
  <2>1. /\ IsFiniteSet(Stage) /\ WholeOn(l, Stage) /\ WholeOn(m, Stage) /\ k \in Stage
        /\ \A o \in Stage \ {k} : m[o] = l[o]
    BY <1>2, <1>3, <1>4
  <2> QED
    BY ONLY <2>1, SumChanged
<1>6. SumFunctionOnSet(l, Stage) \in Nat
  <2>1. Stage \in SUBSET Stage /\ \A o \in Stage : l[o] \in Nat
    BY <1>2
  <2> QED
    BY <1>3, <2>1, SumOfPart
<1>7. DOMAIN l = Stage /\ DOMAIN m = Stage
  BY <1>2
<1> QED
  BY <1>1, <1>2, <1>5, <1>6, <1>7 DEF SumFunction

(* What a later stage takes from the lines it keeps.                       *)
LEMMA TakingIsKept ==
  ASSUME lines \in Seq(Line), NEW cut, cut \in [DOMAIN lines -> Nat],
         \A i \in DOMAIN lines : cut[i] <= lines[i].amount,
         NEW a, a = [i \in DOMAIN lines |-> lines[i].amount - cut[i]],
         lines' = WithAmounts(a)
  PROVE  /\ a \in [DOMAIN lines -> Nat]
         /\ SumFunction(cut) \in Nat
         /\ lines' \in Seq(Line) /\ Claims' = Claims
         /\ Allocated' \in Nat /\ Allocated \in Nat
         /\ Allocated' + SumFunction(cut) = Allocated
<1> DEFINE S == DOMAIN lines
           p == [i \in S |-> lines[i].amount]
<1>1. IsFiniteSet(S) /\ \A i \in S : lines[i].amount \in Nat
  BY LinesAreLines
<1>2. a \in [S -> Nat] /\ \A i \in S : p[i] = a[i] + cut[i]
  BY <1>1
<1>3. /\ lines' \in Seq(Line) /\ Claims' = Claims /\ Allocated' = SumFunction(a)
  BY <1>2, RewritingKeepsClaims
<1>4. /\ p \in [S -> Nat] /\ Allocated = SumFunctionOnSet(p, S) /\ Allocated \in Nat
  BY AllocatedIsPaid
<1>5. /\ SumFunction(a) = SumFunctionOnSet(a, S) /\ WholeOn(a, S) /\ SumFunction(a) \in Nat
      /\ SumFunction(cut) = SumFunctionOnSet(cut, S) /\ WholeOn(cut, S)
      /\ SumFunction(cut) \in Nat
  BY <1>2, AmountsAreSummed
<1>6. SumFunctionOnSet(p, S) = SumFunctionOnSet(a, S) + SumFunctionOnSet(cut, S)
  <2> HIDE DEF S, p
  <2>1. /\ IsFiniteSet(S) /\ WholeOn(a, S) /\ WholeOn(cut, S)
        /\ \A i \in S : p[i] = a[i] + cut[i]
    BY <1>1, <1>2, <1>5
  <2> QED
    BY ONLY <2>1, SumOfSums
<1> QED
  BY <1>2, <1>3, <1>4, <1>5, <1>6

(* What is over the headroom of a line is part of its amount.              *)
LEMMA OverIsWithin ==
  ASSUME TypeOK, NEW i \in DOMAIN lines
  PROVE  Over(i) \in Nat /\ Over(i) <= lines[i].amount
<1> DEFINE same == {j \in 1..(i - 1) : lines[j].realtor = lines[i].realtor}
           paid == [j \in DOMAIN lines |-> lines[j].amount]
<1>1. /\ lines \in Seq(Line) /\ plan.cap \in Nat
  BY DEF TypeOK, PlanVersion
<1>2. /\ IsFiniteSet(DOMAIN lines) /\ DOMAIN lines = 1..Len(lines) /\ Len(lines) \in Nat
      /\ \A j \in DOMAIN lines : lines[j].amount \in Nat
  BY <1>1, LinesAreLines
<1>3. same \in SUBSET DOMAIN lines
  BY <1>2
<1>4. \A j \in DOMAIN lines : paid[j] \in Nat
  BY <1>2
<1>5. SumFunctionOnSet(paid, same) \in Nat
  <2> HIDE DEF paid, same
  <2> QED
    BY <1>2, <1>3, <1>4, SumOfPart
<1>6. Headroom(i) \in Nat
  <2>1. Headroom(i) = Greater(plan.cap - SumFunctionOnSet(paid, same), 0)
    BY DEF Headroom
  <2> HIDE DEF paid, same
  <2> QED
    BY <1>1, <1>5, <2>1 DEF Greater
<1>7. lines[i].amount \in Nat
  BY <1>2
<1> QED
  BY <1>6, <1>7 DEF Over, Greater

LEMMA CapsStep == EngineInv /\ ApplyPeriodicCaps => EngineInv'
<1> SUFFICES ASSUME EngineInv, ApplyPeriodicCaps PROVE EngineInv'
  OBVIOUS
<1> DEFINE over == IF plan.cap = 0 THEN [i \in DOMAIN lines |-> 0]
                   ELSE [i \in DOMAIN lines |-> Over(i)]
           a == [i \in DOMAIN lines |-> lines[i].amount - over[i]]
           total == SumFunction(over)
<1>1. /\ TypeOK /\ lines \in Seq(Line) /\ left \in [DOMAIN Nothing -> Nat]
      /\ phase = "caps"
      /\ left.carried = 0 /\ left.forfeited = 0 /\ left.dropped = 0
      /\ ~NobodyToShareWith => Allocated + SumFunction(left) = Due
      /\ FixedPool => pool \in Nat
  BY DEF EngineInv, TypeOK, KeptSoFar, FixedIsRead, NothingLost, ApplyPeriodicCaps
<1>2. /\ UNCHANGED <<plan, deal, profile, waiting, pool, earned>>
      /\ phase' = "floor"
      /\ \/ UNCHANGED <<lines, left>>
         \/ /\ lines' = WithAmounts(a)
            /\ \/ left' = [left EXCEPT !.carried = total]
               \/ left' = [left EXCEPT !.forfeited = total]
  BY DEF ApplyPeriodicCaps
<1>3. FixedIsRead' /\ phase' \in Stages
  BY <1>1, <1>2 DEF FixedIsRead, FixedPool, Stages
<1>4. CASE UNCHANGED <<lines, left>>
  <2>1. Claims' = Claims /\ Allocated' = Allocated
    BY <1>4 DEF Claims, Allocated, Amounts
  <2>2. TypeOK'
    BY <1>1, <1>2, <1>3, <1>4 DEF TypeOK
  <2>3. KeptSoFar'
    BY <1>1, <1>2, <1>4 DEF KeptSoFar
  <2>4. NothingLost'
    BY <1>1, <1>2, <1>4, <2>1, DueIsKept DEF NothingLost
  <2> QED
    BY <1>3, <2>2, <2>3, <2>4 DEF EngineInv
<1>5. CASE /\ lines' = WithAmounts(a)
           /\ \/ left' = [left EXCEPT !.carried = total]
              \/ left' = [left EXCEPT !.forfeited = total]
  <2>1. \A i \in DOMAIN lines : over[i] \in Nat /\ over[i] <= lines[i].amount
    BY <1>1, OverIsWithin, LinesAreLines
  <2>2. over \in [DOMAIN lines -> Nat]
    <3>1. over = [i \in DOMAIN lines |-> over[i]]
      OBVIOUS
    <3> HIDE DEF over
    <3> QED
      BY <2>1, <3>1
  <2> HIDE DEF over
  <2>3. /\ total \in Nat /\ lines' \in Seq(Line) /\ Claims' = Claims
        /\ Allocated' \in Nat /\ Allocated \in Nat
        /\ Allocated' + total = Allocated
    BY <1>1, <1>5, <2>1, <2>2, TakingIsKept
  <2> HIDE DEF total
  <2>4. PICK k \in {"carried", "forfeited"} : left' = [left EXCEPT ![k] = total]
    BY <1>5
  <2>5. left[k] = 0 /\ k \in Stage
    BY <1>1 DEF Stage
  <2>6. /\ left' \in [DOMAIN Nothing -> Nat]
        /\ SumFunction(left') = SumFunction(left) + total /\ SumFunction(left) \in Nat
        /\ \A o \in Stage \ {k} : left'[o] = left[o]
    <3>1. /\ left \in [DOMAIN Nothing -> Nat] /\ k \in Stage /\ left[k] = 0 /\ total \in Nat
          /\ KeptBy(k, left, total, left')
      BY <1>1, <2>3, <2>4, <2>5 DEF KeptBy
    <3> QED
      BY ONLY <3>1, KeepingMore
  <2>7. left'.dropped = 0
    <3>1. "dropped" \in Stage \ {k}
      BY DEF Stage
    <3>2. left'["dropped"] = left["dropped"]
      BY <2>6, <3>1
    <3> QED
      BY <1>1, <3>2
  <2>8. TypeOK'
    BY <1>1, <1>2, <1>3, <2>3, <2>6 DEF TypeOK
  <2>9. KeptSoFar'
    BY <1>2, <2>7 DEF KeptSoFar
  <2>10. Due' = Due /\ NobodyToShareWith' = NobodyToShareWith
    BY <1>2, <2>3, DueIsKept
  <2>11. Allocated' + SumFunction(left') = Allocated + SumFunction(left)
    <3>1. Allocated' \in Nat /\ total \in Nat /\ Allocated' + total = Allocated
      BY <2>3
    <3>2. SumFunction(left') = SumFunction(left) + total /\ SumFunction(left) \in Nat
      BY <2>6
    <3> QED
      BY ONLY <3>1, <3>2
  <2>12. NothingLost'
    BY <1>1, <2>10, <2>11 DEF NothingLost
  <2> QED
    BY <1>3, <2>8, <2>9, <2>12 DEF EngineInv
<1> QED
  BY <1>2, <1>4, <1>5

LEMMA FloorStep == EngineInv /\ ApplyFloor => EngineInv'
<1> SUFFICES ASSUME EngineInv, ApplyFloor PROVE EngineInv'
  OBVIOUS
<1> DEFINE S == DOMAIN lines
           dropped == {i \in S : /\ ~plan.keepsSmall
                                 /\ lines[i].amount > 0
                                 /\ lines[i].amount < plan.least}
           p == [i \in S |-> lines[i].amount]
           cut == [i \in S |-> IF i \in dropped THEN lines[i].amount ELSE 0]
           a == [i \in S |-> lines[i].amount - cut[i]]
           total == SumFunctionOnSet(p, dropped)
<1>1. /\ TypeOK /\ lines \in Seq(Line) /\ left \in [DOMAIN Nothing -> Nat]
      /\ phase = "floor" /\ left.dropped = 0
      /\ ~NobodyToShareWith => Allocated + SumFunction(left) = Due
      /\ FixedPool => pool \in Nat
  BY DEF EngineInv, TypeOK, KeptSoFar, FixedIsRead, NothingLost, ApplyFloor
<1>2. /\ UNCHANGED <<plan, deal, profile, waiting, pool, earned>>
      /\ phase' = "done"
      /\ lines' = WithAmounts([i \in S |-> IF i \in dropped THEN 0 ELSE lines[i].amount])
      /\ left' = [left EXCEPT !.dropped = total]
  BY DEF ApplyFloor
<1>3. FixedIsRead' /\ phase' \in Stages
  BY <1>1, <1>2 DEF FixedIsRead, FixedPool, Stages
<1>4. IsFiniteSet(S) /\ \A i \in S : lines[i].amount \in Nat
  BY <1>1, LinesAreLines
<1>5. dropped \in SUBSET S
  OBVIOUS
<1> HIDE DEF dropped
<1>6. /\ cut \in [S -> Nat] /\ \A i \in S : cut[i] <= lines[i].amount
      /\ \A i \in S \ dropped : cut[i] = 0
      /\ \A i \in S : i \in dropped => cut[i] = p[i]
  BY <1>4
<1>7. a = [i \in S |-> IF i \in dropped THEN 0 ELSE lines[i].amount]
  <2>1. \A i \in S : lines[i].amount - cut[i] = IF i \in dropped THEN 0 ELSE lines[i].amount
    BY <1>4
  <2> QED
    BY <2>1
<1>8. SumFunction(cut) = total
  <2>1. /\ SumFunction(cut) = SumFunctionOnSet(cut, S) /\ WholeOn(cut, S)
    <3> HIDE DEF cut
    <3> QED
      BY <1>1, <1>6, AmountsAreSummed
  <2>2. SumFunctionOnSet(cut, S) = SumFunctionOnSet(cut, dropped)
    <3> HIDE DEF cut, S
    <3> QED
      BY <1>4, <1>5, <1>6, <2>1, SumOfSupport
  <2>3. SumFunctionOnSet(cut, dropped) = SumFunctionOnSet(p, dropped)
    <3> HIDE DEF cut, S, p
    <3>1. IsFiniteSet(dropped) /\ WholeOn(cut, dropped) /\ \A i \in dropped : p[i] = cut[i]
      BY <1>4, <1>5, <1>6, <2>1, FS_Subset DEF WholeOn
    <3> QED
      BY ONLY <3>1, SumAgrees
  <2> QED
    BY <2>1, <2>2, <2>3
<1> HIDE DEF cut
<1>9. /\ SumFunction(cut) \in Nat /\ lines' \in Seq(Line) /\ Claims' = Claims
      /\ Allocated' \in Nat /\ Allocated \in Nat
      /\ Allocated' + SumFunction(cut) = Allocated
  BY <1>1, <1>2, <1>6, <1>7, TakingIsKept
<1> HIDE DEF total
<1>10. KeptBy("dropped", left, total, left') /\ left["dropped"] = 0 /\ "dropped" \in Stage
  BY <1>1, <1>2 DEF Stage, KeptBy
<1>11. /\ left' \in [DOMAIN Nothing -> Nat]
       /\ SumFunction(left') = SumFunction(left) + total /\ SumFunction(left) \in Nat
  BY <1>1, <1>8, <1>9, <1>10, KeepingMore
<1>12. TypeOK'
  BY <1>1, <1>2, <1>3, <1>9, <1>11 DEF TypeOK
<1>13. KeptSoFar'
  BY <1>2 DEF KeptSoFar
<1>14. Due' = Due /\ NobodyToShareWith' = NobodyToShareWith
  BY <1>2, <1>9, DueIsKept
<1>15. Allocated' + SumFunction(left') = Allocated + SumFunction(left)
  BY <1>8, <1>9, <1>11
<1>16. NothingLost'
  BY <1>1, <1>14, <1>15 DEF NothingLost
<1> QED
  BY <1>3, <1>12, <1>13, <1>16 DEF EngineInv

LEMMA RecordStep == EngineInv /\ Record => EngineInv'
<1> SUFFICES ASSUME EngineInv, Record PROVE EngineInv'
  OBVIOUS
<1> DEFINE amount == [i \in DOMAIN lines |-> lines[i].amount]
           mine(r) == {i \in DOMAIN lines : lines[i].realtor = r}
<1>1. TypeOK /\ lines \in Seq(Line) /\ earned \in [Realtor -> Nat]
  BY DEF EngineInv, TypeOK
<1>2. /\ UNCHANGED <<plan, profile>> /\ deal' \in Deals
      /\ phase' = "participants" /\ waiting' = {} /\ lines' = <<>>
      /\ pool' = NoRate /\ left' = Nothing
      /\ earned' = [r \in Realtor |-> earned[r] + SumFunctionOnSet(amount, mine(r))]
  BY DEF Record
<1>3. ASSUME NEW r \in Realtor PROVE SumFunctionOnSet(amount, mine(r)) \in Nat
  <2>1. IsFiniteSet(DOMAIN lines) /\ \A i \in DOMAIN lines : amount[i] \in Nat
    BY <1>1, LinesAreLines
  <2>2. mine(r) \in SUBSET DOMAIN lines
    OBVIOUS
  <2> DEFINE part == mine(r)
  <2>3. SumFunctionOnSet(amount, part) \in Nat
    <3>1. part \in SUBSET DOMAIN lines
      BY <2>2
    <3> HIDE DEF part, amount
    <3> QED
      BY <2>1, <3>1, SumOfPart
  <2> QED
    BY <2>3
<1>4. earned' \in [Realtor -> Nat]
  <2> HIDE DEF amount, mine
  <2>1. \A r \in Realtor : earned[r] + SumFunctionOnSet(amount, mine(r)) \in Nat
    BY <1>1, <1>3
  <2> QED
    BY <1>2, <2>1
<1>5. /\ deal' \in Sale /\ phase' \in Stages /\ waiting' \subseteq Participant
      /\ lines' \in Seq(Line) /\ pool' \in Rate /\ left' \in [DOMAIN Nothing -> Nat]
  BY <1>2, InputsAreRead DEF Stages, Rate, Nothing
<1>6. TypeOK'
  BY <1>1, <1>2, <1>4, <1>5 DEF TypeOK
<1>7. KeptSoFar' /\ FixedIsRead' /\ NothingLost'
  BY <1>2 DEF KeptSoFar, FixedIsRead, NothingLost
<1> QED
  BY <1>6, <1>7 DEF EngineInv

LEMMA EngineStep == EngineInv /\ [Next]_vars => EngineInv'
<1> SUFFICES ASSUME EngineInv, [Next]_vars PROVE EngineInv'
  OBVIOUS
<1>1. CASE Next
  BY <1>1, ParticipantsStep, ClaimStep, ExcessStep, WithinStep, CapsStep, FloorStep, RecordStep
     DEF Next
<1>2. CASE UNCHANGED vars
  <2>1. UNCHANGED <<plan, deal, profile, phase, waiting, lines, pool, left, earned>>
    BY <1>2 DEF vars
  <2>2. UNCHANGED <<Claims, Allocated>>
    BY <2>1 DEF Claims, Allocated, Amounts
  <2>3. TypeOK' /\ KeptSoFar' /\ FixedIsRead'
    BY <2>1 DEF EngineInv, TypeOK, KeptSoFar, FixedIsRead, FixedPool
  <2>4. NothingLost'
    BY <2>1, <2>2, DueIsKept DEF EngineInv, NothingLost
  <2> QED
    BY <2>3, <2>4 DEF EngineInv
<1> QED
  BY <1>1, <1>2

(* A calculation is always of its type: whatever is derived from the plan, *)
(* claimed, cut, moved or dropped is an amount and never negative          *)
(* (calculate).                                                            *)
THEOREM CalculationTyped == Spec => []TypeOK
<1>1. EngineInv => TypeOK
  BY DEF EngineInv
<1> QED
  BY <1>1, EngineInit, EngineStep, PTL DEF Spec

(* No unit is lost or invented between the constraint phases, whatever the *)
(* plan: wherever somebody shares it, a pool that is fixed or exceeded is  *)
(* paid out or reported to the last unit, and else every claim is          *)
(* (applyConstraints, applyPeriodicCaps, applyFloor).                      *)
THEOREM MoneyIsAccountedFor == Spec => []MoneyAccountedFor
<1>1. EngineInv => MoneyAccountedFor
  <2> SUFFICES ASSUME EngineInv PROVE MoneyAccountedFor
    OBVIOUS
  <2>1. \A stage \in DOMAIN left : left[stage] >= 0
    BY DEF EngineInv, TypeOK
  <2>2. ~NobodyToShareWith => PoolAccountedFor
    BY DEF EngineInv, NothingLost, PoolAccountedFor, Due
  <2> QED
    BY <2>1, <2>2 DEF MoneyAccountedFor
<1> QED
  BY <1>1, EngineInit, EngineStep, PTL DEF Spec

-----------------------------------------------------------------------------
(* How an excess is resolved.  The constraints that follow only take from  *)
(* the lines, so that it is the stage right after the pool that is looked  *)
(* at.                                                                     *)
LEMMA ExcessAppears ==
  ASSUME EngineInv, [Next]_vars, phase' = "caps", Excess'
  PROVE  \/ UNCHANGED vars
         \/ /\ lines \in Seq(Line) /\ pool \in Nat /\ Claims > pool /\ Claims \in Nat
            /\ UNCHANGED <<plan, pool>>
            /\ Resolved \in [DOMAIN lines -> Nat]
            /\ DOMAIN lines' = DOMAIN lines /\ Claims' = Claims
            /\ \A i \in DOMAIN lines :
                 /\ lines'[i].amount = Resolved[i] /\ lines'[i].gross = lines[i].gross
                 /\ lines'[i].role = lines[i].role
                 /\ lines'[i].generation = lines[i].generation
<1>1. CASE UNCHANGED vars
  BY <1>1
<1>2. CASE ConstrainExcess
  <2>1. /\ lines \in Seq(Line) /\ pool \in Nat /\ Claims > pool
        /\ UNCHANGED <<plan, pool>>
        /\ lines' = WithAmounts(Resolved)
    BY <1>2, ExcessIsResolved
  <2>2. Resolved \in [DOMAIN lines -> Nat]
    BY <2>1, ResolvedFits
  <2>3. /\ DOMAIN lines' = DOMAIN lines /\ Claims' = Claims
        /\ \A i \in DOMAIN lines :
             /\ lines'[i].amount = Resolved[i] /\ lines'[i].gross = lines[i].gross
             /\ lines'[i].role = lines[i].role
             /\ lines'[i].generation = lines[i].generation
    BY <2>1, <2>2, RewritingKeepsClaims
  <2> QED
    BY <2>1, <2>2, <2>3, GrossIsAmounts
<1>3. CASE ConstrainWithin
  <2>1. /\ lines \in Seq(Line) /\ UNCHANGED <<plan, pool>> /\ pool \in Rate
        /\ pool = NoRate \/ Claims <= pool
    BY <1>3 DEF EngineInv, TypeOK, ConstrainWithin
  <2>2. Claims \in Nat
    BY <2>1, GrossIsAmounts
  <2>3. ~Excess
    BY <2>1, <2>2, RatesAreRead DEF Excess, Rate
  <2>4. Claims' = Claims
    <3>1. CASE FixedPool /\ Claims < pool
      <4>1. lines' = WithAmounts(WithSurplus) /\ pool \in Nat
        BY <1>3, <3>1 DEF ConstrainWithin, EngineInv, FixedIsRead
      <4>2. WithSurplus \in [DOMAIN lines -> Nat]
        BY <2>1, <3>1, <4>1, DisposingOfSurplus
      <4> QED
        BY <2>1, <4>1, <4>2, RewritingKeepsClaims
    <3>2. CASE ~(FixedPool /\ Claims < pool)
      <4>1. lines' = lines
        BY <1>3, <3>2 DEF ConstrainWithin
      <4> QED
        BY <4>1 DEF Claims, Amounts
    <3> QED
      BY <3>1, <3>2
  <2> QED
    BY <2>1, <2>3, <2>4, DueIsKept
<1> QED
  BY <1>1, <1>2, <1>3
     DEF Next, Participants, ClaimNext, ApplyPeriodicCaps, ApplyFloor, Record

(* The claims that PRORATE cuts are cut alike, whatever was claimed: each  *)
(* within a unit of its quota, and never a larger claim below a smaller    *)
(* (applyConstraints, allocateByWeight).                                   *)
THEOREM ExcessIsCutAlike == Spec => []CutInProportion
<1>1. Init => CutInProportion
  BY DEF Init, CutInProportion
<1>2. EngineInv /\ CutInProportion /\ [Next]_vars => CutInProportion'
  <2> SUFFICES ASSUME EngineInv, CutInProportion, [Next]_vars,
                      phase' = "caps", Excess', plan'.resolution = "PRORATE",
                      ~UNCHANGED vars
               PROVE  CutInProportion'
    <3>1. CASE UNCHANGED vars
      <4>1. UNCHANGED <<Claims, Excess, phase, plan, lines, pool>>
        BY <3>1 DEF vars, Excess, Claims, Amounts
      <4> QED
        BY <4>1 DEF CutInProportion
    <3> QED
      BY <3>1 DEF CutInProportion
  <2>1. /\ lines \in Seq(Line) /\ pool \in Nat /\ Claims > pool /\ Claims \in Nat
        /\ UNCHANGED <<plan, pool>>
        /\ Resolved \in [DOMAIN lines -> Nat]
        /\ DOMAIN lines' = DOMAIN lines /\ Claims' = Claims
        /\ \A i \in DOMAIN lines :
             lines'[i].amount = Resolved[i] /\ lines'[i].gross = lines[i].gross
    BY ExcessAppears
  <2>2. Resolved = AllocateByWeight(pool, Gross)
    BY <2>1 DEF Resolved, Prorate
  <2>3. /\ DOMAIN lines = 1..Len(lines) /\ Len(lines) \in Nat
        /\ Gross \in [DOMAIN lines -> Nat] /\ Claims = SumFunction(Gross)
        /\ \A i \in DOMAIN lines : Gross[i] = lines[i].gross
        /\ AmountsOver(Gross, Len(lines))
    BY <2>1, LinesAreLines, GrossIsAmounts, AmountsAreSummed
  <2>4. SumFunction(Gross) # 0
    BY <2>1, <2>3
  <2>5. ASSUME NEW i \in DOMAIN lines
        PROVE  /\ Resolved[i] * Claims - Gross[i] * pool < Claims
               /\ -(Resolved[i] * Claims - Gross[i] * pool) < Claims
               /\ \A j \in DOMAIN lines : Gross[i] > Gross[j] => Resolved[i] >= Resolved[j]
    BY <2>1, <2>2, <2>3, <2>4, SharesFollowWeights
  <2>6. ASSUME NEW i \in DOMAIN lines'
        PROVE  /\ lines'[i].amount * Claims' - lines'[i].gross * pool' < Claims'
               /\ -(lines'[i].amount * Claims' - lines'[i].gross * pool') < Claims'
               /\ \A j \in DOMAIN lines' :
                    lines'[i].gross > lines'[j].gross => lines'[i].amount >= lines'[j].amount
    <3>1. i \in DOMAIN lines /\ pool' = pool /\ Claims' = Claims
      BY <2>1
    <3>2. /\ lines'[i].amount = Resolved[i] /\ lines'[i].gross = Gross[i]
          /\ \A j \in DOMAIN lines : lines'[j].amount = Resolved[j] /\ lines'[j].gross = Gross[j]
      BY <2>1, <2>3, <3>1
    <3> QED
      BY <2>1, <2>5, <3>1, <3>2
  <2> QED
    BY <2>6 DEF CutInProportion
<1> QED
  BY <1>1, <1>2, EngineInit, EngineStep, PTL DEF Spec

(* Precedence is kept to the last unit: where the seller is protected      *)
(* nobody else is paid from a pool that cuts the seller, and in the        *)
(* priority order nobody is paid before everybody nearer the sale has all  *)
(* of its claim (applyConstraints).                                        *)
THEOREM PrecedenceIsKept == Spec => []PrecedenceKept
<1>1. Init => PrecedenceKept
  BY DEF Init, PrecedenceKept
<1>2. EngineInv /\ PrecedenceKept /\ [Next]_vars => PrecedenceKept'
  <2> SUFFICES ASSUME EngineInv, PrecedenceKept, [Next]_vars,
                      phase' = "caps", Excess', ~UNCHANGED vars
               PROVE  PrecedenceKept'
    <3>1. CASE UNCHANGED vars
      <4>1. UNCHANGED <<Claims, Excess, phase, plan, lines>>
        BY <3>1 DEF vars, Excess, Claims, Amounts
      <4> QED
        BY <4>1 DEF PrecedenceKept
    <3> QED
      BY <3>1 DEF PrecedenceKept
  <2>1. /\ lines \in Seq(Line) /\ pool \in Nat /\ Claims > pool /\ Claims \in Nat
        /\ UNCHANGED <<plan, pool>>
        /\ Resolved \in [DOMAIN lines -> Nat]
        /\ DOMAIN lines' = DOMAIN lines
        /\ \A i \in DOMAIN lines :
             /\ lines'[i].amount = Resolved[i] /\ lines'[i].gross = lines[i].gross
             /\ lines'[i].role = lines[i].role
             /\ lines'[i].generation = lines[i].generation
    BY ExcessAppears
  <2>2. ASSUME NEW i \in DOMAIN lines, NEW j \in DOMAIN lines,
               PlaceOf(lines[i]) < PlaceOf(lines[j]), Resolved[j] > 0,
               \/ plan.resolution = "PROTECT_DIRECT" /\ IsDirect(lines[i])
               \/ plan.resolution = "PRIORITY_ORDER"
        PROVE  Resolved[i] = lines[i].gross
    <3>1. CASE plan.resolution = "PROTECT_DIRECT" /\ IsDirect(lines[i])
      <4>1. Resolved = ProtectDirect
        BY <3>1 DEF Resolved
      <4>2. ~IsDirect(lines[j])
        <5>1. PlaceOf(lines[i]) \in Nat
          BY <2>1, LinesAreOrdered
        <5> QED
          BY <2>2, <5>1 DEF PlaceOf, IsDirect
      <4> QED
        BY <2>1, <2>2, <3>1, <4>1, <4>2, ProtectingTheSeller
    <3>2. CASE plan.resolution = "PRIORITY_ORDER"
      <4>1. Resolved = PriorityOrder
        BY <3>2 DEF Resolved
      <4>2. Before(i, j)
        BY <2>2 DEF Before
      <4>3. /\ ClaimedAhead(i) \in Nat /\ ClaimedAhead(j) \in Nat
            /\ ClaimedAhead(i) + lines[i].gross <= ClaimedAhead(j)
        BY <2>1, <4>2, AheadIsAmount
      <4>4. /\ Resolved[i] = Greater(Lesser(lines[i].gross, pool - ClaimedAhead(i)), 0)
            /\ Resolved[j] = Greater(Lesser(lines[j].gross, pool - ClaimedAhead(j)), 0)
        BY <2>1, <4>1, TakingInOrder
      <4>5. lines[i].gross \in Nat /\ lines[j].gross \in Nat
        BY <2>1, LinesAreLines
      <4>6. ClaimedAhead(j) < pool
        BY <2>1, <2>2, <4>3, <4>4, <4>5 DEF Greater, Lesser
      <4> QED
        BY <2>1, <4>3, <4>4, <4>5, <4>6 DEF Greater, Lesser
    <3> QED
      BY <2>2, <3>1, <3>2
  <2>3. \A i \in DOMAIN lines :
          /\ PlaceOf(lines'[i]) = PlaceOf(lines[i])
          /\ IsDirect(lines'[i]) <=> IsDirect(lines[i])
    BY <2>1 DEF PlaceOf, IsDirect
  <2>4. ASSUME NEW i \in DOMAIN lines', NEW j \in DOMAIN lines',
               PlaceOf(lines'[i]) < PlaceOf(lines'[j]), lines'[j].amount > 0,
               \/ plan'.resolution = "PROTECT_DIRECT" /\ IsDirect(lines'[i])
               \/ plan'.resolution = "PRIORITY_ORDER"
        PROVE  lines'[i].amount = lines'[i].gross
    <3>1. i \in DOMAIN lines /\ j \in DOMAIN lines /\ plan' = plan
      BY <2>1
    <3>2. /\ PlaceOf(lines[i]) < PlaceOf(lines[j]) /\ Resolved[j] > 0
          /\ IsDirect(lines'[i]) <=> IsDirect(lines[i])
      BY <2>1, <2>3, <2>4, <3>1
    <3>3. Resolved[i] = lines[i].gross
      BY <2>2, <2>4, <3>1, <3>2
    <3> QED
      BY <2>1, <3>1, <3>3
  <2> QED
    BY <2>4 DEF PrecedenceKept
<1> QED
  BY <1>1, <1>2, EngineInit, EngineStep, PTL DEF Spec
=============================================================================
