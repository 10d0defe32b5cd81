----------------------------- MODULE Promotions -----------------------------
(***************************************************************************)
(* Campaigns and the purchases that receive them: shared/src/              *)
(* promotionStore.js, property-service's promotionController.js, its       *)
(* checkoutPurchase, and the steps of finance-service that settle what a   *)
(* purchase was given (the first approved payment, cancelInvoice, the      *)
(* daily expiry and editInvoiceQuantity).                                  *)
(*                                                                         *)
(* A checkout reads the campaigns and what was taken up of them, and       *)
(* writes the invoice with its redemption, in one transaction that locks   *)
(* neither: it is two steps.  So is every handler that looks before it     *)
(* writes.  A request in flight may end without an effect.                 *)
(*                                                                         *)
(* All is of one company.  The fields of a campaign's row and the rules of *)
(* its current version are saved together and read together: a version is  *)
(* the whole form.                                                         *)
(*                                                                         *)
(* InPlace and KeepsItsPlace stand for plausible mistakes in the operator  *)
(* that follows them.                                                      *)
(***************************************************************************)
EXTENDS PromotionRules, FiniteSetsExt

CONSTANTS
  Promotion,      \* ids of the campaigns
  Forms,          \* what an administrator may save, as PromotionRules describes it
  Invoice,        \* bound: invoices raised, one per purchase
  Buyer,          \* buyers
  Profile,        \* the category, the realtor and the realtor's level of each
  Unit,           \* unit configurations on sale
  PropertyOf,     \* the property of each
  ListPrice,      \* the price each starts with
  Prices,         \* prices a unit may have
  Quantities,     \* quantities that may be bought
  Plan,           \* instalment plans assigned to the units
  Surcharge,      \* the percentage each adds
  Codes,          \* the lists of codes a buyer may send
  Drafts,         \* forms an administrator may describe to the preview
  Baskets,        \* baskets an administrator may describe to the preview
  ExpiryDays,     \* days after which an unpaid invoice lapses; 0: it does not
  MaxVersions,    \* bound: versions of a campaign
  Days,           \* bound: the days of the run, from 1
  MaxInFlight,    \* bound: requests in flight at once
  MaxRequests     \* bound: requests made in a run

ASSUME PromotionAssumptions ==
  /\ Promotion \subseteq Nat
  /\ Surcharge \in [Plan -> Nat]
  /\ PropertyOf \in [Unit -> Nat]
  /\ ListPrice \in [Unit -> Nat] /\ Prices \subseteq Nat
  /\ Quantities \subseteq Nat \ {0}
  /\ MaxInFlight \in Nat \ {0}

(* A form has its fields, and its figures are numbers; 0 is none.          *)
ASSUME FormsAreFilledIn ==
  \A form \in Forms :
    /\ form = [field \in DOMAIN form |-> form[field]]
    /\ {"status", "limits", "scope", "benefit", "basis", "priority"} \subseteq DOMAIN form
    /\ {"rate", "amount", "cap", "tiers", "tierOn"} \subseteq DOMAIN form
    /\ {"buy", "reward", "repeatable", "maxRewards"} \subseteq DOMAIN form
    /\ form.limits \in [total : Nat, customer : Nat, day : Nat, units : Nat]
    /\ form.rate \in Nat /\ form.priority \in Int /\ form.maxRewards \in Nat
    /\ form.buy.quantity \in Nat /\ form.reward.quantity \in Nat
    /\ IsFiniteSet(form.tiers)
    /\ \A tier \in form.tiers : tier.from \in Nat /\ tier.rate \in Nat

VARIABLES
  status,         \* the status of each campaign; "none": not created
  versions,       \* its versions, the last of which is current
  redemptions,    \* what was given, frozen
  invoices,       \* the invoices of the purchases, with their payment plans
  price,          \* the configured price of each unit
  today,
  inFlight,       \* requests that have read and not yet written
  requests,       \* how many there were
  shown           \* the preview on an administrator's screen

vars == <<status, versions, redemptions, invoices, price, today, inFlight, requests, shown>>

campaigns == <<status, versions>>

sales == <<redemptions, invoices>>

Outright == "outright"

Closed == {"cancelled", "expired"}

NoInvoice == [status |-> "none", paid |-> FALSE]

NoPreview == <<>>

(* A run starts with no campaign, or with live ones nobody has taken up.   *)
Init ==
  /\ \/ /\ status = [p \in Promotion |-> "none"]
        /\ versions = [p \in Promotion |-> <<>>]
     \/ /\ status = [p \in Promotion |-> "ACTIVE"]
        /\ versions \in [Promotion -> {<<form>> : form \in {f \in Forms : Coherent(f)}}]
  /\ redemptions = {}
  /\ invoices = [i \in Invoice |-> NoInvoice]
  /\ price = ListPrice
  /\ today = 1
  /\ inFlight = {}
  /\ requests = 0
  /\ shown = NoPreview

-----------------------------------------------------------------------------
Current(p) == [versions[p][Len(versions[p])] EXCEPT !.status = status[p]]

Admit(q) ==
  /\ Cardinality(inFlight) < MaxInFlight
  /\ q \notin inFlight
  /\ requests < MaxRequests
  /\ requests' = requests + 1
  /\ inFlight' = inFlight \union {q}
  /\ UNCHANGED <<campaigns, sales, price, today, shown>>

Served(q) ==
  /\ q \in inFlight
  /\ inFlight' = inFlight \ {q}
  /\ UNCHANGED requests

EndsWithoutEffect ==
  \E q \in inFlight :
    /\ Served(q)
    /\ UNCHANGED <<campaigns, sales, price, today, shown>>

-----------------------------------------------------------------------------
(* createPromotion, always a draft; updatePromotion, refused for an        *)
(* archived campaign by what it read.  saveVersion never writes over a     *)
(* version; two at once get the same number, and one is refused by the     *)
(* index.                                                                  *)
InPlace(p, form) ==
  [versions EXCEPT ![p] = IF @ = <<>> THEN <<form>> ELSE [@ EXCEPT ![Len(@)] = form]]

SaveVersion(p, form) == [versions EXCEPT ![p] = Append(@, form)]

CreatePromotion ==
  \E p \in Promotion, form \in Forms :
    /\ status[p] = "none"
    /\ shown = NoPreview
    /\ status' = [status EXCEPT ![p] = "DRAFT"]
    /\ versions' = SaveVersion(p, form)
    /\ UNCHANGED <<sales, price, today, inFlight, requests, shown>>

UpdateReads ==
  \E p \in Promotion, form \in Forms :
    /\ status[p] \notin {"none", "ARCHIVED"}
    /\ Len(versions[p]) < MaxVersions
    /\ Admit([op |-> "update", promotion |-> p, form |-> form])

UpdatePromotion ==
  \E q \in inFlight :
    /\ q.op = "update"
    /\ Served(q)
    /\ Len(versions[q.promotion]) < MaxVersions
    /\ versions' = SaveVersion(q.promotion, q.form)
    /\ UNCHANGED <<status, sales, price, today, shown>>

(* setStatus: moves of the table, into ACTIVE and SCHEDULED only when the  *)
(* rules are coherent.  The write does not look again.                     *)
Transitions(from) ==
  CASE from = "DRAFT" -> {"SCHEDULED", "ACTIVE", "ARCHIVED"}
    [] from = "SCHEDULED" -> {"ACTIVE", "PAUSED", "DEACTIVATED", "ARCHIVED"}
    [] from = "ACTIVE" -> {"PAUSED", "DEACTIVATED", "EXPIRED", "ARCHIVED"}
    [] from = "PAUSED" -> {"ACTIVE", "DEACTIVATED", "ARCHIVED"}
    [] from \in {"DEACTIVATED", "EXPIRED"} -> {"ARCHIVED"}
    [] OTHER -> {}

StatusReads ==
  \E p \in Promotion : \E target \in Transitions(status[p]) :
    /\ target \in {"ACTIVE", "SCHEDULED"} => Coherent(Current(p))
    /\ Admit([op |-> "status", promotion |-> p, target |-> target])

SetStatus ==
  \E q \in inFlight :
    /\ q.op = "status"
    /\ Served(q)
    /\ status' = [status EXCEPT ![q.promotion] = q.target]
    /\ UNCHANGED <<versions, sales, price, today, shown>>

(* buyerContext: a purchase counts once money has arrived for it.          *)
CompletedPurchases(buyer) ==
  Cardinality({i \in Invoice : invoices[i].paid /\ invoices[i].buyer = buyer})

BuyerContext(buyer) ==
  [id |-> buyer, purchases |-> CompletedPurchases(buyer), category |-> Profile[buyer].category,
   realtor |-> Profile[buyer].realtor, level |-> Profile[buyer].level]

(* What a quote is asked for.  No caller says what is paid up front, or    *)
(* asks for another rule than the highest benefit: one promotion at most   *)
(* is given.                                                               *)
ContextFor(buyer, plan, codes) ==
  [today |-> today, buyer |-> BuyerContext(buyer), plan |-> plan, upfront |-> 0,
   payment |-> IF plan = Outright THEN Outright ELSE "installment",
   codes |-> codes, resolution |-> "HIGHEST_BENEFIT"]

(* previewPromotion: the form as if it were live, on the lines described,  *)
(* before anybody took it up.  It reads nothing that is stored, so when it *)
(* is asked makes no difference: before the first campaign.                *)
Unused == [total |-> 0, customer |-> 0, day |-> 0, units |-> 0]

Preview ==
  \E form \in Drafts, basket \in Baskets, buyer \in Buyer, plan \in {Outright} \union Plan :
    LET live    == [form EXCEPT !.status = "ACTIVE"]
        result  == EvaluateBasket(<<[rules |-> live, usage |-> Unused]>>, basket,
                                  ContextFor(buyer, plan, {form.code}))
    IN  /\ \A p \in Promotion : status[p] = "none"
        /\ shown = NoPreview
        /\ shown' = [form |-> form, basket |-> basket, discount |-> result.discount,
                     payable |-> result.payable,
                     shares |-> IF result.applied = {} THEN <<>> ELSE Shares(live, basket)]
        /\ UNCHANGED <<campaigns, sales, price, today, inFlight, requests>>

DismissPreview ==
  /\ shown # NoPreview
  /\ shown' = NoPreview
  /\ UNCHANGED <<campaigns, sales, price, today, inFlight, requests>>

-----------------------------------------------------------------------------
(* usageFor: the redemptions that still stand.                             *)
Standing(p) == {r \in redemptions : r.promotion = p /\ r.status # "RELEASED"}

UsageFor(p, buyer) ==
  [total    |-> Cardinality(Standing(p)),
   customer |-> Cardinality({r \in Standing(p) : r.buyer = buyer}),
   day      |-> Cardinality({r \in Standing(p) : r.day = today}),
   units    |-> MapThenSumSet(LAMBDA r : r.units, Standing(p))]

(* candidatesFor, and quoteBasket.                                         *)
Candidates == {p \in Promotion : status[p] = "ACTIVE" /\ WithinDates(Current(p), today)}

QuoteBasket(basket, context) ==
  EvaluateBasket([p \in Candidates |-> [rules |-> Current(p), usage |-> UsageFor(p, context.buyer.id)]],
                 basket, context)

Line(unit, quantity) ==
  [unit |-> unit, property |-> PropertyOf[unit], quantity |-> quantity, price |-> price[unit]]

QuoteFor(buyer, unit, quantity, plan, codes) ==
  QuoteBasket(<<Line(unit, quantity)>>, ContextFor(buyer, plan, codes))

(* installmentPricing's quote: the discount comes off the base, and the    *)
(* plan's charge is on what is left.                                       *)
TotalFor(base, discount, plan) ==
  LET left == base - Clamped(discount, base)
  IN  IF plan = Outright THEN left ELSE left + PercentageOf(left, Surcharge[plan])

-----------------------------------------------------------------------------
(* checkoutPurchase.  Its transaction reads: the price, the campaigns and  *)
(* what they have left.                                                    *)
FreeInvoices ==
  {i \in Invoice : invoices[i].status = "none" /\ \A q \in inFlight : q.op = "checkout" => q.invoice # i}

CheckoutReads ==
  \E i \in FreeInvoices, buyer \in Buyer, unit \in Unit, quantity \in Quantities,
     plan \in {Outright} \union Plan, codes \in Codes :
    LET quote == QuoteFor(buyer, unit, quantity, plan, codes)
    IN  Admit([op |-> "checkout", invoice |-> i, buyer |-> buyer, unit |-> unit,
               quantity |-> quantity, plan |-> plan, price |-> price[unit], day |-> today,
               discount |-> quote.discount,
               given |-> {[promotion |-> p, version |-> Len(versions[p]), day |-> today,
                           discount |-> Discount(Current(p), <<Line(unit, quantity)>>)] :
                            p \in quote.applied}])

(* And it writes: the invoice and its plan, and recordRedemption for each  *)
(* promotion that was given, every figure copied.                          *)
Redemption(q, g) ==
  [promotion |-> g.promotion, version |-> g.version, invoice |-> q.invoice, buyer |-> q.buyer,
   unit |-> q.unit, units |-> q.quantity, original |-> q.price * q.quantity,
   discount |-> g.discount, day |-> g.day, status |-> "RESERVED"]

Checkout ==
  \E q \in inFlight :
    /\ q.op = "checkout"
    /\ Served(q)
    /\ LET base == q.price * q.quantity
       IN  invoices' = [invoices EXCEPT ![q.invoice] =
             [status |-> "sent", paid |-> FALSE, buyer |-> q.buyer, plan |-> q.plan, since |-> q.day,
              price |-> q.price, base |-> base, discount |-> q.discount,
              total |-> TotalFor(base, q.discount, q.plan)]]
    /\ redemptions' = redemptions \union {Redemption(q, g) : g \in q.given}
    /\ UNCHANGED <<campaigns, price, today, shown>>

-----------------------------------------------------------------------------
(* settleRedemptions: only what is still reserved moves.                   *)
Settled(i, to) ==
  {IF r.invoice = i /\ r.status = "RESERVED" THEN [r EXCEPT !.status = to] ELSE r :
     r \in redemptions}

(* applyApprovedPayment, under the lock on the invoice: refused when it is *)
(* closed.  The redemption is confirmed by the first payment.              *)
ApprovePayment ==
  \E i \in Invoice :
    /\ invoices[i].status \notin {"none"} \union Closed
    /\ invoices' = [invoices EXCEPT ![i].status = "partially_paid", ![i].paid = TRUE]
    /\ redemptions' = Settled(i, "CONFIRMED")
    /\ UNCHANGED <<campaigns, price, today, inFlight, requests, shown>>

(* cancelInvoice, and expireStaleInvoices for what its query found: the    *)
(* write looks at neither again.                                           *)
CancelReads ==
  \E i \in Invoice :
    /\ invoices[i].status \notin {"none"} \union Closed
    /\ Admit([op |-> "close", invoice |-> i, as |-> "cancelled"])

ExpiryReads ==
  \E i \in Invoice :
    /\ invoices[i].status = "sent"
    /\ ~invoices[i].paid
    /\ ExpiryDays > 0
    /\ today - invoices[i].since > ExpiryDays
    /\ Admit([op |-> "close", invoice |-> i, as |-> "expired"])

KeepsItsPlace(i) == redemptions

PlaceHandedBack(i) == Settled(i, "RELEASED")

CloseInvoice ==
  \E q \in inFlight :
    /\ q.op = "close"
    /\ Served(q)
    /\ invoices' = [invoices EXCEPT ![q.invoice].status = q.as]
    /\ redemptions' = PlaceHandedBack(q.invoice)
    /\ UNCHANGED <<campaigns, price, today, shown>>

(* editInvoiceQuantity and regeneratePaymentPlan: priced again from the    *)
(* snapshot of the plan, which is not asked for its promotion.             *)
EditReads ==
  \E i \in Invoice, quantity \in Quantities :
    /\ invoices[i].status \notin {"none", "paid"} \union Closed
    /\ ~invoices[i].paid
    /\ Admit([op |-> "edit", invoice |-> i, quantity |-> quantity])

EditInvoiceQuantity ==
  \E q \in inFlight :
    /\ q.op = "edit"
    /\ Served(q)
    /\ LET base == invoices[q.invoice].price * q.quantity
       IN  invoices' = [invoices EXCEPT ![q.invoice].base = base,
                          ![q.invoice].total = TotalFor(base, 0, invoices[q.invoice].plan)]
    /\ UNCHANGED <<campaigns, redemptions, price, today, shown>>

-----------------------------------------------------------------------------
(* An edit of the unit; one of the requests of the run.                    *)
ChangePrice ==
  \E unit \in Unit, other \in Prices :
    /\ other # price[unit]
    /\ requests < MaxRequests
    /\ requests' = requests + 1
    /\ price' = [price EXCEPT ![unit] = other]
    /\ UNCHANGED <<campaigns, sales, today, inFlight, shown>>

NextDay ==
  /\ \E day \in Days :
       /\ day > today
       /\ \A other \in Days : other > today => day <= other
       /\ today' = day
  /\ UNCHANGED <<campaigns, sales, price, inFlight, requests, shown>>

Next ==
  \/ CreatePromotion \/ UpdateReads \/ UpdatePromotion \/ StatusReads \/ SetStatus
  \/ Preview \/ DismissPreview
  \/ CheckoutReads \/ Checkout
  \/ ApprovePayment \/ CancelReads \/ ExpiryReads \/ CloseInvoice
  \/ EditReads \/ EditInvoiceQuantity
  \/ ChangePrice \/ NextDay \/ EndsWithoutEffect

Spec == Init /\ [][Next]_vars

-----------------------------------------------------------------------------
TypeOK ==
  /\ status \in [Promotion -> {"none", "DRAFT", "SCHEDULED", "ACTIVE", "PAUSED", "EXPIRED",
                             "DEACTIVATED", "ARCHIVED"}]
  /\ \A p \in Promotion : versions[p] \in Seq(Forms) /\ (versions[p] = <<>>) <=> (status[p] = "none")
  /\ \A r \in redemptions :
       /\ r.promotion \in Promotion /\ r.version \in DOMAIN versions[r.promotion]
       /\ r.invoice \in Invoice /\ r.status \in {"RESERVED", "CONFIRMED", "RELEASED"}
  /\ \A i \in Invoice :
       invoices[i].status \in {"none", "sent", "partially_paid"} \union Closed
  /\ price \in [Unit -> Prices]
  /\ today \in Days
  /\ Cardinality(inFlight) <= MaxInFlight

(* A campaign is not given more often than the highest of its limits       *)
(* allows, in all and to one buyer, but for the purchases that were        *)
(* checking out together: one fewer than there were.                       *)
LimitsOf(p, kind) == {versions[p][v].limits[kind] : v \in DOMAIN versions[p]}

WithinLimits(p, kind, taken) ==
  \/ 0 \in LimitsOf(p, kind)
  \/ \E limit \in LimitsOf(p, kind) : Cardinality(taken) <= limit + MaxInFlight - 1

LimitsKeptButForOverlap ==
  \A p \in Promotion : status[p] # "none" =>
    /\ WithinLimits(p, "total", Standing(p))
    /\ \A buyer \in Buyer : WithinLimits(p, "customer", {r \in Standing(p) : r.buyer = buyer})

(* What a purchase was given holds a place in its campaign exactly as long *)
(* as the purchase is undecided; it is confirmed once money has arrived,   *)
(* whatever closes the invoice afterwards, and handed back when it closed  *)
(* unpaid.                                                                 *)
PlaceFollowsPurchase ==
  \A r \in redemptions :
    LET invoice == invoices[r.invoice]
    IN  r.status = IF invoice.paid THEN "CONFIRMED"
                   ELSE IF invoice.status \in Closed THEN "RELEASED"
                   ELSE "RESERVED"

(* What was given is what the version it names gives on what was bought,   *)
(* at the price of the day, and what the payment plan was priced with:     *)
(* no later edit of the campaign or of the unit restates it.               *)
GivenAsItWas ==
  \A r \in redemptions :
    LET line == [unit |-> r.unit, property |-> PropertyOf[r.unit], quantity |-> r.units,
                 price |-> r.original \div r.units]
    IN  /\ r.discount = Discount(versions[r.promotion][r.version], <<line>>)
        /\ r.discount = invoices[r.invoice].discount

AtMost(n, ceiling) == IF ceiling > 0 THEN Lesser(n, ceiling) ELSE n

(* "Buy two, get the third": where the reward is of the unit that earns    *)
(* it, and the basket has that unit on one line, every complete set of the *)
(* bought and the given earns its reward and nothing short of one does, up *)
(* to the most rewards and the most money the company gives.               *)
RewardsAsAdvertised ==
  shown # NoPreview /\ shown.form.benefit = "BUY_X_GET_Y" /\ RewardIsQualifier(shown.form) =>
    LET form  == shown.form
        lines == OfUnit(shown.basket, form.buy.unit)
    IN  \A k \in DOMAIN lines : DOMAIN lines = {k} =>
          LET complete == lines[k].quantity \div (form.buy.quantity + form.reward.quantity)
              rewards  == (IF form.repeatable THEN complete ELSE Lesser(complete, 1))
                            * form.reward.quantity
          IN  shown.discount = AtMost(AtMost(rewards, form.maxRewards) * PercentOff(form.rate, lines[k].price),
                                      form.cap)

(* A plan that was priced with a promotion still asks for the price less   *)
(* what the promotion takes off.                                           *)
PlanKeepsItsPromotion ==
  \A i \in Invoice : invoices[i].status # "none" =>
    invoices[i].total = TotalFor(invoices[i].base, invoices[i].discount, invoices[i].plan)
=============================================================================
