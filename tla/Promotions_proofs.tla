------------------------- MODULE Promotions_proofs -------------------------
(***************************************************************************)
(* Of Promotions: PlaceFollowsPurchase, LimitsKeptButForOverlap and        *)
(* GivenAsItWas, for any campaigns, forms, prices and buyers and any       *)
(* number of requests at once; what a discount may come to, and            *)
(* RewardsAsAdvertised, for any form and basket.                           *)
(***************************************************************************)
EXTENDS Promotions, Money_proofs, FiniteSetTheorems, TLAPS

-----------------------------------------------------------------------------
(* A row, of an invoice or of a redemption, has its fields.                *)
IsSale(s) ==
  /\ s = [x \in DOMAIN s |-> s[x]]
  /\ "status" \in DOMAIN s
  /\ "paid" \in DOMAIN s

IsGiven(r) ==
  /\ r = [x \in DOMAIN r |-> r[x]]
  /\ "status" \in DOMAIN r
  /\ "invoice" \in DOMAIN r

InvoicesTyped ==
  /\ invoices = [i \in Invoice |-> invoices[i]]
  /\ \A i \in Invoice : IsSale(invoices[i])

(* What is given is of a purchase that was made.                           *)
GivenToPurchases ==
  \A r \in redemptions :
    IsGiven(r) /\ r.invoice \in Invoice /\ invoices[r.invoice].status # "none"

(* A checkout raises an invoice nobody has, and nobody else is raising;    *)
(* what closes or edits one has found it.                                  *)
MayProceed(q) ==
  /\ q.op = "checkout" => q.invoice \in Invoice /\ invoices[q.invoice].status = "none"
  /\ q.op \in {"close", "edit"} => q.invoice \in Invoice /\ invoices[q.invoice].status # "none"
  /\ q.op = "close" => q.as \in Closed

CheckoutsApart ==
  \A q1, q2 \in inFlight :
    q1.op = "checkout" /\ q2.op = "checkout" /\ q1.invoice = q2.invoice => q1 = q2

Place(sale) ==
  IF sale.paid THEN "CONFIRMED"
  ELSE IF sale.status \in Closed THEN "RELEASED"
  ELSE "RESERVED"

PlacesInv ==
  /\ InvoicesTyped
  /\ GivenToPurchases
  /\ PlaceFollowsPurchase
  /\ CheckoutsApart
  /\ \A q \in inFlight : MayProceed(q)

-----------------------------------------------------------------------------
LEMMA WithStatus ==
  ASSUME NEW s, IsSale(s), NEW x
  PROVE  LET t == [s EXCEPT !.status = x]
         IN  IsSale(t) /\ t.status = x /\ t.paid = s.paid
BY DEF IsSale

LEMMA WithPaid ==
  ASSUME NEW s, IsSale(s), NEW x
  PROVE  LET t == [s EXCEPT !.paid = x]
         IN  IsSale(t) /\ t.status = s.status /\ t.paid = x
BY DEF IsSale

LEMMA WithField ==
  ASSUME NEW s, IsSale(s), NEW x
  PROVE  /\ LET t == [s EXCEPT !.base = x]
            IN  IsSale(t) /\ t.status = s.status /\ t.paid = s.paid
         /\ LET t == [s EXCEPT !.total = x]
            IN  IsSale(t) /\ t.status = s.status /\ t.paid = s.paid
BY DEF IsSale

LEMMA GivenWithStatus ==
  ASSUME NEW r, IsGiven(r), NEW x
  PROVE  LET t == [r EXCEPT !.status = x]
         IN  IsGiven(t) /\ t.status = x /\ t.invoice = r.invoice
BY DEF IsGiven

LEMMA PlacesInit == Init => PlacesInv
<1> SUFFICES ASSUME Init PROVE PlacesInv
  OBVIOUS
<1>1. IsSale(NoInvoice)
  BY DEF IsSale, NoInvoice
<1>2. InvoicesTyped
  BY <1>1 DEF Init, InvoicesTyped
<1> QED
  BY <1>2 DEF Init, PlacesInv, GivenToPurchases, PlaceFollowsPurchase, CheckoutsApart

(* Settling one invoice's redemptions leaves the others as they are.       *)
LEMMA SettledAre ==
  ASSUME NEW i \in Invoice, NEW to, GivenToPurchases
  PROVE  \A t \in Settled(i, to) : \E r \in redemptions :
           /\ IsGiven(t)
           /\ t.invoice = r.invoice
           /\ t.status = IF r.invoice = i /\ r.status = "RESERVED" THEN to ELSE r.status
<1> TAKE t \in Settled(i, to)
<1>1. PICK r \in redemptions :
        t = IF r.invoice = i /\ r.status = "RESERVED" THEN [r EXCEPT !.status = to] ELSE r
  BY DEF Settled
<1>2. IsGiven(r)
  BY DEF GivenToPurchases
<1>3. /\ IsGiven(t)
      /\ t.invoice = r.invoice
      /\ t.status = IF r.invoice = i /\ r.status = "RESERVED" THEN to ELSE r.status
  BY <1>1, <1>2, GivenWithStatus
<1> QED
  BY <1>3

-----------------------------------------------------------------------------
(* An action that touches no sale, and admits or serves a request.         *)
LEMMA OthersStay ==
  ASSUME PlacesInv, UNCHANGED sales, inFlight' \subseteq inFlight
  PROVE  PlacesInv'
BY DEF PlacesInv, sales, InvoicesTyped, GivenToPurchases, PlaceFollowsPurchase, CheckoutsApart,
       MayProceed

LEMMA AdmitStep ==
  ASSUME PlacesInv, NEW q, Admit(q), MayProceed(q),
         \A other \in inFlight :
           q.op = "checkout" /\ other.op = "checkout" => other.invoice # q.invoice
  PROVE  PlacesInv'
BY DEF PlacesInv, Admit, sales, InvoicesTyped, GivenToPurchases, PlaceFollowsPurchase,
       CheckoutsApart, MayProceed

LEMMA CheckoutStep == ASSUME PlacesInv, Checkout PROVE PlacesInv'
<1> PICK q \in inFlight : Checkout!(q)
  BY DEF Checkout
<1> DEFINE sale ==
      [status |-> "sent", paid |-> FALSE, buyer |-> q.buyer, plan |-> q.plan, since |-> q.day,
       price |-> q.price, base |-> q.price * q.quantity, discount |-> q.discount,
       total |-> TotalFor(q.price * q.quantity, q.discount, q.plan)]
<1>1. q.invoice \in Invoice /\ invoices[q.invoice].status = "none"
  BY DEF PlacesInv, MayProceed
<1>2. invoices' = [invoices EXCEPT ![q.invoice] = sale]
  OBVIOUS
<1>3. IsSale(sale) /\ sale.status = "sent" /\ sale.paid = FALSE
  BY DEF IsSale
<1> HIDE DEF sale
<1>4. InvoicesTyped'
  BY <1>1, <1>2, <1>3 DEF PlacesInv, InvoicesTyped
<1>5. invoices'[q.invoice] = sale
  BY <1>1, <1>2 DEF PlacesInv, InvoicesTyped
<1>6. \A i \in Invoice \ {q.invoice} : invoices'[i] = invoices[i]
  BY <1>2 DEF PlacesInv, InvoicesTyped
<1>7. ASSUME NEW r \in redemptions'
      PROVE  /\ IsGiven(r) /\ r.invoice \in Invoice /\ invoices'[r.invoice].status # "none"
             /\ r.status = Place(invoices'[r.invoice])
  <2>1. CASE r \in redemptions
    <3>1. r.invoice # q.invoice /\ r.invoice \in Invoice /\ IsGiven(r)
      BY <1>1, <2>1 DEF PlacesInv, GivenToPurchases
    <3>2. invoices'[r.invoice] = invoices[r.invoice]
      BY <3>1, <1>6
    <3> QED
      BY <2>1, <3>1, <3>2 DEF PlacesInv, GivenToPurchases, PlaceFollowsPurchase, Place
  <2>2. CASE \E g \in q.given : r = Redemption(q, g)
    <3>1. r.invoice = q.invoice /\ r.status = "RESERVED" /\ IsGiven(r)
      BY <2>2 DEF Redemption, IsGiven
    <3> QED
      BY <3>1, <1>1, <1>3, <1>5 DEF Place, Closed
  <2> QED
    BY <2>1, <2>2
<1>8. CheckoutsApart' /\ \A other \in inFlight' : other \in inFlight /\ other # q
  BY DEF PlacesInv, CheckoutsApart, Served
<1>9. ASSUME NEW other \in inFlight' PROVE MayProceed(other)'
  <2>1. MayProceed(other) /\ (other.op = "checkout" => other.invoice # q.invoice)
    BY <1>8 DEF PlacesInv, CheckoutsApart
  <2>2. other.op \in {"close", "edit"} => other.invoice # q.invoice
    BY <2>1, <1>1 DEF MayProceed
  <2> QED
    BY <2>1, <2>2, <1>6 DEF MayProceed
<1> QED
  BY <1>4, <1>7, <1>8, <1>9 DEF PlacesInv, GivenToPurchases, PlaceFollowsPurchase, Place

(* What a settlement has to get right: the invoice is left with the place  *)
(* its redemptions are left with.                                          *)
LEMMA SettleStep ==
  ASSUME PlacesInv, NEW i \in Invoice, NEW sale, NEW to,
         IsSale(sale), sale.status # "none", invoices[i].status # "none",
         invoices' = [invoices EXCEPT ![i] = sale],
         redemptions' = Settled(i, to),
         inFlight' \subseteq inFlight,
         Place(invoices[i]) = "RESERVED" => Place(sale) = to,
         Place(invoices[i]) # "RESERVED" => Place(sale) = Place(invoices[i])
  PROVE  PlacesInv'
<1>1. InvoicesTyped'
  BY DEF PlacesInv, InvoicesTyped
<1>2. invoices'[i] = sale
  BY DEF PlacesInv, InvoicesTyped
<1>3. \A j \in Invoice \ {i} : invoices'[j] = invoices[j]
  BY DEF PlacesInv, InvoicesTyped
<1>4. ASSUME NEW t \in redemptions'
      PROVE  /\ IsGiven(t) /\ t.invoice \in Invoice /\ invoices'[t.invoice].status # "none"
             /\ t.status = Place(invoices'[t.invoice])
  <2>1. PICK r \in redemptions :
          /\ IsGiven(t)
          /\ t.invoice = r.invoice
          /\ t.status = IF r.invoice = i /\ r.status = "RESERVED" THEN to ELSE r.status
    BY SettledAre DEF PlacesInv
  <2>2. r.invoice \in Invoice /\ invoices[r.invoice].status # "none"
    BY DEF PlacesInv, GivenToPurchases
  <2>3. r.status = Place(invoices[r.invoice])
    BY DEF PlacesInv, PlaceFollowsPurchase, Place
  <2> QED
    BY <2>1, <2>2, <2>3, <1>2, <1>3
<1>5. \A q \in inFlight' : MayProceed(q)'
  BY <1>2, <1>3 DEF PlacesInv, MayProceed
<1>6. CheckoutsApart'
  BY DEF PlacesInv, CheckoutsApart
<1> QED
  BY <1>1, <1>4, <1>5, <1>6 DEF PlacesInv, GivenToPurchases, PlaceFollowsPurchase, Place

LEMMA ApproveStep == ASSUME PlacesInv, ApprovePayment PROVE PlacesInv'
<1> PICK i \in Invoice : ApprovePayment!(i)
  BY DEF ApprovePayment
<1> DEFINE moved == [invoices[i] EXCEPT !.status = "partially_paid"]
           paid  == [moved EXCEPT !.paid = TRUE]
<1>1. IsSale(paid) /\ paid.status = "partially_paid" /\ paid.paid = TRUE
  <2>1. IsSale(moved) /\ moved.status = "partially_paid"
    BY WithStatus DEF PlacesInv, InvoicesTyped
  <2> HIDE DEF moved
  <2> QED
    BY <2>1, WithPaid
<1>2. invoices' = [[invoices EXCEPT ![i].status = "partially_paid"] EXCEPT ![i].paid = TRUE]
  OBVIOUS
<1>3. invoices' = [invoices EXCEPT ![i] = paid]
  <2>1. invoices = [j \in Invoice |-> invoices[j]]
    BY DEF PlacesInv, InvoicesTyped
  <2>2. invoices' = [j \in Invoice |-> invoices'[j]]
    BY <1>2, <2>1
  <2>3. ASSUME NEW j \in Invoice PROVE invoices'[j] = IF j = i THEN paid ELSE invoices[j]
    BY <1>2, <2>1
  <2> HIDE DEF paid
  <2> QED
    BY <2>1, <2>2, <2>3
<1> HIDE DEF paid
<1>4. Place(paid) = "CONFIRMED" /\ Place(invoices[i]) \in {"RESERVED", "CONFIRMED"}
  BY <1>1 DEF Place
<1> QED
  BY <1>1, <1>3, <1>4, SettleStep, Zenon

LEMMA CloseStep == ASSUME PlacesInv, CloseInvoice PROVE PlacesInv'
<1> PICK q \in inFlight : CloseInvoice!(q)
  BY DEF CloseInvoice
<1> DEFINE closed == [invoices[q.invoice] EXCEPT !.status = q.as]
<1>1. q.invoice \in Invoice /\ invoices[q.invoice].status # "none" /\ q.as \in Closed
  BY DEF PlacesInv, MayProceed
<1>2. IsSale(closed) /\ closed.status = q.as /\ closed.paid = invoices[q.invoice].paid
  BY <1>1, WithStatus DEF PlacesInv, InvoicesTyped
<1>3. invoices' = [invoices EXCEPT ![q.invoice] = closed]
  BY <1>1
<1>4. redemptions' = Settled(q.invoice, "RELEASED") /\ inFlight' \subseteq inFlight
  BY DEF PlaceHandedBack, Served
<1> HIDE DEF closed
<1>5. /\ Place(invoices[q.invoice]) = "RESERVED" => Place(closed) = "RELEASED"
      /\ Place(invoices[q.invoice]) # "RESERVED" => Place(closed) = Place(invoices[q.invoice])
  BY <1>1, <1>2 DEF Place
<1>6. closed.status # "none"
  BY <1>1, <1>2 DEF Closed
<1> QED
  BY <1>1, <1>2, <1>3, <1>4, <1>5, <1>6, SettleStep, Zenon

LEMMA EditStep == ASSUME PlacesInv, EditInvoiceQuantity PROVE PlacesInv'
<1> PICK q \in inFlight : EditInvoiceQuantity!(q)
  BY DEF EditInvoiceQuantity
<1> DEFINE base  == invoices[q.invoice].price * q.quantity
           total == TotalFor(base, 0, invoices[q.invoice].plan)
           based == [invoices[q.invoice] EXCEPT !.base = base]
           new   == [based EXCEPT !.total = total]
<1>1. q.invoice \in Invoice
  BY DEF PlacesInv, MayProceed
<1>2. invoices' = [[invoices EXCEPT ![q.invoice].base = base] EXCEPT ![q.invoice].total = total]
  OBVIOUS
<1> HIDE DEF base, total
<1>3. invoices' = [invoices EXCEPT ![q.invoice] = new]
  <2>1. invoices = [j \in Invoice |-> invoices[j]]
    BY DEF PlacesInv, InvoicesTyped
  <2>2. invoices' = [j \in Invoice |-> invoices'[j]]
    BY <1>2, <2>1
  <2>3. ASSUME NEW j \in Invoice
        PROVE  invoices'[j] = IF j = q.invoice THEN new ELSE invoices[j]
    BY <1>2, <2>1
  <2> HIDE DEF new
  <2> QED
    BY <1>1, <2>1, <2>2, <2>3
<1>4. /\ IsSale(new)
      /\ new.status = invoices[q.invoice].status
      /\ new.paid = invoices[q.invoice].paid
  <2>1. /\ IsSale(based)
        /\ based.status = invoices[q.invoice].status
        /\ based.paid = invoices[q.invoice].paid
    BY <1>1, WithField DEF PlacesInv, InvoicesTyped
  <2> HIDE DEF based
  <2> QED
    BY <2>1, WithField
<1> HIDE DEF new
<1>5. InvoicesTyped'
  BY <1>1, <1>3, <1>4 DEF PlacesInv, InvoicesTyped
<1>6. \A i \in Invoice : invoices'[i].status = invoices[i].status /\ invoices'[i].paid = invoices[i].paid
  BY <1>1, <1>3, <1>4 DEF PlacesInv, InvoicesTyped
<1>7. inFlight' \subseteq inFlight /\ redemptions' = redemptions
  BY DEF Served
<1>8. ASSUME NEW i \in Invoice PROVE Place(invoices'[i]) = Place(invoices[i])
  BY <1>6 DEF Place
<1>9. redemptions' = redemptions /\ GivenToPurchases
  BY <1>7 DEF PlacesInv
<1>10. GivenToPurchases'
  BY <1>6, <1>9 DEF GivenToPurchases
<1>11. PlaceFollowsPurchase'
  <2>1. ASSUME NEW r \in redemptions'
        PROVE  r.status = Place(invoices'[r.invoice])
    <3>1. r \in redemptions /\ r.invoice \in Invoice
      BY <1>9 DEF GivenToPurchases
    <3>2. r.status = Place(invoices[r.invoice])
      BY <3>1 DEF PlacesInv, PlaceFollowsPurchase, Place
    <3> QED
      BY <1>8, <3>1, <3>2
  <2> QED
    BY <2>1 DEF PlaceFollowsPurchase, Place
<1>12. CheckoutsApart'
  BY <1>7 DEF PlacesInv, CheckoutsApart
<1>13. ASSUME NEW p \in inFlight' PROVE MayProceed(p)'
  <2>1. p \in inFlight /\ MayProceed(p)
    BY <1>7 DEF PlacesInv
  <2> QED
    BY <1>6, <2>1 DEF MayProceed
<1> QED
  BY <1>5, <1>10, <1>11, <1>12, <1>13 DEF PlacesInv

LEMMA CheckoutReadsStep == ASSUME PlacesInv, CheckoutReads PROVE PlacesInv'
<1>1. PICK i, q : i \in FreeInvoices /\ Admit(q) /\ q.op = "checkout" /\ q.invoice = i
  BY DEF CheckoutReads
<1>2. MayProceed(q)
  BY <1>1 DEF MayProceed, FreeInvoices
<1> QED
  BY <1>1, <1>2, AdmitStep DEF FreeInvoices

LEMMA OtherReadsStep ==
  ASSUME PlacesInv, UpdateReads \/ StatusReads \/ CancelReads \/ ExpiryReads \/ EditReads
  PROVE  PlacesInv'
<1>1. PICK q : Admit(q) /\ MayProceed(q) /\ q.op # "checkout"
  <2>1. CASE UpdateReads
    <3>1. PICK p \in Promotion, form \in Forms :
            Admit([op |-> "update", promotion |-> p, form |-> form])
      BY <2>1 DEF UpdateReads
    <3> QED
      BY <3>1 DEF MayProceed
  <2>2. CASE StatusReads
    <3>1. PICK p, target :
            Admit([op |-> "status", promotion |-> p, target |-> target])
      BY <2>2 DEF StatusReads
    <3> QED
      BY <3>1 DEF MayProceed
  <2>3. CASE CancelReads
    <3>1. PICK i \in Invoice :
            /\ invoices[i].status # "none"
            /\ Admit([op |-> "close", invoice |-> i, as |-> "cancelled"])
      BY <2>3 DEF CancelReads
    <3> QED
      BY <3>1 DEF MayProceed, Closed
  <2>4. CASE ExpiryReads
    <3>1. PICK i \in Invoice :
            /\ invoices[i].status = "sent"
            /\ Admit([op |-> "close", invoice |-> i, as |-> "expired"])
      BY <2>4 DEF ExpiryReads
    <3> QED
      BY <3>1 DEF MayProceed, Closed
  <2>5. CASE EditReads
    <3>1. PICK i \in Invoice, quantity \in Quantities :
            /\ invoices[i].status # "none"
            /\ Admit([op |-> "edit", invoice |-> i, quantity |-> quantity])
      BY <2>5 DEF EditReads
    <3> QED
      BY <3>1 DEF MayProceed
  <2> QED
    BY <2>1, <2>2, <2>3, <2>4, <2>5
<1> QED
  BY <1>1, AdmitStep

LEMMA PlacesStep == PlacesInv /\ [Next]_vars => PlacesInv'
<1> SUFFICES ASSUME PlacesInv, [Next]_vars PROVE PlacesInv'
  OBVIOUS
<1>1. CASE \/ CreatePromotion \/ UpdatePromotion \/ SetStatus \/ Preview \/ DismissPreview
           \/ ChangePrice \/ NextDay \/ EndsWithoutEffect \/ UNCHANGED vars
  <2>1. UNCHANGED sales /\ inFlight' \subseteq inFlight
    BY <1>1 DEF CreatePromotion, UpdatePromotion, SetStatus, Preview, DismissPreview, ChangePrice,
                NextDay, EndsWithoutEffect, Served, vars, sales
  <2> QED
    BY <2>1, OthersStay
<1> QED
  BY <1>1, CheckoutReadsStep, OtherReadsStep, CheckoutStep, ApproveStep, CloseStep, EditStep
     DEF Next

(* What a purchase was given keeps its place while the purchase is         *)
(* undecided, is confirmed by its first payment and handed back when it    *)
(* closes unpaid (settleRedemptions), however checkouts, payments,         *)
(* cancellations, expiries and edits overlap: an invoice is raised by one  *)
(* checkout, and what closes it writes the invoice and the redemptions in  *)
(* one step.                                                               *)
THEOREM PlacesFollowPurchases == Spec => []PlaceFollowsPurchase
<1>1. PlacesInv => PlaceFollowsPurchase
  BY DEF PlacesInv
<1> QED
  BY <1>1, PlacesInit, PlacesStep, PTL DEF Spec

-----------------------------------------------------------------------------
(* The limits of a campaign.  What stands of it, or is being checked out,  *)
(* for the buyers of a set.                                                *)
Taken(p, who) == {r \in Standing(p) : r.buyer \in who}

Taking(p, who) ==
  {q \in inFlight : q.op = "checkout" /\ q.buyer \in who /\ \E g \in q.given : g.promotion = p}

Demand(p, who) == Cardinality(Taken(p, who)) + Cardinality(Taking(p, who))

WithinBounds(p, kind, who) ==
  \/ 0 \in LimitsOf(p, kind)
  \/ \E limit \in LimitsOf(p, kind) : Demand(p, who) <= limit + MaxInFlight - 1

Bounded(p) ==
  /\ WithinBounds(p, "total", Buyer)
  /\ \A buyer \in Buyer : WithinBounds(p, "customer", {buyer})

Exists(p) == p \in Promotion /\ versions[p] # <<>>

CampaignsTyped ==
  /\ status = [p \in Promotion |-> status[p]]
  /\ versions = [p \in Promotion |-> versions[p]]
  /\ \A p \in Promotion : versions[p] \in Seq(Forms) /\ (status[p] # "none" => Exists(p))

IsRedemption(r) ==
  /\ r = [x \in DOMAIN r |-> r[x]]
  /\ {"status", "promotion", "buyer"} \subseteq DOMAIN r
  /\ r.buyer \in Buyer
  /\ Exists(r.promotion)

Sane(q) ==
  /\ q.op \in {"update", "status"} => Exists(q.promotion)
  /\ q.op = "update" => q.form \in Forms
  /\ q.op = "checkout" =>
       /\ q.buyer \in Buyer
       /\ \A g \in q.given : Exists(g.promotion)
       /\ \A g1, g2 \in q.given : g1.promotion = g2.promotion => g1 = g2

RequestsFew == IsFiniteSet(inFlight) /\ Cardinality(inFlight) <= MaxInFlight

LimitsInv ==
  /\ RequestsFew
  /\ CampaignsTyped
  /\ \A r \in redemptions : IsRedemption(r)
  /\ \A p \in Promotion : IsFiniteSet(Standing(p))
  /\ \A q \in inFlight : Sane(q)
  /\ \A p \in Promotion : Exists(p) => Bounded(p)

LEMMA VersionsAreForms ==
  ASSUME CampaignsTyped, NEW p, Exists(p)
  PROVE  /\ Len(versions[p]) \in DOMAIN versions[p]
         /\ versions[p][Len(versions[p])] \in Forms
         /\ \A v \in DOMAIN versions[p] : versions[p][v] \in Forms
<1>1. versions[p] \in Seq(Forms) /\ versions[p] # <<>>
  BY DEF CampaignsTyped, Exists
<1> QED
  BY <1>1

LEMMA LimitsAreWhole ==
  ASSUME CampaignsTyped, NEW p, Exists(p), NEW kind \in {"total", "customer"}
  PROVE  /\ \A limit \in LimitsOf(p, kind) : limit \in Nat
         /\ Current(p).limits[kind] \in LimitsOf(p, kind)
<1> DEFINE form == versions[p][Len(versions[p])]
<1>1. ASSUME NEW v \in DOMAIN versions[p] PROVE versions[p][v].limits[kind] \in Nat
  BY VersionsAreForms, FormsAreFilledIn
<1>2. form \in Forms /\ Len(versions[p]) \in DOMAIN versions[p]
  BY VersionsAreForms
<1> HIDE DEF form
<1>3. [form EXCEPT !.status = status[p]].limits = form.limits
  BY <1>2, FormsAreFilledIn
<1>4. Current(p).limits = form.limits
  BY <1>3 DEF Current, form
<1> QED
  BY <1>1, <1>2, <1>4 DEF LimitsOf, form

(* Nothing is given of a campaign that was never described.                *)
LEMMA NothingTaken ==
  ASSUME LimitsInv, NEW p, ~Exists(p), NEW who
  PROVE  Standing(p) = {} /\ Taking(p, who) = {}
BY DEF LimitsInv, IsRedemption, Sane, Standing, Taking

LEMMA DemandIsWhole ==
  ASSUME LimitsInv, NEW p \in Promotion, NEW who
  PROVE  /\ IsFiniteSet(Taken(p, who)) /\ Cardinality(Taken(p, who)) \in Nat
         /\ IsFiniteSet(Taking(p, who)) /\ Cardinality(Taking(p, who)) \in Nat
<1>1. Taken(p, who) \subseteq Standing(p) /\ Taking(p, who) \subseteq inFlight
  BY DEF Taken, Taking
<1>2. IsFiniteSet(Standing(p)) /\ IsFiniteSet(inFlight)
  BY DEF LimitsInv, RequestsFew
<1>3. IsFiniteSet(Taken(p, who)) /\ IsFiniteSet(Taking(p, who))
  BY <1>1, <1>2, FS_Subset
<1> QED
  BY <1>3, FS_CardinalityType

LEMMA LimitsInit == Init => LimitsInv
<1> SUFFICES ASSUME Init PROVE LimitsInv
  OBVIOUS
<1>1. redemptions = {} /\ inFlight = {}
  BY DEF Init
<1>2. \A p : Standing(p) = {} /\ \A who : Taken(p, who) = {} /\ Taking(p, who) = {}
  BY <1>1 DEF Standing, Taken, Taking
<1>3. IsFiniteSet({}) /\ Cardinality({}) = 0 /\ MaxInFlight \in Nat \ {0}
  BY FS_EmptySet, PromotionAssumptions
<1>4. CampaignsTyped
  <2>1. CASE /\ status = [p \in Promotion |-> "none"]
             /\ versions = [p \in Promotion |-> <<>>]
    BY <2>1 DEF CampaignsTyped
  <2>2. CASE /\ status = [p \in Promotion |-> "ACTIVE"]
             /\ versions \in [Promotion -> {<<form>> : form \in {f \in Forms : Coherent(f)}}]
    <3>1. ASSUME NEW p \in Promotion PROVE \E form \in Forms : versions[p] = <<form>>
      BY <2>2
    <3>2. ASSUME NEW p \in Promotion PROVE versions[p] \in Seq(Forms) /\ versions[p] # <<>>
      <4>1. ASSUME NEW form \in Forms PROVE <<form>> \in Seq(Forms) /\ <<form>> # <<>>
        OBVIOUS
      <4> QED
        BY <3>1, <4>1
    <3> QED
      BY <2>2, <3>2 DEF CampaignsTyped, Exists
  <2> QED
    BY <2>1, <2>2 DEF Init
<1>5. ASSUME NEW p \in Promotion, Exists(p), NEW kind \in {"total", "customer"}, NEW who
      PROVE  WithinBounds(p, kind, who)
  <2>1. PICK limit \in LimitsOf(p, kind) : limit \in Nat
    BY <1>4, <1>5, LimitsAreWhole
  <2>2. Demand(p, who) = 0
    BY <1>2, <1>3 DEF Demand
  <2> QED
    BY <1>3, <2>1, <2>2 DEF WithinBounds
<1> QED
  BY <1>1, <1>2, <1>3, <1>4, <1>5 DEF LimitsInv, RequestsFew, Bounded

LEMMA RequestsStayFew ==
  ASSUME RequestsFew, inFlight' \subseteq inFlight PROVE RequestsFew'
<1>1. IsFiniteSet(inFlight') /\ Cardinality(inFlight') <= Cardinality(inFlight)
  BY FS_Subset DEF RequestsFew
<1>2. /\ Cardinality(inFlight') \in Nat /\ Cardinality(inFlight) \in Nat
      /\ MaxInFlight \in Nat /\ Cardinality(inFlight) <= MaxInFlight
  BY <1>1, FS_CardinalityType, PromotionAssumptions DEF RequestsFew
<1> QED
  BY <1>1, <1>2 DEF RequestsFew

-----------------------------------------------------------------------------
(* Fewer places demanded, of campaigns with no fewer limits.               *)
DemandFalls ==
  \A p \in Promotion :
    /\ IsFiniteSet(Standing(p)')
    /\ \A who \in {Buyer} \union {{b} : b \in Buyer} : Demand(p, who)' <= Demand(p, who)

LEMMA BoundsHold ==
  ASSUME LimitsInv, DemandFalls, RequestsFew', UNCHANGED campaigns
  PROVE  \A p \in Promotion : Exists(p)' => Bounded(p)'
<1> SUFFICES ASSUME NEW p \in Promotion, Exists(p)' PROVE Bounded(p)'
  OBVIOUS
<1>1. Exists(p) /\ \A kind : LimitsOf(p, kind)' = LimitsOf(p, kind)
  BY DEF campaigns, Exists, LimitsOf
<1>2. ASSUME NEW kind \in {"total", "customer"}, NEW who \in {Buyer} \union {{b} : b \in Buyer},
             WithinBounds(p, kind, who)
      PROVE  WithinBounds(p, kind, who)'
  <2>1. CASE 0 \in LimitsOf(p, kind)
    BY <1>1, <2>1 DEF WithinBounds
  <2>2. ASSUME NEW limit \in LimitsOf(p, kind), Demand(p, who) <= limit + MaxInFlight - 1
        PROVE  WithinBounds(p, kind, who)'
    <3>1. limit \in Nat /\ MaxInFlight \in Nat
      BY <1>1, LimitsAreWhole, PromotionAssumptions DEF LimitsInv
    <3>2. Demand(p, who) \in Nat
      BY DemandIsWhole DEF Demand
    <3>3. Demand(p, who)' \in Nat
      <4>1. Taken(p, who)' \subseteq Standing(p)' /\ Taking(p, who)' \subseteq inFlight'
        BY DEF Taken, Taking
      <4>2. IsFiniteSet(Taken(p, who)') /\ IsFiniteSet(Taking(p, who)')
        BY <4>1, FS_Subset DEF DemandFalls, RequestsFew
      <4> QED
        BY <4>2, FS_CardinalityType DEF Demand
    <3>4. Demand(p, who)' <= Demand(p, who)
      BY DEF DemandFalls
    <3>5. Demand(p, who)' <= limit + MaxInFlight - 1
      BY <2>2, <3>1, <3>2, <3>3, <3>4
    <3> QED
      BY <1>1, <3>5 DEF WithinBounds
  <2> QED
    BY <1>2, <2>1, <2>2 DEF WithinBounds
<1>3. Bounded(p)
  BY <1>1 DEF LimitsInv
<1> QED
  BY <1>2, <1>3 DEF Bounded

(* The campaigns and what stands of them stay; requests end.               *)
LEMMA RequestsEnd ==
  ASSUME LimitsInv, UNCHANGED <<campaigns, redemptions>>, inFlight' \subseteq inFlight
  PROVE  LimitsInv'
<1>1. RequestsFew'
  BY RequestsStayFew DEF LimitsInv
<1>2. ASSUME NEW p \in Promotion
      PROVE  /\ IsFiniteSet(Standing(p)')
             /\ \A who : Demand(p, who)' <= Demand(p, who)
  <2>1. Standing(p)' = Standing(p)
    BY DEF Standing
  <2>2. ASSUME NEW who PROVE Demand(p, who)' <= Demand(p, who)
    <3>1. Taken(p, who)' = Taken(p, who) /\ Taking(p, who)' \subseteq Taking(p, who)
      BY DEF Taken, Taking, Standing
    <3>2. Cardinality(Taking(p, who)') <= Cardinality(Taking(p, who))
          /\ Cardinality(Taking(p, who)') \in Nat
      BY <3>1, DemandIsWhole, FS_Subset, FS_CardinalityType
    <3> QED
      BY <3>1, <3>2, DemandIsWhole DEF Demand
  <2> QED
    BY <2>1, <2>2 DEF LimitsInv
<1>3. \A p : Exists(p)' = Exists(p)
  BY DEF Exists, campaigns
<1>4. (CampaignsTyped /\ \A q \in inFlight : Sane(q))'
      /\ \A r \in redemptions' : IsRedemption(r)'
  BY <1>3 DEF LimitsInv, CampaignsTyped, campaigns, IsRedemption, Sane
<1>5. DemandFalls
  BY <1>2 DEF DemandFalls
<1> QED
  BY <1>1, <1>4, <1>5, BoundsHold DEF LimitsInv, DemandFalls

(* What is given had a place left, in all and for this buyer.              *)
LEMMA AppliedHasPlace ==
  ASSUME CampaignsTyped, NEW buyer, NEW unit, NEW quantity, NEW plan, NEW codes,
         NEW p \in QuoteFor(buyer, unit, quantity, plan, codes).applied
  PROVE  /\ Exists(p)
         /\ LeftUnder(Current(p).limits.total, Cardinality(Standing(p)))
         /\ LeftUnder(Current(p).limits.customer, Cardinality(Taken(p, {buyer})))
<1> DEFINE context    == ContextFor(buyer, plan, codes)
           basket     == <<Line(unit, quantity)>>
           promotions == [k \in Candidates |->
                            [rules |-> Current(k), usage |-> UsageFor(k, context.buyer.id)]]
           qualified  == Contestants(promotions, basket, context)
           worth      == [k \in qualified |-> Discount(promotions[k].rules, basket)]
<1>1. QuoteFor(buyer, unit, quantity, plan, codes).applied = Chosen(promotions, basket, context)
  BY DEF QuoteFor, QuoteBasket, EvaluateBasket, Outcome
<1>2. context.resolution = "HIGHEST_BENEFIT" /\ context.buyer.id = buyer
  BY DEF ContextFor, BuyerContext
<1>3. Chosen(promotions, basket, context) = First(promotions, Highest(worth))
  <2> HIDE DEF context, promotions, basket
  <2>1. Chosen(promotions, basket, context) = Resolved(promotions, qualified, basket, "HIGHEST_BENEFIT")
    BY <1>2 DEF Chosen
  <2> HIDE DEF qualified
  <2> QED
    BY <2>1 DEF Resolved
<1>4. p \in qualified
  <2> HIDE DEF qualified, promotions, basket, context
  <2>1. p \in Highest(worth)
    BY <1>1, <1>3 DEF First
  <2> QED
    BY <2>1 DEF Highest
<1>5. p \in Candidates /\ Qualifies(promotions[p].rules, basket, context, promotions[p].usage)
  <2> HIDE DEF basket, context
  <2> QED
    BY <1>4 DEF Contestants
<1>6. promotions[p].rules = Current(p) /\ promotions[p].usage = UsageFor(p, buyer)
  BY <1>2, <1>5
<1>7. WithinUsageLimits(Current(p), UsageFor(p, buyer))
  <2> HIDE DEF basket, context, promotions
  <2> QED
    BY <1>5, <1>6 DEF Qualifies
<1>8. /\ UsageFor(p, buyer).total = Cardinality(Standing(p))
      /\ UsageFor(p, buyer).customer = Cardinality(Taken(p, {buyer}))
  <2>1. Taken(p, {buyer}) = {r \in Standing(p) : r.buyer = buyer}
    BY DEF Taken
  <2> QED
    BY <2>1 DEF UsageFor
<1>9. Exists(p)
  BY <1>5 DEF Candidates, CampaignsTyped
<1> QED
  BY <1>7, <1>8, <1>9 DEF WithinUsageLimits

LEMMA RoomLeft ==
  ASSUME RequestsFew, NEW q, Admit(q) PROVE RequestsFew'
<1>1. /\ IsFiniteSet(inFlight \union {q})
      /\ Cardinality(inFlight \union {q}) = Cardinality(inFlight) + 1
      /\ Cardinality(inFlight) \in Nat
  BY FS_AddElement, FS_CardinalityType DEF Admit, RequestsFew
<1>2. inFlight' = inFlight \union {q} /\ Cardinality(inFlight) < MaxInFlight /\ MaxInFlight \in Nat
  BY PromotionAssumptions DEF Admit
<1> QED
  BY <1>1, <1>2 DEF RequestsFew

(* A request that has read: it adds to the demand for what it found room   *)
(* in only.                                                                *)
LEMMA AdmitBounds ==
  ASSUME LimitsInv, NEW q, Admit(q), Sane(q),
         \A p \in Promotion : (q.op = "checkout" /\ \E g \in q.given : g.promotion = p) =>
           /\ LeftUnder(Current(p).limits.total, Cardinality(Standing(p)))
           /\ LeftUnder(Current(p).limits.customer, Cardinality(Taken(p, {q.buyer})))
  PROVE  LimitsInv'
<1>1. RequestsFew'
  BY RoomLeft DEF LimitsInv
<1>2. UNCHANGED <<status, versions, redemptions>> /\ inFlight' = inFlight \union {q}
  BY DEF Admit, campaigns, sales
<1>3. \A p : Exists(p)' = Exists(p) /\ \A kind : LimitsOf(p, kind)' = LimitsOf(p, kind)
  BY <1>2 DEF Exists, LimitsOf
<1>4. /\ CampaignsTyped'
      /\ \A r \in redemptions' : IsRedemption(r)'
      /\ \A p \in Promotion : IsFiniteSet(Standing(p)')
      /\ \A other \in inFlight' : Sane(other)'
  <2>1. CampaignsTyped'
    BY <1>2, <1>3 DEF LimitsInv, CampaignsTyped
  <2>2. \A r \in redemptions' : IsRedemption(r)'
    BY <1>2, <1>3 DEF LimitsInv, IsRedemption
  <2>3. \A p : Standing(p)' = Standing(p)
    BY <1>2 DEF Standing
  <2>4. \A other \in inFlight' : Sane(other)'
    BY <1>2, <1>3 DEF LimitsInv, Sane
  <2> QED
    BY <2>1, <2>2, <2>3, <2>4 DEF LimitsInv
<1>5. ASSUME NEW p \in Promotion, Exists(p), NEW kind \in {"total", "customer"}, NEW who,
             WithinBounds(p, kind, who),
             q \in Taking(p, who)' => LeftUnder(Current(p).limits[kind], Cardinality(Taken(p, who)))
      PROVE  WithinBounds(p, kind, who)'
  <2>1. Taken(p, who)' = Taken(p, who)
    BY <1>2 DEF Taken, Standing
  <2>2. CASE q \notin Taking(p, who)'
    <3>1. Taking(p, who)' = Taking(p, who)
      BY <1>2, <2>2 DEF Taking, Admit
    <3> QED
      BY <1>3, <1>5, <2>1, <3>1 DEF WithinBounds, Demand
  <2>3. CASE q \in Taking(p, who)'
    <3> DEFINE limit == Current(p).limits[kind]
    <3>1. limit \in LimitsOf(p, kind) /\ limit \in Nat
      BY <1>5, LimitsAreWhole DEF LimitsInv
    <3>2. LeftUnder(limit, Cardinality(Taken(p, who)))
      BY <1>5, <2>3
    <3>3. /\ Cardinality(Taken(p, who)) \in Nat
          /\ Cardinality(Taking(p, who)') \in Nat /\ Cardinality(Taking(p, who)') <= MaxInFlight
      <4>1. Taking(p, who)' \subseteq inFlight'
        BY DEF Taking
      <4>2. IsFiniteSet(Taking(p, who)') /\ Cardinality(Taking(p, who)') <= Cardinality(inFlight')
        BY <1>1, <4>1, FS_Subset DEF RequestsFew
      <4>3. Cardinality(inFlight') \in Nat /\ MaxInFlight \in Nat /\ Cardinality(inFlight') <= MaxInFlight
        BY <1>1, FS_CardinalityType, PromotionAssumptions DEF RequestsFew
      <4>4. Cardinality(Taking(p, who)') \in Nat
        BY <4>2, FS_CardinalityType
      <4> QED
        BY <4>2, <4>3, <4>4, DemandIsWhole
    <3> HIDE DEF limit
    <3>4. limit = 0 \/ Demand(p, who)' <= limit + MaxInFlight - 1
      BY <2>1, <3>1, <3>2, <3>3, PromotionAssumptions DEF LeftUnder, Demand
    <3> QED
      BY <1>3, <3>1, <3>4 DEF WithinBounds
  <2> QED
    BY <2>2, <2>3
<1>6. ASSUME NEW p \in Promotion, Exists(p) PROVE Bounded(p)'
  <2>1. Bounded(p)
    BY <1>6 DEF LimitsInv
  <2>2. \A who : q \in Taking(p, who)' =>
          q.op = "checkout" /\ q.buyer \in who /\ \E g \in q.given : g.promotion = p
    BY DEF Taking
  <2>3. WithinBounds(p, "total", Buyer)'
    <3>1. Taken(p, Buyer) = Standing(p)
      BY DEF Taken, Standing, LimitsInv, IsRedemption
    <3>2. q \in Taking(p, Buyer)' =>
            LeftUnder(Current(p).limits["total"], Cardinality(Taken(p, Buyer)))
      BY <2>2, <3>1
    <3> QED
      BY <1>5, <1>6, <2>1, <3>2 DEF Bounded
  <2>4. ASSUME NEW buyer \in Buyer PROVE WithinBounds(p, "customer", {buyer})'
    <3>1. q \in Taking(p, {buyer})' =>
            LeftUnder(Current(p).limits["customer"], Cardinality(Taken(p, {buyer})))
      BY <2>2
    <3> QED
      BY <1>5, <1>6, <2>1, <3>1 DEF Bounded
  <2> QED
    BY <2>3, <2>4 DEF Bounded
<1> QED
  BY <1>1, <1>3, <1>4, <1>6 DEF LimitsInv

LEMMA CheckoutReadsBounds == ASSUME LimitsInv, CheckoutReads PROVE LimitsInv'
<1>1. PICK i \in FreeInvoices, buyer \in Buyer, unit \in Unit, quantity \in Quantities,
           plan \in {Outright} \union Plan, codes \in Codes :
        CheckoutReads!(i, buyer, unit, quantity, plan, codes)
  BY Zenon DEF CheckoutReads
<1> DEFINE quote == QuoteFor(buyer, unit, quantity, plan, codes)
           given == {[promotion |-> p, version |-> Len(versions[p]), day |-> today,
                      discount |-> Discount(Current(p), <<Line(unit, quantity)>>)] : p \in quote.applied}
           q == [op |-> "checkout", invoice |-> i, buyer |-> buyer, unit |-> unit,
                 quantity |-> quantity, plan |-> plan, price |-> price[unit], day |-> today,
                 discount |-> quote.discount, given |-> given]
<1>2. Admit(q)
  BY <1>1
<1>3. q.op = "checkout" /\ q.buyer = buyer /\ q.given = given
  OBVIOUS
<1>4. \A p \in quote.applied :
        /\ Exists(p)
        /\ LeftUnder(Current(p).limits.total, Cardinality(Standing(p)))
        /\ LeftUnder(Current(p).limits.customer, Cardinality(Taken(p, {buyer})))
  BY AppliedHasPlace DEF LimitsInv
<1> HIDE DEF quote
<1>5. /\ \A g \in given : g.promotion \in quote.applied
      /\ \A g1, g2 \in given : g1.promotion = g2.promotion => g1 = g2
  OBVIOUS
<1> HIDE DEF given, q
<1>6. Sane(q)
  BY <1>1, <1>3, <1>4, <1>5 DEF Sane
<1> QED
  BY <1>2, <1>3, <1>4, <1>5, <1>6, AdmitBounds

(* A purchase turns what it was taking into what it has taken.             *)
LEMMA CheckoutBounds == ASSUME LimitsInv, Checkout PROVE LimitsInv'
<1> PICK q \in inFlight : Checkout!(q)
  BY DEF Checkout
<1> DEFINE added == {Redemption(q, g) : g \in q.given}
<1>1. /\ q.op = "checkout" /\ inFlight' = inFlight \ {q}
      /\ redemptions' = redemptions \union added
      /\ UNCHANGED <<status, versions>>
  BY DEF Served, campaigns
<1>2. /\ q.buyer \in Buyer
      /\ \A g \in q.given : Exists(g.promotion)
      /\ \A g1, g2 \in q.given : g1.promotion = g2.promotion => g1 = g2
  BY <1>1 DEF LimitsInv, Sane
<1>3. \A p : Exists(p)' = Exists(p)
  BY <1>1 DEF Exists
<1>4. ASSUME NEW g \in q.given
      PROVE  LET r == Redemption(q, g)
             IN  /\ IsRedemption(r)
                 /\ r.promotion = g.promotion /\ r.buyer = q.buyer /\ r.status = "RESERVED"
  BY <1>2 DEF Redemption, IsRedemption
<1>5. \A r \in redemptions' : IsRedemption(r)'
  BY <1>1, <1>3, <1>4 DEF LimitsInv, IsRedemption
<1>6. RequestsFew'
  <2>1. inFlight' \subseteq inFlight
    BY <1>1
  <2> QED
    BY <2>1, RequestsStayFew DEF LimitsInv
<1>7. ASSUME NEW p \in Promotion
      PROVE  /\ IsFiniteSet(Standing(p)')
             /\ \A who : Demand(p, who)' <= Demand(p, who)
  <2>1. CASE \A g \in q.given : g.promotion # p
    <3>1. Standing(p)' = Standing(p)
      BY <1>1, <1>4, <2>1 DEF Standing
    <3>2. ASSUME NEW who PROVE Demand(p, who)' <= Demand(p, who)
      <4>1. Taken(p, who)' = Taken(p, who)
        BY <3>1 DEF Taken
      <4>2. Taking(p, who)' = Taking(p, who)
        BY <1>1, <2>1 DEF Taking
      <4> QED
        BY <4>1, <4>2, DemandIsWhole DEF Demand
    <3> QED
      BY <3>1, <3>2 DEF LimitsInv
  <2>2. ASSUME NEW g \in q.given, g.promotion = p
        PROVE  /\ IsFiniteSet(Standing(p)')
               /\ \A who : Demand(p, who)' <= Demand(p, who)
    <3> DEFINE r == Redemption(q, g)
    <3>1. Standing(p)' = Standing(p) \union {r}
      <4>1. \A h \in q.given : h.promotion = p => h = g
        BY <1>2, <2>2
      <4>2. {a \in added : a.promotion = p /\ a.status # "RELEASED"} = {r}
        BY <1>4, <2>2, <4>1
      <4> HIDE DEF added, r
      <4> QED
        BY <1>1, <4>2 DEF Standing
    <3>2. r.buyer = q.buyer
      BY <1>4
    <3> HIDE DEF r
    <3>3. IsFiniteSet(Standing(p)')
      BY <3>1, FS_AddElement DEF LimitsInv
    <3>4. ASSUME NEW who PROVE Demand(p, who)' <= Demand(p, who)
      <4>1. CASE q.buyer \notin who
        <5>1. Taken(p, who)' = Taken(p, who)
          BY <3>1, <3>2, <4>1 DEF Taken
        <5>2. Taking(p, who)' = Taking(p, who)
          BY <1>1, <4>1 DEF Taking
        <5> QED
          BY <5>1, <5>2, DemandIsWhole DEF Demand
      <4>2. CASE q.buyer \in who
        <5>1. Taken(p, who)' = Taken(p, who) \union {r}
          BY <3>1, <3>2, <4>2 DEF Taken
        <5>2. q \in Taking(p, who)
          BY <1>1, <2>2, <4>2 DEF Taking
        <5>3. Taking(p, who)' = Taking(p, who) \ {q}
          BY <1>1 DEF Taking
        <5>4. Cardinality(Taken(p, who)') <= Cardinality(Taken(p, who)) + 1
              /\ Cardinality(Taken(p, who)') \in Nat
          <6>1. IsFiniteSet(Taken(p, who)) /\ Cardinality(Taken(p, who)) \in Nat
            BY DemandIsWhole
          <6>2. Cardinality(Taken(p, who) \union {r})
                  \in {Cardinality(Taken(p, who)), Cardinality(Taken(p, who)) + 1}
            BY <6>1, FS_AddElement
          <6> QED
            BY <5>1, <6>1, <6>2
        <5>5. Cardinality(Taking(p, who)') = Cardinality(Taking(p, who)) - 1
          BY <5>2, <5>3, DemandIsWhole, FS_RemoveElement
        <5> QED
          BY <5>4, <5>5, DemandIsWhole DEF Demand
      <4> QED
        BY <4>1, <4>2
    <3> QED
      BY <3>3, <3>4
  <2> QED
    BY <2>1, <2>2
<1>8. CampaignsTyped' /\ \A other \in inFlight' : Sane(other)'
  BY <1>1, <1>3 DEF LimitsInv, CampaignsTyped, Sane
<1>9. DemandFalls
  BY <1>7 DEF DemandFalls
<1>10. UNCHANGED campaigns
  BY <1>1 DEF campaigns
<1> QED
  BY <1>5, <1>6, <1>8, <1>9, <1>10, BoundsHold DEF LimitsInv, DemandFalls

(* Settling moves redemptions and makes none stand that did not.           *)
LEMMA SettledStand ==
  ASSUME LimitsInv, NEW i, NEW to, NEW p \in Promotion, redemptions' = Settled(i, to)
  PROVE  /\ \A r \in redemptions' : IsRedemption(r)
         /\ IsFiniteSet(Standing(p)')
         /\ \A who : Cardinality(Taken(p, who)') <= Cardinality(Taken(p, who))
<1> DEFINE Moved(r) == IF r.invoice = i /\ r.status = "RESERVED" THEN [r EXCEPT !.status = to] ELSE r
<1>1. redemptions' = {Moved(r) : r \in redemptions}
  BY DEF Settled
<1>2. ASSUME NEW r \in redemptions
      PROVE  /\ IsRedemption(Moved(r))
             /\ Moved(r).promotion = r.promotion /\ Moved(r).buyer = r.buyer
             /\ r.status = "RELEASED" => Moved(r).status = "RELEASED"
  <2>1. IsRedemption(r)
    BY DEF LimitsInv
  <2> QED
    BY <2>1 DEF IsRedemption
<1> HIDE DEF Moved
<1>3. ASSUME NEW T, IsFiniteSet(T), T \subseteq redemptions, NEW U,
             U \subseteq {Moved(r) : r \in T}
      PROVE  IsFiniteSet(U) /\ Cardinality(U) <= Cardinality(T)
  <2> DEFINE image == {Moved(r) : r \in T}
             f     == [r \in T |-> Moved(r)]
  <2>1. f \in Surjection(T, image)
    BY DEF Surjection
  <2>2. IsFiniteSet(image) /\ Cardinality(image) <= Cardinality(T)
    BY <1>3, <2>1, FS_Surjection
  <2>3. IsFiniteSet(U) /\ Cardinality(U) <= Cardinality(image)
    BY <1>3, <2>2, FS_Subset
  <2>4. Cardinality(U) \in Nat /\ Cardinality(image) \in Nat /\ Cardinality(T) \in Nat
    BY <1>3, <2>2, <2>3, FS_CardinalityType
  <2> QED
    BY <2>2, <2>3, <2>4
<1>4. Standing(p)' \subseteq {Moved(r) : r \in Standing(p)}
  BY <1>1, <1>2 DEF Standing
<1>5. ASSUME NEW who PROVE Taken(p, who)' \subseteq {Moved(r) : r \in Taken(p, who)}
  BY <1>2, <1>4 DEF Taken, Standing
<1>6. IsFiniteSet(Standing(p)')
  BY <1>3, <1>4 DEF LimitsInv, Standing
<1>7. ASSUME NEW who PROVE Cardinality(Taken(p, who)') <= Cardinality(Taken(p, who))
  <2>1. IsFiniteSet(Taken(p, who)) /\ Taken(p, who) \subseteq redemptions
    BY DemandIsWhole DEF Taken, Standing
  <2> QED
    BY <1>3, <1>5, <2>1
<1> QED
  BY <1>1, <1>2, <1>6, <1>7

LEMMA SettleBounds ==
  ASSUME LimitsInv, NEW i, NEW to, redemptions' = Settled(i, to),
         UNCHANGED campaigns, inFlight' \subseteq inFlight
  PROVE  LimitsInv'
<1>1. RequestsFew'
  BY RequestsStayFew DEF LimitsInv
<1>2. \A p : Exists(p)' = Exists(p)
  BY DEF Exists, campaigns
<1>3. ASSUME NEW r \in redemptions' PROVE IsRedemption(r)'
  <2>1. IsRedemption(r)
    <3>1. PICK before \in redemptions :
            r = IF before.invoice = i /\ before.status = "RESERVED"
                THEN [before EXCEPT !.status = to] ELSE before
      BY DEF Settled
    <3>2. IsRedemption(before)
      BY DEF LimitsInv
    <3>3. before.promotion \in Promotion
      BY <3>2 DEF IsRedemption, Exists
    <3> QED
      BY <3>3, SettledStand
  <2> QED
    BY <1>2, <2>1 DEF IsRedemption
<1>4. ASSUME NEW p \in Promotion, NEW who PROVE Demand(p, who)' <= Demand(p, who)
  <2>1. Cardinality(Taken(p, who)') <= Cardinality(Taken(p, who)) /\ IsFiniteSet(Standing(p)')
    BY SettledStand
  <2>2. Taking(p, who)' \subseteq Taking(p, who) /\ Taken(p, who)' \subseteq Standing(p)'
    BY DEF Taking, Taken
  <2>3. /\ Cardinality(Taking(p, who)') <= Cardinality(Taking(p, who))
        /\ Cardinality(Taking(p, who)') \in Nat /\ Cardinality(Taken(p, who)') \in Nat
    BY <2>1, <2>2, DemandIsWhole, FS_Subset, FS_CardinalityType
  <2> QED
    BY <2>1, <2>3, DemandIsWhole DEF Demand
<1>5. \A p \in Promotion : IsFiniteSet(Standing(p)')
  BY SettledStand
<1>6. CampaignsTyped' /\ \A q \in inFlight' : Sane(q)'
  BY <1>2 DEF LimitsInv, CampaignsTyped, Sane, campaigns
<1>7. DemandFalls
  BY <1>4, <1>5 DEF DemandFalls
<1> QED
  BY <1>1, <1>3, <1>5, <1>6, <1>7, BoundsHold DEF LimitsInv

(* The campaigns change and their versions only grow.                      *)
LEMMA CampaignBounds ==
  ASSUME LimitsInv, UNCHANGED redemptions, inFlight' \subseteq inFlight, CampaignsTyped',
         \A p \in Promotion : Exists(p) =>
           Exists(p)' /\ \A kind : LimitsOf(p, kind) \subseteq LimitsOf(p, kind)'
  PROVE  LimitsInv'
<1>1. RequestsFew'
  BY RequestsStayFew DEF LimitsInv
<1>2. \A p : Exists(p) => Exists(p)'
  BY DEF Exists
<1>3. /\ \A r \in redemptions' : IsRedemption(r)'
      /\ \A q \in inFlight' : Sane(q)'
  BY <1>2 DEF LimitsInv, IsRedemption, Sane
<1>4. \A p : Standing(p)' = Standing(p)
  BY DEF Standing
<1>5. ASSUME NEW p \in Promotion, Exists(p)', NEW kind \in {"total", "customer"}, NEW who,
             Exists(p) => WithinBounds(p, kind, who)
      PROVE  WithinBounds(p, kind, who)'
  <2>1. /\ Taken(p, who)' = Taken(p, who) /\ Taking(p, who)' \subseteq Taking(p, who)
    BY <1>4 DEF Taken, Taking
  <2>2. /\ Cardinality(Taking(p, who)') <= Cardinality(Taking(p, who))
        /\ Cardinality(Taking(p, who)') \in Nat
    BY <2>1, DemandIsWhole, FS_Subset, FS_CardinalityType
  <2>3. Demand(p, who)' <= Demand(p, who) /\ Demand(p, who)' \in Nat /\ Demand(p, who) \in Nat
    BY <2>1, <2>2, DemandIsWhole DEF Demand
  <2>4. MaxInFlight \in Nat \ {0}
    BY PromotionAssumptions
  <2>5. CASE Exists(p)
    <3>1. \A limit \in LimitsOf(p, kind) : limit \in Nat
      BY <2>5, LimitsAreWhole DEF LimitsInv
    <3>2. LimitsOf(p, kind) \subseteq LimitsOf(p, kind)'
      BY <2>5
    <3>3. ASSUME NEW limit \in LimitsOf(p, kind), Demand(p, who) <= limit + MaxInFlight - 1
          PROVE  Demand(p, who)' <= limit + MaxInFlight - 1
      BY <2>3, <2>4, <3>1, <3>3
    <3> QED
      BY <1>5, <2>5, <3>2, <3>3 DEF WithinBounds
  <2>6. CASE ~Exists(p)
    <3>1. Standing(p) = {} /\ Taking(p, who) = {}
      BY <2>6, NothingTaken
    <3>2. Taken(p, who) = {}
      BY <3>1 DEF Taken
    <3>3. Demand(p, who) = 0
      BY <3>1, <3>2, FS_EmptySet DEF Demand
    <3>4. \E limit \in LimitsOf(p, kind)' : limit \in Nat
      <4>1. versions'[p] \in Seq(Forms) /\ versions'[p] # <<>>
        BY <1>5 DEF CampaignsTyped, Exists
      <4>2. 1 \in DOMAIN versions'[p] /\ versions'[p][1] \in Forms
        BY <4>1
      <4>3. versions'[p][1].limits[kind] \in Nat
        BY <4>2, FormsAreFilledIn
      <4> QED
        BY <4>2, <4>3 DEF LimitsOf
    <3> QED
      BY <2>3, <2>4, <3>3, <3>4 DEF WithinBounds
  <2> QED
    BY <2>5, <2>6
<1>6. ASSUME NEW p \in Promotion, Exists(p)' PROVE Bounded(p)'
  <2>1. Exists(p) => Bounded(p)
    BY DEF LimitsInv
  <2> QED
    BY <1>5, <1>6, <2>1 DEF Bounded
<1> QED
  BY <1>1, <1>3, <1>4, <1>6 DEF LimitsInv

(* A version more of a campaign.                                           *)
LEMMA AnotherVersion ==
  ASSUME LimitsInv, NEW p \in Promotion, NEW form \in Forms, NEW became,
         versions' = SaveVersion(p, form), status' = [status EXCEPT ![p] = became],
         UNCHANGED redemptions, inFlight' \subseteq inFlight
  PROVE  LimitsInv'
<1>1. CampaignsTyped
  BY DEF LimitsInv
<1>2. /\ versions'[p] = Append(versions[p], form)
      /\ \A other \in Promotion \ {p} : versions'[other] = versions[other]
      /\ versions' = [k \in Promotion |-> versions'[k]]
  BY <1>1 DEF CampaignsTyped, SaveVersion
<1>3. /\ \A other \in Promotion \ {p} : status'[other] = status[other]
      /\ status' = [k \in Promotion |-> status'[k]]
  BY <1>1 DEF CampaignsTyped
<1>4. versions[p] \in Seq(Forms)
  BY <1>1 DEF CampaignsTyped
<1>5. /\ versions'[p] \in Seq(Forms) /\ versions'[p] # <<>>
      /\ \A v \in DOMAIN versions[p] : v \in DOMAIN versions'[p] /\ versions'[p][v] = versions[p][v]
  BY <1>2, <1>4
<1>6. CampaignsTyped'
  BY <1>1, <1>2, <1>3, <1>5 DEF CampaignsTyped, Exists
<1>7. ASSUME NEW k \in Promotion, Exists(k)
      PROVE  Exists(k)' /\ \A kind : LimitsOf(k, kind) \subseteq LimitsOf(k, kind)'
  <2>1. CASE k = p
    BY <1>5, <2>1 DEF Exists, LimitsOf
  <2>2. CASE k # p
    BY <1>2, <1>7, <2>2 DEF Exists, LimitsOf
  <2> QED
    BY <2>1, <2>2
<1> QED
  BY <1>6, <1>7, CampaignBounds

LEMMA CampaignStepBounds ==
  ASSUME LimitsInv, CreatePromotion \/ UpdatePromotion \/ SetStatus PROVE LimitsInv'
<1>1. CASE CreatePromotion
  <2>1. PICK p \in Promotion, form \in Forms :
          /\ status' = [status EXCEPT ![p] = "DRAFT"]
          /\ versions' = SaveVersion(p, form)
          /\ UNCHANGED redemptions /\ UNCHANGED inFlight
    BY <1>1 DEF CreatePromotion, sales
  <2> QED
    BY <2>1, AnotherVersion
<1>2. CASE UpdatePromotion
  <2>1. PICK q \in inFlight :
          /\ q.op = "update" /\ inFlight' = inFlight \ {q}
          /\ versions' = SaveVersion(q.promotion, q.form)
          /\ UNCHANGED status /\ UNCHANGED redemptions
    BY <1>2 DEF UpdatePromotion, Served, sales
  <2>2. q.promotion \in Promotion /\ q.form \in Forms
    BY <2>1 DEF LimitsInv, Sane, Exists
  <2>3. status' = [status EXCEPT ![q.promotion] = status[q.promotion]]
    BY <2>1, <2>2 DEF LimitsInv, CampaignsTyped
  <2> QED
    BY <2>1, <2>2, <2>3, AnotherVersion
<1>3. CASE SetStatus
  <2>1. PICK q \in inFlight :
          /\ q.op = "status" /\ inFlight' = inFlight \ {q}
          /\ status' = [status EXCEPT ![q.promotion] = q.target]
          /\ UNCHANGED versions /\ UNCHANGED redemptions
    BY <1>3 DEF SetStatus, Served, sales
  <2>2. Exists(q.promotion)
    BY <2>1 DEF LimitsInv, Sane
  <2>3. \A p : /\ Exists(p)' = Exists(p)
               /\ \A kind : LimitsOf(p, kind)' = LimitsOf(p, kind)
    BY <2>1 DEF Exists, LimitsOf
  <2>4. CampaignsTyped'
    BY <2>1, <2>2, <2>3 DEF LimitsInv, CampaignsTyped
  <2> QED
    BY <2>1, <2>3, <2>4, CampaignBounds
<1> QED
  BY <1>1, <1>2, <1>3

LEMMA OtherReadsBounds ==
  ASSUME LimitsInv, UpdateReads \/ StatusReads \/ CancelReads \/ ExpiryReads \/ EditReads
  PROVE  LimitsInv'
<1>1. ASSUME NEW q, Admit(q), Sane(q), q.op # "checkout" PROVE LimitsInv'
  BY <1>1, AdmitBounds
<1>2. CASE UpdateReads
  <2>1. PICK p \in Promotion, form \in Forms :
          /\ status[p] # "none"
          /\ Admit([op |-> "update", promotion |-> p, form |-> form])
    BY <1>2 DEF UpdateReads
  <2>2. Sane([op |-> "update", promotion |-> p, form |-> form])
    BY <2>1 DEF LimitsInv, CampaignsTyped, Sane
  <2> QED
    BY <1>1, <2>1, <2>2
<1>3. CASE StatusReads
  <2>1. PICK p, target :
          /\ p \in Promotion /\ target \in Transitions(status[p])
          /\ Admit([op |-> "status", promotion |-> p, target |-> target])
    BY <1>3 DEF StatusReads
  <2>2. status[p] # "none"
    BY <2>1 DEF Transitions
  <2>3. Sane([op |-> "status", promotion |-> p, target |-> target])
    BY <2>1, <2>2 DEF LimitsInv, CampaignsTyped, Sane
  <2> QED
    BY <1>1, <2>1, <2>3
<1>4. CASE CancelReads
  <2>1. PICK i : Admit([op |-> "close", invoice |-> i, as |-> "cancelled"])
    BY <1>4 DEF CancelReads
  <2>2. Sane([op |-> "close", invoice |-> i, as |-> "cancelled"])
    BY DEF Sane
  <2> QED
    BY <1>1, <2>1, <2>2
<1>5. CASE ExpiryReads
  <2>1. PICK i : Admit([op |-> "close", invoice |-> i, as |-> "expired"])
    BY <1>5 DEF ExpiryReads
  <2>2. Sane([op |-> "close", invoice |-> i, as |-> "expired"])
    BY DEF Sane
  <2> QED
    BY <1>1, <2>1, <2>2
<1>6. CASE EditReads
  <2>1. PICK i, quantity : Admit([op |-> "edit", invoice |-> i, quantity |-> quantity])
    BY <1>6 DEF EditReads
  <2>2. Sane([op |-> "edit", invoice |-> i, quantity |-> quantity])
    BY DEF Sane
  <2> QED
    BY <1>1, <2>1, <2>2
<1> QED
  BY <1>2, <1>3, <1>4, <1>5, <1>6

LEMMA LimitsStep == LimitsInv /\ [Next]_vars => LimitsInv'
<1> SUFFICES ASSUME LimitsInv, [Next]_vars PROVE LimitsInv'
  OBVIOUS
<1>1. CASE \/ EditInvoiceQuantity \/ Preview \/ DismissPreview \/ ChangePrice \/ NextDay
           \/ EndsWithoutEffect \/ UNCHANGED vars
  <2>1. UNCHANGED <<campaigns, redemptions>> /\ inFlight' \subseteq inFlight
    BY <1>1 DEF EditInvoiceQuantity, Preview, DismissPreview, ChangePrice, NextDay,
                EndsWithoutEffect, Served, vars, sales, campaigns
  <2> QED
    BY <2>1, RequestsEnd
<1>2. CASE ApprovePayment \/ CloseInvoice
  <2>1. PICK i, to : /\ redemptions' = Settled(i, to)
                     /\ UNCHANGED campaigns
                     /\ inFlight' \subseteq inFlight
    BY <1>2 DEF ApprovePayment, CloseInvoice, PlaceHandedBack, Served
  <2> QED
    BY <2>1, SettleBounds
<1> QED
  BY <1>1, <1>2, CampaignStepBounds, OtherReadsBounds, CheckoutReadsBounds, CheckoutBounds DEF Next

(* A campaign is given no more often than the highest of the limits it has *)
(* had allows, in all and to one buyer, but for the checkouts that looked  *)
(* together (usageFor reads without a lock): at most MaxInFlight - 1 more. *)
(* What stands and what is being checked out keep under that bound         *)
(* together, because a checkout only looks on while what stands is below   *)
(* the limit, and takes no more than one place of a campaign.              *)
THEOREM LimitsAreKept == Spec => []LimitsKeptButForOverlap
<1>1. ASSUME LimitsInv PROVE LimitsKeptButForOverlap
  <2>1. ASSUME NEW p \in Promotion, Exists(p), NEW kind \in {"total", "customer"}, NEW who,
               WithinBounds(p, kind, who)
        PROVE  WithinLimits(p, kind, Taken(p, who))
    <3>1. \A limit \in LimitsOf(p, kind) : limit \in Nat
      BY <1>1, <2>1, LimitsAreWhole DEF LimitsInv
    <3>2. /\ Cardinality(Taken(p, who)) \in Nat /\ Cardinality(Taking(p, who)) \in Nat
          /\ MaxInFlight \in Nat
      BY <1>1, DemandIsWhole, PromotionAssumptions
    <3>3. ASSUME NEW limit \in LimitsOf(p, kind), Demand(p, who) <= limit + MaxInFlight - 1
          PROVE  Cardinality(Taken(p, who)) <= limit + MaxInFlight - 1
      BY <3>1, <3>2, <3>3 DEF Demand
    <3> QED
      BY <2>1, <3>3 DEF WithinBounds, WithinLimits
  <2>2. ASSUME NEW p \in Promotion, Exists(p)
        PROVE  /\ WithinLimits(p, "total", Standing(p))
               /\ \A buyer \in Buyer :
                    WithinLimits(p, "customer", {r \in Standing(p) : r.buyer = buyer})
    <3>1. Bounded(p)
      BY <1>1, <2>2 DEF LimitsInv
    <3>2. Taken(p, Buyer) = Standing(p)
      BY <1>1 DEF Taken, Standing, LimitsInv, IsRedemption
    <3>3. \A buyer : Taken(p, {buyer}) = {r \in Standing(p) : r.buyer = buyer}
      BY DEF Taken
    <3> QED
      BY <2>1, <2>2, <3>1, <3>2, <3>3 DEF Bounded
  <2>3. \A p \in Promotion : status[p] # "none" => Exists(p)
    BY <1>1 DEF LimitsInv, CampaignsTyped
  <2> QED
    BY <2>2, <2>3 DEF LimitsKeptButForOverlap
<1> QED
  BY <1>1, LimitsInit, LimitsStep, PTL DEF Spec

-----------------------------------------------------------------------------
(* What a promotion is worth on a basket: the lines of a basket have a     *)
(* quantity and a price, and the figures of a form are numbers.            *)
IsLine(line) == line.quantity \in Nat /\ line.price \in Nat

IsSelection(lines) ==
  IsFiniteSet(DOMAIN lines) /\ \A k \in DOMAIN lines : IsLine(lines[k])

IsBasket(basket) ==
  IsSelection(basket) /\ \E n \in Nat : DOMAIN basket = 1..n

HasFigures(form) ==
  /\ form.rate \in Nat /\ form.maxRewards \in Nat
  /\ form.buy.quantity \in Nat /\ form.reward.quantity \in Nat
  /\ IsFiniteSet(form.tiers)
  /\ \A tier \in form.tiers : tier.from \in Nat /\ tier.rate \in Nat

LEMMA TotalOfWhole ==
  ASSUME NEW S, IsFiniteSet(S), NEW f, DOMAIN f = S, \A k \in S : f[k] \in Nat
  PROVE  Total(f) \in Nat /\ Total(f) = SumFunctionOnSet(f, S)
<1>1. SumFunctionOnSet(f, S) \in Nat
  BY SumOfPart
<1> QED
  BY <1>1 DEF Total, AsMinor, SumFunction

LEMMA ValueIsWhole ==
  ASSUME NEW lines, IsSelection(lines)
  PROVE  LET worth == [k \in DOMAIN lines |-> LineValue(lines[k])]
         IN  /\ \A k \in DOMAIN lines :
                  worth[k] = lines[k].price * lines[k].quantity /\ worth[k] \in Nat
             /\ ValueOf(lines) = SumFunctionOnSet(worth, DOMAIN lines)
             /\ ValueOf(lines) \in Nat
             /\ TotalQuantity(lines) \in Nat
<1> DEFINE worth == [k \in DOMAIN lines |-> LineValue(lines[k])]
           many  == [k \in DOMAIN lines |-> lines[k].quantity]
<1>1. ASSUME NEW k \in DOMAIN lines
      PROVE  worth[k] = lines[k].price * lines[k].quantity /\ worth[k] \in Nat /\ many[k] \in Nat
  <2>1. lines[k].quantity \in Nat /\ lines[k].price \in Nat
    BY DEF IsSelection, IsLine
  <2> QED
    BY <2>1 DEF LineValue, AsMinor
<1>2. ValueOf(lines) = Total(worth) /\ TotalQuantity(lines) = Total(many)
  BY DEF ValueOf, TotalQuantity
<1>3. DOMAIN worth = DOMAIN lines /\ DOMAIN many = DOMAIN lines /\ IsFiniteSet(DOMAIN lines)
  BY DEF IsSelection
<1> HIDE DEF worth, many
<1>4. Total(worth) \in Nat /\ Total(worth) = SumFunctionOnSet(worth, DOMAIN lines)
  BY <1>1, <1>3, TotalOfWhole
<1>5. Total(many) \in Nat
  BY <1>1, <1>3, TotalOfWhole
<1> QED
  BY <1>1, <1>2, <1>4, <1>5 DEF worth

(* Lines selected of a basket are worth no more than the basket.           *)
LEMMA PartIsWorthNoMore ==
  ASSUME NEW lines, IsSelection(lines), NEW K \in SUBSET DOMAIN lines
  PROVE  IsSelection(Restrict(lines, K)) /\ ValueOf(Restrict(lines, K)) <= ValueOf(lines)
<1> DEFINE part  == Restrict(lines, K)
           whole == [k \in DOMAIN lines |-> LineValue(lines[k])]
           some  == [k \in DOMAIN part |-> LineValue(part[k])]
<1>1. DOMAIN part = K /\ \A k \in K : part[k] = lines[k]
  BY DEF Restrict
<1>2. IsSelection(part)
  BY <1>1, FS_Subset DEF IsSelection
<1> HIDE DEF part
<1>3. /\ ValueOf(lines) = SumFunctionOnSet(whole, DOMAIN lines)
      /\ \A k \in DOMAIN lines : whole[k] \in Nat
  BY ValueIsWhole
<1>4. ValueOf(part) = SumFunctionOnSet(some, K)
  BY <1>1, <1>2, ValueIsWhole
<1>5. \A k \in K : some[k] = whole[k]
  BY <1>1
<1> HIDE DEF whole, some
<1>6. IsFiniteSet(DOMAIN lines) /\ IsFiniteSet(K) /\ WholeOn(whole, K)
  BY <1>3, FS_Subset DEF IsSelection, WholeOn
<1>7. SumFunctionOnSet(whole, K) = SumFunctionOnSet(some, K)
  BY <1>5, <1>6, SumAgrees
<1>8. SumFunctionOnSet(whole, K) <= SumFunctionOnSet(whole, DOMAIN lines)
  BY <1>3, <1>6, SumOfPart
<1> QED
  BY <1>2, <1>3, <1>4, <1>7, <1>8 DEF part

LEMMA Selected ==
  ASSUME NEW lines, IsSelection(lines), NEW form, NEW unit
  PROVE  /\ IsSelection(QualifyingLines(form, lines))
         /\ ValueOf(QualifyingLines(form, lines)) <= ValueOf(lines)
         /\ IsSelection(OfUnit(lines, unit))
<1>1. /\ {k \in DOMAIN lines : InScope(form, lines[k])} \in SUBSET DOMAIN lines
      /\ {k \in DOMAIN lines : unit \in {AnyUnit, lines[k].unit}} \in SUBSET DOMAIN lines
  OBVIOUS
<1> QED
  BY <1>1, PartIsWorthNoMore DEF QualifyingLines, OfUnit

LEMMA RateBounds ==
  ASSUME NEW rate \in Nat
  PROVE  Rate(rate) \in Nat /\ Rate(rate) <= 100
BY DEF Rate, Clamped, Greater, Lesser

LEMMA PercentBounds ==
  ASSUME NEW rate \in Nat, NEW value \in Nat
  PROVE  PercentOff(rate, value) \in Nat /\ PercentOff(rate, value) <= value
<1> DEFINE share == Rate(rate)
           product == value * share
           off == product \div 100
<1>1. share \in Nat /\ share <= 100
  BY RateBounds
<1> HIDE DEF share
<1>2. product \in Nat /\ product <= value * 100
  <2>1. \A a, b \in Int : a <= b => value * a <= value * b
    OBVIOUS
  <2> QED
    BY <1>1, <2>1
<1> HIDE DEF product
<1>3. off \in Int /\ product = 100 * off + (product % 100) /\ 0 <= product % 100 /\ product % 100 < 100
      /\ product % 100 \in Int
  BY <1>2, Division
<1> HIDE DEF off
<1>4. off \in Nat /\ off <= value
  BY <1>2, <1>3
<1> QED
  BY <1>4 DEF PercentOff, off, product, share

LEMMA AmountBounds ==
  ASSUME NEW amount, NEW value \in Nat
  PROVE  AmountOff(amount, value) \in Nat /\ AmountOff(amount, value) <= value
BY DEF AmountOff, Clamped, Greater, Lesser, AsMinor

(* Of finitely many tiers that were reached one is the highest.            *)
LEMMA HighestTier ==
  ASSUME NEW S, IsFiniteSet(S), \A tier \in S : tier.from \in Nat, S # {}
  PROVE  \E tier \in S : \A other \in S : tier.from >= other.from
<1> DEFINE T == {A \in SUBSET S : A # {} => \E tier \in A : \A other \in A : tier.from >= other.from}
<1>1. {} \in T
  OBVIOUS
<1>2. ASSUME NEW A \in (SUBSET S) \cap T, NEW x \in S \ A PROVE A \union {x} \in T
  <2>1. CASE A = {}
    BY <2>1
  <2>2. CASE A # {}
    <3>1. PICK tier \in A : \A other \in A : tier.from >= other.from
      BY <2>2
    <3>2. tier.from \in Nat /\ x.from \in Nat /\ \A other \in A : other.from \in Nat
      OBVIOUS
    <3>3. CASE tier.from >= x.from
      BY <3>1, <3>3
    <3>4. CASE x.from >= tier.from
      <4>1. \A other \in A \union {x} : x.from >= other.from
        BY <3>1, <3>2, <3>4
      <4> QED
        BY <4>1
    <3> QED
      BY <3>2, <3>3, <3>4
  <2> QED
    BY <2>1, <2>2
<1>3. S \in T
  <2> HIDE DEF T
  <2> QED
    BY <1>1, <1>2, BySetInduction
<1> QED
  BY <1>3

LEMMA TierBounds ==
  ASSUME NEW form, HasFigures(form), NEW lines, ReachedTiers(form, lines) # {}, NEW value \in Nat
  PROVE  LET off == TierOff(TierFor(form, lines), value)
         IN  off \in Nat /\ off <= value
<1> DEFINE reached == ReachedTiers(form, lines)
<1>1. reached \subseteq form.tiers
  BY DEF ReachedTiers
<1>2. IsFiniteSet(reached) /\ \A tier \in reached : tier.from \in Nat /\ tier.rate \in Nat
  BY <1>1, FS_Subset DEF HasFigures
<1> HIDE DEF reached
<1>3. \E tier \in reached : \A other \in reached : tier.from >= other.from
  BY <1>2, HighestTier DEF reached
<1>4. TierFor(form, lines) = CHOOSE tier \in reached : \A other \in reached : tier.from >= other.from
  BY Zenon DEF TierFor, reached
<1>5. TierFor(form, lines) \in reached
  BY <1>3, <1>4, Zenon
<1> DEFINE tier == TierFor(form, lines)
<1>6. tier.rate \in Nat
  BY <1>2, <1>5
<1> HIDE DEF tier
<1>7. TierOff(tier, value) \in Nat /\ TierOff(tier, value) <= value
  BY <1>6, PercentBounds, AmountBounds DEF TierOff
<1> QED
  BY <1>7 DEF tier

LEMMA SetsAreWhole ==
  ASSUME NEW form, HasFigures(form), NEW lines, IsSelection(lines)
  PROVE  Sets(form, lines) \in Nat /\ RewardsEarned(form, lines) \in Int
<1> DEFINE bought == TotalQuantity(OfUnit(lines, form.buy.unit))
           size   == form.buy.quantity +
                       (IF RewardIsQualifier(form) THEN form.reward.quantity ELSE 0)
<1>1. bought \in Nat
  BY Selected, ValueIsWhole
<1>2. size \in Nat /\ (form.buy.quantity # 0 => size > 0)
  BY DEF HasFigures
<1>3. Sets(form, lines) =
        IF form.buy.quantity = 0 THEN 0
        ELSE IF form.repeatable THEN bought \div size
        ELSE IF bought >= size THEN 1 ELSE 0
  BY DEF Sets
<1> HIDE DEF bought, size
<1>4. size > 0 => bought \div size \in Nat
  BY <1>1, <1>2
<1>5. Sets(form, lines) \in Nat
  BY <1>2, <1>3, <1>4
<1>6. form.reward.quantity \in Nat /\ form.maxRewards \in Nat
  BY DEF HasFigures
<1>7. Sets(form, lines) * form.reward.quantity \in Int
  BY <1>5, <1>6
<1> QED
  BY <1>5, <1>6, <1>7 DEF RewardsEarned, Lesser

LEMMA RewardableBounds ==
  ASSUME NEW form, HasFigures(form), NEW lines, IsSelection(lines), NEW line, IsLine(line)
  PROVE  /\ Rewardable(form, lines, line) \in Nat
         /\ Rewardable(form, lines, line) <= line.quantity
<1> DEFINE used == IF RewardIsQualifier(form) THEN Sets(form, lines) * form.buy.quantity ELSE 0
<1>1. used \in Nat
  <2>1. Sets(form, lines) \in Nat /\ form.buy.quantity \in Nat
    BY SetsAreWhole DEF HasFigures
  <2>2. Sets(form, lines) * form.buy.quantity \in Nat
    BY <2>1
  <2> QED
    BY <2>2
<1>2. line.quantity \in Nat
  BY DEF IsLine
<1>3. Rewardable(form, lines, line) =
        IF RewardUnit(form) \in {AnyUnit, line.unit} THEN Greater(line.quantity - used, 0) ELSE 0
  BY DEF Rewardable
<1> HIDE DEF used
<1> QED
  BY <1>1, <1>2, <1>3 DEF Greater

(* Of a line no more is given away than is on it.                          *)
LEMMA TakenBounds ==
  ASSUME NEW form, HasFigures(form), NEW lines, IsSelection(lines), NEW basket, IsBasket(basket),
         NEW k \in DOMAIN basket
  PROVE  LET taken == RewardsTaken(form, lines, basket)[k]
         IN  taken \in Nat /\ taken <= basket[k].quantity
<1> DEFINE each(j) == Rewardable(form, lines, basket[j])
           upTo(j) == Total([i \in 1..j |-> each(i)])
           all     == [i \in 1..k |-> each(i)]
           before  == [i \in 1..(k - 1) |-> each(i)]
           earned  == RewardsEarned(form, lines)
<1>1. k \in Nat /\ k >= 1 /\ \A j \in 1..k : j \in DOMAIN basket
  BY DEF IsBasket
<1>2. ASSUME NEW j \in 1..k PROVE each(j) \in Nat /\ each(j) <= basket[j].quantity
  <2>1. IsLine(basket[j])
    BY <1>1 DEF IsBasket, IsSelection
  <2> QED
    BY <2>1, RewardableBounds
<1>3. RewardsTaken(form, lines, basket)[k] = Lesser(earned, upTo(k)) - Lesser(earned, upTo(k - 1))
  BY DEF RewardsTaken
<1>4. upTo(k) = Total(all) /\ upTo(k - 1) = Total(before)
  OBVIOUS
<1>5. earned \in Int
  BY SetsAreWhole
<1> HIDE DEF earned, each
<1>6. IsFiniteSet(1..k) /\ IsFiniteSet(1..(k - 1)) /\ 1..k = 1..(k - 1) \union {k} /\ k \notin 1..(k - 1)
  <2>1. k \in Int /\ k - 1 \in Int /\ 1 \in Int
    BY <1>1
  <2>2. IsFiniteSet(1..k) /\ IsFiniteSet(1..(k - 1))
    BY <2>1, FS_Interval
  <2>3. 1..k = 1..(k - 1) \union {k} /\ k \notin 1..(k - 1)
    BY <1>1
  <2> QED
    BY <2>2, <2>3
<1>7. /\ DOMAIN all = 1..k /\ DOMAIN before = 1..(k - 1) /\ all[k] = each(k)
      /\ \A i \in 1..(k - 1) : before[i] = all[i] /\ before[i] \in Nat
      /\ \A i \in 1..k : all[i] \in Nat
  BY <1>1, <1>2
<1> HIDE DEF all, before, upTo
<1>8. /\ Total(all) \in Nat /\ Total(all) = SumFunctionOnSet(all, 1..k)
      /\ Total(before) \in Nat /\ Total(before) = SumFunctionOnSet(before, 1..(k - 1))
  BY <1>6, <1>7, TotalOfWhole
<1>9. SumFunctionOnSet(all, 1..k) = SumFunctionOnSet(all, 1..(k - 1)) + all[k]
  <2>1. WholeOn(all, 1..(k - 1) \union {k})
    BY <1>6, <1>7 DEF WholeOn
  <2>2. SumFunctionOnSet(all, 1..(k - 1) \union {k}) = SumFunctionOnSet(all, 1..(k - 1)) + all[k]
    BY <1>6, <2>1, SumWith
  <2> QED
    BY <1>6, <2>2
<1>10. SumFunctionOnSet(before, 1..(k - 1)) = SumFunctionOnSet(all, 1..(k - 1))
  <2>1. WholeOn(before, 1..(k - 1)) /\ \A i \in 1..(k - 1) : all[i] = before[i]
    BY <1>7 DEF WholeOn
  <2> QED
    BY <1>6, <2>1, SumAgrees
<1>11. /\ upTo(k) \in Nat /\ upTo(k - 1) \in Nat /\ upTo(k) = upTo(k - 1) + each(k)
       /\ each(k) \in Nat /\ each(k) <= basket[k].quantity
  BY <1>1, <1>2, <1>4, <1>7, <1>8, <1>9, <1>10
<1>12. basket[k].quantity \in Nat
  BY DEF IsBasket, IsSelection, IsLine
<1> QED
  BY <1>3, <1>5, <1>11, <1>12 DEF Lesser

LEMMA RewardsBounds ==
  ASSUME NEW form, HasFigures(form), NEW lines, IsSelection(lines), NEW basket, IsBasket(basket)
  PROVE  LET off == Total(BuyXGetY(form, lines, basket))
         IN  off \in Nat /\ off <= ValueOf(basket)
<1> DEFINE given == BuyXGetY(form, lines, basket)
           worth == [k \in DOMAIN basket |-> LineValue(basket[k])]
<1>1. IsFiniteSet(DOMAIN basket) /\ IsSelection(basket)
  BY DEF IsBasket, IsSelection
<1>2. /\ ValueOf(basket) = SumFunctionOnSet(worth, DOMAIN basket)
      /\ \A k \in DOMAIN basket :
           worth[k] = basket[k].price * basket[k].quantity /\ worth[k] \in Nat
  BY <1>1, ValueIsWhole
<1>3. DOMAIN given = DOMAIN basket
  BY DEF BuyXGetY
<1>4. ASSUME NEW k \in DOMAIN basket PROVE given[k] \in Nat /\ given[k] <= worth[k]
  <2> DEFINE taken == RewardsTaken(form, lines, basket)[k]
             off   == (AsMinor(basket[k].price) * Rate(form.rate)) \div 100
             price_k == basket[k].price
             many  == basket[k].quantity
  <2>1. given[k] = taken * off
    BY DEF BuyXGetY
  <2>2. taken \in Nat /\ taken <= many
    BY TakenBounds
  <2>3. price_k \in Nat /\ many \in Nat
    BY <1>1 DEF IsSelection, IsLine
  <2>4. off \in Nat /\ off <= price_k
    <3>1. off = PercentOff(form.rate, price_k)
      BY <2>3 DEF PercentOff, AsMinor
    <3>2. form.rate \in Nat
      BY DEF HasFigures
    <3> QED
      BY <2>3, <3>1, <3>2, PercentBounds
  <2>5. worth[k] = price_k * many
    BY <1>2
  <2> HIDE DEF taken, off, price_k, many, given, worth
  <2>6. taken * off \in Nat /\ taken * off <= many * off
    BY <2>2, <2>3, <2>4
  <2>7. many * off <= price_k * many /\ many * off \in Nat /\ price_k * many \in Nat
    BY <2>3, <2>4
  <2> QED
    BY <2>1, <2>5, <2>6, <2>7
<1> HIDE DEF given, worth
<1>5. Total(given) \in Nat /\ Total(given) = SumFunctionOnSet(given, DOMAIN basket)
  BY <1>1, <1>3, <1>4, TotalOfWhole
<1>6. WholeOn(given, DOMAIN basket) /\ WholeOn(worth, DOMAIN basket)
  BY <1>2, <1>4 DEF WholeOn
<1>7. SumFunctionOnSet(given, DOMAIN basket) <= SumFunctionOnSet(worth, DOMAIN basket)
  BY <1>1, <1>4, <1>6, SumAtMost
<1> QED
  BY <1>2, <1>5, <1>7 DEF given

(* A promotion never gives more than the basket is worth, by any rule of   *)
(* the five, whatever its form, its tiers and its rewards (applyBenefit):  *)
(* a buyer is never paid to buy.                                           *)
THEOREM DiscountWithinBasket ==
  ASSUME NEW form, HasFigures(form), NEW basket, IsBasket(basket)
  PROVE  Discount(form, basket) \in Nat /\ Discount(form, basket) <= ValueOf(basket)
<1> DEFINE qualifying == QualifyingLines(form, basket)
           value      == ValueOf(Basis(form, basket))
           whole      == ValueOf(basket)
           claimed    == Claimed(form, basket)
<1>1. IsSelection(basket) /\ IsSelection(qualifying) /\ ValueOf(qualifying) <= whole
  BY Selected DEF IsBasket
<1>2. whole \in Nat /\ ValueOf(qualifying) \in Nat
  BY <1>1, ValueIsWhole
<1>3. value \in Nat /\ value <= whole
  BY <1>1, <1>2 DEF Basis
<1>4. form.rate \in Nat
  BY DEF HasFigures
<1>5. claimed \in Nat /\ claimed <= whole
  <2>1. \/ claimed = PercentOff(form.rate, value)
        \/ claimed = AmountOff(form.amount, value)
        \/ ReachedTiers(form, qualifying) # {} /\ claimed = TierOff(TierFor(form, qualifying), value)
        \/ claimed = Total(BuyXGetY(form, qualifying, basket))
        \/ claimed = 0
    BY DEF Claimed
  <2> HIDE DEF qualifying, value, whole, claimed
  <2>2. \A n \in Nat : n <= value => n <= whole
    BY <1>2, <1>3
  <2>3. CASE claimed = PercentOff(form.rate, value)
    BY <1>3, <1>4, <2>2, <2>3, PercentBounds
  <2>4. CASE claimed = AmountOff(form.amount, value)
    BY <1>3, <2>2, <2>4, AmountBounds
  <2>5. CASE ReachedTiers(form, qualifying) # {} /\ claimed = TierOff(TierFor(form, qualifying), value)
    BY <1>3, <2>2, <2>5, TierBounds
  <2>6. CASE claimed = Total(BuyXGetY(form, qualifying, basket))
    BY <1>1, <2>6, RewardsBounds DEF whole
  <2>7. CASE claimed = 0
    BY <1>2, <2>7
  <2> QED
    BY <2>1, <2>3, <2>4, <2>5, <2>6, <2>7
<1>6. Discount(form, basket) = Capped(claimed, AsMinor(form.cap)) /\ AsMinor(form.cap) \in Int
  BY DEF Discount, AsMinor
<1> HIDE DEF claimed, whole
<1>7. Capped(claimed, AsMinor(form.cap)) \in Nat /\ Capped(claimed, AsMinor(form.cap)) <= whole
  BY <1>2, <1>5, <1>6 DEF Capped, Lesser
<1> QED
  BY <1>6, <1>7 DEF whole

-----------------------------------------------------------------------------
(* "Buy two, get the third": the sets that are earned are the complete     *)
(* ones, of the bought and the given together.                             *)
CompleteSets(form, quantity) ==
  LET complete == quantity \div (form.buy.quantity + form.reward.quantity)
  IN  IF form.repeatable THEN complete ELSE Lesser(complete, 1)

(* The one line of the unit that earns its own reward.                     *)
IsEarningLine(form, basket, k) ==
  /\ RewardIsQualifier(form) /\ form.buy.quantity > 0
  /\ k \in DOMAIN basket /\ InScope(form, basket[k])
  /\ \A j \in DOMAIN basket : basket[j].unit = form.buy.unit <=> j = k

LEMMA SetsAreComplete ==
  ASSUME NEW form, HasFigures(form), NEW basket, IsBasket(basket), NEW k, IsEarningLine(form, basket, k)
  PROVE  LET sets  == CompleteSets(form, basket[k].quantity)
             bound == sets * (form.buy.quantity + form.reward.quantity)
         IN  /\ Sets(form, QualifyingLines(form, basket)) = sets
             /\ sets \in Nat /\ bound <= basket[k].quantity
<1> DEFINE lines  == QualifyingLines(form, basket)
           ofUnit == OfUnit(lines, form.buy.unit)
           many   == [j \in DOMAIN ofUnit |-> ofUnit[j].quantity]
           n      == basket[k].quantity
           b      == form.buy.quantity
           r      == form.reward.quantity
           size   == b + r
           whole  == n \div size
<1>1. k \in DOMAIN basket /\ n \in Nat /\ b \in Nat /\ b > 0 /\ r \in Nat
  BY DEF IsEarningLine, IsBasket, IsSelection, IsLine, HasFigures
<1>2. form.buy.unit # AnyUnit
  BY DEF IsEarningLine, RewardIsQualifier
<1>3. DOMAIN ofUnit = {k} /\ ofUnit[k] = basket[k]
  <2>1. /\ DOMAIN lines = {j \in DOMAIN basket : InScope(form, basket[j])}
        /\ \A j \in DOMAIN lines : lines[j] = basket[j]
    BY DEF QualifyingLines, Restrict
  <2>2. k \in DOMAIN lines
    BY <2>1 DEF IsEarningLine
  <2> HIDE DEF lines
  <2>3. /\ DOMAIN ofUnit = {j \in DOMAIN lines : form.buy.unit \in {AnyUnit, lines[j].unit}}
        /\ \A j \in DOMAIN ofUnit : ofUnit[j] = lines[j]
    BY DEF OfUnit, Restrict
  <2>4. \A j \in DOMAIN lines : form.buy.unit \in {AnyUnit, lines[j].unit} <=> j = k
    BY <1>2, <2>1 DEF IsEarningLine
  <2> HIDE DEF ofUnit
  <2> QED
    BY <2>1, <2>2, <2>3, <2>4
<1>4. TotalQuantity(ofUnit) = n
  <2>1. TotalQuantity(ofUnit) = Total(many)
    BY DEF TotalQuantity
  <2>2. DOMAIN many = {k} /\ many[k] = n
    BY <1>3
  <2> HIDE DEF many, n, ofUnit
  <2>3. IsFiniteSet({k}) /\ \A j \in {k} : many[j] \in Nat
    BY <1>1, <2>2, FS_Singleton
  <2>4. Total(many) = SumFunctionOnSet(many, {k})
    BY <2>2, <2>3, TotalOfWhole
  <2>5. SumFunctionOnSet(many, {k}) = many[k] + SumFunctionOnSet(many, {k} \ {k})
    BY <2>3, SumWithout DEF WholeOn
  <2>6. SumFunctionOnSet(many, {k} \ {k}) = 0
    BY SumOfNone, {k} \ {k} = {}
  <2> QED
    BY <1>1, <2>1, <2>2, <2>4, <2>5, <2>6
<1>5. Sets(form, lines) = IF form.repeatable THEN whole ELSE IF n >= size THEN 1 ELSE 0
  <2> HIDE DEF lines
  <2>1. Sets(form, lines) =
          IF b = 0 THEN 0 ELSE IF form.repeatable THEN TotalQuantity(ofUnit) \div size
          ELSE IF TotalQuantity(ofUnit) >= size THEN 1 ELSE 0
    BY DEF Sets, IsEarningLine
  <2> QED
    BY <1>1, <1>4, <2>1
<1>6. CompleteSets(form, n) = IF form.repeatable THEN whole ELSE Lesser(whole, 1)
  BY DEF CompleteSets
<1> HIDE DEF n, b, r
<1>7. size \in Nat /\ size > 0
  BY <1>1
<1> HIDE DEF size
<1>8. whole \in Int /\ n = size * whole + (n % size) /\ 0 <= n % size /\ n % size < size /\ n % size \in Int
  BY <1>1, <1>7, Division
<1> HIDE DEF whole
<1>9. whole \in Nat
  <2>1. whole <= -1 => size * whole <= size * (-1)
    BY <1>7, <1>8
  <2>2. size * whole \in Int
    BY <1>7, <1>8
  <2> QED
    BY <1>1, <1>7, <1>8, <2>1, <2>2
<1>10. whole * size <= n /\ whole * size \in Nat
  <2>1. whole * size = size * whole /\ whole * size \in Nat
    BY <1>7, <1>9
  <2> QED
    BY <1>1, <1>8, <2>1
<1>11. n >= size <=> whole >= 1
  <2>1. whole >= 1 => size * whole >= size * 1
    BY <1>7, <1>9
  <2>2. whole = 0 => size * whole = 0
    BY <1>7
  <2> QED
    BY <1>1, <1>7, <1>8, <1>9, <2>1, <2>2
<1>12. Sets(form, lines) = CompleteSets(form, n)
  BY <1>5, <1>6, <1>9, <1>11 DEF Lesser
<1>13. CompleteSets(form, n) \in Nat /\ CompleteSets(form, n) * size <= n
  <2>1. CASE CompleteSets(form, n) = whole
    BY <1>9, <1>10, <2>1
  <2>2. CASE CompleteSets(form, n) = 1 /\ 1 <= whole
    BY <1>1, <1>7, <1>11, <2>2
  <2> QED
    BY <1>6, <1>9, <2>1, <2>2 DEF Lesser
<1> QED
  BY <1>12, <1>13 DEF size, n, b, r

(* Rewards are taken from that line and no other, and all that are earned  *)
(* are found on it.                                                        *)
LEMMA RewardsAreTaken ==
  ASSUME NEW form, HasFigures(form), NEW basket, IsBasket(basket), NEW k, IsEarningLine(form, basket, k)
  PROVE  LET lines   == QualifyingLines(form, basket)
             rewards == CompleteSets(form, basket[k].quantity) * form.reward.quantity
         IN  /\ rewards \in Nat
             /\ \A j \in DOMAIN basket :
                  RewardsTaken(form, lines, basket)[j] =
                    IF j = k THEN Capped(rewards, form.maxRewards) ELSE 0
<1> DEFINE lines   == QualifyingLines(form, basket)
           n       == basket[k].quantity
           sets    == CompleteSets(form, n)
           b       == form.buy.quantity
           r       == form.reward.quantity
           rewards == sets * r
           earned  == RewardsEarned(form, lines)
           left    == Rewardable(form, lines, basket[k])
           each(j) == Rewardable(form, lines, basket[j])
           upTo(j) == Total([i \in 1..j |-> each(i)])
<1>1. n \in Nat /\ b \in Nat /\ r \in Nat /\ form.maxRewards \in Nat /\ k \in DOMAIN basket
  BY DEF IsEarningLine, IsBasket, IsSelection, IsLine, HasFigures
<1>2. sets \in Nat /\ sets * (b + r) <= n /\ Sets(form, lines) = sets
  BY SetsAreComplete
<1>3. form.buy.unit # AnyUnit /\ RewardUnit(form) = form.buy.unit /\ basket[k].unit = form.buy.unit
  BY DEF IsEarningLine, RewardIsQualifier
<1>4. earned = Capped(rewards, form.maxRewards)
  BY <1>2 DEF RewardsEarned, Capped
<1>5. left = Greater(n - sets * b, 0)
  <2> HIDE DEF lines, sets
  <2> QED
    BY <1>2, <1>3 DEF Rewardable, IsEarningLine
<1>6. \A j \in DOMAIN basket \ {k} : each(j) = 0
  <2> HIDE DEF lines
  <2> QED
    BY <1>3 DEF Rewardable, IsEarningLine
<1>7. each(k) = left
  OBVIOUS
<1> HIDE DEF n, sets, b, r
<1>8. rewards \in Nat /\ rewards <= left /\ left \in Nat
  <2>1. rewards \in Nat /\ sets * b \in Nat /\ sets * (b + r) = sets * b + rewards
    BY <1>1, <1>2
  <2> HIDE DEF rewards
  <2> QED
    BY <1>1, <1>2, <1>5, <2>1 DEF Greater
<1> HIDE DEF rewards
<1>9. earned \in Nat /\ earned <= left
  BY <1>1, <1>4, <1>8 DEF Capped, Lesser
<1>10. PICK m \in Nat : DOMAIN basket = 1..m
  BY DEF IsBasket
<1> HIDE DEF lines, left, each
<1>11. ASSUME NEW j \in Nat, j <= m
       PROVE  upTo(j) = IF j >= k THEN left ELSE 0
  <2> DEFINE some == [i \in 1..j |-> each(i)]
  <2>1. IsFiniteSet(1..j)
    <3>1. 1 \in Int /\ j \in Int
      OBVIOUS
    <3> QED
      BY <3>1, FS_Interval
  <2>2. ASSUME NEW i \in 1..j PROVE some[i] = IF i = k THEN left ELSE 0
    <3>1. i \in DOMAIN basket
      BY <1>10, <1>11
    <3> QED
      BY <1>6, <1>7, <3>1
  <2>3. DOMAIN some = 1..j /\ upTo(j) = Total(some)
    OBVIOUS
  <2> HIDE DEF some, upTo
  <2>4. \A i \in 1..j : some[i] \in Nat
    BY <1>8, <2>2
  <2>5. upTo(j) = SumFunctionOnSet(some, 1..j)
    BY <2>1, <2>3, <2>4, TotalOfWhole
  <2>6. WholeOn(some, 1..j)
    BY <2>4 DEF WholeOn
  <2>7. CASE j >= k
    <3>1. k \in 1..j /\ {k} \in SUBSET (1..j)
      BY <1>1, <1>10, <2>7
    <3>2. SumFunctionOnSet(some, 1..j) = SumFunctionOnSet(some, {k})
      <4>1. \A i \in (1..j) \ {k} : some[i] = 0
        BY <2>2
      <4> QED
        BY <2>1, <2>6, <3>1, <4>1, SumOfSupport
    <3>3. SumFunctionOnSet(some, {k}) = some[k] + SumFunctionOnSet(some, {k} \ {k})
      <4>1. IsFiniteSet({k}) /\ WholeOn(some, {k})
        BY <2>6, <3>1, FS_Singleton DEF WholeOn
      <4> QED
        BY <4>1, SumWithout
    <3>4. SumFunctionOnSet(some, {k} \ {k}) = 0
      BY SumOfNone, {k} \ {k} = {}
    <3> QED
      BY <1>8, <2>2, <2>5, <2>7, <3>1, <3>2, <3>3, <3>4
  <2>8. CASE ~(j >= k)
    <3>1. k \notin 1..j
      BY <2>8
    <3>2. \A i \in (1..j) \ {} : some[i] = 0
      BY <2>2, <3>1
    <3>3. SumFunctionOnSet(some, 1..j) = SumFunctionOnSet(some, {})
      <4>1. {} \in SUBSET (1..j)
        OBVIOUS
      <4> QED
        BY <2>1, <2>6, <3>2, <4>1, SumOfSupport
    <3>4. SumFunctionOnSet(some, {}) = 0
      BY SumOfNone
    <3> QED
      BY <2>5, <2>8, <3>3, <3>4
  <2> QED
    BY <2>7, <2>8
<1>12. ASSUME NEW j \in DOMAIN basket
       PROVE  RewardsTaken(form, lines, basket)[j] = IF j = k THEN earned ELSE 0
  <2>1. RewardsTaken(form, lines, basket)[j] = Lesser(earned, upTo(j)) - Lesser(earned, upTo(j - 1))
    BY DEF RewardsTaken, each
  <2>2. j \in Nat /\ j <= m /\ j - 1 \in Nat /\ j - 1 <= m /\ k \in Nat
    BY <1>1, <1>10
  <2>3. /\ upTo(j) = IF j >= k THEN left ELSE 0
        /\ upTo(j - 1) = IF j - 1 >= k THEN left ELSE 0
    BY <1>11, <2>2
  <2> HIDE DEF upTo, earned
  <2> QED
    BY <1>8, <1>9, <2>1, <2>2, <2>3 DEF Lesser
<1> QED
  BY <1>4, <1>8, <1>12 DEF rewards, lines, sets, n, r

(* Where the reward is of the unit that earns it and the basket has that   *)
(* unit on one line, every complete set earns its rewards and nothing      *)
(* short of one does, up to the most rewards and the most money the        *)
(* company gives (buyXGetY, applyBenefit), whatever else is in the basket. *)
(* RewardsAsAdvertised is this of previews that qualify.                   *)
THEOREM CompleteSetsEarn ==
  ASSUME NEW form, HasFigures(form), form.benefit = "BUY_X_GET_Y",
         NEW basket, IsBasket(basket), NEW k, IsEarningLine(form, basket, k)
  PROVE  LET rewards == CompleteSets(form, basket[k].quantity) * form.reward.quantity
         IN  Discount(form, basket) =
               Capped(Capped(rewards, form.maxRewards) * PercentOff(form.rate, basket[k].price),
                      AsMinor(form.cap))
<1> DEFINE lines   == QualifyingLines(form, basket)
           rewards == CompleteSets(form, basket[k].quantity) * form.reward.quantity
           earned  == Capped(rewards, form.maxRewards)
           off(j)  == (AsMinor(basket[j].price) * Rate(form.rate)) \div 100
           gives   == BuyXGetY(form, lines, basket)
<1>1. /\ rewards \in Nat
      /\ \A j \in DOMAIN basket :
           RewardsTaken(form, lines, basket)[j] = IF j = k THEN earned ELSE 0
  BY RewardsAreTaken
<1>2. k \in DOMAIN basket /\ form.maxRewards \in Nat /\ form.rate \in Nat
  BY DEF IsEarningLine, HasFigures
<1> HIDE DEF rewards
<1>3. earned \in Nat
  BY <1>1, <1>2 DEF Capped, Lesser
<1> HIDE DEF earned
<1>4. ASSUME NEW j \in DOMAIN basket
      PROVE  off(j) \in Nat /\ off(j) = PercentOff(form.rate, basket[j].price)
  <2>1. basket[j].price \in Nat
    BY DEF IsBasket, IsSelection, IsLine
  <2>2. off(j) = PercentOff(form.rate, basket[j].price)
    BY <2>1 DEF PercentOff, AsMinor
  <2> QED
    BY <1>2, <2>1, <2>2, PercentBounds
<1>5. /\ DOMAIN gives = DOMAIN basket
      /\ \A j \in DOMAIN basket : gives[j] = RewardsTaken(form, lines, basket)[j] * off(j)
  BY DEF BuyXGetY
<1> HIDE DEF off, gives
<1>6. ASSUME NEW j \in DOMAIN basket PROVE gives[j] = IF j = k THEN earned * off(k) ELSE 0
  <2>1. off(j) \in Nat
    BY <1>4
  <2>2. 0 * off(j) = 0
    BY <2>1
  <2> QED
    BY <1>1, <1>5, <2>2
<1>7. earned * off(k) \in Nat
  BY <1>2, <1>3, <1>4
<1>8. Total(gives) = earned * off(k)
  <2>1. IsFiniteSet(DOMAIN basket)
    BY DEF IsBasket, IsSelection
  <2>2. \A j \in DOMAIN basket : gives[j] \in Nat
    BY <1>6, <1>7
  <2>3. Total(gives) = SumFunctionOnSet(gives, DOMAIN basket)
    BY <1>5, <2>1, <2>2, TotalOfWhole
  <2>4. WholeOn(gives, DOMAIN basket) /\ {k} \in SUBSET DOMAIN basket
    BY <1>2, <2>2 DEF WholeOn
  <2>5. \A j \in DOMAIN basket \ {k} : gives[j] = 0
    BY <1>6
  <2>6. SumFunctionOnSet(gives, DOMAIN basket) = SumFunctionOnSet(gives, {k})
    BY <2>1, <2>4, <2>5, SumOfSupport
  <2>7. SumFunctionOnSet(gives, {k}) = gives[k] + SumFunctionOnSet(gives, {k} \ {k})
    <3>1. IsFiniteSet({k}) /\ WholeOn(gives, {k})
      BY <2>4, FS_Singleton DEF WholeOn
    <3> QED
      BY <3>1, SumWithout
  <2>8. SumFunctionOnSet(gives, {k} \ {k}) = 0
    BY SumOfNone, {k} \ {k} = {}
  <2> QED
    BY <1>2, <1>6, <1>7, <2>3, <2>6, <2>7, <2>8
<1>9. Claimed(form, basket) = Total(gives)
  BY DEF Claimed, gives
<1> QED
  BY <1>2, <1>4, <1>8, <1>9 DEF Discount, rewards, earned

-----------------------------------------------------------------------------
(* A form with another status is worth the same.                           *)
SameRules(f, g) ==
  /\ f.scope = g.scope /\ f.benefit = g.benefit /\ f.basis = g.basis
  /\ f.rate = g.rate /\ f.amount = g.amount /\ f.cap = g.cap
  /\ f.tiers = g.tiers /\ f.tierOn = g.tierOn
  /\ f.buy = g.buy /\ f.reward = g.reward
  /\ f.repeatable = g.repeatable /\ f.maxRewards = g.maxRewards

LEMMA SameRulesSameWorth ==
  ASSUME NEW f, NEW g, SameRules(f, g), NEW basket
  PROVE  Discount(f, basket) = Discount(g, basket)
<1>1. QualifyingLines(f, basket) = QualifyingLines(g, basket)
  <2>1. \A line : InScope(f, line) <=> InScope(g, line)
    BY DEF InScope, SameRules
  <2>2. {k \in DOMAIN basket : InScope(f, basket[k])} = {k \in DOMAIN basket : InScope(g, basket[k])}
    BY <2>1
  <2> QED
    BY <2>2 DEF QualifyingLines
<1> DEFINE lines == QualifyingLines(f, basket)
           value == ValueOf(Basis(f, basket))
<1>2. value = ValueOf(Basis(g, basket))
  BY <1>1 DEF Basis, SameRules
<1> HIDE DEF value
<1>3. ReachedTiers(f, lines) = ReachedTiers(g, lines) /\ TierFor(f, lines) = TierFor(g, lines)
  <2> HIDE DEF lines
  <2>1. ReachedTiers(f, lines) = ReachedTiers(g, lines)
    BY DEF ReachedTiers, SameRules
  <2> QED
    BY <2>1, Zenon DEF TierFor
<1>4. BuyXGetY(f, lines, basket) = BuyXGetY(g, lines, basket)
  <2> HIDE DEF lines
  <2>1. /\ RewardUnit(f) = RewardUnit(g)
        /\ RewardIsQualifier(f) <=> RewardIsQualifier(g)
        /\ f.buy = g.buy /\ f.reward = g.reward /\ f.rate = g.rate
    BY DEF RewardUnit, RewardIsQualifier, SameRules
  <2>2. Sets(f, lines) = Sets(g, lines)
    <3>1. CASE RewardIsQualifier(f)
      BY <2>1, <3>1 DEF Sets, SameRules
    <3>2. CASE ~RewardIsQualifier(f)
      BY <2>1, <3>2 DEF Sets, SameRules
    <3> QED
      BY <3>1, <3>2
  <2>3. RewardsEarned(f, lines) = RewardsEarned(g, lines)
    BY <2>1, <2>2 DEF RewardsEarned, SameRules
  <2>4. \A line : Rewardable(f, lines, line) = Rewardable(g, lines, line)
    <3> TAKE line
    <3> DEFINE used(h) == IF RewardIsQualifier(h) THEN Sets(h, lines) * h.buy.quantity ELSE 0
    <3>1. used(f) = used(g)
      BY <2>1, <2>2
    <3>2. \A h : Rewardable(h, lines, line) =
                   IF RewardUnit(h) \in {AnyUnit, line.unit}
                   THEN Greater(line.quantity - used(h), 0) ELSE 0
      BY Zenon DEF Rewardable
    <3> HIDE DEF used
    <3> QED
      BY <2>1, <3>1, <3>2
  <2>5. \A k : [j \in 1..k |-> Rewardable(f, lines, basket[j])] =
                [j \in 1..k |-> Rewardable(g, lines, basket[j])]
    BY <2>4
  <2>6. RewardsTaken(f, lines, basket) = RewardsTaken(g, lines, basket)
    BY <2>3, <2>5 DEF RewardsTaken
  <2> QED
    BY <2>1, <2>6 DEF BuyXGetY
<1>5. Claimed(f, basket) = Claimed(g, basket)
  BY <1>1, <1>2, <1>3, <1>4 DEF Claimed, value, SameRules
<1> QED
  BY <1>5 DEF Discount, SameRules

LEMMA FormsHaveFigures ==
  ASSUME NEW form \in Forms, NEW s
  PROVE  /\ HasFigures(form)
         /\ SameRules([form EXCEPT !.status = s], form)
         /\ [form EXCEPT !.status = s].priority = form.priority
         /\ form.priority \in Int
BY FormsAreFilledIn DEF HasFigures, SameRules

-----------------------------------------------------------------------------
(* What was given is what a version gives on what was bought: each promise *)
(* of a discount, written or about to be, names its version and the price  *)
(* of the day it was made.                                                 *)
Bought(unit, quantity, at) ==
  <<[unit |-> unit, property |-> PropertyOf[unit], quantity |-> quantity, price |-> at]>>

AsPromised(p, v, basket, discount) ==
  /\ p \in Promotion /\ v \in DOMAIN versions[p]
  /\ discount = Discount(versions[p][v], basket)

RedemptionFields ==
  {"promotion", "version", "invoice", "unit", "units", "original", "discount", "status"}

Honoured(r) ==
  /\ RedemptionFields \subseteq DOMAIN r
  /\ r.units \in Nat \ {0}
  /\ \E at \in Nat : /\ r.original = at * r.units
                     /\ AsPromised(r.promotion, r.version, Bought(r.unit, r.units, at), r.discount)

Promised(q) ==
  q.op = "checkout" =>
    /\ q.quantity \in Nat \ {0} /\ q.price \in Nat
    /\ \A g \in q.given :
         /\ AsPromised(g.promotion, g.version, Bought(q.unit, q.quantity, q.price), g.discount)
         /\ g.discount = q.discount

SalesKeepDiscounts ==
  \A i \in Invoice : invoices[i].status # "none" => "discount" \in DOMAIN invoices[i]

GivenInv ==
  /\ price \in [Unit -> Nat]
  /\ SalesKeepDiscounts
  /\ \A r \in redemptions : Honoured(r) /\ r.discount = invoices[r.invoice].discount
  /\ \A q \in inFlight : Promised(q)

GivenIInv == PlacesInv /\ LimitsInv /\ GivenInv

VersionsGrow ==
  \A p \in Promotion : \A v \in DOMAIN versions[p] :
    v \in DOMAIN versions'[p] /\ versions'[p][v] = versions[p][v]

LEMMA QuotientIsExact ==
  ASSUME NEW a \in Nat, NEW n \in Nat \ {0} PROVE (a * n) \div n = a
<1> DEFINE d == (a * n) \div n
           m == (a * n) % n
<1>1. d \in Int /\ m \in Int /\ a * n = n * d + m /\ 0 <= m /\ m < n
  BY Division, a * n \in Int
<1> HIDE DEF d, m
<1>2. (a - d) * n = m
  BY <1>1
<1>3. a - d <= 0
  <2>1. a - d >= 1 => (a - d) * n >= 1 * n
    BY <1>1
  <2> QED
    BY <1>1, <1>2, <2>1
<1>4. a - d >= 0
  <2>1. a - d <= -1 => (a - d) * n <= (-1) * n
    BY <1>1
  <2> QED
    BY <1>1, <1>2, <2>1
<1> QED
  BY <1>1, <1>3, <1>4 DEF d

(* A purchase is of one line, and one promotion is given for it: the one   *)
(* of the highest benefit that is the first by priority and id.            *)
WholeOfQuote(p, basket, quote) ==
  /\ AsPromised(p, Len(versions[p]), basket, Discount(Current(p), basket))
  /\ quote.discount = Discount(Current(p), basket)

LEMMA OneIsGiven ==
  ASSUME CampaignsTyped, price \in [Unit -> Nat], NEW buyer, NEW unit \in Unit,
         NEW quantity \in Quantities, NEW plan, NEW codes,
         NEW p \in QuoteFor(buyer, unit, quantity, plan, codes).applied
  PROVE  WholeOfQuote(p, <<Line(unit, quantity)>>, QuoteFor(buyer, unit, quantity, plan, codes))
<1> DEFINE context    == ContextFor(buyer, plan, codes)
           basket     == <<Line(unit, quantity)>>
           promotions == [k \in Candidates |->
                            [rules |-> Current(k), usage |-> UsageFor(k, context.buyer.id)]]
           qualified  == Contestants(promotions, basket, context)
           worth      == [k \in qualified |-> Discount(promotions[k].rules, basket)]
           chosen     == Chosen(promotions, basket, context)
           gives      == [k \in chosen |-> Discount(promotions[k].rules, basket)]
           quote      == QuoteFor(buyer, unit, quantity, plan, codes)
<1>1. quote.applied = chosen /\ quote.discount = Lesser(Total(gives), ValueOf(basket))
  BY DEF QuoteFor, QuoteBasket, EvaluateBasket, Outcome
<1>2. context.resolution = "HIGHEST_BENEFIT"
  BY DEF ContextFor
<1>3. chosen = First(promotions, Highest(worth))
  <2> HIDE DEF context, promotions, basket
  <2>1. Chosen(promotions, basket, context) = Resolved(promotions, qualified, basket, "HIGHEST_BENEFIT")
    BY <1>2 DEF Chosen
  <2> HIDE DEF qualified
  <2> QED
    BY <2>1 DEF Resolved
<1>4. ASSUME NEW k \in chosen
      PROVE  k \in Promotion /\ Exists(k) /\ promotions[k].rules = Current(k)
  <2>1. k \in qualified
    <3> HIDE DEF qualified, promotions, basket, context
    <3> QED
      BY <1>3 DEF First, Highest
  <2>2. k \in Candidates
    <3> HIDE DEF basket, context
    <3> QED
      BY <2>1 DEF Contestants
  <2> HIDE DEF context
  <2> QED
    BY <2>2 DEF Candidates, CampaignsTyped
<1>5. ASSUME NEW k \in chosen
      PROVE  /\ k \in Nat
             /\ promotions[k].rules.priority \in Int
             /\ AsPromised(k, Len(versions[k]), basket, Discount(Current(k), basket))
             /\ Discount(Current(k), basket) \in Nat
             /\ Discount(Current(k), basket) <= ValueOf(basket)
  <2> DEFINE form == versions[k][Len(versions[k])]
  <2>1. k \in Promotion /\ Exists(k) /\ promotions[k].rules = Current(k)
    BY <1>4
  <2>2. form \in Forms /\ Len(versions[k]) \in DOMAIN versions[k]
    BY <2>1, VersionsAreForms
  <2>3. Current(k) = [form EXCEPT !.status = status[k]]
    BY DEF Current
  <2> HIDE DEF form, chosen, promotions
  <2>4. /\ HasFigures(form) /\ SameRules(Current(k), form)
        /\ Current(k).priority \in Int
    <3> DEFINE live == [form EXCEPT !.status = status[k]]
    <3>1. HasFigures(form) /\ SameRules(live, form) /\ live.priority = form.priority
          /\ form.priority \in Int
      BY <2>2, FormsHaveFigures
    <3> HIDE DEF live
    <3> QED
      BY <2>3, <3>1 DEF live
  <2>5. IsBasket(basket)
    <3>1. price[unit] \in Nat /\ quantity \in Nat
      BY PromotionAssumptions
    <3>2. IsLine(Line(unit, quantity))
      BY <3>1 DEF Line, IsLine
    <3>3. DOMAIN basket = 1..1 /\ \A j \in DOMAIN basket : basket[j] = Line(unit, quantity)
      OBVIOUS
    <3>4. IsFiniteSet(1..1)
      <4>1. 1..1 = {1}
        OBVIOUS
      <4>2. IsFiniteSet({1})
        BY FS_Singleton, Zenon
      <4> QED
        BY <4>1, <4>2
    <3> HIDE DEF basket
    <3> QED
      BY <3>2, <3>3, <3>4 DEF IsBasket, IsSelection
  <2> HIDE DEF basket
  <2>6. Discount(Current(k), basket) = Discount(form, basket)
    BY <2>4, SameRulesSameWorth
  <2>7. Discount(form, basket) \in Nat /\ Discount(form, basket) <= ValueOf(basket)
    BY <2>4, <2>5, DiscountWithinBasket
  <2> QED
    BY <2>1, <2>2, <2>4, <2>6, <2>7, PromotionAssumptions DEF AsPromised, form
<1>6. chosen = {p}
  <2>1. p \in chosen
    BY <1>1
  <2>2. ASSUME NEW k \in chosen PROVE k = p
    <3>1. Ranks(promotions, k, p) /\ Ranks(promotions, p, k)
      <4> HIDE DEF promotions, worth
      <4> QED
        BY <1>3, <2>1 DEF First
    <3>2. /\ k \in Nat /\ p \in Nat
          /\ promotions[k].rules.priority \in Int /\ promotions[p].rules.priority \in Int
      BY <1>5, <2>1
    <3> HIDE DEF promotions
    <3> QED
      BY <3>1, <3>2 DEF Ranks
  <2> QED
    BY <2>1, <2>2
<1>7. Total(gives) = Discount(Current(p), basket)
  <2> DEFINE d == Discount(Current(p), basket)
  <2>1. p \in chosen
    BY <1>1
  <2>2. d \in Nat /\ promotions[p].rules = Current(p)
    BY <1>4, <1>5, <2>1
  <2>3. DOMAIN gives = {p} /\ gives[p] = d
    <3> HIDE DEF chosen, promotions, basket
    <3> QED
      BY <1>6, <2>2
  <2> HIDE DEF d, gives
  <2>4. IsFiniteSet({p}) /\ \A k \in {p} : gives[k] \in Nat
    BY <2>2, <2>3, FS_Singleton
  <2>5. Total(gives) = SumFunctionOnSet(gives, {p})
    BY <2>3, <2>4, TotalOfWhole
  <2>6. SumFunctionOnSet(gives, {p}) = gives[p] + SumFunctionOnSet(gives, {p} \ {p})
    BY <2>4, SumWithout DEF WholeOn
  <2>7. SumFunctionOnSet(gives, {p} \ {p}) = 0
    BY SumOfNone, {p} \ {p} = {}
  <2> QED
    BY <2>2, <2>3, <2>5, <2>6, <2>7 DEF d
<1>8. /\ AsPromised(p, Len(versions[p]), basket, Discount(Current(p), basket))
      /\ Discount(Current(p), basket) \in Nat
      /\ Discount(Current(p), basket) <= ValueOf(basket)
  BY <1>1, <1>5
<1> HIDE DEF quote, basket, gives
<1>9. quote.discount = Discount(Current(p), basket)
  BY <1>1, <1>7, <1>8 DEF Lesser
<1> QED
  BY <1>8, <1>9 DEF quote, basket, WholeOfQuote

-----------------------------------------------------------------------------
(* A version that is there stays as it is, and more are added.             *)
LEMMA PromisesStay ==
  ASSUME VersionsGrow, NEW p, NEW v, NEW basket, NEW discount, AsPromised(p, v, basket, discount)
  PROVE  AsPromised(p, v, basket, discount)'
BY DEF VersionsGrow, AsPromised

LEMMA GrownStays ==
  ASSUME VersionsGrow
  PROVE  /\ \A r : Honoured(r) => Honoured(r)'
         /\ \A q : Promised(q) => Promised(q)'
<1>1. \A p, v, basket, discount :
        AsPromised(p, v, basket, discount) => AsPromised(p, v, basket, discount)'
  BY PromisesStay
<1> QED
  BY <1>1 DEF Honoured, Promised

LEMMA SavedGrows ==
  ASSUME CampaignsTyped, NEW p \in Promotion, NEW form \in Forms, versions' = SaveVersion(p, form)
  PROVE  VersionsGrow
<1>1. versions[p] \in Seq(Forms)
  BY DEF CampaignsTyped
<1>2. versions'[p] = Append(versions[p], form) /\ \A other \in Promotion \ {p} : versions'[other] = versions[other]
  BY DEF CampaignsTyped, SaveVersion
<1>3. \A v \in DOMAIN versions[p] : v \in DOMAIN Append(versions[p], form)
                                      /\ Append(versions[p], form)[v] = versions[p][v]
  BY <1>1
<1> QED
  BY <1>2, <1>3 DEF VersionsGrow

(* Nothing but the campaigns and the prices moves; requests end.           *)
LEMMA PromisesKept ==
  ASSUME GivenInv, VersionsGrow, UNCHANGED sales, price' \in [Unit -> Nat], inFlight' \subseteq inFlight
  PROVE  GivenInv'
<1>1. redemptions' = redemptions /\ invoices' = invoices
  BY DEF sales
<1> QED
  BY <1>1, GrownStays DEF GivenInv, SalesKeepDiscounts

LEMMA AdmitPromised ==
  ASSUME GivenInv, NEW q, Admit(q), Promised(q) PROVE GivenInv'
<1>1. /\ VersionsGrow
      /\ redemptions' = redemptions /\ invoices' = invoices /\ price' = price
      /\ inFlight' = inFlight \union {q}
  BY DEF Admit, VersionsGrow, campaigns, sales
<1> QED
  BY <1>1, GrownStays DEF GivenInv, SalesKeepDiscounts

LEMMA CheckoutReadsPromised ==
  ASSUME CampaignsTyped, GivenInv, CheckoutReads PROVE GivenInv'
<1>1. PICK i \in FreeInvoices, buyer \in Buyer, unit \in Unit, quantity \in Quantities,
           plan \in {Outright} \union Plan, codes \in Codes :
        CheckoutReads!(i, buyer, unit, quantity, plan, codes)
  BY Zenon DEF CheckoutReads
<1> DEFINE quote == QuoteFor(buyer, unit, quantity, plan, codes)
           basket == <<Line(unit, quantity)>>
           given == {[promotion |-> p, version |-> Len(versions[p]), day |-> today,
                      discount |-> Discount(Current(p), <<Line(unit, quantity)>>)] : p \in quote.applied}
           q == [op |-> "checkout", invoice |-> i, buyer |-> buyer, unit |-> unit,
                 quantity |-> quantity, plan |-> plan, price |-> price[unit], day |-> today,
                 discount |-> quote.discount, given |-> given]
<1>2. Admit(q)
  BY <1>1
<1>3. /\ q.quantity = quantity /\ q.price = price[unit] /\ q.unit = unit
      /\ q.given = given /\ q.discount = quote.discount
  OBVIOUS
<1>4. \A p \in quote.applied :
        /\ AsPromised(p, Len(versions[p]), basket, Discount(Current(p), basket))
        /\ quote.discount = Discount(Current(p), basket)
  <2>1. price \in [Unit -> Nat]
    BY DEF GivenInv
  <2>2. ASSUME NEW p \in quote.applied PROVE WholeOfQuote(p, basket, quote)
    BY <2>1, OneIsGiven
  <2> HIDE DEF quote, basket
  <2> QED
    BY <2>2 DEF WholeOfQuote
<1>5. basket = Bought(unit, quantity, price[unit])
  BY DEF Line, Bought
<1>6. ASSUME NEW g \in given
      PROVE  AsPromised(g.promotion, g.version, basket, g.discount) /\ g.discount = quote.discount
  <2> HIDE DEF quote, basket
  <2>1. PICK p \in quote.applied :
          g = [promotion |-> p, version |-> Len(versions[p]), day |-> today,
               discount |-> Discount(Current(p), basket)]
    BY DEF basket
  <2> QED
    BY <1>4, <2>1
<1>7. quantity \in Nat \ {0} /\ price[unit] \in Nat
  BY PromotionAssumptions DEF GivenInv
<1> HIDE DEF quote, basket, given, q
<1>8. Promised(q)
  BY <1>3, <1>5, <1>6, <1>7 DEF Promised
<1> QED
  BY <1>2, <1>8, AdmitPromised

LEMMA CheckoutPromised ==
  ASSUME PlacesInv, GivenInv, Checkout PROVE GivenInv'
<1> PICK q \in inFlight : Checkout!(q)
  BY DEF Checkout
<1> DEFINE sale ==
      [status |-> "sent", paid |-> FALSE, buyer |-> q.buyer, plan |-> q.plan, since |-> q.day,
       price |-> q.price, base |-> q.price * q.quantity, discount |-> q.discount,
       total |-> TotalFor(q.price * q.quantity, q.discount, q.plan)]
<1>1. q.invoice \in Invoice /\ invoices[q.invoice].status = "none" /\ Promised(q)
  BY DEF PlacesInv, MayProceed, GivenInv
<1>2. invoices' = [invoices EXCEPT ![q.invoice] = sale]
  OBVIOUS
<1>3. "discount" \in DOMAIN sale /\ sale.discount = q.discount
  OBVIOUS
<1> HIDE DEF sale
<1>4. invoices'[q.invoice] = sale /\ \A i \in Invoice \ {q.invoice} : invoices'[i] = invoices[i]
  BY <1>1, <1>2 DEF PlacesInv, InvoicesTyped
<1>5. /\ VersionsGrow /\ price' = price /\ inFlight' \subseteq inFlight
      /\ redemptions' = redemptions \union {Redemption(q, g) : g \in q.given}
  BY DEF VersionsGrow, campaigns, Served
<1>6. SalesKeepDiscounts'
  BY <1>3, <1>4 DEF GivenInv, SalesKeepDiscounts
<1>7. ASSUME NEW r \in redemptions' PROVE Honoured(r) /\ r.discount = invoices'[r.invoice].discount
  <2>1. CASE r \in redemptions
    <3>1. r.invoice \in Invoice /\ r.invoice # q.invoice
      BY <1>1, <2>1 DEF PlacesInv, GivenToPurchases
    <3> QED
      BY <1>4, <2>1, <3>1 DEF GivenInv
  <2>2. ASSUME NEW g \in q.given, r = Redemption(q, g)
        PROVE  Honoured(r) /\ r.discount = invoices'[r.invoice].discount
    <3>1. /\ q.quantity \in Nat \ {0} /\ q.price \in Nat
          /\ AsPromised(g.promotion, g.version, Bought(q.unit, q.quantity, q.price), g.discount)
          /\ g.discount = q.discount
      BY <1>1 DEF Promised
    <3>2. /\ RedemptionFields \subseteq DOMAIN r /\ r.units = q.quantity /\ r.unit = q.unit
          /\ r.original = q.price * q.quantity /\ r.promotion = g.promotion
          /\ r.version = g.version /\ r.discount = g.discount /\ r.invoice = q.invoice
      BY <2>2 DEF Redemption, RedemptionFields
    <3>3. Honoured(r)
      BY <3>1, <3>2 DEF Honoured
    <3> QED
      BY <1>3, <1>4, <3>1, <3>2, <3>3
  <2> QED
    BY <1>5, <2>1, <2>2
<1>8. \A r \in redemptions' : Honoured(r)'
  BY <1>5, <1>7, GrownStays
<1>9. \A other \in inFlight' : Promised(other)'
  BY <1>5, GrownStays DEF GivenInv
<1> QED
  BY <1>5, <1>6, <1>7, <1>8, <1>9 DEF GivenInv

(* A step that moves the status of a sale or of what was given for it, or  *)
(* prices its plan again, leaves what was given.                           *)
LEMMA FiguresStay ==
  ASSUME GivenInv, VersionsGrow, inFlight' \subseteq inFlight, price' = price,
         \A r \in redemptions : r.invoice \in Invoice /\ invoices[r.invoice].status # "none",
         \A i \in Invoice :
           /\ invoices[i].status = "none" => invoices'[i].status = "none"
           /\ "discount" \in DOMAIN invoices[i] =>
                /\ "discount" \in DOMAIN invoices'[i]
                /\ invoices'[i].discount = invoices[i].discount,
         \A t \in redemptions' : \E r \in redemptions :
           /\ RedemptionFields \subseteq DOMAIN t
           /\ \A field \in RedemptionFields \ {"status"} : t[field] = r[field]
  PROVE  GivenInv'
<1>1. SalesKeepDiscounts'
  BY DEF GivenInv, SalesKeepDiscounts
<1>2. ASSUME NEW t \in redemptions' PROVE Honoured(t)' /\ t.discount = invoices'[t.invoice].discount
  <2>1. PICK r \in redemptions :
          /\ RedemptionFields \subseteq DOMAIN t
          /\ \A field \in RedemptionFields \ {"status"} : t[field] = r[field]
    OBVIOUS
  <2>2. /\ t.promotion = r.promotion /\ t.version = r.version /\ t.invoice = r.invoice
        /\ t.unit = r.unit /\ t.units = r.units /\ t.original = r.original
        /\ t.discount = r.discount
    BY <2>1 DEF RedemptionFields
  <2>3. Honoured(r) /\ r.discount = invoices[r.invoice].discount
    BY DEF GivenInv
  <2>4. Honoured(t)
    BY <2>1, <2>2, <2>3 DEF Honoured
  <2>5. invoices'[r.invoice].discount = invoices[r.invoice].discount
    BY DEF GivenInv, SalesKeepDiscounts
  <2> QED
    BY <2>2, <2>3, <2>4, <2>5, GrownStays
<1>3. \A q \in inFlight' : Promised(q)'
  BY GrownStays DEF GivenInv
<1> QED
  BY <1>1, <1>2, <1>3 DEF GivenInv

LEMMA SettledKeepsFigures ==
  ASSUME PlacesInv, GivenInv, NEW i, NEW to
  PROVE  \A t \in Settled(i, to) : \E r \in redemptions :
           /\ RedemptionFields \subseteq DOMAIN t
           /\ \A field \in RedemptionFields \ {"status"} : t[field] = r[field]
<1> TAKE t \in Settled(i, to)
<1>1. PICK r \in redemptions :
        t = IF r.invoice = i /\ r.status = "RESERVED" THEN [r EXCEPT !.status = to] ELSE r
  BY DEF Settled
<1>2. r = [x \in DOMAIN r |-> r[x]] /\ RedemptionFields \subseteq DOMAIN r
  BY DEF PlacesInv, GivenToPurchases, IsGiven, GivenInv, Honoured
<1>3. t = r \/ t = [r EXCEPT !.status = to]
  BY <1>1
<1>4. RedemptionFields \subseteq DOMAIN t
  BY <1>2, <1>3
<1>5. \A field \in RedemptionFields \ {"status"} : t[field] = r[field]
  BY <1>2, <1>3
<1> QED
  BY <1>4, <1>5

(* A row one of whose other fields moves keeps its discount.               *)
LEMMA DiscountStays ==
  ASSUME NEW s, IsSale(s), "discount" \in DOMAIN s, NEW field \in {"status", "paid", "base", "total"},
         NEW x
  PROVE  LET t == [s EXCEPT ![field] = x]
         IN  "discount" \in DOMAIN t /\ t.discount = s.discount /\ IsSale(t)
BY DEF IsSale

LEMMA ApprovePromised ==
  ASSUME PlacesInv, GivenInv, ApprovePayment PROVE GivenInv'
<1> PICK i \in Invoice : ApprovePayment!(i)
  BY DEF ApprovePayment
<1> DEFINE paid(s) == [[s EXCEPT !.status = "partially_paid"] EXCEPT !.paid = TRUE]
<1>1. invoices[i].status # "none" /\ InvoicesTyped
  BY DEF PlacesInv
<1>2. \A j \in Invoice : invoices'[j] = IF j = i THEN paid(invoices[j]) ELSE invoices[j]
  BY <1>1 DEF InvoicesTyped
<1>3. ASSUME NEW s, IsSale(s), "discount" \in DOMAIN s
      PROVE  "discount" \in DOMAIN paid(s) /\ paid(s).discount = s.discount
  <2> DEFINE t == [s EXCEPT !.status = "partially_paid"]
  <2>1. "discount" \in DOMAIN t /\ t.discount = s.discount /\ IsSale(t)
    BY <1>3, DiscountStays
  <2> HIDE DEF t
  <2>2. [t EXCEPT !.paid = TRUE].discount = t.discount /\ "discount" \in DOMAIN [t EXCEPT !.paid = TRUE]
    BY <2>1, DiscountStays
  <2> QED
    BY <2>1, <2>2 DEF t
<1> HIDE DEF paid
<1>4. ASSUME NEW j \in Invoice
      PROVE  /\ invoices[j].status = "none" => invoices'[j].status = "none"
             /\ "discount" \in DOMAIN invoices[j] =>
                  /\ "discount" \in DOMAIN invoices'[j]
                  /\ invoices'[j].discount = invoices[j].discount
  BY <1>1, <1>2, <1>3 DEF InvoicesTyped
<1>5. /\ VersionsGrow /\ inFlight' \subseteq inFlight /\ price' = price
      /\ redemptions' = Settled(i, "CONFIRMED")
  BY DEF VersionsGrow, campaigns
<1>6. \A r \in redemptions : r.invoice \in Invoice /\ invoices[r.invoice].status # "none"
  BY DEF PlacesInv, GivenToPurchases
<1>7. \A t \in redemptions' : \E r \in redemptions :
        /\ RedemptionFields \subseteq DOMAIN t
        /\ \A field \in RedemptionFields \ {"status"} : t[field] = r[field]
  BY <1>5, SettledKeepsFigures
<1> QED
  BY <1>4, <1>5, <1>6, <1>7, FiguresStay

LEMMA ClosePromised ==
  ASSUME PlacesInv, GivenInv, CloseInvoice PROVE GivenInv'
<1> PICK q \in inFlight : CloseInvoice!(q)
  BY DEF CloseInvoice
<1>1. q.invoice \in Invoice /\ invoices[q.invoice].status # "none" /\ InvoicesTyped
  BY DEF PlacesInv, MayProceed
<1>2. \A j \in Invoice :
        invoices'[j] = IF j = q.invoice THEN [invoices[j] EXCEPT !.status = q.as] ELSE invoices[j]
  BY <1>1 DEF InvoicesTyped
<1>3. ASSUME NEW j \in Invoice
      PROVE  /\ invoices[j].status = "none" => invoices'[j].status = "none"
             /\ "discount" \in DOMAIN invoices[j] =>
                  /\ "discount" \in DOMAIN invoices'[j]
                  /\ invoices'[j].discount = invoices[j].discount
  <2>1. IsSale(invoices[j])
    BY <1>1 DEF InvoicesTyped
  <2>2. "discount" \in DOMAIN invoices[j] =>
          LET t == [invoices[j] EXCEPT !.status = q.as]
          IN  "discount" \in DOMAIN t /\ t.discount = invoices[j].discount
    BY <2>1, DiscountStays
  <2> QED
    BY <1>1, <1>2, <2>2
<1>4. /\ VersionsGrow /\ inFlight' \subseteq inFlight /\ price' = price
      /\ redemptions' = Settled(q.invoice, "RELEASED")
  BY DEF VersionsGrow, campaigns, Served, PlaceHandedBack
<1>5. \A r \in redemptions : r.invoice \in Invoice /\ invoices[r.invoice].status # "none"
  BY DEF PlacesInv, GivenToPurchases
<1>6. \A t \in redemptions' : \E r \in redemptions :
        /\ RedemptionFields \subseteq DOMAIN t
        /\ \A field \in RedemptionFields \ {"status"} : t[field] = r[field]
  BY <1>4, SettledKeepsFigures
<1> QED
  BY <1>3, <1>4, <1>5, <1>6, FiguresStay

LEMMA EditPromised ==
  ASSUME PlacesInv, GivenInv, EditInvoiceQuantity PROVE GivenInv'
<1> PICK q \in inFlight : EditInvoiceQuantity!(q)
  BY DEF EditInvoiceQuantity
<1> DEFINE base   == invoices[q.invoice].price * q.quantity
           total  == TotalFor(base, 0, invoices[q.invoice].plan)
           new(s) == [[s EXCEPT !.base = base] EXCEPT !.total = total]
<1>1. q.invoice \in Invoice /\ invoices[q.invoice].status # "none" /\ InvoicesTyped
  BY DEF PlacesInv, MayProceed
<1>2. invoices' = [[invoices EXCEPT ![q.invoice].base = base] EXCEPT ![q.invoice].total = total]
  OBVIOUS
<1> HIDE DEF base, total
<1>3. \A j \in Invoice : invoices'[j] = IF j = q.invoice THEN new(invoices[j]) ELSE invoices[j]
  BY <1>1, <1>2 DEF InvoicesTyped
<1>4. ASSUME NEW s, IsSale(s), "discount" \in DOMAIN s
      PROVE  "discount" \in DOMAIN new(s) /\ new(s).discount = s.discount
  <2> DEFINE t == [s EXCEPT !.base = base]
  <2>1. "discount" \in DOMAIN t /\ t.discount = s.discount /\ IsSale(t)
    BY <1>4, DiscountStays
  <2> HIDE DEF t
  <2>2. [t EXCEPT !.total = total].discount = t.discount /\ "discount" \in DOMAIN [t EXCEPT !.total = total]
    BY <2>1, DiscountStays
  <2> QED
    BY <2>1, <2>2 DEF t
<1> HIDE DEF new
<1>5. ASSUME NEW j \in Invoice
      PROVE  /\ invoices[j].status = "none" => invoices'[j].status = "none"
             /\ "discount" \in DOMAIN invoices[j] =>
                  /\ "discount" \in DOMAIN invoices'[j]
                  /\ invoices'[j].discount = invoices[j].discount
  BY <1>1, <1>3, <1>4 DEF InvoicesTyped
<1>6. /\ VersionsGrow /\ inFlight' \subseteq inFlight /\ price' = price
      /\ redemptions' = redemptions
  BY DEF VersionsGrow, campaigns, Served
<1>7. \A r \in redemptions :
        /\ r.invoice \in Invoice /\ invoices[r.invoice].status # "none"
        /\ RedemptionFields \subseteq DOMAIN r
  BY DEF PlacesInv, GivenToPurchases, GivenInv, Honoured
<1> QED
  BY <1>5, <1>6, <1>7, FiguresStay

LEMMA OtherReadsPromised ==
  ASSUME GivenInv, UpdateReads \/ StatusReads \/ CancelReads \/ ExpiryReads \/ EditReads
  PROVE  GivenInv'
<1>1. ASSUME NEW q, Admit(q), q.op # "checkout" PROVE GivenInv'
  BY <1>1, AdmitPromised DEF Promised
<1>2. CASE UpdateReads
  <2>1. PICK p, form : Admit([op |-> "update", promotion |-> p, form |-> form])
    BY <1>2 DEF UpdateReads
  <2> QED
    BY <1>1, <2>1
<1>3. CASE StatusReads
  <2>1. PICK p, target : Admit([op |-> "status", promotion |-> p, target |-> target])
    BY <1>3 DEF StatusReads
  <2> QED
    BY <1>1, <2>1
<1>4. CASE CancelReads
  <2>1. PICK i : Admit([op |-> "close", invoice |-> i, as |-> "cancelled"])
    BY <1>4 DEF CancelReads
  <2> QED
    BY <1>1, <2>1
<1>5. CASE ExpiryReads
  <2>1. PICK i : Admit([op |-> "close", invoice |-> i, as |-> "expired"])
    BY <1>5 DEF ExpiryReads
  <2> QED
    BY <1>1, <2>1
<1>6. CASE EditReads
  <2>1. PICK i, quantity : Admit([op |-> "edit", invoice |-> i, quantity |-> quantity])
    BY <1>6 DEF EditReads
  <2> QED
    BY <1>1, <2>1
<1> QED
  BY <1>2, <1>3, <1>4, <1>5, <1>6

LEMMA CampaignsKeepPromises ==
  ASSUME LimitsInv, GivenInv,
         \/ CreatePromotion \/ UpdatePromotion \/ SetStatus \/ Preview \/ DismissPreview
         \/ ChangePrice \/ NextDay \/ EndsWithoutEffect \/ UNCHANGED vars
  PROVE  GivenInv'
<1>1. UNCHANGED sales /\ inFlight' \subseteq inFlight
  BY DEF CreatePromotion, UpdatePromotion, SetStatus, Preview, DismissPreview, ChangePrice,
         NextDay, EndsWithoutEffect, Served, vars, sales
<1>2. price' \in [Unit -> Nat]
  <2>1. CASE ChangePrice
    <3>1. PICK unit \in Unit, other \in Prices : price' = [price EXCEPT ![unit] = other]
      BY <2>1 DEF ChangePrice
    <3> QED
      BY <3>1, PromotionAssumptions DEF GivenInv
  <2>2. CASE price' = price
    BY <2>2 DEF GivenInv
  <2> QED
    BY <2>1, <2>2 DEF CreatePromotion, UpdatePromotion, SetStatus, Preview, DismissPreview,
                      NextDay, EndsWithoutEffect, vars
<1>3. VersionsGrow
  <2>1. CASE CreatePromotion
    BY <2>1, SavedGrows DEF CreatePromotion, LimitsInv
  <2>2. CASE UpdatePromotion
    <3>1. PICK q \in inFlight : q.op = "update" /\ versions' = SaveVersion(q.promotion, q.form)
      BY <2>2 DEF UpdatePromotion
    <3>2. q.promotion \in Promotion /\ q.form \in Forms
      BY <3>1 DEF LimitsInv, Sane, Exists
    <3> QED
      BY <3>1, <3>2, SavedGrows DEF LimitsInv
  <2>3. CASE versions' = versions
    BY <2>3 DEF VersionsGrow
  <2> QED
    BY <2>1, <2>2, <2>3 DEF SetStatus, Preview, DismissPreview, ChangePrice, NextDay,
                            EndsWithoutEffect, vars, campaigns
<1> QED
  BY <1>1, <1>2, <1>3, PromisesKept

LEMMA GivenStep == GivenIInv /\ [Next]_vars => GivenIInv'
<1> SUFFICES ASSUME GivenIInv, [Next]_vars PROVE GivenIInv'
  OBVIOUS
<1>1. PlacesInv /\ LimitsInv /\ GivenInv /\ CampaignsTyped
  BY DEF GivenIInv, LimitsInv
<1>2. GivenInv'
  BY <1>1, CampaignsKeepPromises, OtherReadsPromised, CheckoutReadsPromised, CheckoutPromised,
     ApprovePromised, ClosePromised, EditPromised DEF Next
<1>3. PlacesInv' /\ LimitsInv'
  BY <1>1, PlacesStep, LimitsStep
<1> QED
  BY <1>2, <1>3 DEF GivenIInv

(* What a purchase was given is what the version it names gives on what    *)
(* was bought at the price of the day, and is what its payment plan was    *)
(* priced with, however campaigns and prices are edited while it checks    *)
(* out and afterwards (checkoutPurchase, recordRedemption, saveVersion):   *)
(* versions are added and never written over, one promotion is given, and  *)
(* it is never worth more than the purchase.                               *)
THEOREM GivenStaysAsItWas == Spec => []GivenAsItWas
<1>1. Init => GivenIInv
  <2> SUFFICES ASSUME Init PROVE GivenIInv
    OBVIOUS
  <2>1. PlacesInv /\ LimitsInv
    BY PlacesInit, LimitsInit
  <2>2. GivenInv
    BY PromotionAssumptions DEF Init, GivenInv, SalesKeepDiscounts, NoInvoice
  <2> QED
    BY <2>1, <2>2 DEF GivenIInv
<1>2. GivenIInv => GivenAsItWas
  <2> SUFFICES ASSUME GivenInv, NEW r \in redemptions
               PROVE  /\ r.discount = Discount(versions[r.promotion][r.version],
                                               Bought(r.unit, r.units, r.original \div r.units))
                      /\ r.discount = invoices[r.invoice].discount
    BY DEF GivenIInv, GivenAsItWas, Bought
  <2>1. Honoured(r) /\ r.discount = invoices[r.invoice].discount
    BY DEF GivenInv
  <2>2. PICK at \in Nat :
          /\ r.original = at * r.units
          /\ AsPromised(r.promotion, r.version, Bought(r.unit, r.units, at), r.discount)
    BY <2>1 DEF Honoured
  <2>3. r.units \in Nat \ {0}
    BY <2>1 DEF Honoured
  <2>4. r.original \div r.units = at
    BY <2>2, <2>3, QuotientIsExact
  <2> QED
    BY <2>1, <2>2, <2>4 DEF AsPromised
<1> QED
  BY <1>1, <1>2, GivenStep, PTL DEF Spec

-----------------------------------------------------------------------------
(* The previews that promise a reward qualify: their drafts are open to    *)
(* every buyer on every day of the run, ask for nothing, and cover every   *)
(* unit.                                                                   *)
OpenToAll(form) ==
  /\ Days \subseteq form.starts..form.ends
  /\ form.audience = "EVERYONE" /\ form.payment = "ANY" /\ form.plans = {} /\ form.upfront = 0
  /\ form.scope.units = {} /\ form.scope.properties = {} /\ DOMAIN form.combination = {}
  /\ form.minQuantity = 0 /\ form.minValue = 0
  /\ form.limits \in [total : Nat, customer : Nat, day : Nat, units : Nat]
  /\ form.buy.quantity > 0

FormFields ==
  {"status", "starts", "ends", "trigger", "code", "scope", "combination", "audience", "payment",
   "plans", "upfront", "minQuantity", "minValue", "limits", "benefit", "basis", "rate", "amount",
   "cap", "perks", "tiers", "tierOn", "buy", "reward", "repeatable", "maxRewards"}

DraftsPromise ==
  /\ 1 \in Days
  /\ \A basket \in Baskets : IsBasket(basket)
  /\ \A form \in Drafts :
       form.benefit = "BUY_X_GET_Y" /\ RewardIsQualifier(form) =>
         /\ form = [field \in DOMAIN form |-> form[field]] /\ FormFields \subseteq DOMAIN form
         /\ HasFigures(form) /\ form.cap \in Nat
         /\ OpenToAll(form)

Live(form) == [form EXCEPT !.status = "ACTIVE"]

LEMMA LiveForm ==
  ASSUME DraftsPromise, NEW form \in Drafts, form.benefit = "BUY_X_GET_Y", RewardIsQualifier(form)
  PROVE  /\ Live(form).status = "ACTIVE" /\ SameRules(Live(form), form)
         /\ Live(form).trigger = form.trigger /\ Live(form).code = form.code
         /\ OpenToAll(Live(form))
<1>1. /\ form = [field \in DOMAIN form |-> form[field]] /\ FormFields \subseteq DOMAIN form
      /\ OpenToAll(form)
  BY DEF DraftsPromise
<1>2. Live(form).status = "ACTIVE"
  BY <1>1 DEF Live, FormFields
<1>3. \A field \in FormFields \ {"status"} : Live(form)[field] = form[field]
  BY <1>1 DEF Live
<1>4. SameRules(Live(form), form) /\ Live(form).trigger = form.trigger /\ Live(form).code = form.code
  BY <1>3 DEF SameRules, FormFields
<1>5. /\ Live(form).starts = form.starts /\ Live(form).ends = form.ends
      /\ Live(form).audience = form.audience /\ Live(form).payment = form.payment
      /\ Live(form).plans = form.plans /\ Live(form).upfront = form.upfront
      /\ Live(form).scope = form.scope /\ Live(form).combination = form.combination
      /\ Live(form).minQuantity = form.minQuantity /\ Live(form).minValue = form.minValue
      /\ Live(form).limits = form.limits /\ Live(form).buy = form.buy
  BY <1>3 DEF FormFields
<1>6. OpenToAll(Live(form))
  BY <1>1, <1>5 DEF OpenToAll
<1> QED
  BY <1>2, <1>4, <1>6

LEMMA PreviewQualifies ==
  ASSUME NEW live, OpenToAll(live), live.status = "ACTIVE", NEW basket, IsBasket(basket),
         DOMAIN basket # {}, NEW buyer, NEW plan, NEW codes, today \in Days
  PROVE  Qualifies(live, basket, ContextFor(buyer, plan, codes), Unused)
<1> DEFINE context == ContextFor(buyer, plan, codes)
           lines   == QualifyingLines(live, basket)
<1>1. context.today = today /\ context.upfront = 0
  BY DEF ContextFor
<1> HIDE DEF context
<1>2. WithinDates(live, context.today)
  BY <1>1 DEF WithinDates, OpenToAll
<1>3. AudienceAllows(live, context.buyer)
  BY DEF AudienceAllows, OpenToAll
<1>4. PaymentAllows(live, context)
  BY <1>1 DEF PaymentAllows, OpenToAll
<1>5. WithinUsageLimits(live, Unused)
  BY DEF WithinUsageLimits, LeftUnder, Unused, OpenToAll
<1>6. DOMAIN lines # {}
  BY DEF QualifyingLines, Restrict, InScope, OpenToAll
<1>7. ValueOf(lines) \in Nat /\ TotalQuantity(lines) \in Nat
  BY Selected, ValueIsWhole DEF IsBasket
<1>8. MeetsCombination(live, lines)
  BY DEF MeetsCombination, OpenToAll
<1>9. TotalQuantity(lines) >= live.minQuantity /\ ValueOf(lines) >= live.minValue
  BY <1>7 DEF OpenToAll
<1> HIDE DEF lines
<1> QED
  BY <1>2, <1>3, <1>4, <1>5, <1>6, <1>8, <1>9 DEF Qualifies, lines, context

(* One promotion, tried on its own: what is given is what it is worth.     *)
LEMMA AloneInTheContest ==
  ASSUME NEW live, HasFigures(live), NEW basket, IsBasket(basket), NEW context,
         context.resolution = "HIGHEST_BENEFIT", Offered(live, context.codes),
         Qualifies(live, basket, context, Unused)
  PROVE  EvaluateBasket(<<[rules |-> live, usage |-> Unused]>>, basket, context).discount
           = Discount(live, basket)
<1> DEFINE promotions == <<[rules |-> live, usage |-> Unused]>>
           qualified  == Contestants(promotions, basket, context)
           worth      == [k \in qualified |-> Discount(promotions[k].rules, basket)]
           chosen     == Chosen(promotions, basket, context)
           gives      == [k \in chosen |-> Discount(promotions[k].rules, basket)]
           d          == Discount(live, basket)
           result     == EvaluateBasket(promotions, basket, context)
<1>1. DOMAIN promotions = {1} /\ promotions[1].rules = live /\ promotions[1].usage = Unused
  OBVIOUS
<1>2. d \in Nat /\ d <= ValueOf(basket) /\ ValueOf(basket) \in Nat
  BY DiscountWithinBasket, ValueIsWhole DEF IsBasket
<1> HIDE DEF promotions
<1>3. result.discount = Lesser(Total(gives), ValueOf(basket))
  BY DEF EvaluateBasket, Outcome
<1>4. chosen = First(promotions, Highest(worth))
  <2>1. chosen = Resolved(promotions, qualified, basket, "HIGHEST_BENEFIT")
    BY DEF Chosen
  <2> HIDE DEF qualified, chosen
  <2> QED
    BY <2>1 DEF Resolved
<1>5. qualified \subseteq {1} /\ (d > 0 => 1 \in qualified)
  BY <1>1 DEF Contestants
<1> HIDE DEF d, result
<1>6. chosen \subseteq {1} /\ (1 \in qualified => 1 \in chosen)
  <2>1. chosen \subseteq qualified
    <3> HIDE DEF qualified, chosen
    <3> QED
      BY <1>4 DEF First, Highest
  <2>2. ASSUME 1 \in qualified PROVE 1 \in chosen
    <3>1. qualified = {1}
      BY <1>5, <2>2
    <3> HIDE DEF qualified, chosen
    <3>2. DOMAIN worth = {1} /\ worth[1] \in Nat
      BY <1>1, <1>2, <3>1 DEF d
    <3>3. 1 \in Highest(worth) /\ Highest(worth) \subseteq {1}
      <4> HIDE DEF worth
      <4> QED
        BY <3>2 DEF Highest
    <3>4. Ranks(promotions, 1, 1)
      BY DEF Ranks
    <3> HIDE DEF worth
    <3> QED
      BY <1>4, <3>3, <3>4 DEF First
  <2> QED
    BY <1>5, <2>1, <2>2
<1>7. DOMAIN gives = chosen
  OBVIOUS
<1>8. \A k \in chosen : gives[k] = d
  BY <1>1, <1>6 DEF d
<1> HIDE DEF qualified, chosen, gives, worth
<1>9. IsFiniteSet(chosen) /\ \A k \in chosen : gives[k] \in Nat
  <2>1. IsFiniteSet({1})
    BY FS_Singleton, Zenon
  <2> QED
    BY <1>2, <1>6, <1>8, <2>1, FS_Subset
<1>10. Total(gives) = SumFunctionOnSet(gives, chosen)
  BY <1>7, <1>9, TotalOfWhole
<1>11. SumFunctionOnSet(gives, {}) = 0
  BY SumOfNone
<1>12. Total(gives) = d
  <2>1. CASE chosen = {}
    BY <1>2, <1>5, <1>6, <1>10, <1>11, <2>1
  <2>2. CASE chosen = {1}
    <3>1. SumFunctionOnSet(gives, {1}) = gives[1] + SumFunctionOnSet(gives, {1} \ {1})
      BY <1>9, <2>2, SumWithout DEF WholeOn
    <3>2. {1} \ {1} = {}
      OBVIOUS
    <3> QED
      BY <1>2, <1>8, <1>10, <1>11, <2>2, <3>1, <3>2
  <2> QED
    BY <1>6, <2>1, <2>2
<1> QED
  BY <1>2, <1>3, <1>12 DEF Lesser, d, result, promotions

LEMMA DaysAndPreviews ==
  ASSUME [Next]_vars, today \in Days
  PROVE  today' \in Days /\ (Preview \/ shown' \in {NoPreview, shown})
<1>1. CASE UpdateReads \/ StatusReads \/ CheckoutReads \/ CancelReads \/ ExpiryReads \/ EditReads
  <2>1. PICK q : Admit(q)
    BY <1>1 DEF UpdateReads, StatusReads, CheckoutReads, CancelReads, ExpiryReads, EditReads
  <2> QED
    BY <2>1 DEF Admit
<1>2. CASE CreatePromotion \/ UpdatePromotion \/ SetStatus
  BY <1>2 DEF CreatePromotion, UpdatePromotion, SetStatus
<1>3. CASE Checkout \/ ApprovePayment
  BY <1>3 DEF Checkout, ApprovePayment
<1>4. CASE CloseInvoice \/ EditInvoiceQuantity
  BY <1>4 DEF CloseInvoice, EditInvoiceQuantity
<1>5. CASE ChangePrice \/ NextDay \/ EndsWithoutEffect \/ DismissPreview \/ UNCHANGED vars
  BY <1>5 DEF ChangePrice, NextDay, EndsWithoutEffect, DismissPreview, vars
<1>6. CASE Preview
  BY <1>6 DEF Preview
<1> QED
  BY <1>1, <1>2, <1>3, <1>4, <1>5, <1>6 DEF Next

(* Where the reward is of the unit that earns it and the basket has that   *)
(* unit on one line, every complete set of the bought and the given earns  *)
(* its reward in a preview and nothing short of one does, up to the most   *)
(* rewards and the most money the company gives (buyXGetY), for all drafts *)
(* that are open to all and all baskets.                                   *)
THEOREM PreviewsAreAsAdvertised ==
  ASSUME DraftsPromise PROVE Spec => []RewardsAsAdvertised
<1> DEFINE Inv == today \in Days /\ RewardsAsAdvertised
<1>1. Init => Inv
  BY DEF Init, RewardsAsAdvertised, DraftsPromise
<1>2. Inv /\ [Next]_vars => Inv'
  <2> SUFFICES ASSUME Inv, [Next]_vars PROVE Inv'
    OBVIOUS
  <2>1. today' \in Days /\ (Preview \/ shown' \in {NoPreview, shown})
    BY DaysAndPreviews
  <2>2. CASE Preview
    <3>1. PICK form \in Drafts, basket \in Baskets, buyer \in Buyer, plan \in {Outright} \union Plan :
            Preview!(form, basket, buyer, plan)
      BY <2>2, Zenon DEF Preview
    <3> DEFINE context == ContextFor(buyer, plan, {form.code})
               result  == EvaluateBasket(<<[rules |-> Live(form), usage |-> Unused]>>, basket, context)
               lines   == OfUnit(basket, form.buy.unit)
    <3>2. /\ shown'.form = form /\ shown'.basket = basket /\ shown'.discount = result.discount
      BY <3>1 DEF Live
    <3>3. ASSUME form.benefit = "BUY_X_GET_Y", RewardIsQualifier(form),
                 NEW k \in DOMAIN lines, DOMAIN lines = {k}
          PROVE  LET rewards == CompleteSets(form, lines[k].quantity) * form.reward.quantity
                 IN  result.discount =
                       AtMost(AtMost(rewards, form.maxRewards) * PercentOff(form.rate, lines[k].price),
                              form.cap)
      <4>1. /\ HasFigures(form) /\ form.cap \in Nat /\ OpenToAll(form) /\ IsBasket(basket)
        BY <3>3 DEF DraftsPromise
      <4>2. form.buy.unit # AnyUnit
        BY <3>3 DEF RewardIsQualifier
      <4>3. /\ DOMAIN lines = {j \in DOMAIN basket : form.buy.unit \in {AnyUnit, basket[j].unit}}
            /\ lines[k] = basket[k]
        BY <3>3 DEF OfUnit, Restrict
      <4> HIDE DEF lines, result, context
      <4>4. IsEarningLine(form, basket, k)
        <5>1. k \in DOMAIN basket /\ \A j \in DOMAIN basket : basket[j].unit = form.buy.unit <=> j = k
          BY <3>3, <4>2, <4>3
        <5> QED
          BY <3>3, <4>1, <5>1 DEF IsEarningLine, InScope, OpenToAll
      <4>5. /\ Live(form).status = "ACTIVE" /\ SameRules(Live(form), form)
            /\ Live(form).trigger = form.trigger /\ Live(form).code = form.code
            /\ OpenToAll(Live(form))
        BY <3>3, LiveForm
      <4>6. HasFigures(Live(form))
        BY <4>1, <4>5 DEF HasFigures, SameRules
      <4>7. Qualifies(Live(form), basket, context, Unused)
        BY <3>3, <4>1, <4>3, <4>5, PreviewQualifies DEF context
      <4>8. context.resolution = "HIGHEST_BENEFIT" /\ Offered(Live(form), context.codes)
        BY <4>5 DEF context, ContextFor, Offered
      <4>9. result.discount = Discount(Live(form), basket)
        BY <4>1, <4>6, <4>7, <4>8, AloneInTheContest DEF result
      <4>10. Discount(Live(form), basket) = Discount(form, basket)
        BY <4>5, SameRulesSameWorth
      <4>11. AsMinor(form.cap) = form.cap
        BY <4>1 DEF AsMinor
      <4> QED
        BY <3>3, <4>1, <4>3, <4>4, <4>9, <4>10, <4>11, CompleteSetsEarn DEF AtMost, Capped
    <3> HIDE DEF result, context
    <3> QED
      BY <2>1, <3>2, <3>3 DEF RewardsAsAdvertised, CompleteSets
  <2>3. CASE shown' \in {NoPreview, shown}
    BY <2>1, <2>3 DEF RewardsAsAdvertised
  <2> QED
    BY <2>1, <2>2, <2>3
<1> QED
  BY <1>1, <1>2, PTL DEF Spec

=============================================================================
