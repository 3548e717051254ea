------------------------------- MODULE Pricing -------------------------------
(***************************************************************************)
(* What an order costs the consumer and brings the provider: tiers of      *)
(* quotations by quantity, discounted by the quantity of the whole package *)
(* group, as requested-service-package.entity.ts computes them from the    *)
(* snapshot of quotations it took, and the sums of customer-order.entity.ts*)
(* less the promotion.  Pure operators, no state.                          *)
(*                                                                         *)
(* A row has its quantity and unit prices; the sub-totals, totals and      *)
(* discounts of a row are products and differences of these, recomputed    *)
(* whenever one changes, and are operators here.  Names, descriptions,     *)
(* minutes and service types are copied along and price nothing.  A state  *)
(* is compared trimmed and in upper case: it is one model value.           *)
(***************************************************************************)
EXTENDS FiniteSetsExt, Sequences

CONSTANTS Package, State, AnyState, Group, NoGroup, NoQuotations

\* Quotations are sequences of tiers by minimal quantity, as the catalogue sorts
\* them; a consumer's tier holds in every state.
Tier(states) == [min : Nat, price : Nat, state : states]
NoTier       == [min |-> 0, price |-> 0, state |-> AnyState]

\* What the catalogue holds of a package, and what an order keeps of it.
Quotations == [consumer : Seq(Tier({AnyState})), provider : Seq(Tier(State))]
Offered    == [group : Group \cup {NoGroup}, consumer : Seq(Tier({AnyState})),
               provider : Seq(Tier(State))]
PackageRow ==
  [quantity : Nat, group : Group \cup {NoGroup}, groupQuantity : Nat,
   snapshot : Quotations \cup {NoQuotations}, state : State \cup {AnyState},
   unitPrice : Nat, price : Nat, providerUnitPrice : Nat, providerPrice : Nat,
   report : SUBSET Nat]

\* The last tier reached; when none is reached the first, of whatever state.
TierOf(quotations, quantity, states) ==
  LET reached == {i \in DOMAIN quotations :
                    quotations[i].state \in states /\ quantity >= quotations[i].min}
  IN  IF quotations = <<>> THEN NoTier
      ELSE quotations[IF reached = {} THEN 1 ELSE Max(reached)]

ConsumerTier(row, quantity) == TierOf(row.snapshot.consumer, quantity, {AnyState})
ProviderTier(row, quantity) == TierOf(row.snapshot.provider, quantity, {row.state})

\* Rows from before the snapshot keep the prices they have.
IsLegacy(row) == row.snapshot = NoQuotations

\* reflect...OriginalQuotations: the price of one; the provider's state becomes
\* that of the tier found.
WithOriginalPrice(row) ==
  IF IsLegacy(row) THEN row
  ELSE [row EXCEPT !.unitPrice         = ConsumerTier(row, 1).price,
                   !.providerUnitPrice = ProviderTier(row, 1).price,
                   !.state             = ProviderTier(row, 1).state]

\* reflect...DiscountedQuotations
WithDiscountFor(row, quantity) ==
  IF IsLegacy(row) THEN row
  ELSE [row EXCEPT !.price         = ConsumerTier(row, quantity).price,
                   !.providerPrice = ProviderTier(row, quantity).price]

\* reviseFromNewQuotations: the package's group, the snapshot's prices for the
\* row's own quantity.  The technical report stays: it has a note a unit already.
Revised(row, offer) ==
  WithDiscountFor(WithOriginalPrice([row EXCEPT !.group = offer.group]), row.quantity)

\* The constructor: the snapshot, then revised; no note of the report is complete.
NewRow(quantity, state, offer) ==
  Revised([quantity |-> quantity, group |-> offer.group, groupQuantity |-> 0,
           snapshot |-> [consumer |-> offer.consumer, provider |-> offer.provider],
           state |-> state, unitPrice |-> 0, price |-> 0,
           providerUnitPrice |-> 0, providerPrice |-> 0, report |-> {}], offer)

SubTotal(row)      == row.quantity * row.unitPrice
Total(row)         == row.quantity * row.price
ProviderTotal(row) == row.quantity * row.providerPrice

\* TechnicalReport: the notes, by unit, that have a model and a serial number.
Completed(row) == row.quantity >= 1 /\ row.report = 1..row.quantity

------------------------------------------------------------------------------
(* The rows of one order: a function on the packages asked for                *)

SumOf(values) == MapThenSumSet(LAMBDA p : values[p], DOMAIN values)

GroupQuantity(rows, group) ==
  SumOf([p \in {q \in DOMAIN rows : rows[q].group = group} |-> rows[p].quantity])

\* Wrong: the discount goes by the quantity of the package alone.
BundledAlone(rows) ==
  [p \in DOMAIN rows |-> WithDiscountFor(rows[p], rows[p].quantity)]

\* bundleByServicePackageGroupCodes: a row without a group keeps its own price.
Bundled(rows) ==
  [p \in DOMAIN rows |->
     LET n == GroupQuantity(rows, rows[p].group)
     IN  IF rows[p].group = NoGroup THEN [rows[p] EXCEPT !.groupQuantity = 0]
         ELSE WithDiscountFor([rows[p] EXCEPT !.groupQuantity = n], n)]

\* Wrong: one completed report stands for all.
OrderOfSome(rows, promotion) ==
  LET priced == Bundled(rows)
  IN  [subTotal      |-> SumOf([p \in DOMAIN rows |-> SubTotal(priced[p])]),
       total         |-> SumOf([p \in DOMAIN rows |-> Total(priced[p])]) - promotion,
       providerTotal |-> SumOf([p \in DOMAIN rows |-> ProviderTotal(priced[p])]),
       promotion     |-> promotion,
       completed     |-> \E p \in DOMAIN rows : Completed(rows[p])]

\* The constructor of CustomerOrder; promotion is the amount, 0 for none.
OrderOf(rows, promotion) ==
  LET priced == Bundled(rows)
  IN  [subTotal      |-> SumOf([p \in DOMAIN rows |-> SubTotal(priced[p])]),
       total         |-> SumOf([p \in DOMAIN rows |-> Total(priced[p])]) - promotion,
       providerTotal |-> SumOf([p \in DOMAIN rows |-> ProviderTotal(priced[p])]),
       promotion     |-> promotion,
       completed     |-> \A p \in DOMAIN rows : Completed(rows[p])]

------------------------------------------------------------------------------
(* Promotion.apply: no more than its limit, nor than the order costs; a limit *)
(* of 0 is none.                                                              *)

Discount == [type : {"numeric", "percentage"}, value : Nat, amountLimit : Nat]

Least(a, b) == IF a <= b THEN a ELSE b

DiscountedAmount(discount, total) ==
  LET amount == IF discount.type = "numeric" THEN discount.value
                ELSE (total * discount.value) \div 100
      limit  == IF discount.amountLimit = 0 THEN total ELSE discount.amountLimit
  IN  Least(Least(amount, limit), total)
==============================================================================
