----------------------------- MODULE MCOrdering -----------------------------
(***************************************************************************)
(* A small shop: two packages, of one group until one leaves it, and one   *)
(* of none, all cheaper in twos, the provider paid per state; one customer *)
(* in Selangor, one elsewhere, one from the old days.                      *)
(***************************************************************************)
EXTENDS Ordering

CONSTANTS a, b, d, c1, c2, c0, johor, selangor, group, Limit

At(min, price, state) == [min |-> min, price |-> price, state |-> state]

Offer(p, one, grouped) ==
  [group |-> IF p \in grouped THEN group ELSE NoGroup,
   consumer |-> <<At(1, one, AnyState), At(2, one - 2, AnyState)>>,
   provider |-> <<At(1, one - 3, johor), At(1, one - 1, selangor),
                  At(2, one - 4, johor), At(2, one - 3, selangor)>>]

MCStateOf == [c \in Customer |-> IF c = c2 THEN johor ELSE selangor]
\* Prices rise, and a package leaves the group.
MCCatalogues == {[p \in Package |-> Offer(p, 10, {a, b})], [p \in Package |-> Offer(p, 20, {a})]}
MCBaskets == [c \in Customer |->
  IF c = c1 THEN {a :> 1 @@ b :> 1 @@ d :> 0}
  ELSE {a :> 0 @@ b :> 0 @@ d :> 2}]
MCPromotion == [limit |-> Limit, discount |-> [type |-> "percentage", value |-> 50, amountLimit |-> 6]]
MCOldRows ==
  a :> [quantity |-> 1, group |-> group, groupQuantity |-> 1, snapshot |-> NoQuotations,
        state |-> selangor, unitPrice |-> 9, price |-> 9, providerUnitPrice |-> 7,
        providerPrice |-> 7, report |-> {1}]
==============================================================================
