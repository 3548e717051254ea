---------------------------- MODULE Ordering_proof ----------------------------
(***************************************************************************)
(* Theorems about Ordering, for any customers, packages, quotations and    *)
(* baskets.  Five inductive invariants, each over those before it:         *)
(*  - Typed: the types, of what calls have in hand too;                    *)
(*  - Counted: the customers whose order has the promotion, or is about to *)
(*    have it, are no more than its uses;                                  *)
(*  - Orderly: calls are apart, and what each has read is what is stored;  *)
(*  - Noted: the flag of an order is that of its reports, but for the call *)
(*    that is on its way to write it;                                      *)
(*  - Settled: an order costs what its rows cost together at the           *)
(*    quotations they keep, and the rows say so one by one unless a patch  *)
(*    has still to bundle them.                                            *)
(* The last three hold when technicians and patches wait for one another.  *)
(***************************************************************************)
EXTENDS Ordering, FiniteSetTheorems, WellFoundedInduction, TLAPS

------------------------------------------------------------------------------
(* Sums over finite sets, as MapThenSumSet forms them                         *)

\* The element of a set that CHOOSE gives first.
One(s) == CHOOSE x \in s : TRUE

\* f sums the values of g over the subsets of S.
Sums(f, g, S) ==
  \A s \in SUBSET S : f[s] = IF s = {} THEN 0 ELSE g[One(s)] + f[s \ {One(s)}]

\* The same for the subsets that have at most n elements.
SumsTo(f, g, S, n) ==
  \A s \in SUBSET S : Cardinality(s) <= n =>
    f[s] = IF s = {} THEN 0 ELSE g[One(s)] + f[s \ {One(s)}]

\* The recursive definition of such a function.
IsRecursive(f, g, S) ==
  f = [s \in SUBSET S |-> IF s = {} THEN 0 ELSE g[One(s)] + f[s \ {One(s)}]]

\* A set of subsets of a finite set has a smallest element.
LEMMA SmallestSubset ==
  ASSUME NEW S, IsFiniteSet(S), NEW T, T \subseteq SUBSET S, T # {}
  PROVE  \E m \in T : \A s \in T : s \subseteq m => s = m
<1>1. IsWellFoundedOn(StrictSubsetOrdering(S), SUBSET S)
  BY FS_StrictSubsetOrderingWellFounded, FS_FiniteSubsetsOfFinite
<1>2. PICK m \in T : \A s \in T : ~(<<s, m>> \in StrictSubsetOrdering(S))
  BY <1>1, WFMin
<1>3. ASSUME NEW s \in T, s \subseteq m, s # m PROVE FALSE
  <2>1. <<s, m>> \in (SUBSET S) \X (SUBSET S)
    OBVIOUS
  <2>2. <<s, m>> \in StrictSubsetOrdering(S)
    BY <2>1, <1>3 DEF StrictSubsetOrdering
  <2> QED BY <2>2, <1>2
<1> QED BY <1>3

\* A set of natural numbers has a smallest element.
LEMMA SmallestNumber ==
  ASSUME NEW T, T \subseteq Nat, T # {}
  PROVE  \E m \in T : \A n \in T : m <= n
<1>1. PICK m \in T : \A n \in T : ~(<<n, m>> \in OpToRel(<, Nat))
  BY NatLessThanWellFounded, WFMin
<1>2. ASSUME NEW n \in T, n < m PROVE FALSE
  <2>1. <<n, m>> \in Nat \X Nat /\ n < m
    BY <1>2
  <2>2. <<n, m>> \in OpToRel(<, Nat)
    BY <2>1 DEF OpToRel
  <2> QED BY <2>2, <1>1
<1> QED BY <1>2

\* Up to a size, there is a function that sums.
LEMMA SumsUpTo ==
  ASSUME NEW S, IsFiniteSet(S), NEW g, NEW n \in Nat
  PROVE  \E f : SumsTo(f, g, S, n)
<1> DEFINE Bad == {k \in Nat : ~ \E f : SumsTo(f, g, S, k)}
<1>1. SUFFICES ASSUME Bad # {} PROVE FALSE
  OBVIOUS
<1>2. PICK m \in Bad : \A k \in Bad : m <= k
  <2>1. Bad \subseteq Nat
    OBVIOUS
  <2> HIDE DEF Bad
  <2> QED BY <1>1, <2>1, SmallestNumber
<1>3. \A s \in SUBSET S : IsFiniteSet(s) /\ Cardinality(s) \in Nat
  BY FS_Subset, FS_CardinalityType
<1>4. m # 0
  <2> DEFINE f == [s \in SUBSET S |-> 0]
  <2>1. ASSUME NEW s \in SUBSET S, Cardinality(s) <= 0
        PROVE  f[s] = IF s = {} THEN 0 ELSE g[One(s)] + f[s \ {One(s)}]
    BY <1>3, <2>1, FS_EmptySet
  <2>2. SumsTo(f, g, S, 0)
    BY <2>1 DEF SumsTo
  <2> QED BY <2>2, <1>2
<1>5. m - 1 \in Nat /\ m - 1 \notin Bad
  <2>1. m \in Nat
    BY <1>2
  <2> HIDE DEF Bad
  <2> QED BY <1>2, <1>4, <2>1
<1>6. PICK f : SumsTo(f, g, S, m - 1)
  BY <1>5
<1> DEFINE h == [s \in SUBSET S |-> IF Cardinality(s) < m THEN f[s]
                                    ELSE IF s = {} THEN 0 ELSE g[One(s)] + f[s \ {One(s)}]]
<1>7. ASSUME NEW s \in SUBSET S, Cardinality(s) <= m
      PROVE  h[s] = IF s = {} THEN 0 ELSE g[One(s)] + h[s \ {One(s)}]
  <2>1. CASE s = {}
    <3>1. Cardinality(s) < m
      BY <2>1, <1>2, <1>4, FS_EmptySet
    <3>2. Cardinality(s) <= m - 1
      BY <3>1, <1>2, <1>3
    <3> QED BY <2>1, <3>1, <3>2, <1>6 DEF SumsTo
  <2>2. CASE s # {}
    <3>1. One(s) \in s
      BY <2>2 DEF One
    <3>2. /\ s \ {One(s)} \in SUBSET S
          /\ Cardinality(s \ {One(s)}) = Cardinality(s) - 1
      BY <3>1, <1>3, FS_RemoveElement
    <3>3. Cardinality(s \ {One(s)}) < m
      BY <3>2, <1>3, <1>7, <1>2
    <3>4. h[s \ {One(s)}] = f[s \ {One(s)}]
      BY <3>2, <3>3
    <3>5. CASE Cardinality(s) < m
      <4>1. Cardinality(s) <= m - 1
        BY <3>5, <1>2, <1>3
      <4> QED BY <4>1, <3>5, <1>6, <2>2, <3>4 DEF SumsTo
    <3>6. CASE ~(Cardinality(s) < m)
      BY <3>6, <2>2, <3>4
    <3> QED BY <3>5, <3>6
  <2> QED BY <2>1, <2>2
<1>8. SumsTo(h, g, S, m)
  BY <1>7 DEF SumsTo
<1> QED
  BY <1>8, <1>2

\* There is a function that sums over all subsets of a finite set.
LEMMA SumsExist ==
  ASSUME NEW S, IsFiniteSet(S), NEW g
  PROVE  \E f : IsRecursive(f, g, S)
<1>1. Cardinality(S) \in Nat
  BY FS_CardinalityType
<1>2. PICK f : SumsTo(f, g, S, Cardinality(S))
  BY <1>1, SumsUpTo
<1>3. \A s \in SUBSET S : Cardinality(s) <= Cardinality(S)
  BY FS_Subset
<1> DEFINE h == [s \in SUBSET S |-> f[s]]
<1>4. ASSUME NEW s \in SUBSET S
      PROVE  h[s] = IF s = {} THEN 0 ELSE g[One(s)] + h[s \ {One(s)}]
  <2>1. s \ {One(s)} \in SUBSET S
    OBVIOUS
  <2> QED BY <2>1, <1>2, <1>3 DEF SumsTo
<1>5. h = [s \in SUBSET S |-> IF s = {} THEN 0 ELSE g[One(s)] + h[s \ {One(s)}]]
  BY <1>4
<1>6. IsRecursive(h, g, S)
  BY <1>5, Zenon DEF IsRecursive
<1> QED
  BY <1>6

\* The sum of the values of g over S, as MapThenSumSet forms it.
Summed(g, S) == MapThenSumSet(LAMBDA i : g[i], S)

\* What MapThenSumSet returns for a function: the sum of its values.
LEMMA MapThenSumSums ==
  ASSUME NEW S, IsFiniteSet(S), NEW g
  PROVE  \E f : Sums(f, g, S) /\ Summed(g, S) = f[S]
<1> DEFINE c == CHOOSE f : IsRecursive(f, g, S)
<1>1. IsRecursive(c, g, S)
  BY SumsExist, Zenon
<1>2. Summed(g, S) = c[S]
  BY Zenon DEF Summed, MapThenSumSet, MapThenFoldSet, IsRecursive, One
<1> HIDE DEF c
<1>3. Sums(c, g, S)
  BY <1>1 DEF Sums, IsRecursive
<1> QED
  BY <1>2, <1>3

------------------------------------------------------------------------------
(* The types of calls                                                         *)

Report(row)     == 1..row.quantity
RowOK(row)      == row \in PackageRow /\ row.report \subseteq Report(row)
RowsOK(r)       == DOMAIN r \subseteq Package /\ \A p \in DOMAIN r : RowOK(r[p])
PlacingStage    == {"usePromotion", "saveNew"}
NotingStage     == {"saveNotes", "readRows"}
WorkStage       == Stage \ PlacingStage
RequestsOK(f)   == DOMAIN f \subseteq Customer /\ \A c \in DOMAIN f : f[c] \in OrderRow

\* What a call has in hand, by stage.
CallOK(x) ==
  \/ /\ x.stage \in PlacingStage
     /\ x = [stage |-> x.stage, customer |-> x.customer, rows |-> x.rows,
             promotion |-> x.promotion]
     /\ x.customer \in Customer /\ RowsOK(x.rows) /\ x.promotion \in Nat
  \/ /\ x.stage \in NotingStage
     /\ x = [stage |-> x.stage, customer |-> x.customer, package |-> x.package,
             request |-> x.request, row |-> x.row]
     /\ x.customer \in Customer /\ x.package \in Package
     /\ x.request \in OrderRow /\ RowOK(x.row)
  \/ /\ x.stage = "saveOrder"
     /\ x = [stage |-> x.stage, customer |-> x.customer, request |-> x.request]
     /\ x.customer \in Customer /\ x.request \in OrderRow
  \/ /\ x.stage \in {"reprice", "reviseRows", "reviseOrder"}
     /\ x = [stage |-> x.stage, customer |-> x.customer, requests |-> x.requests,
             left |-> x.left]
     /\ RequestsOK(x.requests)
     /\ x.stage = "reprice" => x.left \subseteq (DOMAIN x.requests) \X Package
     /\ x.stage # "reprice" => x.left \subseteq DOMAIN x.requests
     /\ x.stage = "reviseOrder" => x.customer \in (DOMAIN x.requests) \ x.left
  \/ /\ x.stage = "resetOrders"
     /\ x = [stage |-> x.stage, customer |-> x.customer, left |-> x.left,
             requests |-> x.requests, rows |-> x.rows]
     /\ RequestsOK(x.requests) /\ x.left \subseteq DOMAIN x.requests
     /\ DOMAIN x.rows = DOMAIN x.requests /\ \A c \in DOMAIN x.rows : RowsOK(x.rows[c])

Typed ==
  /\ catalogue \in Catalogues /\ usageCount \in Nat /\ crashes \in Nat
  /\ orders \in [Customer -> OrderRow \cup {NoOrder}]
  /\ rows = [c \in Customer |-> rows[c]] /\ \A c \in Customer : RowsOK(rows[c])
  /\ \A x \in calls : CallOK(x)

------------------------------------------------------------------------------
(* Promotions *)

Promotes(c) == orders[c] # NoOrder /\ orders[c].promotion > 0
Holds(x)    == x.stage = "saveNew" /\ x.promotion > 0

\* Those whose order has the promotion, or is about to.
Promised == {c \in Customer \ OldCustomer : Promotes(c) \/ \E x \in calls : Holds(x) /\ x.customer = c}

\* One call places the order of a customer, and its copies have its promotion.
Keeps(x) ==
  /\ x.stage \in PlacingStage =>
       /\ orders[x.customer] = NoOrder
       /\ \A y \in calls : y.stage \in PlacingStage /\ y.customer = x.customer => y = x
  /\ x.stage \in NotingStage \cup {"saveOrder"} =>
       /\ orders[x.customer] # NoOrder
       /\ x.request.promotion = orders[x.customer].promotion
  /\ x.stage \in PatchStage =>
       \A c \in DOMAIN x.requests :
         orders[c] # NoOrder /\ x.requests[c].promotion = orders[c].promotion

Counted ==
  /\ \A x \in calls : Keeps(x)
  /\ IsFiniteSet(Promised) /\ Cardinality(Promised) <= usageCount
  /\ usageCount <= Promotion.limit

------------------------------------------------------------------------------
(* One call at a time *)

\* At most one call works at an order that is placed.
Apart ==
  \A x, y \in calls :
    x.stage \in WorkStage /\ y.stage \in WorkStage =>
      x = y \/ (x.stage \notin PatchStage /\ y.stage \notin PatchStage /\ x.customer # y.customer)

\* What rows cost together, and whether all their notes are there.
Cost(r) == SumOf([p \in DOMAIN r |-> Total(Bundled(r)[p])])
Complete(r) == \A p \in DOMAIN r : Completed(r[p])

Revision(order, r) == WithOrder(order, OrderOf(r, order.promotion))

\* o is c's order as its rows price it.
Revises(o, c) ==
  /\ o.promotion = orders[c].promotion /\ o.total = Cost(rows[c]) - orders[c].promotion
  /\ o.completed = Complete(rows[c]) /\ o.fulfilled = orders[c].fulfilled

\* What it has read is what the tables hold.
Fresh(x) ==
  /\ x.stage \in NotingStage =>
       /\ x.package \in DOMAIN rows[x.customer] /\ x.request = orders[x.customer]
  /\ x.stage = "saveNotes" =>
       \E unit \in Report(rows[x.customer][x.package]) :
         x.row = [rows[x.customer][x.package] EXCEPT !.report = @ \cup {unit}]
  /\ x.stage = "saveOrder" => Revises(x.request, x.customer)
  /\ x.stage = "reprice" => \A c \in DOMAIN x.requests : x.requests[c] = orders[c]
  /\ x.stage = "reprice" => \A t \in x.left : t[2] \in DOMAIN rows[t[1]]
  /\ x.stage \in {"reviseRows", "reviseOrder", "resetOrders"} =>
       \A c \in x.left : x.requests[c] = orders[c]
  /\ x.stage = "reviseOrder" => Revises(x.requests[x.customer], x.customer)
  /\ x.stage = "resetOrders" => \A c \in x.left : x.rows[c] = rows[c]

Orderly == Apart /\ \A x \in calls : Keeps(x) /\ Fresh(x)

------------------------------------------------------------------------------
(* Prices *)

\* The catalogue sorts its quotations, no two from the same quantity.
Sorted ==
  \A offers \in Catalogues, p \in Package :
    /\ offers[p].consumer # <<>>
    /\ \A i, j \in DOMAIN offers[p].consumer :
         i < j => offers[p].consumer[i].min < offers[p].consumer[j].min

\* A row of the quotations of its day, and of a group the catalogue had; without a group,
\* its price is that of its quantity.
Priced(row, p) ==
  /\ row.snapshot \in Quotations /\ row.snapshot.consumer # <<>>
  /\ \A i, j \in DOMAIN row.snapshot.consumer :
       i < j => row.snapshot.consumer[i].min < row.snapshot.consumer[j].min
  /\ \E offers \in Catalogues : row.group = offers[p].group
  /\ row.group = NoGroup => row.price = ConsumerTier(row, row.quantity).price

AllPriced(r) == \A p \in DOMAIN r : Priced(r[p], p)

\* The prices row by row are those of the order.
AddsUp(r) == \A p \in DOMAIN r : r[p].price = Bundled(r)[p].price

\* The patch has still to bundle the rows of c.
Unbundled(x, c) ==
  \/ x.stage = "reprice" /\ c \in DOMAIN x.requests
  \/ x.stage \in {"reviseRows", "reviseOrder"} /\ c \in x.left

\* The patch has still to save the order of c.
Unrevised(x, c) == Unbundled(x, c) \/ (x.stage = "reviseOrder" /\ x.customer = c)

\* c owes what his rows cost, unless their groups change and his order is not revised;
\* when all is done, they say so one by one.
SettledAt(c) ==
  orders[c] # NoOrder /\ c \notin OldCustomer =>
    /\ AllPriced(rows[c])
    /\ KeepsGroups(c) \/ (crashes = 0 /\ \A x \in calls : ~Unrevised(x, c))
         => orders[c].total = Cost(rows[c]) - orders[c].promotion
    /\ KeepsGroups(c) => orders[c].total >= 0
    /\ crashes = 0 /\ (\A x \in calls : ~Unbundled(x, c)) => AddsUp(rows[c])

\* An order about to be placed has its prices, and a promotion it can afford; the patch
\* for Selangor is about that state only.
SelangorStage == PatchStage \ {"resetOrders"}
Quoted(x) ==
  /\ x.stage \in PlacingStage => AllPriced(x.rows) /\ x.promotion <= Cost(x.rows)
  /\ x.stage \in SelangorStage => \A c \in DOMAIN x.requests : StateOf[c] = Selangor

Settled == (\A c \in Customer : SettledAt(c)) /\ \A x \in calls : Quoted(x)

------------------------------------------------------------------------------
(* Reports *)

\* A technician is noting something at c.
Noting(x, c) == x.customer = c /\ x.stage \in NotingStage \cup {"saveOrder"}

\* c's order says what its reports do; but the flag waits for the call in progress.
NotedAt(c) ==
  orders[c] # NoOrder =>
    /\ \A p \in DOMAIN rows[c] : rows[c][p].quantity >= 1
    /\ orders[c].completed => Complete(rows[c])
    /\ orders[c].fulfilled => Complete(rows[c])
    /\ crashes = 0 /\ (\A x \in calls : ~Noting(x, c)) /\ Complete(rows[c])
         => orders[c].completed

\* What is asked for has no note yet.
Unnoted(x) ==
  x.stage \in PlacingStage =>
    \A p \in DOMAIN x.rows : x.rows[p].quantity >= 1 /\ x.rows[p].report = {}

Noted == (\A c \in Customer : NotedAt(c)) /\ \A x \in calls : Unnoted(x)

------------------------------------------------------------------------------
(* Prices *)

\* A sum of finitely many naturals is one.
LEMMA SumOfNaturals ==
  ASSUME NEW S, IsFiniteSet(S), NEW f \in [S -> Nat]
  PROVE  SumOf(f) \in Nat
<1>1. PICK e : Sums(e, f, S) /\ Summed(f, S) = e[S]
  BY MapThenSumSums
<1>2. SumOf(f) = e[S]
  <2>1. DOMAIN f = S
    OBVIOUS
  <2> QED BY <1>1, <2>1, Zenon DEF SumOf, Summed
<1>3. \A s \in SUBSET S : e[s] \in Nat
  <2> DEFINE Bad == {s \in SUBSET S : e[s] \notin Nat}
  <2> SUFFICES Bad = {}
    OBVIOUS
  <2> SUFFICES ASSUME Bad # {} PROVE FALSE
    OBVIOUS
  <2>1. Bad \subseteq SUBSET S
    OBVIOUS
  <2> HIDE DEF Bad
  <2>2. PICK s \in Bad : \A t \in Bad : t \subseteq s => t = s
    BY <2>1, SmallestSubset
  <2>3. s \in SUBSET S /\ e[s] \notin Nat
    BY DEF Bad
  <2>4. e[s] = IF s = {} THEN 0 ELSE f[One(s)] + e[s \ {One(s)}]
    BY <1>1, <2>3 DEF Sums
  <2>5. s # {}
    BY <2>3, <2>4
  <2>6. One(s) \in s
    BY <2>5 DEF One
  <2>7. s \ {One(s)} \notin Bad
    BY <2>2, <2>6
  <2>8. e[s \ {One(s)}] \in Nat
    BY <2>3, <2>7 DEF Bad
  <2>9. f[One(s)] \in Nat
    BY <2>3, <2>6
  <2> QED BY <2>3, <2>4, <2>5, <2>8, <2>9
<1> QED BY <1>2, <1>3

\* A set of positions that is not empty has a last one.
LEMMA LastOne ==
  ASSUME NEW n \in Nat, NEW S, S \subseteq 1..n, S # {}
  PROVE  Max(S) \in S /\ \A i \in S : i <= Max(S)
<1> DEFINE T == {n - i : i \in S}
<1>1. T \subseteq Nat /\ T # {}
  <2>1. \A i \in S : n - i \in Nat
    OBVIOUS
  <2> QED BY <2>1
<1>2. PICK m \in T : \A k \in T : m <= k
  BY <1>1, SmallestNumber
<1>3. PICK i \in S : m = n - i
  BY <1>2
<1>4. \A j \in S : i >= j
  <2>1. \A j \in S : m <= n - j
    BY <1>2
  <2> QED BY <1>3, <2>1
<1>5. \E x \in S : \A y \in S : x >= y
  BY <1>4
<1>6. Max(S) \in S /\ \A y \in S : Max(S) >= y
  BY <1>5 DEF Max
<1> QED BY <1>6

\* The tier found is one of the quotations, or none.
LEMMA TierType ==
  ASSUME NEW states, NEW quotations \in Seq(Tier(states)), NEW quantity, NEW of
  PROVE  \/ TierOf(quotations, quantity, of) = NoTier
         \/ TierOf(quotations, quantity, of) \in Tier(states)
<1> DEFINE reached == {i \in DOMAIN quotations :
                         quotations[i].state \in of /\ quantity >= quotations[i].min}
<1>1. CASE quotations = <<>>
  BY <1>1 DEF TierOf
<1>2. CASE quotations # <<>>
  <2>1. Len(quotations) \in Nat /\ DOMAIN quotations = 1..Len(quotations)
    OBVIOUS
  <2>2. 1 \in DOMAIN quotations
    BY <1>2
  <2>3. reached # {} => Max(reached) \in DOMAIN quotations
    BY <2>1, LastOne
  <2>4. TierOf(quotations, quantity, of)
          = quotations[IF reached = {} THEN 1 ELSE Max(reached)]
    BY <1>2, Zenon DEF TierOf
  <2> HIDE DEF reached
  <2>5. \A i \in DOMAIN quotations : quotations[i] \in Tier(states)
    OBVIOUS
  <2> QED BY <2>2, <2>3, <2>4, <2>5
<1> QED BY <1>1, <1>2

\* A row, column by column.
LEMMA RowColumns ==
  ASSUME NEW row \in PackageRow
  PROVE  /\ row = [quantity |-> row.quantity, group |-> row.group,
                   groupQuantity |-> row.groupQuantity, snapshot |-> row.snapshot,
                   state |-> row.state, unitPrice |-> row.unitPrice, price |-> row.price,
                   providerUnitPrice |-> row.providerUnitPrice,
                   providerPrice |-> row.providerPrice, report |-> row.report]
         /\ row.quantity \in Nat /\ row.group \in Group \cup {NoGroup}
         /\ row.groupQuantity \in Nat /\ row.snapshot \in Quotations \cup {NoQuotations}
         /\ row.state \in State \cup {AnyState} /\ row.unitPrice \in Nat /\ row.price \in Nat
         /\ row.providerUnitPrice \in Nat /\ row.providerPrice \in Nat
         /\ row.report \in SUBSET Nat
BY DEF PackageRow

\* The tiers of a row that has its quotations.
LEMMA TiersOfRow ==
  ASSUME NEW row \in PackageRow, ~IsLegacy(row), NEW quantity
  PROVE  /\ ConsumerTier(row, quantity).price \in Nat
         /\ ProviderTier(row, quantity).price \in Nat
         /\ ProviderTier(row, quantity).state \in State \cup {AnyState}
<1>1. row.snapshot \in Quotations
  BY RowColumns DEF IsLegacy
<1>2. /\ row.snapshot.consumer \in Seq(Tier({AnyState}))
      /\ row.snapshot.provider \in Seq(Tier(State))
  BY <1>1 DEF Quotations
<1>3. PICK q : q = row.snapshot.consumer
  OBVIOUS
<1>4. PICK r : r = row.snapshot.provider
  OBVIOUS
<1>5. q \in Seq(Tier({AnyState})) /\ r \in Seq(Tier(State))
  BY <1>2, <1>3, <1>4
<1>6. /\ ConsumerTier(row, quantity) = TierOf(q, quantity, {AnyState})
      /\ ProviderTier(row, quantity) = TierOf(r, quantity, {row.state})
  BY <1>3, <1>4 DEF ConsumerTier, ProviderTier
<1>7. /\ ConsumerTier(row, quantity) = NoTier \/ ConsumerTier(row, quantity) \in Tier({AnyState})
      /\ ProviderTier(row, quantity) = NoTier \/ ProviderTier(row, quantity) \in Tier(State)
  BY <1>5, <1>6, TierType
<1> QED BY <1>7 DEF NoTier, Tier

\* The price of one replaces unit prices and the provider's state.
LEMMA OriginalPriceType ==
  ASSUME NEW row \in PackageRow
  PROVE  LET w == WithOriginalPrice(row)
         IN  /\ w \in PackageRow
             /\ w.quantity = row.quantity /\ w.group = row.group
             /\ w.snapshot = row.snapshot /\ w.report = row.report /\ w.price = row.price
<1>1. CASE IsLegacy(row)
  BY <1>1 DEF WithOriginalPrice
<1>2. CASE ~IsLegacy(row)
  <2>1. PICK u, v, s : /\ u = ConsumerTier(row, 1).price /\ u \in Nat
                       /\ v = ProviderTier(row, 1).price /\ v \in Nat
                       /\ s = ProviderTier(row, 1).state /\ s \in State \cup {AnyState}
    BY <1>2, TiersOfRow
  <2>2. WithOriginalPrice(row)
          = [row EXCEPT !.unitPrice = u, !.providerUnitPrice = v, !.state = s]
    BY <1>2, <2>1 DEF WithOriginalPrice
  <2>3. WithOriginalPrice(row)
          = [quantity |-> row.quantity, group |-> row.group,
             groupQuantity |-> row.groupQuantity, snapshot |-> row.snapshot,
             state |-> s, unitPrice |-> u, price |-> row.price,
             providerUnitPrice |-> v, providerPrice |-> row.providerPrice,
             report |-> row.report]
    BY <2>2, RowColumns
  <2> QED BY <2>1, <2>3, RowColumns DEF PackageRow
<1> QED BY <1>1, <1>2

\* The price for a quantity replaces the prices.
LEMMA DiscountType ==
  ASSUME NEW row \in PackageRow, NEW quantity
  PROVE  LET w == WithDiscountFor(row, quantity)
         IN  /\ w \in PackageRow
             /\ w.quantity = row.quantity /\ w.group = row.group
             /\ w.snapshot = row.snapshot /\ w.report = row.report
             /\ w.price = IF IsLegacy(row) THEN row.price ELSE ConsumerTier(row, quantity).price
<1>1. CASE IsLegacy(row)
  BY <1>1 DEF WithDiscountFor
<1>2. CASE ~IsLegacy(row)
  <2>1. PICK u, v : /\ u = ConsumerTier(row, quantity).price /\ u \in Nat
                    /\ v = ProviderTier(row, quantity).price /\ v \in Nat
    BY <1>2, TiersOfRow
  <2>2. WithDiscountFor(row, quantity) = [row EXCEPT !.price = u, !.providerPrice = v]
    BY <1>2, <2>1 DEF WithDiscountFor
  <2>3. WithDiscountFor(row, quantity)
          = [quantity |-> row.quantity, group |-> row.group,
             groupQuantity |-> row.groupQuantity, snapshot |-> row.snapshot,
             state |-> row.state, unitPrice |-> row.unitPrice, price |-> u,
             providerUnitPrice |-> row.providerUnitPrice, providerPrice |-> v,
             report |-> row.report]
    BY <2>2, RowColumns
  <2> QED BY <1>2, <2>1, <2>3, RowColumns DEF PackageRow
<1> QED BY <1>1, <1>2

\* Revised from the catalogue: its group, and the snapshot's price for the quantity.
LEMMA RevisedType ==
  ASSUME NEW row \in PackageRow, NEW offer \in Offered
  PROVE  LET w == Revised(row, offer)
         IN  /\ w \in PackageRow
             /\ w.quantity = row.quantity /\ w.group = offer.group
             /\ w.snapshot = row.snapshot /\ w.report = row.report
             /\ w.price = IF IsLegacy(row) THEN row.price
                          ELSE ConsumerTier(row, row.quantity).price
<1>1. PICK g : g = offer.group /\ g \in Group \cup {NoGroup}
  BY DEF Offered
<1>2. PICK x : x = [row EXCEPT !.group = g]
  OBVIOUS
<1>3. x = [quantity |-> row.quantity, group |-> g,
           groupQuantity |-> row.groupQuantity, snapshot |-> row.snapshot,
           state |-> row.state, unitPrice |-> row.unitPrice, price |-> row.price,
           providerUnitPrice |-> row.providerUnitPrice,
           providerPrice |-> row.providerPrice, report |-> row.report]
  BY <1>2, RowColumns
<1>4. /\ x \in PackageRow /\ x.quantity = row.quantity /\ x.group = g
      /\ x.snapshot = row.snapshot /\ x.report = row.report /\ x.price = row.price
  BY <1>1, <1>3, RowColumns DEF PackageRow
<1>5. PICK y : y = WithOriginalPrice(x)
  OBVIOUS
<1>6. /\ y \in PackageRow /\ y.quantity = row.quantity /\ y.group = g
      /\ y.snapshot = row.snapshot /\ y.report = row.report /\ y.price = row.price
  BY <1>4, <1>5, OriginalPriceType
<1>7. PICK w : w = WithDiscountFor(y, row.quantity)
  OBVIOUS
<1>8. /\ w \in PackageRow /\ w.quantity = row.quantity /\ w.group = g
      /\ w.snapshot = row.snapshot /\ w.report = row.report
      /\ w.price = IF IsLegacy(y) THEN row.price ELSE ConsumerTier(y, row.quantity).price
  BY <1>6, <1>7, DiscountType
<1>9. /\ IsLegacy(y) = IsLegacy(row)
      /\ ConsumerTier(y, row.quantity) = ConsumerTier(row, row.quantity)
  BY <1>6 DEF IsLegacy, ConsumerTier
<1>10. Revised(row, offer) = w
  BY <1>1, <1>2, <1>5, <1>7 DEF Revised
<1> QED BY <1>1, <1>8, <1>9, <1>10

\* A new row has the catalogue's quotations and no note.
LEMMA NewRowType ==
  ASSUME NEW quantity \in Nat, NEW state \in State, NEW offer \in Offered
  PROVE  LET w == NewRow(quantity, state, offer)
         IN  /\ w \in PackageRow
             /\ w.quantity = quantity /\ w.group = offer.group
             /\ w.snapshot = [consumer |-> offer.consumer, provider |-> offer.provider]
             /\ w.snapshot \in Quotations /\ w.report = {}
             /\ w.price = ConsumerTier(w, quantity).price
<1>1. PICK s : s = [consumer |-> offer.consumer, provider |-> offer.provider]
  OBVIOUS
<1>2. s \in Quotations /\ s # NoQuotations
  BY <1>1, OrderingAssumption DEF Quotations, Offered
<1>3. PICK x : x = [quantity |-> quantity, group |-> offer.group, groupQuantity |-> 0,
           snapshot |-> s, state |-> state, unitPrice |-> 0, price |-> 0,
           providerUnitPrice |-> 0, providerPrice |-> 0, report |-> {}]
  OBVIOUS
<1>4. x \in PackageRow /\ x.quantity = quantity /\ x.snapshot = s /\ x.report = {}
  BY <1>2, <1>3 DEF PackageRow, Offered
<1>5. PICK w : w = Revised(x, offer)
  OBVIOUS
<1>6. NewRow(quantity, state, offer) = w
  BY <1>1, <1>3, <1>5 DEF NewRow
<1>7. ~IsLegacy(x)
  BY <1>2, <1>4 DEF IsLegacy
<1>8. /\ w \in PackageRow /\ w.quantity = quantity /\ w.group = offer.group
      /\ w.snapshot = s /\ w.report = {} /\ w.price = ConsumerTier(x, quantity).price
  BY <1>4, <1>5, <1>7, RevisedType
<1>9. ConsumerTier(x, quantity) = ConsumerTier(w, quantity)
  BY <1>4, <1>8 DEF ConsumerTier
<1> QED BY <1>1, <1>2, <1>6, <1>8, <1>9

------------------------------------------------------------------------------
(* Orders *)

\* The rows of a group count together, in any copy that has their quantities.
LEMMA GroupQuantityType ==
  ASSUME NEW r, RowsOK(r), NEW g
  PROVE  GroupQuantity(r, g) \in Nat
<1> DEFINE S == {q \in DOMAIN r : r[q].group = g}
           f == [p \in S |-> r[p].quantity]
<1>1. S \subseteq Package
  BY DEF RowsOK
<1>2. IsFiniteSet(S)
  BY <1>1, FS_Subset, OrderingAssumption
<1>3. \A p \in S : r[p].quantity \in Nat
  BY RowColumns DEF RowsOK, RowOK
<1>4. f \in [S -> Nat]
  BY <1>3
<1>5. GroupQuantity(r, g) = SumOf(f)
  BY DEF GroupQuantity
<1> HIDE DEF S, f
<1> QED BY <1>2, <1>4, <1>5, SumOfNaturals

\* Rows of the same groups and quantities are discounted alike.
LEMMA GroupQuantitySame ==
  ASSUME NEW r, NEW s, NEW g, DOMAIN r = DOMAIN s,
         \A p \in DOMAIN r : r[p].quantity = s[p].quantity /\ r[p].group = s[p].group
  PROVE  GroupQuantity(r, g) = GroupQuantity(s, g)
<1>1. {q \in DOMAIN r : r[q].group = g} = {q \in DOMAIN s : s[q].group = g}
  OBVIOUS
<1>2. PICK S : S = {q \in DOMAIN r : r[q].group = g} /\ S \subseteq DOMAIN r
  OBVIOUS
<1>3. [p \in S |-> r[p].quantity] = [p \in S |-> s[p].quantity]
  BY <1>2
<1> QED BY <1>1, <1>2, <1>3 DEF GroupQuantity

\* The price of a row when it is bundled.
BundledPrice(r, p) ==
  IF r[p].group = NoGroup \/ IsLegacy(r[p]) THEN r[p].price
  ELSE ConsumerTier(r[p], GroupQuantity(r, r[p].group)).price

\* Bundled rows are the same packages.
BundledRows(r, b) ==
  /\ RowsOK(b) /\ DOMAIN b = DOMAIN r
  /\ \A p \in DOMAIN r :
       /\ b[p].quantity = r[p].quantity /\ b[p].group = r[p].group
       /\ b[p].snapshot = r[p].snapshot /\ b[p].report = r[p].report
       /\ b[p].price = BundledPrice(r, p)

\* Bundling changes prices and the group's quantity, nothing else.
LEMMA BundledType ==
  ASSUME NEW r, RowsOK(r)
  PROVE  BundledRows(r, Bundled(r))
<1> DEFINE b == Bundled(r)
<1>1. ASSUME NEW p \in DOMAIN r
      PROVE  /\ b[p] \in PackageRow
             /\ b[p].quantity = r[p].quantity /\ b[p].group = r[p].group
             /\ b[p].snapshot = r[p].snapshot /\ b[p].report = r[p].report
             /\ b[p].price = BundledPrice(r, p)
  <2>1. PICK row : row = r[p] /\ row \in PackageRow
    BY DEF RowsOK, RowOK
  <2>2. PICK n \in Nat : n = GroupQuantity(r, row.group)
    BY GroupQuantityType
  <2>3. b[p] = IF row.group = NoGroup THEN [row EXCEPT !.groupQuantity = 0]
               ELSE WithDiscountFor([row EXCEPT !.groupQuantity = n], n)
    BY <2>1, <2>2 DEF Bundled
  <2>4. ASSUME NEW m \in Nat, NEW x, x = [row EXCEPT !.groupQuantity = m]
        PROVE  /\ x \in PackageRow /\ x.quantity = row.quantity /\ x.group = row.group
               /\ x.snapshot = row.snapshot /\ x.report = row.report /\ x.price = row.price
    <3>1. x = [quantity |-> row.quantity, group |-> row.group,
               groupQuantity |-> m, snapshot |-> row.snapshot,
               state |-> row.state, unitPrice |-> row.unitPrice, price |-> row.price,
               providerUnitPrice |-> row.providerUnitPrice,
               providerPrice |-> row.providerPrice, report |-> row.report]
      BY <2>1, <2>4, RowColumns
    <3> QED BY <2>1, <3>1, RowColumns DEF PackageRow
  <2> HIDE DEF b
  <2>5. CASE row.group = NoGroup
    <3>1. BundledPrice(r, p) = row.price
      BY <2>1, <2>5 DEF BundledPrice
    <3>2. PICK x : x = [row EXCEPT !.groupQuantity = 0]
      OBVIOUS
    <3>3. b[p] = x
      BY <2>3, <2>5, <3>2
    <3> QED BY <2>1, <2>4, <3>1, <3>2, <3>3
  <2>6. CASE row.group # NoGroup
    <3>1. PICK x : x = [row EXCEPT !.groupQuantity = n]
      OBVIOUS
    <3>2. /\ x \in PackageRow /\ x.quantity = row.quantity /\ x.group = row.group
          /\ x.snapshot = row.snapshot /\ x.report = row.report /\ x.price = row.price
      BY <2>4, <3>1
    <3>3. PICK w : w = WithDiscountFor(x, n)
      OBVIOUS
    <3>4. /\ w \in PackageRow /\ w.quantity = x.quantity /\ w.group = x.group
          /\ w.snapshot = x.snapshot /\ w.report = x.report
          /\ w.price = IF IsLegacy(x) THEN x.price ELSE ConsumerTier(x, n).price
      BY <3>2, <3>3, DiscountType
    <3>5. IsLegacy(x) = IsLegacy(row) /\ ConsumerTier(x, n) = ConsumerTier(row, n)
      BY <3>2 DEF IsLegacy, ConsumerTier
    <3>6. w.price = BundledPrice(r, p)
      BY <2>1, <2>2, <2>6, <3>2, <3>4, <3>5 DEF BundledPrice
    <3>7. b[p] = w
      BY <2>3, <2>6, <3>1, <3>3
    <3> QED BY <2>1, <3>2, <3>4, <3>6, <3>7
  <2> QED BY <2>5, <2>6
<1>2. DOMAIN b = DOMAIN r
  BY DEF Bundled
<1> HIDE DEF b
<1>3. RowsOK(b)
  BY <1>1, <1>2 DEF RowsOK, RowOK, Report
<1> QED BY <1>1, <1>2, <1>3 DEF BundledRows, b

\* The same packages, quantities, groups and quotations; and the same price where it
\* does not follow from these.
SameGoods(r, s) ==
  /\ DOMAIN s = DOMAIN r
  /\ \A p \in DOMAIN r :
       /\ s[p].quantity = r[p].quantity /\ s[p].group = r[p].group
       /\ s[p].snapshot = r[p].snapshot
       /\ r[p].group = NoGroup \/ IsLegacy(r[p]) => s[p].price = r[p].price

\* They cost the same.
LEMMA SameGoodsCost ==
  ASSUME NEW r, NEW s, RowsOK(r), RowsOK(s), SameGoods(r, s)
  PROVE  /\ \A p \in DOMAIN r : Bundled(s)[p].price = Bundled(r)[p].price
         /\ Cost(s) = Cost(r)
<1>1. PICK a, b : a = Bundled(r) /\ b = Bundled(s)
  OBVIOUS
<1>2. BundledRows(r, a) /\ BundledRows(s, b)
  BY <1>1, BundledType
<1>3. \A g : GroupQuantity(s, g) = GroupQuantity(r, g)
  BY GroupQuantitySame DEF SameGoods
<1>4. ASSUME NEW p \in DOMAIN r PROVE BundledPrice(s, p) = BundledPrice(r, p)
  <2>1. IsLegacy(s[p]) = IsLegacy(r[p])
    BY DEF SameGoods, IsLegacy
  <2>2. \A n : ConsumerTier(s[p], n) = ConsumerTier(r[p], n)
    BY DEF SameGoods, ConsumerTier
  <2> QED BY <1>3, <2>1, <2>2 DEF BundledPrice, SameGoods
<1>5. \A p \in DOMAIN r : b[p].price = a[p].price /\ b[p].quantity = a[p].quantity
  BY <1>2, <1>4 DEF BundledRows, SameGoods
<1>6. DOMAIN s = DOMAIN r
  BY DEF SameGoods
<1>7. [p \in DOMAIN s |-> Total(b[p])] = [p \in DOMAIN r |-> Total(a[p])]
  BY <1>5, <1>6 DEF Total
<1>8. Cost(s) = Cost(r)
  BY <1>1, <1>7 DEF Cost
<1> QED BY <1>1, <1>5, <1>8

\* Bundling twice changes nothing more.
LEMMA BundledAddsUp ==
  ASSUME NEW r, RowsOK(r)
  PROVE  /\ RowsOK(Bundled(r)) /\ AddsUp(Bundled(r)) /\ SameGoods(r, Bundled(r))
         /\ Cost(Bundled(r)) = Cost(r)
<1>1. PICK b : b = Bundled(r)
  OBVIOUS
<1>2. BundledRows(r, b)
  BY <1>1, BundledType
<1>3. RowsOK(b) /\ SameGoods(r, b)
  BY <1>2 DEF BundledRows, SameGoods, BundledPrice
<1>4. /\ \A p \in DOMAIN r : Bundled(b)[p].price = Bundled(r)[p].price
      /\ Cost(b) = Cost(r)
  BY <1>3, SameGoodsCost
<1>5. AddsUp(b)
  BY <1>1, <1>2, <1>4 DEF AddsUp, BundledRows
<1> QED BY <1>1, <1>3, <1>4, <1>5

\* A sum over the rows of an order is a natural.
LEMMA SumOverRows ==
  ASSUME NEW r, RowsOK(r), NEW f, f \in [DOMAIN r -> Nat]
  PROVE  SumOf(f) \in Nat
<1>1. IsFiniteSet(DOMAIN r)
  BY FS_Subset, OrderingAssumption DEF RowsOK
<1> QED BY <1>1, SumOfNaturals

\* What an order costs less its promotion, and whether it is reported.
LEMMA OrderOfType ==
  ASSUME NEW r, RowsOK(r), NEW promotion
  PROVE  /\ OrderOf(r, promotion).subTotal \in Nat
         /\ OrderOf(r, promotion).providerTotal \in Nat
         /\ OrderOf(r, promotion).promotion = promotion
         /\ OrderOf(r, promotion).completed = Complete(r)
         /\ OrderOf(r, promotion).total = Cost(r) - promotion
         /\ Cost(r) \in Nat
<1>1. PICK b : b = Bundled(r)
  OBVIOUS
<1>2. BundledRows(r, b)
  BY <1>1, BundledType
<1>3. \A p \in DOMAIN r : SubTotal(b[p]) \in Nat /\ Total(b[p]) \in Nat /\ ProviderTotal(b[p]) \in Nat
  <2> TAKE p \in DOMAIN r
  <2>1. b[p] \in PackageRow
    BY <1>2 DEF BundledRows, RowsOK, RowOK
  <2>2. PICK q \in Nat, u \in Nat, v \in Nat, w \in Nat :
          b[p].quantity = q /\ b[p].unitPrice = u /\ b[p].price = v /\ b[p].providerPrice = w
    BY <2>1, RowColumns
  <2>3. q * u \in Nat /\ q * v \in Nat /\ q * w \in Nat
    OBVIOUS
  <2> QED BY <2>2, <2>3 DEF SubTotal, Total, ProviderTotal
<1>4. /\ SumOf([p \in DOMAIN r |-> SubTotal(b[p])]) \in Nat
      /\ SumOf([p \in DOMAIN r |-> Total(b[p])]) \in Nat
      /\ SumOf([p \in DOMAIN r |-> ProviderTotal(b[p])]) \in Nat
  <2>1. PICK f, g, h : /\ f = [p \in DOMAIN r |-> SubTotal(b[p])]
                       /\ g = [p \in DOMAIN r |-> Total(b[p])]
                       /\ h = [p \in DOMAIN r |-> ProviderTotal(b[p])]
    OBVIOUS
  <2>2. f \in [DOMAIN r -> Nat] /\ g \in [DOMAIN r -> Nat] /\ h \in [DOMAIN r -> Nat]
    BY <1>3, <2>1
  <2>3. SumOf(f) \in Nat /\ SumOf(g) \in Nat /\ SumOf(h) \in Nat
    BY <2>2, SumOverRows
  <2> QED BY <2>1, <2>3
<1>5. PICK x, y, z : /\ x = SumOf([p \in DOMAIN r |-> SubTotal(b[p])])
                     /\ y = SumOf([p \in DOMAIN r |-> Total(b[p])])
                     /\ z = SumOf([p \in DOMAIN r |-> ProviderTotal(b[p])])
  OBVIOUS
<1>6. OrderOf(r, promotion) = [subTotal |-> x, total |-> y - promotion, providerTotal |-> z,
                               promotion |-> promotion, completed |-> Complete(r)]
  BY <1>1, <1>5 DEF OrderOf, Complete
<1>7. Cost(r) = y
  BY <1>1, <1>5 DEF Cost
<1> QED BY <1>4, <1>5, <1>6, <1>7

\* The columns of an order that is written into a request.
LEMMA WithOrderColumns ==
  ASSUME NEW r, RowsOK(r), NEW promotion \in Nat, NEW request, request.fulfilled \in BOOLEAN
  PROVE  LET o == WithOrder(request, OrderOf(r, promotion))
         IN  /\ o \in OrderRow /\ o # NoOrder
             /\ o.total = Cost(r) - promotion /\ o.promotion = promotion
             /\ o.completed = Complete(r) /\ o.fulfilled = request.fulfilled
<1>1. PICK o : o = OrderOf(r, promotion)
  OBVIOUS
<1>2. /\ o.subTotal \in Nat /\ o.providerTotal \in Nat /\ o.promotion = promotion
      /\ o.completed = Complete(r) /\ o.total = Cost(r) - promotion /\ Cost(r) \in Nat
  BY <1>1, OrderOfType
<1>3. Complete(r) \in BOOLEAN
  BY DEF Complete
<1>4. PICK w : w = [subTotal |-> o.subTotal, total |-> o.total, providerTotal |-> o.providerTotal,
                    promotion |-> o.promotion, completed |-> o.completed,
                    fulfilled |-> request.fulfilled]
  OBVIOUS
<1>5. /\ w \in OrderRow /\ w.total = o.total /\ w.promotion = promotion
      /\ w.completed = Complete(r) /\ w.fulfilled = request.fulfilled
  BY <1>2, <1>3, <1>4 DEF OrderRow, Amount
<1>6. WithOrder(request, OrderOf(r, promotion)) = w
  BY <1>1, <1>4 DEF WithOrder
<1>7. w # NoOrder
  BY <1>5, OrderingAssumption
<1> QED BY <1>2, <1>5, <1>6, <1>7

\* An order read is one written: revised, it keeps its promotion and its progress.
LEMMA RevisionColumns ==
  ASSUME NEW r, RowsOK(r), NEW order \in OrderRow
  PROVE  LET o == Revision(order, r)
         IN  /\ o \in OrderRow /\ o # NoOrder
             /\ o.total = Cost(r) - order.promotion /\ o.promotion = order.promotion
             /\ o.completed = Complete(r) /\ o.fulfilled = order.fulfilled
<1>1. order.promotion \in Nat /\ order.fulfilled \in BOOLEAN
  BY DEF OrderRow
<1>2. PICK m \in Nat : m = order.promotion
  BY <1>1
<1>3. Revision(order, r) = WithOrder(order, OrderOf(r, m))
  BY <1>2 DEF Revision
<1> QED BY <1>1, <1>2, <1>3, WithOrderColumns

\* What a promotion takes off is no more than the order costs.
LEMMA DiscountOfOrder ==
  ASSUME NEW total \in Nat
  PROVE  /\ DiscountedAmount(Promotion.discount, total) \in Nat
         /\ DiscountedAmount(Promotion.discount, total) <= total
<1>1. PICK d : d = Promotion.discount /\ d \in Discount
  BY OrderingAssumption DEF PromotionRow
<1>2. PICK v \in Nat, l \in Nat : d.value = v /\ d.amountLimit = l
  BY <1>1 DEF Discount
<1>3. PICK m \in Nat : m = total * v
  OBVIOUS
<1>4. m \div 100 \in Nat
  OBVIOUS
<1>5. PICK a \in Nat : a = IF d.type = "numeric" THEN d.value ELSE (total * d.value) \div 100
  BY <1>2, <1>3, <1>4
<1>6. PICK b \in Nat : b = IF d.amountLimit = 0 THEN total ELSE d.amountLimit
  BY <1>2
<1>7. DiscountedAmount(d, total) = Least(Least(a, b), total)
  BY <1>5, <1>6 DEF DiscountedAmount
<1>8. Least(Least(a, b), total) \in Nat /\ Least(Least(a, b), total) <= total
  BY DEF Least
<1> QED BY <1>1, <1>7, <1>8

\* The price found without the program's search is the one it finds.
LEMMA PriceIsOfTheTier ==
  ASSUME NEW q \in Seq(Tier({AnyState})), q # <<>>, NEW quantity \in Nat,
         \A i, j \in DOMAIN q : i < j => q[i].min < q[j].min
  PROVE  PriceFor(q, quantity) = TierOf(q, quantity, {AnyState}).price
<1> DEFINE reached == {i \in DOMAIN q : q[i].state \in {AnyState} /\ quantity >= q[i].min}
           tiers   == {t \in {q[i] : i \in DOMAIN q} : t.min <= quantity}
<1>1. Len(q) \in Nat /\ DOMAIN q = 1..Len(q)
  OBVIOUS
<1>2. \A i \in DOMAIN q : q[i] \in Tier({AnyState})
  OBVIOUS
<1>3. \A i \in DOMAIN q : q[i].state = AnyState /\ q[i].min \in Nat
  BY <1>2 DEF Tier
<1>4. tiers = {q[i] : i \in reached}
  BY <1>3
<1>5. TierOf(q, quantity, {AnyState}) = q[IF reached = {} THEN 1 ELSE Max(reached)]
  BY Zenon DEF TierOf
<1>6. PriceFor(q, quantity) =
        IF tiers = {} THEN q[1].price
        ELSE (CHOOSE t \in tiers : \A u \in tiers : u.min <= t.min).price
  BY Zenon DEF PriceFor
<1>7. reached \subseteq DOMAIN q
  OBVIOUS
<1> HIDE DEF reached, tiers
<1>8. CASE reached = {}
  <2>1. tiers = {}
    BY <1>4, <1>8
  <2> QED BY <1>5, <1>6, <1>8, <2>1
<1>9. CASE reached # {}
  <2>1. PICK m : m = Max(reached) /\ m \in reached /\ \A i \in reached : i <= m
    BY <1>1, <1>7, <1>9, LastOne
  <2>2. m \in DOMAIN q /\ q[m] \in tiers
    BY <1>4, <1>7, <2>1
  <2>3. \A u \in tiers : u.min <= q[m].min
    <3> SUFFICES ASSUME NEW i \in reached PROVE q[i].min <= q[m].min
      BY <1>4
    <3>1. i \in DOMAIN q /\ i <= m /\ i \in Nat /\ m \in Nat
      BY <1>1, <1>7, <2>1
    <3>2. i = m \/ i < m
      BY <3>1
    <3> QED BY <1>3, <2>2, <3>1, <3>2
  <2>4. PICK t : t = CHOOSE x \in tiers : \A u \in tiers : u.min <= x.min
    OBVIOUS
  <2>5. t \in tiers /\ \A u \in tiers : u.min <= t.min
    BY <2>2, <2>3, <2>4
  <2>6. PICK i \in reached : t = q[i]
    BY <1>4, <2>5
  <2>7. i \in DOMAIN q /\ i <= m /\ i \in Nat /\ m \in Nat
    BY <1>1, <1>7, <2>1, <2>6
  <2>8. q[m].min <= q[i].min
    BY <2>2, <2>5, <2>6
  <2>9. i = m
    <3>1. i < m => q[i].min < q[m].min
      BY <2>2, <2>7
    <3>2. q[i].min \in Nat /\ q[m].min \in Nat
      BY <1>3, <2>2, <2>7
    <3> QED BY <2>7, <2>8, <3>1, <3>2
  <2>10. tiers # {}
    BY <2>2
  <2> QED BY <1>5, <1>6, <1>9, <2>1, <2>4, <2>6, <2>9, <2>10
<1> QED BY <1>8, <1>9

\* The sum of one.
LEMMA SumOfOne ==
  ASSUME NEW x, NEW f \in [{x} -> Nat]
  PROVE  SumOf(f) = f[x]
<1>1. IsFiniteSet({x})
  BY FS_Singleton
<1>2. PICK e : Sums(e, f, {x}) /\ Summed(f, {x}) = e[{x}]
  BY <1>1, MapThenSumSums
<1>3. SumOf(f) = e[{x}]
  <2>1. DOMAIN f = {x}
    OBVIOUS
  <2> QED BY <1>2, <2>1, Zenon DEF SumOf, Summed
<1>4. One({x}) = x
  BY DEF One
<1>5. e[{x}] = f[x] + e[{}] /\ e[{}] = 0
  <2>1. {x} \in SUBSET {x} /\ {} \in SUBSET {x} /\ {x} \ {x} = {} /\ {x} # {}
    OBVIOUS
  <2> QED BY <1>2, <1>4, <2>1 DEF Sums
<1> QED BY <1>3, <1>5

\* What the program sums is what the packages cost.
LEMMA CostIsBought ==
  ASSUME NEW c, RowsOK(rows[c]), AllPriced(rows[c])
  PROVE  SumOf([p \in DOMAIN rows[c] |-> Bought(c, p)]) = Cost(rows[c])
<1>1. PICK r, b : r = rows[c] /\ b = Bundled(r)
  OBVIOUS
<1>2. RowsOK(r) /\ AllPriced(r) /\ BundledRows(r, b)
  BY <1>1, BundledType
<1>3. ASSUME NEW p \in DOMAIN r PROVE Bought(c, p) = Total(b[p])
  <2>1. PICK row : row = r[p] /\ row \in PackageRow
    BY <1>2 DEF RowsOK, RowOK
  <2>2. PICK q : q = row.snapshot.consumer
    OBVIOUS
  <2>3. /\ row.snapshot \in Quotations /\ q # <<>>
        /\ \A i, j \in DOMAIN q : i < j => q[i].min < q[j].min
        /\ row.group = NoGroup => row.price = ConsumerTier(row, row.quantity).price
    BY <1>2, <2>1, <2>2 DEF AllPriced, Priced
  <2>4. q \in Seq(Tier({AnyState}))
    BY <2>2, <2>3 DEF Quotations
  <2>5. ~IsLegacy(row) /\ row.snapshot # NoQuotations
    BY <2>3, OrderingAssumption DEF IsLegacy
  <2>6. row.quantity \in Nat
    BY <2>1, RowColumns
  <2>7. \A n \in Nat : PriceFor(q, n) = ConsumerTier(row, n).price
    BY <2>2, <2>3, <2>4, PriceIsOfTheTier DEF ConsumerTier
  <2>8. PICK kind : kind = {x \in DOMAIN rows[c] : x = p \/ (row.group # NoGroup /\ rows[c][x].group = row.group)}
    OBVIOUS
  <2>9. PICK n : n = SumOf([x \in kind |-> r[x].quantity])
    OBVIOUS
  <2>10. Bought(c, p) = row.quantity * PriceFor(q, n)
    BY <1>1, <2>1, <2>2, <2>5, <2>8, <2>9 DEF Bought
  <2>11. CASE row.group # NoGroup
    <3>1. kind = {x \in DOMAIN r : r[x].group = row.group}
      BY <1>1, <2>1, <2>8, <2>11
    <3>2. n = GroupQuantity(r, row.group)
      BY <2>9, <3>1 DEF GroupQuantity
    <3>3. n \in Nat
      BY <1>2, <3>2, GroupQuantityType
    <3>4. BundledPrice(r, p) = ConsumerTier(row, n).price
      BY <2>1, <2>5, <2>11, <3>2 DEF BundledPrice
    <3> QED BY <1>2, <2>1, <2>7, <2>10, <3>3, <3>4 DEF Total, BundledRows
  <2>12. CASE row.group = NoGroup
    <3>1. kind = {p}
      BY <1>1, <2>8, <2>12
    <3>2. PICK f : f = [x \in kind |-> r[x].quantity]
      OBVIOUS
    <3>3. f = [x \in {p} |-> row.quantity]
      BY <2>1, <3>1, <3>2
    <3>4. f \in [{p} -> Nat] /\ f[p] = row.quantity /\ DOMAIN f = {p}
      BY <2>6, <3>3
    <3>5. SumOf(f) = row.quantity
      BY <2>6, <3>4, SumOfOne
    <3>6. BundledPrice(r, p) = row.price
      BY <2>1, <2>12 DEF BundledPrice
    <3>7. row.price = ConsumerTier(row, n).price /\ n \in Nat
      BY <2>3, <2>6, <2>9, <2>12, <3>2, <3>5
    <3> QED BY <1>2, <2>1, <2>7, <2>10, <3>6, <3>7 DEF Total, BundledRows
  <2> QED BY <2>11, <2>12
<1>4. [p \in DOMAIN r |-> Bought(c, p)] = [p \in DOMAIN r |-> Total(b[p])]
  BY <1>3
<1> QED BY <1>1, <1>4 DEF Cost

------------------------------------------------------------------------------
(* What calls have in hand after each step *)

\* An order as it is placed.
Placed(x, c) ==
  /\ x.stage \in PlacingStage /\ CallOK(x) /\ x.customer = c
  /\ x.stage = "saveNew" => x.promotion = 0
  /\ x.promotion <= Cost(x.rows)
  /\ \A p \in DOMAIN x.rows : x.rows[p].quantity >= 1 /\ x.rows[p].report = {}
  /\ Sorted => AllPriced(x.rows)

\* An order is asked for: nothing is written yet.
LEMMA PlaceEffect ==
  ASSUME Typed, NEW c \in Customer, NEW withPromotion \in BOOLEAN, NEW basket \in Baskets[c],
         Place(c, basket, withPromotion)
  PROVE  \E x : Placed(x, c) /\ calls' = calls \cup {x}
<1>1. basket \in [Package -> Nat]
  BY OrderingAssumption
<1>2. PICK q : q = Requested(c, basket)
  OBVIOUS
<1>3. DOMAIN q = {p \in Package : basket[p] > 0}
  BY <1>2 DEF Requested
<1>4. ASSUME NEW p \in DOMAIN q
      PROVE  /\ q[p] \in PackageRow /\ q[p].quantity >= 1 /\ q[p].report = {}
             /\ q[p].group = catalogue[p].group
             /\ q[p].snapshot \in Quotations
             /\ q[p].snapshot.consumer = catalogue[p].consumer
             /\ q[p].price = ConsumerTier(q[p], q[p].quantity).price
  <2>1. p \in Package /\ basket[p] \in Nat /\ basket[p] >= 1
    BY <1>1, <1>3
  <2>2. catalogue[p] \in Offered
    BY <2>1, OrderingAssumption DEF Typed
  <2>3. StateOf[c] \in State
    BY OrderingAssumption
  <2>4. PICK n \in Nat, s \in State, o \in Offered :
          n = basket[p] /\ s = StateOf[c] /\ o = catalogue[p]
    BY <2>1, <2>2, <2>3
  <2>5. q[p] = NewRow(n, s, o)
    BY <1>2, <1>3, <2>4 DEF Requested
  <2>6. PICK w : w = NewRow(n, s, o)
    OBVIOUS
  <2>7. /\ w \in PackageRow /\ w.quantity = n /\ w.group = o.group
        /\ w.snapshot = [consumer |-> o.consumer, provider |-> o.provider]
        /\ w.snapshot \in Quotations /\ w.report = {}
        /\ w.price = ConsumerTier(w, n).price
    BY <2>6, NewRowType
  <2>8. w.snapshot.consumer = o.consumer
    BY <2>7
  <2> QED BY <2>1, <2>4, <2>5, <2>6, <2>7, <2>8
<1>5. RowsOK(q)
  BY <1>3, <1>4 DEF RowsOK, RowOK
<1>6. PICK r : r = Bundled(q)
  OBVIOUS
<1>7. RowsOK(r) /\ BundledRows(q, r) /\ Cost(r) = Cost(q)
  BY <1>5, <1>6, BundledAddsUp, BundledType
<1>8. PICK total : total = OrderOf(r, 0).total
  OBVIOUS
<1>9. total = Cost(r) /\ Cost(r) \in Nat
  BY <1>7, <1>8, OrderOfType
<1>10. PICK promotion : promotion = IF withPromotion
                          THEN DiscountedAmount(Promotion.discount, total) ELSE 0
  OBVIOUS
<1>11. promotion \in Nat /\ promotion <= Cost(r) /\ (~withPromotion => promotion = 0)
  BY <1>9, <1>10, DiscountOfOrder
<1>12. PICK stage : stage = IF withPromotion THEN "usePromotion" ELSE "saveNew"
  OBVIOUS
<1>13. PICK x : x = [stage |-> stage, customer |-> c, rows |-> r, promotion |-> promotion]
  OBVIOUS
<1>14. calls' = calls \cup {x}
  BY <1>2, <1>6, <1>8, <1>10, <1>12, <1>13, Zenon DEF Place, Start
<1>15. /\ x.stage = stage /\ x.customer = c /\ x.rows = r /\ x.promotion = promotion
       /\ stage \in PlacingStage
  BY <1>12, <1>13 DEF PlacingStage
<1>16. CallOK(x)
  BY <1>7, <1>11, <1>13, <1>15 DEF CallOK
<1>17. \A p \in DOMAIN r : r[p].quantity >= 1 /\ r[p].report = {}
  BY <1>4, <1>7 DEF BundledRows
<1>18. ASSUME Sorted PROVE AllPriced(r)
  <2> SUFFICES ASSUME NEW p \in DOMAIN r PROVE Priced(r[p], p)
    BY DEF AllPriced
  <2>1. /\ p \in DOMAIN q /\ p \in Package /\ catalogue \in Catalogues
        /\ r[p].group = q[p].group /\ r[p].quantity = q[p].quantity
        /\ r[p].snapshot = q[p].snapshot /\ r[p].price = BundledPrice(q, p)
    BY <1>3, <1>7 DEF BundledRows, Typed
  <2>2. \E offers \in Catalogues : r[p].group = offers[p].group
    BY <1>4, <2>1
  <2>3. PICK s : s = r[p].snapshot.consumer
    OBVIOUS
  <2>4. s = catalogue[p].consumer
    BY <1>4, <2>1, <2>3
  <2>5. s # <<>> /\ \A i, j \in DOMAIN s : i < j => s[i].min < s[j].min
    BY <1>18, <2>1, <2>4 DEF Sorted
  <2>6. r[p].group = NoGroup => r[p].price = ConsumerTier(r[p], r[p].quantity).price
    BY <1>4, <2>1 DEF BundledPrice, ConsumerTier
  <2>7. r[p].snapshot \in Quotations
    BY <1>4, <2>1
  <2> QED BY <2>2, <2>3, <2>5, <2>6, <2>7 DEF Priced
<1>19. stage = "saveNew" => promotion = 0
  BY <1>11, <1>12
<1>20. Placed(x, c)
  BY <1>11, <1>15, <1>16, <1>17, <1>18, <1>19 DEF Placed
<1> QED BY <1>14, <1>20

\* The stage of a call, and what it has in hand there.
LEMMA CallColumns ==
  ASSUME NEW x, CallOK(x)
  PROVE  /\ x.stage \in PlacingStage =>
              /\ x = [stage |-> x.stage, customer |-> x.customer, rows |-> x.rows,
                      promotion |-> x.promotion]
              /\ x.customer \in Customer /\ RowsOK(x.rows) /\ x.promotion \in Nat
         /\ x.stage \in NotingStage =>
              /\ x = [stage |-> x.stage, customer |-> x.customer, package |-> x.package,
                      request |-> x.request, row |-> x.row]
              /\ x.customer \in Customer /\ x.package \in Package
              /\ x.request \in OrderRow /\ RowOK(x.row)
         /\ x.stage = "saveOrder" => x.customer \in Customer /\ x.request \in OrderRow
         /\ x.stage \in {"reprice", "reviseRows", "reviseOrder"} =>
              /\ x = [stage |-> x.stage, customer |-> x.customer, requests |-> x.requests,
                      left |-> x.left]
              /\ RequestsOK(x.requests)
              /\ x.stage = "reprice" => x.left \subseteq (DOMAIN x.requests) \X Package
              /\ x.stage # "reprice" => x.left \subseteq DOMAIN x.requests
              /\ x.stage = "reviseOrder" => x.customer \in (DOMAIN x.requests) \ x.left
         /\ x.stage = "resetOrders" =>
              /\ x = [stage |-> x.stage, customer |-> x.customer, left |-> x.left,
                      requests |-> x.requests, rows |-> x.rows]
              /\ RequestsOK(x.requests) /\ x.left \subseteq DOMAIN x.requests
              /\ DOMAIN x.rows = DOMAIN x.requests /\ \A c \in DOMAIN x.rows : RowsOK(x.rows[c])
         /\ x.stage \in Stage
<1>1. /\ PlacingStage \cap NotingStage = {} /\ "saveOrder" \notin PlacingStage \cup NotingStage
      /\ PlacingStage \cap PatchStage = {} /\ NotingStage \cap PatchStage = {}
      /\ "saveOrder" \notin PatchStage
      /\ PatchStage = {"reprice", "reviseRows", "reviseOrder", "resetOrders"}
      /\ PlacingStage \cup NotingStage \cup PatchStage \cup {"saveOrder"} = Stage
  BY DEF PlacingStage, NotingStage, PatchStage, Stage
<1> QED BY <1>1 DEF CallOK

\* An order is saved.
LEMMA OrderSaved ==
  ASSUME Typed, NEW c \in Customer, NEW o \in OrderRow, orders' = [orders EXCEPT ![c] = o]
  PROVE  /\ orders' \in [Customer -> OrderRow \cup {NoOrder}]
         /\ orders'[c] = o /\ \A d \in Customer : d # c => orders'[d] = orders[d]
BY DEF Typed

\* The rows of an order are saved.
LEMMA RowsSaved ==
  ASSUME Typed, NEW c \in Customer, NEW r, RowsOK(r), rows' = [rows EXCEPT ![c] = r]
  PROVE  /\ rows' = [d \in Customer |-> rows'[d]] /\ \A d \in Customer : RowsOK(rows'[d])
         /\ rows'[c] = r /\ \A d \in Customer : d # c => rows'[d] = rows[d]
BY DEF Typed

\* One row is saved.
LEMMA RowSaved ==
  ASSUME Typed, NEW c \in Customer, NEW p, NEW row, RowOK(row),
         rows' = [rows EXCEPT ![c][p] = row]
  PROVE  /\ rows' = [d \in Customer |-> rows'[d]] /\ \A d \in Customer : RowsOK(rows'[d])
         /\ \A d \in Customer : d # c => rows'[d] = rows[d]
         /\ DOMAIN rows'[c] = DOMAIN rows[c]
         /\ \A q \in DOMAIN rows[c] : rows'[c][q] = IF q = p THEN row ELSE rows[c][q]
<1>1. PICK s : s = rows[c]
  OBVIOUS
<1>2. PICK r : r = [s EXCEPT ![p] = row]
  OBVIOUS
<1>3. DOMAIN r = DOMAIN s /\ \A q \in DOMAIN s : r[q] = IF q = p THEN row ELSE s[q]
  BY <1>2
<1>4. RowsOK(s)
  BY <1>1 DEF Typed
<1>5. RowsOK(r)
  BY <1>3, <1>4 DEF RowsOK
<1>6. rows' = [rows EXCEPT ![c] = r]
  BY <1>1, <1>2
<1> QED BY <1>1, <1>3, <1>5, <1>6, RowsSaved

\* A call goes on.
LEMMA StageColumns ==
  ASSUME NEW x, CallOK(x), NEW y, NEW stage
  PROVE  /\ x.stage \in PlacingStage /\ y = [x EXCEPT !.stage = "saveNew"] =>
              /\ CallOK(y) /\ y.stage = "saveNew" /\ y.customer = x.customer
              /\ y.rows = x.rows /\ y.promotion = x.promotion
         /\ x.stage = "saveNotes" /\ y = [x EXCEPT !.stage = "readRows"] =>
              /\ CallOK(y) /\ y.stage = "readRows" /\ y.customer = x.customer
              /\ y.package = x.package /\ y.request = x.request /\ y.row = x.row
<1>1. ASSUME x.stage \in PlacingStage, y = [x EXCEPT !.stage = "saveNew"]
      PROVE  /\ CallOK(y) /\ y.stage = "saveNew" /\ y.customer = x.customer
             /\ y.rows = x.rows /\ y.promotion = x.promotion
  <2>1. /\ x = [stage |-> x.stage, customer |-> x.customer, rows |-> x.rows,
                promotion |-> x.promotion]
        /\ x.customer \in Customer /\ RowsOK(x.rows) /\ x.promotion \in Nat
    BY <1>1, CallColumns
  <2>2. y = [stage |-> "saveNew", customer |-> x.customer, rows |-> x.rows,
             promotion |-> x.promotion]
    BY <1>1, <2>1
  <2> QED BY <2>1, <2>2 DEF CallOK, PlacingStage
<1>2. ASSUME x.stage = "saveNotes", y = [x EXCEPT !.stage = "readRows"]
      PROVE  /\ CallOK(y) /\ y.stage = "readRows" /\ y.customer = x.customer
             /\ y.package = x.package /\ y.request = x.request /\ y.row = x.row
  <2>1. /\ x = [stage |-> x.stage, customer |-> x.customer, package |-> x.package,
                request |-> x.request, row |-> x.row]
        /\ x.customer \in Customer /\ x.package \in Package
        /\ x.request \in OrderRow /\ RowOK(x.row)
    BY <1>2, CallColumns DEF NotingStage
  <2>2. y = [stage |-> "readRows", customer |-> x.customer, package |-> x.package,
             request |-> x.request, row |-> x.row]
    BY <1>2, <2>1
  <2> QED BY <2>1, <2>2 DEF CallOK, NotingStage
<1> QED BY <1>1, <1>2

Becomes(x, y) == calls' = (calls \ {x}) \cup {y}

\* The use of a promotion is counted, or the order refused.
LEMMA UsePromotionEffect ==
  ASSUME Typed, NEW call \in calls, UsePromotion(call)
  PROVE  /\ call.stage = "usePromotion" /\ call.customer \in Customer
         /\ \/ /\ usageCount < Promotion.limit /\ usageCount' = usageCount + 1
               /\ \E y : /\ Becomes(call, y) /\ CallOK(y) /\ y.stage = "saveNew"
                         /\ y.customer = call.customer /\ y.rows = call.rows
                         /\ y.promotion = call.promotion
            \/ usageCount' = usageCount /\ calls' = calls \ {call}
         /\ UNCHANGED <<catalogue, orders, rows, crashes>>
<1>1. call.stage = "usePromotion" /\ call.stage \in PlacingStage /\ CallOK(call)
  BY DEF UsePromotion, PlacingStage, Typed
<1>2. PICK y : y = [call EXCEPT !.stage = "saveNew"]
  OBVIOUS
<1>3. /\ CallOK(y) /\ y.stage = "saveNew" /\ y.customer = call.customer
      /\ y.rows = call.rows /\ y.promotion = call.promotion
  BY <1>1, <1>2, StageColumns
<1>4. call.customer \in Customer
  BY <1>1, CallColumns
<1>5. \/ usageCount < Promotion.limit /\ usageCount' = usageCount + 1 /\ Becomes(call, y)
      \/ usageCount' = usageCount /\ calls' = calls \ {call}
  BY <1>2 DEF UsePromotion, Goes, Ends, Becomes
<1>6. UNCHANGED <<catalogue, orders, rows, crashes>>
  BY DEF UsePromotion
<1> QED BY <1>1, <1>3, <1>4, <1>5, <1>6

\* An order is inserted.
LEMMA SaveNewEffect ==
  ASSUME Typed, NEW call \in calls, SaveNew(call)
  PROVE  LET c == call.customer
         IN  /\ call.stage = "saveNew" /\ c \in Customer /\ CallOK(call)
             /\ rows' = [d \in Customer |-> rows'[d]] /\ \A d \in Customer : RowsOK(rows'[d])
             /\ orders' \in [Customer -> OrderRow \cup {NoOrder}]
             /\ rows'[c] = Bundled(call.rows)
             /\ orders'[c] \in OrderRow /\ orders'[c] # NoOrder
             /\ orders'[c].total = Cost(call.rows) - call.promotion
             /\ orders'[c].promotion = call.promotion
             /\ orders'[c].completed = Complete(call.rows) /\ orders'[c].fulfilled = FALSE
             /\ \A d \in Customer : d # c => orders'[d] = orders[d] /\ rows'[d] = rows[d]
             /\ calls' = calls \ {call} /\ UNCHANGED <<catalogue, usageCount, crashes>>
<1>1. call.stage = "saveNew" /\ call.stage \in PlacingStage /\ CallOK(call)
  BY DEF SaveNew, PlacingStage, Typed
<1>2. PICK c, r, m : /\ c = call.customer /\ r = call.rows /\ m = call.promotion
                     /\ c \in Customer /\ RowsOK(r) /\ m \in Nat
  BY <1>1, CallColumns
<1>3. PICK request : request = [fulfilled |-> FALSE]
  OBVIOUS
<1>4. PICK o : o = WithOrder(request, OrderOf(r, m))
  OBVIOUS
<1>5. request.fulfilled = FALSE /\ request.fulfilled \in BOOLEAN
  BY <1>3
<1>6. /\ o \in OrderRow /\ o # NoOrder /\ o.total = Cost(r) - m /\ o.promotion = m
      /\ o.completed = Complete(r) /\ o.fulfilled = FALSE
  BY <1>2, <1>4, <1>5, WithOrderColumns
<1>7. orders' = [orders EXCEPT ![c] = o]
  BY <1>2, <1>3, <1>4 DEF SaveNew
<1>8. PICK b : b = Bundled(r)
  OBVIOUS
<1>9. rows' = [rows EXCEPT ![c] = b] /\ RowsOK(b)
  BY <1>2, <1>8, BundledAddsUp DEF SaveNew
<1>10. /\ orders' \in [Customer -> OrderRow \cup {NoOrder}]
       /\ orders'[c] = o /\ \A d \in Customer : d # c => orders'[d] = orders[d]
  BY <1>2, <1>6, <1>7, OrderSaved
<1>11. /\ rows' = [d \in Customer |-> rows'[d]] /\ \A d \in Customer : RowsOK(rows'[d])
       /\ rows'[c] = b /\ \A d \in Customer : d # c => rows'[d] = rows[d]
  BY <1>2, <1>9, RowsSaved
<1>12. calls' = calls \ {call} /\ UNCHANGED <<catalogue, usageCount, crashes>>
  BY DEF SaveNew, Ends
<1> QED BY <1>1, <1>2, <1>6, <1>8, <1>10, <1>11, <1>12

\* A note is about to be saved: what it has read is in the tables.
LEMMA SubmitNotesEffect ==
  ASSUME Typed, NEW c \in Customer, NEW p \in Package, NEW unit, SubmitNotes(c, p, unit)
  PROVE  /\ \E x : /\ calls' = calls \cup {x} /\ CallOK(x)
                   /\ x.stage = "saveNotes" /\ x.customer = c /\ x.package = p
                   /\ x.request = orders[c]
                   /\ x.row = [rows[c][p] EXCEPT !.report = @ \cup {unit}]
         /\ orders[c] # NoOrder /\ MayWork(c) /\ p \in DOMAIN rows[c]
         /\ unit \in Report(rows[c][p])
         /\ UNCHANGED <<catalogue, usageCount, orders, rows, crashes>>
<1>1. PICK row : row = rows[c][p]
  OBVIOUS
<1>2. orders[c] # NoOrder /\ p \in DOMAIN rows[c] /\ unit \in 1..row.quantity
  BY <1>1 DEF SubmitNotes
<1>3. RowOK(row) /\ row \in PackageRow
  BY <1>1, <1>2 DEF Typed, RowsOK, RowOK
<1>4. PICK w : w = [row EXCEPT !.report = @ \cup {unit}]
  OBVIOUS
<1>5. RowOK(w)
  <2>1. w = [quantity |-> row.quantity, group |-> row.group,
             groupQuantity |-> row.groupQuantity, snapshot |-> row.snapshot,
             state |-> row.state, unitPrice |-> row.unitPrice, price |-> row.price,
             providerUnitPrice |-> row.providerUnitPrice,
             providerPrice |-> row.providerPrice, report |-> row.report \cup {unit}]
    BY <1>3, <1>4, RowColumns
  <2>2. row.report \cup {unit} \in SUBSET Nat
    BY <1>2, <1>3, RowColumns
  <2>3. w \in PackageRow /\ w.quantity = row.quantity /\ w.report = row.report \cup {unit}
    BY <1>3, <2>1, <2>2, RowColumns DEF PackageRow
  <2> QED BY <1>2, <1>3, <2>3 DEF RowOK, Report
<1>6. PICK x : x = [stage |-> "saveNotes", customer |-> c, package |-> p,
                    request |-> orders[c], row |-> w]
  OBVIOUS
<1>7. orders[c] \in OrderRow
  BY <1>2 DEF Typed
<1>8. CallOK(x) /\ x.stage = "saveNotes" /\ x.customer = c /\ x.package = p
      /\ x.request = orders[c] /\ x.row = w
  BY <1>5, <1>6, <1>7 DEF CallOK, NotingStage
<1>9. calls' = calls \cup {x}
  BY <1>1, <1>4, <1>6 DEF SubmitNotes, Start
<1>10. MayWork(c) /\ UNCHANGED <<catalogue, usageCount, orders, rows, crashes>>
  BY DEF SubmitNotes
<1> QED BY <1>1, <1>2, <1>4, <1>8, <1>9, <1>10 DEF Report

\* A row is saved with its note.
LEMMA SaveNotesEffect ==
  ASSUME Typed, NEW call \in calls, SaveNotes(call)
  PROVE  LET c == call.customer
             p == call.package
         IN  /\ call.stage = "saveNotes" /\ c \in Customer /\ CallOK(call)
             /\ rows' = [d \in Customer |-> rows'[d]] /\ \A d \in Customer : RowsOK(rows'[d])
             /\ \A d \in Customer : d # c => rows'[d] = rows[d]
             /\ DOMAIN rows'[c] = DOMAIN rows[c]
             /\ \A q \in DOMAIN rows[c] : rows'[c][q] = IF q = p THEN call.row ELSE rows[c][q]
             /\ \E y : /\ Becomes(call, y) /\ CallOK(y) /\ y.stage = "readRows"
                       /\ y.customer = c /\ y.package = p /\ y.request = call.request
             /\ UNCHANGED <<catalogue, usageCount, orders, crashes>>
<1>1. call.stage = "saveNotes" /\ call.stage \in NotingStage /\ CallOK(call)
  BY DEF SaveNotes, NotingStage, Typed
<1>2. PICK c, p, row : /\ c = call.customer /\ p = call.package /\ row = call.row
                       /\ c \in Customer /\ RowOK(row)
  BY <1>1, CallColumns
<1>3. rows' = [rows EXCEPT ![c][p] = row]
  BY <1>2 DEF SaveNotes
<1>4. /\ rows' = [d \in Customer |-> rows'[d]] /\ \A d \in Customer : RowsOK(rows'[d])
      /\ \A d \in Customer : d # c => rows'[d] = rows[d]
      /\ DOMAIN rows'[c] = DOMAIN rows[c]
      /\ \A q \in DOMAIN rows[c] : rows'[c][q] = IF q = p THEN row ELSE rows[c][q]
  BY <1>2, <1>3, RowSaved
<1>5. PICK y : y = [call EXCEPT !.stage = "readRows"]
  OBVIOUS
<1>6. /\ CallOK(y) /\ y.stage = "readRows" /\ y.customer = call.customer
      /\ y.package = call.package /\ y.request = call.request
  BY <1>1, <1>5, StageColumns
<1>7. Becomes(call, y) /\ UNCHANGED <<catalogue, usageCount, orders, crashes>>
  BY <1>5 DEF SaveNotes, Goes, Becomes
<1> QED BY <1>1, <1>2, <1>4, <1>6, <1>7

\* The rows are read, and the order revised.
LEMMA ReadRowsEffect ==
  ASSUME Typed, NEW call \in calls, ReadRows(call)
  PROVE  /\ call.stage = "readRows" /\ call.customer \in Customer /\ call.request \in OrderRow
         /\ \E y : /\ Becomes(call, y) /\ CallOK(y) /\ y.stage = "saveOrder"
                   /\ y.customer = call.customer
                   /\ y.request = Revision(call.request, rows[call.customer])
         /\ UNCHANGED <<catalogue, usageCount, orders, rows, crashes>>
<1>1. call.stage = "readRows" /\ call.stage \in NotingStage /\ CallOK(call)
  BY DEF ReadRows, NotingStage, Typed
<1>2. PICK c, request : /\ c = call.customer /\ request = call.request
                        /\ c \in Customer /\ request \in OrderRow
  BY <1>1, CallColumns
<1>3. PICK o : o = Revision(request, rows[c])
  OBVIOUS
<1>4. o \in OrderRow
  BY <1>2, <1>3, RevisionColumns DEF Typed
<1>5. PICK y : y = [stage |-> "saveOrder", customer |-> c, request |-> o]
  OBVIOUS
<1>6. CallOK(y) /\ y.stage = "saveOrder" /\ y.customer = c /\ y.request = o
  BY <1>2, <1>4, <1>5 DEF CallOK
<1>7. Becomes(call, y)
  BY <1>2, <1>3, <1>5 DEF ReadRows, Goes, Becomes, Revision
<1>8. UNCHANGED <<catalogue, usageCount, orders, rows, crashes>>
  BY DEF ReadRows
<1> QED BY <1>1, <1>2, <1>3, <1>6, <1>7, <1>8

\* The order is saved as it was revised.
LEMMA SaveOrderEffect ==
  ASSUME Typed, NEW call \in calls, SaveOrder(call)
  PROVE  LET c == call.customer
         IN  /\ call.stage = "saveOrder" /\ c \in Customer /\ call.request \in OrderRow
             /\ orders' \in [Customer -> OrderRow \cup {NoOrder}]
             /\ orders'[c] = call.request /\ orders'[c] # NoOrder
             /\ \A d \in Customer : d # c => orders'[d] = orders[d]
             /\ calls' = calls \ {call} /\ UNCHANGED <<catalogue, usageCount, rows, crashes>>
<1>1. call.stage = "saveOrder" /\ CallOK(call)
  BY DEF SaveOrder, Typed
<1>2. PICK c, o : /\ c = call.customer /\ o = call.request
                  /\ c \in Customer /\ o \in OrderRow
  BY <1>1, CallColumns
<1>3. orders' = [orders EXCEPT ![c] = o]
  BY <1>2 DEF SaveOrder
<1>4. /\ orders' \in [Customer -> OrderRow \cup {NoOrder}]
      /\ orders'[c] = o /\ \A d \in Customer : d # c => orders'[d] = orders[d]
  BY <1>2, <1>3, OrderSaved
<1>5. o # NoOrder
  BY <1>2, OrderingAssumption
<1>6. calls' = calls \ {call} /\ UNCHANGED <<catalogue, usageCount, rows, crashes>>
  BY DEF SaveOrder, Ends
<1> QED BY <1>1, <1>2, <1>4, <1>5, <1>6

\* The columns of an order, one of which is changed.
LEMMA FulfilEffect ==
  ASSUME Typed, NEW c \in Customer, Fulfil(c)
  PROVE  /\ orders[c] # NoOrder /\ MayWork(c) /\ orders[c].completed
         /\ orders' \in [Customer -> OrderRow \cup {NoOrder}]
         /\ orders'[c] # NoOrder /\ orders'[c].total = orders[c].total
         /\ orders'[c].promotion = orders[c].promotion
         /\ orders'[c].completed = orders[c].completed /\ orders'[c].fulfilled = TRUE
         /\ \A d \in Customer : d # c => orders'[d] = orders[d]
         /\ UNCHANGED <<catalogue, usageCount, rows, calls, crashes>>
<1>1. PICK o : o = orders[c]
  OBVIOUS
<1>2. o \in OrderRow
  BY <1>1 DEF Typed, Fulfil
<1>3. PICK w : w = [o EXCEPT !.fulfilled = TRUE]
  OBVIOUS
<1>4. o = [subTotal |-> o.subTotal, total |-> o.total, providerTotal |-> o.providerTotal,
           promotion |-> o.promotion, completed |-> o.completed, fulfilled |-> o.fulfilled]
  BY <1>2 DEF OrderRow
<1>5. w = [subTotal |-> o.subTotal, total |-> o.total, providerTotal |-> o.providerTotal,
           promotion |-> o.promotion, completed |-> o.completed, fulfilled |-> TRUE]
  BY <1>3, <1>4
<1>6. /\ w \in OrderRow /\ w.total = o.total /\ w.promotion = o.promotion
      /\ w.completed = o.completed /\ w.fulfilled = TRUE
  BY <1>2, <1>5 DEF OrderRow
<1>7. orders' = [orders EXCEPT ![c] = w]
  BY <1>1, <1>3 DEF Fulfil
<1>8. /\ orders' \in [Customer -> OrderRow \cup {NoOrder}]
      /\ orders'[c] = w /\ \A d \in Customer : d # c => orders'[d] = orders[d]
  BY <1>6, <1>7, OrderSaved
<1>9. w # NoOrder
  BY <1>6, OrderingAssumption
<1>10. /\ orders[c] # NoOrder /\ MayWork(c) /\ orders[c].completed
       /\ UNCHANGED <<catalogue, usageCount, rows, calls, crashes>>
  BY DEF Fulfil
<1> QED BY <1>1, <1>6, <1>8, <1>9, <1>10

\* The columns of a patch's call that goes on.
LEMMA PatchColumns ==
  ASSUME NEW x, CallOK(x), x.stage \in {"reprice", "reviseRows", "reviseOrder"},
         NEW stage, NEW customer, NEW requests, NEW left, NEW y,
         y = [stage |-> stage, customer |-> customer, requests |-> requests, left |-> left],
         stage \in {"reprice", "reviseRows", "reviseOrder"}, RequestsOK(requests),
         stage = "reprice" => left \subseteq (DOMAIN requests) \X Package,
         stage # "reprice" => left \subseteq DOMAIN requests,
         stage = "reviseOrder" => customer \in (DOMAIN requests) \ left
  PROVE  /\ CallOK(y) /\ y.stage = stage /\ y.customer = customer
         /\ y.requests = requests /\ y.left = left
BY DEF CallOK

\* A patch reads the orders it is for.
LEMMA StartSelangorEffect ==
  ASSUME Typed, StartSelangor
  PROVE  /\ \E x : /\ calls' = calls \cup {x} /\ CallOK(x) /\ x.stage = "reprice"
                   /\ \A c \in DOMAIN x.requests :
                        /\ c \in Customer /\ orders[c] # NoOrder /\ x.requests[c] = orders[c]
                        /\ StateOf[c] = Selangor
                   /\ \A t \in x.left : t[2] \in DOMAIN rows[t[1]]
         /\ Racing \/ \A x \in calls : x.stage \in PlacingStage
         /\ UNCHANGED <<catalogue, usageCount, orders, rows, crashes>>
<1>1. PICK of : of = {c \in Ordered : StateOf[c] = Selangor}
  OBVIOUS
<1>2. /\ of \subseteq Customer
      /\ \A c \in of : orders[c] # NoOrder /\ orders[c] \in OrderRow /\ StateOf[c] = Selangor
  BY <1>1 DEF Ordered, Typed
<1>3. PICK f, l : /\ f = [c \in of |-> orders[c]]
                  /\ l = {t \in of \X Package : t[2] \in DOMAIN rows[t[1]]}
  OBVIOUS
<1>4. RequestsOK(f) /\ DOMAIN f = of /\ l \subseteq (DOMAIN f) \X Package
  BY <1>2, <1>3 DEF RequestsOK
<1>5. PICK x : x = [stage |-> "reprice", customer |-> "all", requests |-> f, left |-> l]
  OBVIOUS
<1>6. CallOK(x) /\ x.stage = "reprice" /\ x.requests = f /\ x.left = l
  BY <1>4, <1>5 DEF CallOK
<1>7. calls' = calls \cup {x}
  BY <1>1, <1>3, <1>5, Zenon DEF StartSelangor, Start
<1>8. /\ Racing \/ \A y \in calls : y.stage \in PlacingStage
      /\ UNCHANGED <<catalogue, usageCount, orders, rows, crashes>>
  BY DEF StartSelangor, MayPatch, PlacingStage
<1>9. \A t \in l : t[2] \in DOMAIN rows[t[1]]
  BY <1>3
<1> QED BY <1>2, <1>3, <1>4, <1>6, <1>7, <1>8, <1>9

\* The rows and the order of c alone may have changed.
OnlyAt(c) == \A d \in Customer : d # c => orders'[d] = orders[d] /\ rows'[d] = rows[d]

\* A row is priced anew: its group, and the price of its quotations for its quantity.
RepricedRow(old, new, p) ==
  \/ new = old
  \/ /\ new.quantity = old.quantity /\ new.group = catalogue[p].group
     /\ new.snapshot = old.snapshot /\ new.report = old.report
     /\ new.price = IF IsLegacy(old) THEN old.price ELSE ConsumerTier(old, old.quantity).price

\* One row is priced anew, unless the patch gives up.
LEMMA RepriceEffect ==
  ASSUME Typed, NEW call \in calls, NEW c, NEW p, Reprice(call, c, p)
  PROVE  /\ call.stage = "reprice" /\ CallOK(call) /\ <<c, p>> \in call.left
         /\ c \in DOMAIN call.requests /\ c \in Customer
         /\ rows' = [d \in Customer |-> rows'[d]] /\ \A d \in Customer : RowsOK(rows'[d])
         /\ OnlyAt(c) /\ DOMAIN rows'[c] = DOMAIN rows[c]
         /\ \A q \in DOMAIN rows[c] : RepricedRow(rows[c][q], rows'[c][q], q)
         /\ \/ /\ calls' = calls \ {call} /\ rows' = rows
               /\ call.requests[c].fulfilled /\ ~Completed(rows[c][p])
            \/ \E y : /\ Becomes(call, y) /\ CallOK(y) /\ y.stage = "reprice"
                      /\ y.requests = call.requests /\ y.left \subseteq call.left
         /\ UNCHANGED <<catalogue, usageCount, orders, crashes>>
<1>1. call.stage = "reprice" /\ CallOK(call) /\ <<c, p>> \in call.left
  BY DEF Reprice, Typed
<1>2. /\ call = [stage |-> call.stage, customer |-> call.customer, requests |-> call.requests,
                 left |-> call.left]
      /\ RequestsOK(call.requests) /\ call.left \subseteq (DOMAIN call.requests) \X Package
  BY <1>1, CallColumns
<1>3. c \in DOMAIN call.requests /\ c \in Customer /\ p \in Package
  BY <1>1, <1>2 DEF RequestsOK
<1>4. PICK w : w = Revised(rows[c][p], catalogue[p])
  OBVIOUS
<1>5. UNCHANGED <<catalogue, usageCount, orders, crashes>>
  BY DEF Reprice
<1>6. /\ rows' = rows \/ rows' = [rows EXCEPT ![c][p] = w]
      /\ \/ /\ calls' = calls \ {call} /\ rows' = rows
            /\ call.requests[c].fulfilled /\ ~Completed(rows[c][p])
         \/ Becomes(call, [call EXCEPT !.left = @ \ {<<c, p>>}])
  BY <1>4 DEF Reprice, Ends, Goes, Becomes
<1>7. PICK y : y = [call EXCEPT !.left = @ \ {<<c, p>>}]
  OBVIOUS
<1>8. CallOK(y) /\ y.stage = "reprice" /\ y.requests = call.requests /\ y.left \subseteq call.left
  <2>1. PICK l : l = call.left \ {<<c, p>>}
    OBVIOUS
  <2>2. y = [stage |-> "reprice", customer |-> call.customer, requests |-> call.requests,
             left |-> l]
    BY <1>1, <1>2, <1>7, <2>1
  <2>3. l \subseteq call.left
    BY <2>1
  <2> QED BY <1>1, <1>2, <2>2, <2>3, PatchColumns
<1>9. /\ rows' = [d \in Customer |-> rows'[d]] /\ \A d \in Customer : RowsOK(rows'[d])
      /\ \A d \in Customer : d # c => rows'[d] = rows[d]
      /\ DOMAIN rows'[c] = DOMAIN rows[c]
      /\ \A q \in DOMAIN rows[c] : RepricedRow(rows[c][q], rows'[c][q], q)
  <2>1. CASE rows' = rows
    BY <2>1 DEF Typed, RepricedRow
  <2>2. CASE rows' = [rows EXCEPT ![c][p] = w] /\ p \in DOMAIN rows[c]
    <3>1. PICK row, offer : /\ row = rows[c][p] /\ offer = catalogue[p]
                            /\ RowOK(row) /\ row \in PackageRow /\ offer \in Offered
      BY <1>3, <2>2, OrderingAssumption DEF Typed, RowsOK, RowOK
    <3>2. /\ w \in PackageRow
          /\ w.quantity = row.quantity /\ w.group = offer.group
          /\ w.snapshot = row.snapshot /\ w.report = row.report
          /\ w.price = IF IsLegacy(row) THEN row.price
                       ELSE ConsumerTier(row, row.quantity).price
      BY <1>4, <3>1, RevisedType
    <3>3. RowOK(w)
      BY <3>1, <3>2 DEF RowOK, Report
    <3>4. /\ rows' = [d \in Customer |-> rows'[d]] /\ \A d \in Customer : RowsOK(rows'[d])
          /\ \A d \in Customer : d # c => rows'[d] = rows[d]
          /\ DOMAIN rows'[c] = DOMAIN rows[c]
          /\ \A q \in DOMAIN rows[c] : rows'[c][q] = IF q = p THEN w ELSE rows[c][q]
      BY <1>3, <2>2, <3>3, RowSaved
    <3> QED BY <3>1, <3>2, <3>4 DEF RepricedRow
  <2>3. CASE rows' = [rows EXCEPT ![c][p] = w] /\ p \notin DOMAIN rows[c]
    <3>1. PICK s : s = rows[c]
      OBVIOUS
    <3>2. PICK r : r = [s EXCEPT ![p] = w]
      OBVIOUS
    <3>3. rows' = [rows EXCEPT ![c] = r]
      BY <2>3, <3>1, <3>2
    <3>4. DOMAIN r = DOMAIN s /\ \A q \in DOMAIN s : r[q] = s[q]
      BY <2>3, <3>1, <3>2
    <3>5. RowsOK(r)
      BY <1>3, <3>1, <3>4 DEF Typed, RowsOK
    <3>6. /\ rows' = [d \in Customer |-> rows'[d]] /\ \A d \in Customer : RowsOK(rows'[d])
          /\ rows'[c] = r /\ \A d \in Customer : d # c => rows'[d] = rows[d]
      BY <1>3, <3>3, <3>5, RowsSaved
    <3> QED BY <3>1, <3>4, <3>6 DEF RepricedRow
  <2> QED BY <1>6, <2>1, <2>2, <2>3
<1>10. OnlyAt(c)
  BY <1>5, <1>9 DEF OnlyAt
<1> QED BY <1>1, <1>3, <1>5, <1>6, <1>7, <1>8, <1>9, <1>10

\* All rows are priced; now they are bundled, order by order.
LEMMA RepricedEffect ==
  ASSUME Typed, NEW call \in calls, Repriced(call)
  PROVE  /\ call.stage = "reprice" /\ CallOK(call)
         /\ \E y : /\ Becomes(call, y) /\ CallOK(y) /\ y.stage = "reviseRows"
                   /\ y.requests = call.requests /\ y.left = DOMAIN call.requests
         /\ UNCHANGED <<catalogue, usageCount, orders, rows, crashes>>
<1>1. call.stage = "reprice" /\ CallOK(call)
  BY DEF Repriced, Typed
<1>2. /\ call = [stage |-> call.stage, customer |-> call.customer, requests |-> call.requests,
                 left |-> call.left]
      /\ RequestsOK(call.requests)
  BY <1>1, CallColumns
<1>3. PICK y : y = [call EXCEPT !.stage = "reviseRows", !.left = DOMAIN call.requests]
  OBVIOUS
<1>4. y = [stage |-> "reviseRows", customer |-> call.customer, requests |-> call.requests,
           left |-> DOMAIN call.requests]
  BY <1>2, <1>3
<1>5. PICK l : l = DOMAIN call.requests
  OBVIOUS
<1>6. CallOK(y) /\ y.stage = "reviseRows" /\ y.requests = call.requests /\ y.left = l
  BY <1>1, <1>2, <1>4, <1>5, PatchColumns
<1>7. Becomes(call, y) /\ UNCHANGED <<catalogue, usageCount, orders, rows, crashes>>
  BY <1>3 DEF Repriced, Goes, Becomes
<1> QED BY <1>1, <1>5, <1>6, <1>7

\* The rows of an order are bundled and saved, and the order revised in memory.
LEMMA ReviseRowsEffect ==
  ASSUME Typed, NEW call \in calls, NEW c, ReviseRows(call, c)
  PROVE  /\ call.stage = "reviseRows" /\ CallOK(call) /\ c \in call.left
         /\ c \in DOMAIN call.requests /\ c \in Customer /\ call.requests[c] \in OrderRow
         /\ rows' = [d \in Customer |-> rows'[d]] /\ \A d \in Customer : RowsOK(rows'[d])
         /\ \A d \in Customer : d # c => rows'[d] = rows[d]
         /\ rows'[c] = Bundled(rows[c])
         /\ \E y : /\ Becomes(call, y) /\ CallOK(y) /\ y.stage = "reviseOrder"
                   /\ y.customer = c /\ y.left = call.left \ {c}
                   /\ DOMAIN y.requests = DOMAIN call.requests
                   /\ y.requests[c] = Revision(call.requests[c], rows[c])
                   /\ \A d \in DOMAIN call.requests : d # c => y.requests[d] = call.requests[d]
         /\ UNCHANGED <<catalogue, usageCount, orders, crashes>>
<1>1. call.stage = "reviseRows" /\ CallOK(call) /\ c \in call.left
  BY DEF ReviseRows, Typed
<1>2. /\ call = [stage |-> call.stage, customer |-> call.customer, requests |-> call.requests,
                 left |-> call.left]
      /\ RequestsOK(call.requests) /\ call.left \subseteq DOMAIN call.requests
  BY <1>1, CallColumns
<1>3. PICK f : f = call.requests
  OBVIOUS
<1>4. c \in DOMAIN f /\ c \in Customer /\ f[c] \in OrderRow
  BY <1>1, <1>2, <1>3 DEF RequestsOK
<1>5. PICK o : o = Revision(f[c], rows[c])
  OBVIOUS
<1>6. o \in OrderRow
  BY <1>4, <1>5, RevisionColumns DEF Typed
<1>7. PICK g : g = [f EXCEPT ![c] = o]
  OBVIOUS
<1>8. /\ DOMAIN g = DOMAIN f /\ g[c] = o /\ \A d \in DOMAIN f : d # c => g[d] = f[d]
      /\ RequestsOK(g)
  BY <1>2, <1>3, <1>4, <1>6, <1>7 DEF RequestsOK
<1>9. PICK y : y = [call EXCEPT !.stage = "reviseOrder", !.left = @ \ {c}, !.customer = c,
                      !.requests[c] = WithOrder(@, OrderOf(rows[c], @.promotion))]
  OBVIOUS
<1>10. y = [call EXCEPT !.stage = "reviseOrder", !.left = call.left \ {c}, !.customer = c,
                        !.requests = g]
  BY <1>2, <1>3, <1>5, <1>7, <1>9 DEF Revision
<1>11. PICK l : l = call.left \ {c}
  OBVIOUS
<1>12. y = [stage |-> "reviseOrder", customer |-> c, requests |-> g, left |-> l]
  BY <1>2, <1>10, <1>11
<1>13. /\ CallOK(y) /\ y.stage = "reviseOrder" /\ y.customer = c /\ y.requests = g
       /\ y.left = l
  <2>1. l \subseteq DOMAIN g /\ c \in (DOMAIN g) \ l
    BY <1>2, <1>3, <1>4, <1>8, <1>11
  <2> QED BY <1>1, <1>8, <1>12, <2>1, PatchColumns
<1>14. Becomes(call, y) /\ UNCHANGED <<catalogue, usageCount, orders, crashes>>
  BY <1>9 DEF ReviseRows, Goes, Becomes
<1>15. PICK b : b = Bundled(rows[c])
  OBVIOUS
<1>16. rows' = [rows EXCEPT ![c] = b]
  BY <1>15 DEF ReviseRows
<1>17. RowsOK(b)
  BY <1>4, <1>15, BundledAddsUp DEF Typed
<1>18. /\ rows' = [d \in Customer |-> rows'[d]] /\ \A d \in Customer : RowsOK(rows'[d])
       /\ rows'[c] = b /\ \A d \in Customer : d # c => rows'[d] = rows[d]
  BY <1>4, <1>16, <1>17, RowsSaved
<1> QED BY <1>1, <1>3, <1>4, <1>5, <1>8, <1>11, <1>13, <1>14, <1>15, <1>18

\* The order is saved, and the next one's turn.
LEMMA ReviseOrderEffect ==
  ASSUME Typed, NEW call \in calls, ReviseOrder(call)
  PROVE  LET c == call.customer
         IN  /\ call.stage = "reviseOrder" /\ CallOK(call)
             /\ c \in DOMAIN call.requests /\ c \in Customer /\ c \notin call.left
             /\ orders' \in [Customer -> OrderRow \cup {NoOrder}]
             /\ orders'[c] = call.requests[c] /\ orders'[c] # NoOrder
             /\ \A d \in Customer : d # c => orders'[d] = orders[d]
             /\ \/ call.left = {} /\ calls' = calls \ {call}
                \/ \E y : /\ Becomes(call, y) /\ CallOK(y) /\ y.stage = "reviseRows"
                          /\ y.requests = call.requests /\ y.left = call.left
             /\ UNCHANGED <<catalogue, usageCount, rows, crashes>>
<1>1. call.stage = "reviseOrder" /\ CallOK(call)
  BY DEF ReviseOrder, Typed
<1>2. /\ call = [stage |-> call.stage, customer |-> call.customer, requests |-> call.requests,
                 left |-> call.left]
      /\ RequestsOK(call.requests) /\ call.left \subseteq DOMAIN call.requests
      /\ call.customer \in (DOMAIN call.requests) \ call.left
  BY <1>1, CallColumns
<1>3. PICK c, o : c = call.customer /\ o = call.requests[c]
  OBVIOUS
<1>4. c \in Customer /\ o \in OrderRow /\ o # NoOrder
  BY <1>2, <1>3, OrderingAssumption DEF RequestsOK
<1>5. orders' = [orders EXCEPT ![c] = o]
  BY <1>3 DEF ReviseOrder
<1>6. /\ orders' \in [Customer -> OrderRow \cup {NoOrder}]
      /\ orders'[c] = o /\ \A d \in Customer : d # c => orders'[d] = orders[d]
  BY <1>4, <1>5, OrderSaved
<1>7. PICK y : y = [call EXCEPT !.stage = "reviseRows", !.customer = "all"]
  OBVIOUS
<1>8. y = [stage |-> "reviseRows", customer |-> "all", requests |-> call.requests,
           left |-> call.left]
  BY <1>2, <1>7
<1>9. /\ CallOK(y) /\ y.stage = "reviseRows" /\ y.requests = call.requests
      /\ y.left = call.left
  BY <1>1, <1>2, <1>8, PatchColumns
<1>10. \/ call.left = {} /\ calls' = calls \ {call}
       \/ Becomes(call, y)
  BY <1>7 DEF ReviseOrder, Ends, Goes, Becomes
<1>11. UNCHANGED <<catalogue, usageCount, rows, crashes>>
  BY DEF ReviseOrder
<1> QED BY <1>1, <1>2, <1>3, <1>4, <1>6, <1>9, <1>10, <1>11

\* The other patch reads the orders that have a promotion, with their rows.
LEMMA StartPromotionsEffect ==
  ASSUME Typed, StartPromotions
  PROVE  /\ \E x : /\ calls' = calls \cup {x} /\ CallOK(x) /\ x.stage = "resetOrders"
                   /\ \A c \in DOMAIN x.requests :
                        /\ c \in Customer /\ orders[c] # NoOrder /\ x.requests[c] = orders[c]
                        /\ x.rows[c] = rows[c]
         /\ Racing \/ \A x \in calls : x.stage \in PlacingStage
         /\ UNCHANGED <<catalogue, usageCount, orders, rows, crashes>>
<1>1. PICK of : of = {c \in Ordered : orders[c].promotion > 0}
  OBVIOUS
<1>2. of \subseteq Customer /\ \A c \in of : orders[c] # NoOrder /\ orders[c] \in OrderRow
  BY <1>1 DEF Ordered, Typed
<1>3. PICK f, r : f = [c \in of |-> orders[c]] /\ r = [c \in of |-> rows[c]]
  OBVIOUS
<1>4. RequestsOK(f) /\ DOMAIN f = of /\ DOMAIN r = of /\ \A c \in of : RowsOK(r[c])
  BY <1>2, <1>3 DEF RequestsOK, Typed
<1>5. PICK x : x = [stage |-> "resetOrders", customer |-> "all", left |-> of,
                    requests |-> f, rows |-> r]
  OBVIOUS
<1>6. CallOK(x) /\ x.stage = "resetOrders" /\ x.requests = f /\ x.left = of /\ x.rows = r
  BY <1>4, <1>5 DEF CallOK
<1>7. calls' = calls \cup {x}
  BY <1>1, <1>3, <1>5, Zenon DEF StartPromotions, Start
<1>8. /\ Racing \/ \A y \in calls : y.stage \in PlacingStage
      /\ UNCHANGED <<catalogue, usageCount, orders, rows, crashes>>
  BY DEF StartPromotions, MayPatch, PlacingStage
<1> QED BY <1>2, <1>3, <1>4, <1>6, <1>7, <1>8

\* An order is reset, when that takes its promotion off.
LEMMA ResetOrderEffect ==
  ASSUME Typed, NEW call \in calls, NEW c, ResetOrder(call, c)
  PROVE  /\ call.stage = "resetOrders" /\ CallOK(call) /\ c \in call.left
         /\ c \in DOMAIN call.requests /\ c \in Customer
         /\ call.requests[c] \in OrderRow /\ RowsOK(call.rows[c])
         /\ orders' \in [Customer -> OrderRow \cup {NoOrder}]
         /\ \A d \in Customer : d # c => orders'[d] = orders[d]
         /\ orders'[c] \in {orders[c], Revision(call.requests[c], call.rows[c])}
         /\ \/ calls' = calls \ {call}
            \/ \E y : /\ Becomes(call, y) /\ CallOK(y) /\ y.stage = "resetOrders"
                      /\ y.requests = call.requests /\ y.rows = call.rows
                      /\ y.left = call.left \ {c}
         /\ UNCHANGED <<catalogue, usageCount, rows, crashes>>
<1>1. call.stage = "resetOrders" /\ CallOK(call) /\ c \in call.left
  BY DEF ResetOrder, Typed
<1>2. /\ call = [stage |-> call.stage, customer |-> call.customer, left |-> call.left,
                 requests |-> call.requests, rows |-> call.rows]
      /\ RequestsOK(call.requests) /\ call.left \subseteq DOMAIN call.requests
      /\ DOMAIN call.rows = DOMAIN call.requests
      /\ \A d \in DOMAIN call.rows : RowsOK(call.rows[d])
  BY <1>1, CallColumns
<1>3. /\ c \in DOMAIN call.requests /\ c \in Customer
      /\ call.requests[c] \in OrderRow /\ RowsOK(call.rows[c])
  BY <1>1, <1>2 DEF RequestsOK
<1>4. PICK o : o = Revision(call.requests[c], call.rows[c])
  OBVIOUS
<1>5. o \in OrderRow
  BY <1>3, <1>4, RevisionColumns
<1>6. orders' = orders \/ orders' = [orders EXCEPT ![c] = o]
  <2>1. PICK pre : pre = call.requests[c]
    OBVIOUS
  <2>2. o = WithOrder(pre, OrderOf(call.rows[c], pre.promotion))
    BY <1>4, <2>1 DEF Revision
  <2> QED BY <2>1, <2>2 DEF ResetOrder
<1>7. /\ orders' \in [Customer -> OrderRow \cup {NoOrder}]
      /\ orders'[c] \in {orders[c], o} /\ \A d \in Customer : d # c => orders'[d] = orders[d]
  <2>1. CASE orders' = orders
    BY <2>1 DEF Typed
  <2>2. CASE orders' = [orders EXCEPT ![c] = o]
    BY <1>3, <1>5, <2>2, OrderSaved
  <2> QED BY <1>6, <2>1, <2>2
<1>8. PICK y : y = [call EXCEPT !.left = @ \ {c}]
  OBVIOUS
<1>9. PICK l : l = call.left \ {c}
  OBVIOUS
<1>10. y = [stage |-> "resetOrders", customer |-> call.customer, left |-> l,
            requests |-> call.requests, rows |-> call.rows]
  BY <1>1, <1>2, <1>8, <1>9
<1>11. /\ CallOK(y) /\ y.stage = "resetOrders" /\ y.requests = call.requests
       /\ y.rows = call.rows /\ y.left = l
  BY <1>2, <1>9, <1>10 DEF CallOK
<1>12. /\ calls' = calls \ {call} \/ Becomes(call, y)
       /\ UNCHANGED <<catalogue, usageCount, rows, crashes>>
  BY <1>8 DEF ResetOrder, Ends, Goes, Becomes
<1> QED BY <1>1, <1>3, <1>4, <1>7, <1>9, <1>11, <1>12

------------------------------------------------------------------------------
(* Types *)

\* A call in progress may become another.
LEMMA CallsBecome ==
  ASSUME Typed, NEW x, NEW y, CallOK(y), Becomes(x, y)
  PROVE  \A z \in calls' : CallOK(z)
BY Zenon DEF Typed, Becomes

\* A step keeps everything of its type.
LEMMA TypedStep ==
  ASSUME Typed, [Next]_vars
  PROVE  Typed'
<1>1. ASSUME NEW c \in Customer, NEW withPromotion \in BOOLEAN, NEW basket \in Baskets[c],
             Place(c, basket, withPromotion)
      PROVE  Typed'
  <2>1. \E x : Placed(x, c) /\ calls' = calls \cup {x}
    BY <1>1, PlaceEffect
  <2>2. \A z \in calls' : CallOK(z)
    BY <2>1, Zenon DEF Placed, Typed
  <2>3. UNCHANGED <<catalogue, usageCount, orders, rows, crashes>>
    BY <1>1 DEF Place
  <2> QED BY <2>2, <2>3 DEF Typed
<1>2. ASSUME NEW call \in calls, UsePromotion(call) PROVE Typed'
  <2>1. \A z \in calls' : CallOK(z)
    BY <1>2, UsePromotionEffect, CallsBecome DEF Typed
  <2>2. usageCount' \in Nat /\ UNCHANGED <<catalogue, orders, rows, crashes>>
    BY <1>2, UsePromotionEffect DEF Typed
  <2> QED BY <2>1, <2>2 DEF Typed
<1>3. ASSUME NEW call \in calls, SaveNew(call) PROVE Typed'
  <2>1. PICK c : c = call.customer
    OBVIOUS
  <2>2. /\ rows' = [d \in Customer |-> rows'[d]] /\ \A d \in Customer : RowsOK(rows'[d])
        /\ orders' \in [Customer -> OrderRow \cup {NoOrder}]
        /\ calls' = calls \ {call} /\ UNCHANGED <<catalogue, usageCount, crashes>>
    BY <1>3, SaveNewEffect
  <2> QED BY <2>2 DEF Typed
<1>4. ASSUME NEW call \in calls, RefuseAppointment(call) PROVE Typed'
  BY <1>4 DEF RefuseAppointment, Ends, Typed
<1>5. ASSUME NEW c \in Customer, NEW p \in Package, NEW unit, SubmitNotes(c, p, unit)
      PROVE  Typed'
  <2>1. /\ \E x : calls' = calls \cup {x} /\ CallOK(x)
        /\ UNCHANGED <<catalogue, usageCount, orders, rows, crashes>>
    BY <1>5, SubmitNotesEffect
  <2>2. \A z \in calls' : CallOK(z)
    BY <2>1, Zenon DEF Typed
  <2> QED BY <2>1, <2>2 DEF Typed
<1>6. ASSUME NEW call \in calls, SaveNotes(call) PROVE Typed'
  <2>1. \A z \in calls' : CallOK(z)
    BY <1>6, SaveNotesEffect, CallsBecome
  <2>2. /\ rows' = [d \in Customer |-> rows'[d]] /\ \A d \in Customer : RowsOK(rows'[d])
        /\ UNCHANGED <<catalogue, usageCount, orders, crashes>>
    BY <1>6, SaveNotesEffect
  <2> QED BY <2>1, <2>2 DEF Typed
<1>7. ASSUME NEW call \in calls, ReadRows(call) PROVE Typed'
  <2>1. \A z \in calls' : CallOK(z)
    BY <1>7, ReadRowsEffect, CallsBecome
  <2>2. UNCHANGED <<catalogue, usageCount, orders, rows, crashes>>
    BY <1>7, ReadRowsEffect
  <2> QED BY <2>1, <2>2 DEF Typed
<1>8. ASSUME NEW call \in calls, SaveOrder(call) PROVE Typed'
  <2>1. /\ orders' \in [Customer -> OrderRow \cup {NoOrder}]
        /\ calls' = calls \ {call} /\ UNCHANGED <<catalogue, usageCount, rows, crashes>>
    BY <1>8, SaveOrderEffect
  <2> QED BY <2>1 DEF Typed
<1>9. ASSUME NEW c \in Customer, Fulfil(c) PROVE Typed'
  <2>1. /\ orders' \in [Customer -> OrderRow \cup {NoOrder}]
        /\ UNCHANGED <<catalogue, usageCount, rows, calls, crashes>>
    BY <1>9, FulfilEffect
  <2> QED BY <2>1 DEF Typed
<1>10. ASSUME StartSelangor PROVE Typed'
  <2>1. /\ \E x : calls' = calls \cup {x} /\ CallOK(x)
        /\ UNCHANGED <<catalogue, usageCount, orders, rows, crashes>>
    BY <1>10, StartSelangorEffect
  <2>2. \A z \in calls' : CallOK(z)
    BY <2>1, Zenon DEF Typed
  <2> QED BY <2>1, <2>2 DEF Typed
<1>11. ASSUME StartPromotions PROVE Typed'
  <2>1. /\ \E x : calls' = calls \cup {x} /\ CallOK(x)
        /\ UNCHANGED <<catalogue, usageCount, orders, rows, crashes>>
    BY <1>11, StartPromotionsEffect
  <2>2. \A z \in calls' : CallOK(z)
    BY <2>1, Zenon DEF Typed
  <2> QED BY <2>1, <2>2 DEF Typed
<1>12. ASSUME NEW call \in calls, NEW c \in Customer, NEW p \in Package, Reprice(call, c, p)
       PROVE  Typed'
  <2>1. /\ calls' = calls \ {call} \/ \E y : Becomes(call, y) /\ CallOK(y)
        /\ rows' = [d \in Customer |-> rows'[d]] /\ \A d \in Customer : RowsOK(rows'[d])
        /\ UNCHANGED <<catalogue, usageCount, orders, crashes>>
    BY <1>12, RepriceEffect
  <2>2. \A z \in calls' : CallOK(z)
    BY <2>1, CallsBecome DEF Typed
  <2> QED BY <2>1, <2>2 DEF Typed
<1>13. ASSUME NEW call \in calls, NEW c \in Customer, ReviseRows(call, c) PROVE Typed'
  <2>1. /\ \E y : Becomes(call, y) /\ CallOK(y)
        /\ rows' = [d \in Customer |-> rows'[d]] /\ \A d \in Customer : RowsOK(rows'[d])
        /\ UNCHANGED <<catalogue, usageCount, orders, crashes>>
    BY <1>13, ReviseRowsEffect
  <2>2. \A z \in calls' : CallOK(z)
    BY <2>1, CallsBecome
  <2> QED BY <2>1, <2>2 DEF Typed
<1>14. ASSUME NEW call \in calls, NEW c \in Customer, ResetOrder(call, c) PROVE Typed'
  <2>1. /\ calls' = calls \ {call} \/ \E y : Becomes(call, y) /\ CallOK(y)
        /\ orders' \in [Customer -> OrderRow \cup {NoOrder}]
        /\ UNCHANGED <<catalogue, usageCount, rows, crashes>>
    BY <1>14, ResetOrderEffect
  <2>2. \A z \in calls' : CallOK(z)
    BY <2>1, CallsBecome DEF Typed
  <2> QED BY <2>1, <2>2 DEF Typed
<1>15. ASSUME NEW call \in calls, Repriced(call) PROVE Typed'
  <2>1. /\ \E y : Becomes(call, y) /\ CallOK(y)
        /\ UNCHANGED <<catalogue, usageCount, orders, rows, crashes>>
    BY <1>15, RepricedEffect
  <2>2. \A z \in calls' : CallOK(z)
    BY <2>1, CallsBecome
  <2> QED BY <2>1, <2>2 DEF Typed
<1>16. ASSUME NEW call \in calls, ReviseOrder(call) PROVE Typed'
  <2>1. /\ calls' = calls \ {call} \/ \E y : Becomes(call, y) /\ CallOK(y)
        /\ orders' \in [Customer -> OrderRow \cup {NoOrder}]
        /\ UNCHANGED <<catalogue, usageCount, rows, crashes>>
    BY <1>16, ReviseOrderEffect
  <2>2. \A z \in calls' : CallOK(z)
    BY <2>1, CallsBecome DEF Typed
  <2> QED BY <2>1, <2>2 DEF Typed
<1>17. ASSUME UpdateCatalogue PROVE Typed'
  BY <1>17 DEF UpdateCatalogue, Typed
<1>18. ASSUME Crash PROVE Typed'
  BY <1>18 DEF Crash, Typed
<1>19. ASSUME UNCHANGED vars PROVE Typed'
  BY <1>19 DEF vars, Typed
<1> QED
  BY <1>1, <1>2, <1>3, <1>4, <1>5, <1>6, <1>7, <1>8, <1>9, <1>10, <1>11, <1>12, <1>13,
     <1>14, <1>15, <1>16, <1>17, <1>18, <1>19
  DEF Next, Placing, Working, Patching

\* What there is at first: nothing, but for the orders of old customers.
LEMMA AtFirst ==
  ASSUME Init
  PROVE  /\ Typed /\ usageCount = 0 /\ calls = {} /\ crashes = 0
         /\ \A c \in Customer :
              IF c \in OldCustomer
              THEN /\ rows[c] = OldRows /\ orders[c] # NoOrder
                   /\ orders[c].completed = TRUE /\ orders[c].fulfilled = TRUE
              ELSE rows[c] = <<>> /\ orders[c] = NoOrder
<1>1. RowsOK(OldRows) /\ Complete(OldRows)
  BY OrderingAssumption DEF RowsOK, RowOK, Completed, Report, Complete
<1>2. RowsOK(<<>>)
  BY DEF RowsOK
<1>3. PICK o : o = OrderOf(OldRows, 0)
  OBVIOUS
<1>4. /\ o.subTotal \in Nat /\ o.providerTotal \in Nat /\ o.completed = Complete(OldRows)
      /\ o.total \in Int
  <2>1. PICK n : n = 0
    OBVIOUS
  <2>2. /\ OrderOf(OldRows, n).subTotal \in Nat /\ OrderOf(OldRows, n).providerTotal \in Nat
        /\ OrderOf(OldRows, n).completed = Complete(OldRows)
        /\ OrderOf(OldRows, n).total = Cost(OldRows) - n /\ Cost(OldRows) \in Nat
    BY <1>1, OrderOfType, Zenon
  <2> QED BY <1>3, <2>1, <2>2
<1>5. o = [subTotal |-> o.subTotal, total |-> o.total, providerTotal |-> o.providerTotal,
           promotion |-> o.promotion, completed |-> o.completed]
  BY <1>3 DEF OrderOf
<1>6. PICK q : q = [o EXCEPT !.promotion = OldPromotion]
  OBVIOUS
<1>7. q = [subTotal |-> o.subTotal, total |-> o.total, providerTotal |-> o.providerTotal,
           promotion |-> OldPromotion, completed |-> o.completed]
  BY <1>5, <1>6
<1>8. /\ q.subTotal = o.subTotal /\ q.total = o.total /\ q.providerTotal = o.providerTotal
      /\ q.promotion = OldPromotion /\ q.completed = o.completed
  BY <1>7
<1>9. PICK w : w = WithOrder([fulfilled |-> TRUE], q)
  OBVIOUS
<1>10. w = [subTotal |-> o.subTotal, total |-> o.total, providerTotal |-> o.providerTotal,
            promotion |-> OldPromotion, completed |-> o.completed, fulfilled |-> TRUE]
  BY <1>8, <1>9 DEF WithOrder
<1>11. OldPromotion \in Nat /\ o.completed = TRUE /\ Complete(OldRows) \in BOOLEAN
  BY <1>1, <1>4, OrderingAssumption DEF Complete
<1>12. w \in OrderRow /\ w.completed = TRUE /\ w.fulfilled = TRUE
  BY <1>4, <1>10, <1>11 DEF OrderRow, Amount
<1>13. w # NoOrder
  BY <1>12, OrderingAssumption
<1>14. /\ orders = [c \in Customer |-> IF c \in OldCustomer THEN w ELSE NoOrder]
       /\ rows = [c \in Customer |-> IF c \in OldCustomer THEN OldRows ELSE <<>>]
  BY <1>3, <1>6, <1>9 DEF Init
<1>15. orders \in [Customer -> OrderRow \cup {NoOrder}]
  BY <1>12, <1>14
<1>16. rows = [c \in Customer |-> rows[c]] /\ \A c \in Customer : RowsOK(rows[c])
  BY <1>1, <1>2, <1>14
<1>17. /\ catalogue \in Catalogues /\ usageCount = 0 /\ crashes = 0 /\ calls = {}
  BY DEF Init
<1>18. Typed
  BY <1>15, <1>16, <1>17 DEF Typed
<1> QED BY <1>12, <1>13, <1>14, <1>17, <1>18

\* Everything is of its type.
LEMMA AlwaysTyped == Spec => []Typed
<1>1. Init => Typed
  BY AtFirst
<1>2. Typed /\ [Next]_vars => Typed'
  BY TypedStep
<1> QED BY <1>1, <1>2, PTL DEF Spec

\* Orders, rows and calls in progress hold what their types say; no report has a note for
\* a unit that was not ordered.
THEOREM TypeCorrect == Spec => []TypeOK
<1>1. Typed => TypeOK
  <2> SUFFICES ASSUME Typed PROVE TypeOK
    OBVIOUS
  <2>1. \A x \in calls : x.stage \in Stage
    BY CallColumns DEF Typed
  <2>2. ASSUME NEW c \in Customer
        PROVE  /\ orders[c] \in OrderRow \cup {NoOrder}
               /\ DOMAIN rows[c] \subseteq Package
               /\ \A p \in DOMAIN rows[c] :
                    rows[c][p] \in PackageRow /\ rows[c][p].report \subseteq 1..rows[c][p].quantity
    BY <2>2 DEF Typed, RowsOK, RowOK, Report
  <2> QED BY <2>1, <2>2 DEF Typed, TypeOK
<1> QED BY <1>1, AlwaysTyped, PTL

------------------------------------------------------------------------------
(* Promotions are counted                                                     *)

\* Orders that are placed stay so, with their promotion; no other one is placed.
OrdersKept ==
  \A c \in Customer :
    /\ orders[c] = NoOrder => orders'[c] = NoOrder
    /\ orders[c] # NoOrder =>
         orders'[c] # NoOrder /\ orders'[c].promotion = orders[c].promotion

\* A call that goes on at an order, or a new one.
Carries(x) == CallOK(x) /\ x.stage \notin PlacingStage /\ Keeps(x)

\* Stages are of one kind.
LEMMA Stages ==
  /\ PlacingStage \cap NotingStage = {} /\ "saveOrder" \notin PlacingStage \cup NotingStage
  /\ PlacingStage \cap PatchStage = {} /\ NotingStage \cap PatchStage = {}
  /\ "saveOrder" \notin PatchStage /\ "saveNew" \in PlacingStage
  /\ WorkStage = NotingStage \cup {"saveOrder"} \cup PatchStage
  /\ "saveNotes" \in NotingStage /\ "readRows" \in NotingStage
  /\ {"reprice", "reviseRows", "reviseOrder", "resetOrders"} = PatchStage
BY DEF PlacingStage, NotingStage, PatchStage, WorkStage, Stage

\* The customers a call is about.
LEMMA CallCustomers ==
  ASSUME NEW x, CallOK(x)
  PROVE  /\ x.stage \in PlacingStage \cup NotingStage \cup {"saveOrder"} => x.customer \in Customer
         /\ x.stage \in PatchStage => DOMAIN x.requests \subseteq Customer
BY CallColumns, Stages DEF RequestsOK

\* What calls keep of orders they keep as orders stay.
LEMMA KeepsStep ==
  ASSUME Typed, \A x \in calls : Keeps(x), OrdersKept,
         \A z \in calls' : z \in calls \/ Carries(z)
  PROVE  \A z \in calls' : Keeps(z)'
<1> SUFFICES ASSUME NEW z \in calls' PROVE Keeps(z)'
  OBVIOUS
<1>1. CallOK(z) /\ Keeps(z) /\ (z.stage \in PlacingStage => z \in calls)
  BY DEF Typed, Carries
<1>2. ASSUME z.stage \in PlacingStage
      PROVE  /\ orders'[z.customer] = NoOrder
             /\ \A y \in calls' : y.stage \in PlacingStage /\ y.customer = z.customer => y = z
  <2>1. z.customer \in Customer /\ orders[z.customer] = NoOrder
    BY <1>1, <1>2, CallCustomers DEF Keeps
  <2>2. \A y \in calls' : y.stage \in PlacingStage => y \in calls
    BY DEF Carries
  <2> QED BY <1>1, <1>2, <2>1, <2>2 DEF OrdersKept, Keeps
<1>3. ASSUME z.stage \in NotingStage \cup {"saveOrder"}
      PROVE  /\ orders'[z.customer] # NoOrder
             /\ z.request.promotion = orders'[z.customer].promotion
  <2>1. z.customer \in Customer
    BY <1>1, <1>3, CallCustomers
  <2> QED BY <1>1, <1>3, <2>1 DEF OrdersKept, Keeps
<1>4. ASSUME z.stage \in PatchStage, NEW c \in DOMAIN z.requests
      PROVE  orders'[c] # NoOrder /\ z.requests[c].promotion = orders'[c].promotion
  <2>1. c \in Customer
    BY <1>1, <1>4, CallCustomers
  <2> QED BY <1>1, <1>4, <2>1 DEF OrdersKept, Keeps
<1> QED BY <1>2, <1>3, <1>4 DEF Keeps

\* Fewer customers have a promotion, or are about to.
LEMMA FewerPromised ==
  ASSUME Typed, Counted, Promised' \subseteq Promised, usageCount' = usageCount
  PROVE  /\ IsFiniteSet(Promised') /\ Cardinality(Promised') <= usageCount'
         /\ usageCount' <= Promotion.limit
<1>1. PICK S, T : S = Promised /\ T = Promised'
  OBVIOUS
<1>2. IsFiniteSet(S) /\ T \subseteq S /\ Cardinality(S) <= usageCount
  BY <1>1 DEF Counted
<1>3. /\ IsFiniteSet(T) /\ Cardinality(T) <= Cardinality(S)
      /\ Cardinality(S) \in Nat /\ Cardinality(T) \in Nat
  BY <1>2, FS_Subset, FS_CardinalityType
<1>4. Cardinality(T) <= usageCount /\ usageCount \in Nat
  BY <1>2, <1>3 DEF Typed
<1> QED BY <1>1, <1>3, <1>4 DEF Counted

\* Orders stay, and calls go on at them: the uses stay counted.
LEMMA CountedStays ==
  ASSUME Typed, Counted, OrdersKept, usageCount' = usageCount,
         \A z \in calls' : z \in calls \/ Carries(z)
  PROVE  Counted'
<1>1. \A z \in calls' : Keeps(z)'
  BY KeepsStep DEF Counted
<1>2. Promised' \subseteq Promised
  <2> SUFFICES ASSUME NEW c \in Promised' PROVE c \in Promised
    OBVIOUS
  <2>1. /\ c \in Customer \ OldCustomer
        /\ Promotes(c)' \/ \E x \in calls' : Holds(x) /\ x.customer = c
    BY DEF Promised, Holds
  <2>2. Promotes(c)' => Promotes(c)
    BY <2>1 DEF Promotes, OrdersKept
  <2>3. \A x \in calls' : Holds(x) => x \in calls
    BY Stages DEF Holds, Carries
  <2> QED BY <2>1, <2>2, <2>3 DEF Promised
<1> QED BY <1>1, <1>2, FewerPromised DEF Counted

\* An order about to be placed has nothing counted yet.
LEMMA PlaceCounted ==
  ASSUME Typed, Counted, NEW c \in Customer, NEW withPromotion \in BOOLEAN,
         NEW basket \in Baskets[c], Place(c, basket, withPromotion)
  PROVE  Counted'
<1>1. PICK x : Placed(x, c) /\ calls' = calls \cup {x}
  BY PlaceEffect
<1>2. /\ orders[c] = NoOrder /\ UNCHANGED <<catalogue, usageCount, orders, rows, crashes>>
      /\ \A z \in calls : z.customer = c => z.stage \in PatchStage
  BY DEF Place
<1>3. x.stage \in PlacingStage /\ x.customer = c /\ (x.stage = "saveNew" => x.promotion = 0)
  BY <1>1 DEF Placed
<1>4. \A z \in calls' : Keeps(z)'
  <2> SUFFICES ASSUME NEW z \in calls' PROVE Keeps(z)'
    OBVIOUS
  <2>1. CASE z \in calls /\ z # x
    <3>1. Keeps(z)
      BY <2>1 DEF Counted
    <3>2. z.stage \in PlacingStage => z.customer # c
      BY <1>2, <2>1, Stages
    <3>3. \A y \in calls' : y \in calls \/ y.customer = c
      BY <1>1, <1>3
    <3> QED BY <1>2, <3>1, <3>2, <3>3 DEF Keeps
  <2>2. CASE z = x
    <3>1. \A y \in calls' : y.stage \in PlacingStage /\ y.customer = c => y = x
      BY <1>1, <1>2, Stages
    <3>2. z.stage \notin NotingStage \cup {"saveOrder"} /\ z.stage \notin PatchStage
      BY <1>3, <2>2, Stages
    <3> QED BY <1>2, <1>3, <2>2, <3>1, <3>2 DEF Keeps
  <2> QED BY <1>1, <2>1, <2>2
<1>5. Promised' \subseteq Promised
  <2>1. ~Holds(x)
    BY <1>3 DEF Holds
  <2> QED BY <1>1, <1>2, <2>1 DEF Promised, Promotes, Holds
<1> QED BY <1>2, <1>4, <1>5, FewerPromised DEF Counted

\* The use of a promotion is counted with its customer.
LEMMA UsePromotionCounted ==
  ASSUME Typed, Counted, NEW call \in calls, UsePromotion(call)
  PROVE  Counted'
<1>1. call.stage = "usePromotion" /\ call.stage \in PlacingStage /\ call.customer \in Customer
  BY UsePromotionEffect DEF PlacingStage
<1>2. UNCHANGED <<catalogue, orders, rows, crashes>>
  BY UsePromotionEffect
<1>3. OrdersKept
  BY <1>2 DEF OrdersKept
<1>4. CASE usageCount' = usageCount /\ calls' = calls \ {call}
  BY <1>3, <1>4, CountedStays
<1>5. CASE /\ usageCount < Promotion.limit /\ usageCount' = usageCount + 1
           /\ \E y : /\ Becomes(call, y) /\ CallOK(y) /\ y.stage = "saveNew"
                     /\ y.customer = call.customer /\ y.rows = call.rows
                     /\ y.promotion = call.promotion
  <2>1. PICK y : /\ Becomes(call, y) /\ CallOK(y) /\ y.stage = "saveNew"
                 /\ y.customer = call.customer
    BY <1>5
  <2>2. PICK c : c = call.customer
    OBVIOUS
  <2>3. /\ calls' = (calls \ {call}) \cup {y} /\ y.stage \in PlacingStage
        /\ y.stage \notin NotingStage \cup {"saveOrder"} /\ y.stage \notin PatchStage
    BY <2>1, Stages DEF Becomes
  <2>4. /\ orders[c] = NoOrder
        /\ \A z \in calls : z.stage \in PlacingStage /\ z.customer = c => z = call
    BY <1>1, <2>2 DEF Counted, Keeps
  <2>5. \A z \in calls' : Keeps(z)'
    <3> SUFFICES ASSUME NEW z \in calls' PROVE Keeps(z)'
      OBVIOUS
    <3>1. CASE z = y
      <4>1. \A w \in calls' : w.stage \in PlacingStage /\ w.customer = c => w = y
        BY <2>3, <2>4
      <4> QED BY <1>2, <2>1, <2>2, <2>3, <2>4, <3>1, <4>1 DEF Keeps
    <3>2. CASE z \in calls /\ z # call /\ z # y
      <4>1. Keeps(z) /\ (z.stage \in PlacingStage => z.customer # c)
        BY <2>4, <3>2 DEF Counted
      <4>2. \A w \in calls' : w \in calls \/ w.customer = c
        BY <2>1, <2>2, <2>3
      <4> QED BY <1>2, <4>1, <4>2 DEF Keeps
    <3> QED BY <2>3, <3>1, <3>2
  <2>6. PICK S, T : S = Promised /\ T = Promised'
    OBVIOUS
  <2>7. T \subseteq S \cup {c}
    <3> SUFFICES ASSUME NEW d \in T, d # c PROVE d \in S
      OBVIOUS
    <3>1. /\ d \in Customer \ OldCustomer
          /\ Promotes(d)' \/ \E x \in calls' : Holds(x) /\ x.customer = d
      BY <2>6 DEF Promised, Holds
    <3>2. Promotes(d)' => Promotes(d)
      BY <1>2 DEF Promotes
    <3>3. \A x \in calls' : x.customer = d => x \in calls
      BY <2>1, <2>2, <2>3
    <3> QED BY <2>6, <3>1, <3>2, <3>3 DEF Promised
  <2>8. IsFiniteSet(S) /\ Cardinality(S) <= usageCount /\ usageCount \in Nat
    BY <2>6 DEF Counted, Typed
  <2>9. PICK U : U = S \cup {c}
    OBVIOUS
  <2>10. /\ IsFiniteSet(U) /\ Cardinality(U) <= Cardinality(S) + 1
         /\ Cardinality(S) \in Nat /\ Cardinality(U) \in Nat
    <3>1. Cardinality(S) \in Nat
      BY <2>8, FS_CardinalityType
    <3>2. /\ IsFiniteSet(U)
          /\ Cardinality(U) = IF c \in S THEN Cardinality(S) ELSE Cardinality(S) + 1
      BY <2>8, <2>9, FS_AddElement
    <3> QED BY <3>1, <3>2
  <2>11. /\ IsFiniteSet(T) /\ Cardinality(T) <= Cardinality(U) /\ Cardinality(T) \in Nat
    BY <2>7, <2>9, <2>10, FS_Subset, FS_CardinalityType
  <2>12. Cardinality(T) <= usageCount'
    BY <1>5, <2>8, <2>10, <2>11
  <2>13. usageCount' <= Promotion.limit
    BY <1>5, OrderingAssumption DEF Typed, PromotionRow
  <2> QED BY <2>5, <2>6, <2>11, <2>12, <2>13 DEF Counted
<1> QED BY <1>4, <1>5, UsePromotionEffect

\* The order is inserted with what its call held.
LEMMA SaveNewCounted ==
  ASSUME Typed, Counted, NEW call \in calls, SaveNew(call)
  PROVE  Counted'
<1>1. PICK c : c = call.customer
  OBVIOUS
<1>2. /\ call.stage = "saveNew" /\ c \in Customer /\ orders'[c] # NoOrder
      /\ orders'[c].promotion = call.promotion
      /\ \A d \in Customer : d # c => orders'[d] = orders[d]
      /\ calls' = calls \ {call} /\ usageCount' = usageCount
  BY <1>1, SaveNewEffect
<1>3. call.stage \in PlacingStage
  BY <1>2, Stages
<1>4. orders[c] = NoOrder /\ \A z \in calls' : z.stage \in PlacingStage => z.customer # c
  BY <1>1, <1>2, <1>3 DEF Counted, Keeps
<1>5. \A z \in calls' : Keeps(z)'
  <2> SUFFICES ASSUME NEW z \in calls' PROVE Keeps(z)'
    OBVIOUS
  <2>1. z \in calls /\ CallOK(z) /\ Keeps(z)
    BY <1>2 DEF Counted, Typed
  <2>2. ASSUME z.stage \in PlacingStage
        PROVE  /\ orders'[z.customer] = NoOrder
               /\ \A y \in calls' : y.stage \in PlacingStage /\ y.customer = z.customer => y = z
    BY <1>2, <1>4, <2>1, <2>2, CallCustomers DEF Keeps
  <2>3. ASSUME z.stage \in NotingStage \cup {"saveOrder"}
        PROVE  orders'[z.customer] # NoOrder /\ z.request.promotion = orders'[z.customer].promotion
    BY <1>2, <1>4, <2>1, <2>3, CallCustomers DEF Keeps
  <2>4. ASSUME z.stage \in PatchStage, NEW d \in DOMAIN z.requests
        PROVE  orders'[d] # NoOrder /\ z.requests[d].promotion = orders'[d].promotion
    BY <1>2, <1>4, <2>1, <2>4, CallCustomers DEF Keeps
  <2> QED BY <2>2, <2>3, <2>4 DEF Keeps
<1>6. Promised' \subseteq Promised
  <2> SUFFICES ASSUME NEW d \in Promised' PROVE d \in Promised
    OBVIOUS
  <2>1. /\ d \in Customer \ OldCustomer
        /\ Promotes(d)' \/ \E x \in calls' : Holds(x) /\ x.customer = d
    BY DEF Promised, Holds
  <2>2. d # c => (Promotes(d)' => Promotes(d))
    BY <1>2, <2>1 DEF Promotes
  <2>3. d = c => (Promotes(d)' => Holds(call))
    BY <1>2 DEF Promotes, Holds
  <2> QED BY <1>1, <1>2, <2>1, <2>2, <2>3 DEF Promised
<1> QED BY <1>2, <1>5, <1>6, FewerPromised DEF Counted

\* A step counts every promotion it gives.
LEMMA CountedStep ==
  ASSUME Typed, Counted, [Next]_vars
  PROVE  Counted'
<1>1. ASSUME UNCHANGED orders PROVE OrdersKept
  BY <1>1 DEF OrdersKept
<1>2. ASSUME NEW c \in Customer, NEW withPromotion \in BOOLEAN, NEW basket \in Baskets[c],
             Place(c, basket, withPromotion)
      PROVE  Counted'
  BY <1>2, PlaceCounted
<1>3. ASSUME NEW call \in calls, UsePromotion(call) PROVE Counted'
  BY <1>3, UsePromotionCounted
<1>4. ASSUME NEW call \in calls, SaveNew(call) PROVE Counted'
  BY <1>4, SaveNewCounted
<1>5. ASSUME NEW call \in calls, RefuseAppointment(call) PROVE Counted'
  BY <1>1, <1>5, CountedStays DEF RefuseAppointment, Ends
<1>6. ASSUME NEW c \in Customer, NEW p \in Package, NEW unit, SubmitNotes(c, p, unit)
      PROVE  Counted'
  <2>1. PICK x : /\ calls' = calls \cup {x} /\ CallOK(x)
                 /\ x.stage = "saveNotes" /\ x.customer = c /\ x.request = orders[c]
    BY <1>6, SubmitNotesEffect
  <2>2. orders[c] # NoOrder /\ UNCHANGED <<usageCount, orders>>
    BY <1>6, SubmitNotesEffect
  <2>3. x.stage \notin PlacingStage /\ x.stage \notin PatchStage
    BY <2>1, Stages
  <2>4. Carries(x)
    BY <2>1, <2>2, <2>3 DEF Carries, Keeps
  <2> QED BY <1>1, <2>1, <2>2, <2>4, CountedStays
<1>7. ASSUME NEW call \in calls, SaveNotes(call) PROVE Counted'
  <2>1. call.stage = "saveNotes" /\ UNCHANGED <<usageCount, orders>>
    BY <1>7, SaveNotesEffect
  <2>2. PICK y : /\ Becomes(call, y) /\ CallOK(y) /\ y.stage = "readRows"
                 /\ y.customer = call.customer /\ y.request = call.request
    BY <1>7, SaveNotesEffect
  <2>3. Keeps(call) /\ call.stage \in NotingStage
    BY <2>1, Stages DEF Counted
  <2>4. y.stage \notin PlacingStage /\ y.stage \notin PatchStage
    BY <2>2, Stages
  <2>5. Carries(y)
    BY <2>2, <2>3, <2>4 DEF Carries, Keeps
  <2> QED BY <1>1, <2>1, <2>2, <2>5, CountedStays DEF Becomes
<1>8. ASSUME NEW call \in calls, ReadRows(call) PROVE Counted'
  <2>1. /\ call.stage = "readRows" /\ call.customer \in Customer /\ call.request \in OrderRow
        /\ UNCHANGED <<usageCount, orders>>
    BY <1>8, ReadRowsEffect
  <2>2. PICK y : /\ Becomes(call, y) /\ CallOK(y) /\ y.stage = "saveOrder"
                 /\ y.customer = call.customer
                 /\ y.request = Revision(call.request, rows[call.customer])
    BY <1>8, ReadRowsEffect
  <2>3. Keeps(call) /\ call.stage \in NotingStage
    BY <2>1, Stages DEF Counted
  <2>4. y.request.promotion = call.request.promotion
    <3>1. RowsOK(rows[call.customer])
      BY <2>1 DEF Typed
    <3> QED BY <2>1, <2>2, <3>1, RevisionColumns
  <2>5. y.stage \notin PlacingStage /\ y.stage \notin PatchStage
    BY <2>2, Stages
  <2>6. Carries(y)
    BY <2>2, <2>3, <2>4, <2>5 DEF Carries, Keeps
  <2> QED BY <1>1, <2>1, <2>2, <2>6, CountedStays DEF Becomes
<1>9. ASSUME NEW call \in calls, SaveOrder(call) PROVE Counted'
  <2>1. PICK c : c = call.customer
    OBVIOUS
  <2>2. /\ call.stage = "saveOrder" /\ c \in Customer
        /\ orders'[c] = call.request /\ orders'[c] # NoOrder
        /\ \A d \in Customer : d # c => orders'[d] = orders[d]
        /\ calls' = calls \ {call} /\ UNCHANGED <<usageCount>>
    BY <1>9, <2>1, SaveOrderEffect
  <2>3. orders[c] # NoOrder /\ call.request.promotion = orders[c].promotion
    BY <2>1, <2>2 DEF Counted, Keeps
  <2>4. OrdersKept
    BY <2>2, <2>3 DEF OrdersKept
  <2> QED BY <2>2, <2>4, CountedStays
<1>10. ASSUME NEW c \in Customer, Fulfil(c) PROVE Counted'
  <2>1. OrdersKept /\ UNCHANGED <<usageCount, calls>>
    BY <1>10, FulfilEffect DEF OrdersKept
  <2> QED BY <2>1, CountedStays
<1>11. ASSUME StartSelangor PROVE Counted'
  <2>1. PICK x : /\ calls' = calls \cup {x} /\ CallOK(x) /\ x.stage = "reprice"
                 /\ \A c \in DOMAIN x.requests : orders[c] # NoOrder /\ x.requests[c] = orders[c]
    BY <1>11, StartSelangorEffect
  <2>2. UNCHANGED <<usageCount, orders>>
    BY <1>11, StartSelangorEffect
  <2>3. x.stage \notin PlacingStage /\ x.stage \notin NotingStage \cup {"saveOrder"}
    BY <2>1, Stages
  <2>4. Carries(x)
    BY <2>1, <2>3 DEF Carries, Keeps
  <2> QED BY <1>1, <2>1, <2>2, <2>4, CountedStays
<1>12. ASSUME StartPromotions PROVE Counted'
  <2>1. PICK x : /\ calls' = calls \cup {x} /\ CallOK(x) /\ x.stage = "resetOrders"
                 /\ \A c \in DOMAIN x.requests : orders[c] # NoOrder /\ x.requests[c] = orders[c]
    BY <1>12, StartPromotionsEffect
  <2>2. UNCHANGED <<usageCount, orders>>
    BY <1>12, StartPromotionsEffect
  <2>3. x.stage \notin PlacingStage /\ x.stage \notin NotingStage \cup {"saveOrder"}
    BY <2>1, Stages
  <2>4. Carries(x)
    BY <2>1, <2>3 DEF Carries, Keeps
  <2> QED BY <1>1, <2>1, <2>2, <2>4, CountedStays
<1>13. ASSUME NEW call \in calls, NEW c \in Customer, NEW p \in Package, Reprice(call, c, p)
       PROVE  Counted'
  <2>1. call.stage = "reprice" /\ UNCHANGED <<usageCount, orders>>
    BY <1>13, RepriceEffect
  <2>2. \/ calls' = calls \ {call}
        \/ \E y : /\ Becomes(call, y) /\ CallOK(y) /\ y.stage = "reprice"
                  /\ y.requests = call.requests
    BY <1>13, RepriceEffect
  <2>3. Keeps(call) /\ call.stage \in PatchStage
    BY <2>1, Stages DEF Counted
  <2>4. \A z \in calls' : z \in calls \/ Carries(z)
    BY <2>2, <2>3, Stages DEF Becomes, Carries, Keeps
  <2> QED BY <1>1, <2>1, <2>4, CountedStays
<1>14. ASSUME NEW call \in calls, Repriced(call) PROVE Counted'
  <2>1. call.stage = "reprice" /\ UNCHANGED <<usageCount, orders>>
    BY <1>14, RepricedEffect
  <2>2. \E y : /\ Becomes(call, y) /\ CallOK(y) /\ y.stage = "reviseRows"
               /\ y.requests = call.requests
    BY <1>14, RepricedEffect
  <2>3. Keeps(call) /\ call.stage \in PatchStage
    BY <2>1, Stages DEF Counted
  <2>4. \A z \in calls' : z \in calls \/ Carries(z)
    BY <2>2, <2>3, Stages DEF Becomes, Carries, Keeps
  <2> QED BY <1>1, <2>1, <2>4, CountedStays
<1>15. ASSUME NEW call \in calls, NEW c \in Customer, ReviseRows(call, c) PROVE Counted'
  <2>1. /\ call.stage = "reviseRows" /\ c \in DOMAIN call.requests
        /\ call.requests[c] \in OrderRow /\ UNCHANGED <<usageCount, orders>>
    BY <1>15, ReviseRowsEffect
  <2>2. PICK y : /\ Becomes(call, y) /\ CallOK(y) /\ y.stage = "reviseOrder"
                 /\ DOMAIN y.requests = DOMAIN call.requests
                 /\ y.requests[c] = Revision(call.requests[c], rows[c])
                 /\ \A d \in DOMAIN call.requests : d # c => y.requests[d] = call.requests[d]
    BY <1>15, ReviseRowsEffect
  <2>3. Keeps(call) /\ call.stage \in PatchStage /\ y.stage \in PatchStage
    BY <2>1, <2>2, Stages DEF Counted
  <2>4. y.requests[c].promotion = call.requests[c].promotion
    BY <2>1, <2>2, RevisionColumns DEF Typed
  <2>5. \A d \in DOMAIN y.requests :
          orders[d] # NoOrder /\ y.requests[d].promotion = orders[d].promotion
    BY <2>2, <2>3, <2>4 DEF Keeps
  <2>6. Carries(y)
    BY <2>2, <2>3, <2>5, Stages DEF Carries, Keeps
  <2> QED BY <1>1, <2>1, <2>2, <2>6, CountedStays DEF Becomes
<1>16. ASSUME NEW call \in calls, ReviseOrder(call) PROVE Counted'
  <2>1. PICK c : c = call.customer
    OBVIOUS
  <2>2. /\ call.stage = "reviseOrder" /\ c \in Customer /\ c \in DOMAIN call.requests
        /\ orders'[c] = call.requests[c] /\ orders'[c] # NoOrder
        /\ \A d \in Customer : d # c => orders'[d] = orders[d]
        /\ UNCHANGED <<usageCount>>
    BY <1>16, <2>1, ReviseOrderEffect
  <2>3. \/ calls' = calls \ {call}
        \/ \E y : /\ Becomes(call, y) /\ CallOK(y) /\ y.stage = "reviseRows"
                  /\ y.requests = call.requests
    BY <1>16, ReviseOrderEffect
  <2>4. Keeps(call) /\ call.stage \in PatchStage
    BY <2>2, Stages DEF Counted
  <2>5. OrdersKept
    BY <2>2, <2>4 DEF OrdersKept, Keeps
  <2>6. \A z \in calls' : z \in calls \/ Carries(z)
    BY <2>3, <2>4, Stages DEF Becomes, Carries, Keeps
  <2> QED BY <2>2, <2>5, <2>6, CountedStays
<1>17. ASSUME NEW call \in calls, NEW c \in Customer, ResetOrder(call, c) PROVE Counted'
  <2>1. /\ call.stage = "resetOrders" /\ c \in DOMAIN call.requests
        /\ call.requests[c] \in OrderRow /\ RowsOK(call.rows[c])
        /\ orders'[c] \in {orders[c], Revision(call.requests[c], call.rows[c])}
        /\ \A d \in Customer : d # c => orders'[d] = orders[d]
        /\ UNCHANGED <<usageCount>>
    BY <1>17, ResetOrderEffect
  <2>2. \/ calls' = calls \ {call}
        \/ \E y : /\ Becomes(call, y) /\ CallOK(y) /\ y.stage = "resetOrders"
                  /\ y.requests = call.requests
    BY <1>17, ResetOrderEffect
  <2>3. Keeps(call) /\ call.stage \in PatchStage
    BY <2>1, Stages DEF Counted
  <2>4. PICK o : o = Revision(call.requests[c], call.rows[c])
    OBVIOUS
  <2>5. o # NoOrder /\ o.promotion = call.requests[c].promotion
    BY <2>1, <2>4, RevisionColumns
  <2>6. OrdersKept
    BY <2>1, <2>3, <2>4, <2>5 DEF OrdersKept, Keeps
  <2>7. \A z \in calls' : z \in calls \/ Carries(z)
    BY <2>2, <2>3, Stages DEF Becomes, Carries, Keeps
  <2> QED BY <2>1, <2>6, <2>7, CountedStays
<1>18. ASSUME UpdateCatalogue PROVE Counted'
  BY <1>1, <1>18, CountedStays DEF UpdateCatalogue
<1>19. ASSUME Crash PROVE Counted'
  BY <1>1, <1>19, CountedStays DEF Crash
<1>20. ASSUME UNCHANGED vars PROVE Counted'
  BY <1>1, <1>20, CountedStays DEF vars
<1> QED
  BY <1>2, <1>3, <1>4, <1>5, <1>6, <1>7, <1>8, <1>9, <1>10, <1>11, <1>12, <1>13,
     <1>14, <1>15, <1>16, <1>17, <1>18, <1>19, <1>20
  DEF Next, Placing, Working, Patching

\* The promotions of the orders placed are counted, at every state.
LEMMA AlwaysCounted == Spec => [](Typed /\ Counted)
<1>1. Init => Typed /\ Counted
  <2> SUFFICES ASSUME Init PROVE Typed /\ Counted
    OBVIOUS
  <2>1. /\ Typed /\ usageCount = 0 /\ calls = {}
        /\ \A c \in Customer \ OldCustomer : orders[c] = NoOrder
    BY AtFirst
  <2>2. Promised = {}
    BY <2>1 DEF Promised, Promotes
  <2>3. IsFiniteSet(Promised) /\ Cardinality(Promised) = 0
    BY <2>2, FS_EmptySet
  <2>4. Promotion.limit \in Nat
    BY OrderingAssumption DEF PromotionRow
  <2> QED BY <2>1, <2>3, <2>4 DEF Counted
<1>2. Typed /\ Counted /\ [Next]_vars => (Typed /\ Counted)'
  BY TypedStep, CountedStep
<1> QED BY <1>1, <1>2, PTL DEF Spec

\* However many orders look a code up before the first of them commits, the orders that
\* have the promotion are counted, and never more than it is limited to: the increment
\* asks for the limit again, in the same statement, before the order is inserted.
THEOREM PromotionsAreCounted == Spec => []PromotionIsCounted
<1>1. Typed /\ Counted => PromotionIsCounted
  <2> SUFFICES ASSUME Typed, Counted PROVE PromotionIsCounted
    OBVIOUS
  <2>1. PICK S, T : /\ S = {c \in Ordered \ OldCustomer : orders[c].promotion > 0}
                    /\ T = Promised
    OBVIOUS
  <2>2. S \subseteq T /\ IsFiniteSet(T) /\ Cardinality(T) <= usageCount
    BY <2>1 DEF Ordered, Promised, Promotes, Counted
  <2>3. /\ IsFiniteSet(S) /\ Cardinality(S) <= Cardinality(T)
        /\ Cardinality(S) \in Nat /\ Cardinality(T) \in Nat
    BY <2>2, FS_Subset, FS_CardinalityType
  <2> QED BY <2>1, <2>2, <2>3 DEF PromotionIsCounted, Counted, Typed
<1> QED BY <1>1, AlwaysCounted, PTL

------------------------------------------------------------------------------
(* One call at a time                                                         *)

\* Calls that end, or that place orders, leave the others apart.
LEMMA ApartStays ==
  ASSUME Apart, \A z \in calls' : z \in calls \/ z.stage \notin WorkStage
  PROVE  Apart'
BY DEF Apart

\* A call that goes on is where it was.
LEMMA ApartGoesOn ==
  ASSUME Apart, NEW x \in calls, NEW y, Becomes(x, y), x.stage \in WorkStage,
         x.stage \in PatchStage <=> y.stage \in PatchStage,
         x.stage \notin PatchStage => y.customer = x.customer
  PROVE  Apart'
BY DEF Apart, Becomes

\* Work begins at an order nobody works at.
LEMMA ApartAtWork ==
  ASSUME Apart, NEW c, ~Racing, MayWork(c), NEW x, calls' = calls \cup {x},
         x.stage \notin PatchStage, x.customer = c
  PROVE  Apart'
BY DEF Apart, MayWork, Engaged

\* A patch begins when only orders are being placed.
LEMMA ApartPatching ==
  ASSUME Apart, NEW x, calls' = calls \cup {x}, \A z \in calls : z.stage \in PlacingStage
  PROVE  Apart'
BY Stages DEF Apart

\* What a call has read of other orders is as it was.
LEMMA FreshElsewhere ==
  ASSUME Typed, NEW z, CallOK(z), Fresh(z), NEW c, OnlyAt(c),
         z.stage \in NotingStage \cup {"saveOrder"} => z.customer # c,
         z.stage \in PatchStage => c \notin DOMAIN z.requests
  PROVE  Fresh(z)'
<1>1. ASSUME z.stage \in NotingStage \cup {"saveOrder"}
      PROVE  Fresh(z)'
  <2>1. z.customer \in Customer /\ z.customer # c
    BY <1>1, CallCustomers
  <2>2. orders'[z.customer] = orders[z.customer] /\ rows'[z.customer] = rows[z.customer]
    BY <2>1 DEF OnlyAt
  <2>3. z.stage \notin PatchStage
    BY <1>1, Stages
  <2> QED BY <1>1, <2>2, <2>3, Stages DEF Fresh, Revises
<1>2. ASSUME z.stage \in PatchStage PROVE Fresh(z)'
  <2>1. \A d \in DOMAIN z.requests : orders'[d] = orders[d] /\ rows'[d] = rows[d]
    BY <1>2, CallCustomers DEF OnlyAt
  <2>2. z.stage \notin NotingStage /\ z.stage # "saveOrder" /\ z.stage # "saveNotes"
    BY <1>2, Stages
  <2>3. CASE z.stage = "reprice"
    <3>1. \A t \in z.left : t[1] \in DOMAIN z.requests
      BY <2>3, CallColumns
    <3> QED BY <2>1, <2>2, <2>3, <3>1 DEF Fresh
  <2>4. CASE z.stage \in {"reviseRows", "reviseOrder"}
    <3>1. /\ z.left \subseteq DOMAIN z.requests
          /\ z.stage = "reviseOrder" => z.customer \in DOMAIN z.requests
      BY <2>4, CallColumns
    <3> QED BY <2>1, <2>2, <2>4, <3>1 DEF Fresh, Revises
  <2>5. CASE z.stage = "resetOrders"
    <3>1. z.left \subseteq DOMAIN z.requests
      BY <2>5, CallColumns
    <3> QED BY <2>1, <2>2, <2>5, <3>1 DEF Fresh
  <2> QED BY <1>2, <2>3, <2>4, <2>5, Stages
<1>3. ASSUME z.stage \in PlacingStage PROVE Fresh(z)'
  <2>1. /\ z.stage \notin NotingStage \cup {"saveOrder", "saveNotes"}
        /\ z.stage \notin {"reprice", "reviseRows", "reviseOrder", "resetOrders"}
    BY <1>3, Stages
  <2> QED BY <2>1 DEF Fresh
<1>4. z.stage \in PlacingStage \cup NotingStage \cup {"saveOrder"} \cup PatchStage
  BY CallColumns DEF Stage, PlacingStage, NotingStage, PatchStage
<1> QED BY <1>1, <1>2, <1>3, <1>4

\* Nothing that calls have read has changed.
LEMMA FreshStays ==
  ASSUME UNCHANGED <<orders, rows>>, NEW z, Fresh(z)
  PROVE  Fresh(z)'
BY DEF Fresh, Revises

\* A call works at c alone: what the others have read is as it was.
LEMMA FreshOthers ==
  ASSUME Typed, Orderly, NEW x \in calls, x.stage \in WorkStage, NEW c, OnlyAt(c),
         x.stage \notin PatchStage => x.customer = c,
         NEW z \in calls, z # x
  PROVE  Fresh(z)'
<1>1. z.stage \in WorkStage =>
        z.stage \notin PatchStage /\ x.stage \notin PatchStage /\ z.customer # x.customer
  BY DEF Orderly, Apart
<1>2. CallOK(z) /\ Fresh(z)
  BY DEF Typed, Orderly
<1>3. z.stage \in NotingStage \cup {"saveOrder"} => z.customer # c
  BY <1>1, Stages
<1>4. z.stage \notin PatchStage
  BY <1>1, Stages
<1> QED BY <1>2, <1>3, <1>4, FreshElsewhere

\* Calls are apart, and what they have read holds.
Current == Apart /\ \A z \in calls : Fresh(z)

\* A technician's call goes on or ends.
LEMMA WorkIsCurrent ==
  ASSUME Typed, Counted, Orderly, NEW call \in calls,
         \/ SaveNotes(call) \/ ReadRows(call) \/ SaveOrder(call)
  PROVE  Current'
<1>1. Fresh(call) /\ Keeps(call) /\ Apart /\ \A z \in calls : Fresh(z)
  BY DEF Orderly
<1>2. PICK c : c = call.customer
  OBVIOUS
<1>3. CASE SaveNotes(call)
  <2>1. /\ call.stage = "saveNotes" /\ c \in Customer
        /\ \A d \in Customer : d # c => rows'[d] = rows[d]
        /\ DOMAIN rows'[c] = DOMAIN rows[c] /\ UNCHANGED orders
    BY <1>2, <1>3, SaveNotesEffect
  <2>2. PICK y : /\ Becomes(call, y) /\ y.stage = "readRows"
                 /\ y.customer = c /\ y.package = call.package /\ y.request = call.request
    BY <1>2, <1>3, SaveNotesEffect
  <2>3. OnlyAt(c) /\ call.stage \in WorkStage /\ call.stage \notin PatchStage
    BY <2>1, Stages DEF OnlyAt
  <2>4. \A z \in calls : z # call => Fresh(z)'
    BY <1>2, <2>3, FreshOthers
  <2>5. call.package \in DOMAIN rows[c] /\ call.request = orders[c]
    BY <1>1, <1>2, <2>1, Stages DEF Fresh
  <2>6. y.package \in DOMAIN rows'[y.customer] /\ y.request = orders'[y.customer]
    BY <2>1, <2>2, <2>5
  <2>7. Fresh(y)'
    BY <2>2, <2>6 DEF Fresh
  <2>8. Apart'
    BY <1>1, <1>2, <2>2, <2>3, ApartGoesOn, Stages
  <2> QED BY <2>2, <2>4, <2>7, <2>8 DEF Current, Becomes
<1>4. CASE ReadRows(call)
  <2>1. /\ call.stage = "readRows" /\ c \in Customer /\ call.request \in OrderRow
        /\ UNCHANGED <<orders, rows>>
    BY <1>2, <1>4, ReadRowsEffect
  <2>2. PICK y : /\ Becomes(call, y) /\ y.stage = "saveOrder" /\ y.customer = c
                 /\ y.request = Revision(call.request, rows[c])
    BY <1>2, <1>4, ReadRowsEffect
  <2>3. call.stage \in WorkStage /\ call.stage \notin PatchStage
    BY <2>1, Stages
  <2>4. call.request = orders[c]
    BY <1>1, <1>2, <2>1, Stages DEF Fresh
  <2>5. Revises(y.request, c)
    BY <2>1, <2>2, <2>4, RevisionColumns DEF Revises, Typed
  <2>6. Revises(y.request, y.customer)'
    BY <2>1, <2>2, <2>5 DEF Revises
  <2>7. Fresh(y)'
    BY <2>2, <2>6, Stages DEF Fresh
  <2>8. Apart'
    BY <1>1, <1>2, <2>2, <2>3, ApartGoesOn, Stages
  <2> QED BY <1>1, <2>1, <2>2, <2>7, <2>8, FreshStays DEF Current, Becomes
<1>5. CASE SaveOrder(call)
  <2>1. /\ call.stage = "saveOrder" /\ c \in Customer
        /\ \A d \in Customer : d # c => orders'[d] = orders[d]
        /\ calls' = calls \ {call} /\ UNCHANGED rows
    BY <1>2, <1>5, SaveOrderEffect
  <2>2. OnlyAt(c) /\ call.stage \in WorkStage /\ call.stage \notin PatchStage
    BY <2>1, Stages DEF OnlyAt
  <2>3. \A z \in calls : z # call => Fresh(z)'
    BY <1>2, <2>2, FreshOthers
  <2>4. Apart'
    BY <1>1, <2>1, ApartStays
  <2> QED BY <2>1, <2>3, <2>4 DEF Current
<1> QED BY <1>3, <1>4, <1>5

\* The first patch goes on or ends.
LEMMA RepricingIsCurrent ==
  ASSUME Typed, Counted, Orderly, NEW call \in calls,
         \/ \E c \in Customer, p \in Package : Reprice(call, c, p)
         \/ Repriced(call)
  PROVE  Current'
<1>1. Fresh(call) /\ Apart /\ \A z \in calls : Fresh(z)
  BY DEF Orderly
<1>2. ASSUME NEW c \in Customer, NEW p \in Package, Reprice(call, c, p) PROVE Current'
  <2>1. /\ call.stage = "reprice" /\ OnlyAt(c)
        /\ DOMAIN rows'[c] = DOMAIN rows[c] /\ UNCHANGED orders
    BY <1>2, RepriceEffect
  <2>2. \/ calls' = calls \ {call}
        \/ \E y : /\ Becomes(call, y) /\ CallOK(y) /\ y.stage = "reprice"
                  /\ y.requests = call.requests /\ y.left \subseteq call.left
    BY <1>2, RepriceEffect
  <2>3. OnlyAt(c) /\ call.stage \in WorkStage /\ call.stage \in PatchStage
    BY <2>1, Stages
  <2>4. \A z \in calls : z # call => Fresh(z)'
    BY <2>3, FreshOthers
  <2>5. CASE calls' = calls \ {call}
    BY <1>1, <2>4, <2>5, ApartStays DEF Current
  <2>6. ASSUME NEW y, Becomes(call, y), CallOK(y), y.stage = "reprice",
               y.requests = call.requests, y.left \subseteq call.left
        PROVE  Current'
    <3>1. \A d \in DOMAIN y.requests : y.requests[d] = orders'[d]
      BY <1>1, <2>1, <2>6 DEF Fresh
    <3>2. \A t \in y.left : t[1] \in Customer
      BY <2>6, CallColumns DEF RequestsOK
    <3>3. \A d \in Customer : DOMAIN rows'[d] = DOMAIN rows[d]
      BY <2>1 DEF OnlyAt
    <3>4. \A t \in y.left : t[2] \in DOMAIN rows'[t[1]]
      BY <1>1, <2>1, <2>6, <3>2, <3>3 DEF Fresh
    <3>5. Fresh(y)'
      BY <2>6, <3>1, <3>4 DEF Fresh, NotingStage
    <3>6. Apart'
      BY <1>1, <2>3, <2>6, ApartGoesOn, Stages
    <3> QED BY <2>4, <2>6, <3>5, <3>6 DEF Current, Becomes
  <2> QED BY <2>2, <2>5, <2>6
<1>3. ASSUME Repriced(call) PROVE Current'
  <2>1. call.stage = "reprice" /\ UNCHANGED <<orders, rows>>
    BY <1>3, RepricedEffect
  <2>2. PICK y : /\ Becomes(call, y) /\ y.stage = "reviseRows"
                 /\ y.requests = call.requests /\ y.left = DOMAIN call.requests
    BY <1>3, RepricedEffect
  <2>3. call.stage \in WorkStage /\ call.stage \in PatchStage /\ y.stage \in PatchStage
    BY <2>1, <2>2, Stages
  <2>4. \A d \in y.left : y.requests[d] = orders'[d]
    BY <1>1, <2>1, <2>2 DEF Fresh
  <2>5. Fresh(y)'
    BY <2>2, <2>4 DEF Fresh, NotingStage
  <2>6. Apart'
    BY <1>1, <2>2, <2>3, ApartGoesOn
  <2> QED BY <1>1, <2>1, <2>2, <2>5, <2>6, FreshStays DEF Current, Becomes
<1> QED BY <1>2, <1>3

\* Bundling rows changes no note.
LEMMA BundledComplete ==
  ASSUME NEW r, RowsOK(r)
  PROVE  Complete(Bundled(r)) = Complete(r)
<1>1. PICK b : b = Bundled(r)
  OBVIOUS
<1>2. BundledRows(r, b)
  BY <1>1, BundledType
<1>3. DOMAIN b = DOMAIN r /\ \A p \in DOMAIN r : Completed(b[p]) = Completed(r[p])
  BY <1>2 DEF BundledRows, Completed
<1>4. Complete(b) = Complete(r)
  BY <1>3 DEF Complete
<1> QED BY <1>1, <1>4

\* The first patch revises an order, or saves it.
LEMMA RevisingIsCurrent ==
  ASSUME Typed, Counted, Orderly, NEW call \in calls,
         \/ \E c \in Customer : ReviseRows(call, c)
         \/ ReviseOrder(call)
  PROVE  Current'
<1>1. Fresh(call) /\ Apart /\ \A z \in calls : Fresh(z)
  BY DEF Orderly
<1>2. ASSUME NEW c \in Customer, ReviseRows(call, c) PROVE Current'
  <2>1. /\ call.stage = "reviseRows" /\ c \in call.left /\ call.requests[c] \in OrderRow
        /\ \A d \in Customer : d # c => rows'[d] = rows[d]
        /\ rows'[c] = Bundled(rows[c]) /\ UNCHANGED orders
    BY <1>2, ReviseRowsEffect
  <2>2. PICK y : /\ Becomes(call, y) /\ CallOK(y) /\ y.stage = "reviseOrder"
                 /\ y.customer = c /\ y.left = call.left \ {c}
                 /\ DOMAIN y.requests = DOMAIN call.requests
                 /\ y.requests[c] = Revision(call.requests[c], rows[c])
                 /\ \A d \in DOMAIN call.requests : d # c => y.requests[d] = call.requests[d]
    BY <1>2, ReviseRowsEffect
  <2>3. /\ OnlyAt(c) /\ call.stage \in WorkStage /\ call.stage \in PatchStage
        /\ y.stage \in PatchStage
    BY <2>1, <2>2, Stages DEF OnlyAt
  <2>4. \A z \in calls : z # call => Fresh(z)'
    BY <2>3, FreshOthers
  <2>5. \A d \in call.left : call.requests[d] = orders[d]
    BY <1>1, <2>1 DEF Fresh
  <2>6. y.left \subseteq DOMAIN y.requests
    BY <2>2, CallColumns
  <2>7. \A d \in y.left : y.requests[d] = orders'[d]
    BY <2>1, <2>2, <2>5, <2>6
  <2>8. RowsOK(rows[c])
    BY DEF Typed
  <2>9. Cost(rows'[c]) = Cost(rows[c]) /\ Complete(rows'[c]) = Complete(rows[c])
    BY <2>1, <2>8, BundledAddsUp, BundledComplete
  <2>10. PICK o, r : o = call.requests[c] /\ r = rows[c]
    OBVIOUS
  <2>11. /\ y.requests[c].total = Cost(r) - o.promotion
         /\ y.requests[c].promotion = o.promotion
         /\ y.requests[c].completed = Complete(r) /\ y.requests[c].fulfilled = o.fulfilled
    BY <2>1, <2>2, <2>8, <2>10, RevisionColumns
  <2>12. o = orders'[c]
    BY <2>1, <2>5, <2>10
  <2>13. Revises(y.requests[y.customer], y.customer)'
    BY <2>2, <2>9, <2>10, <2>11, <2>12 DEF Revises
  <2>14. Fresh(y)'
    BY <2>2, <2>7, <2>13 DEF Fresh, NotingStage
  <2>15. Apart'
    BY <1>1, <2>2, <2>3, ApartGoesOn
  <2> QED BY <2>2, <2>4, <2>14, <2>15 DEF Current, Becomes
<1>3. ASSUME ReviseOrder(call) PROVE Current'
  <2>1. PICK c : c = call.customer
    OBVIOUS
  <2>2. /\ call.stage = "reviseOrder" /\ c \in Customer /\ c \notin call.left
        /\ \A d \in Customer : d # c => orders'[d] = orders[d]
        /\ UNCHANGED rows
    BY <1>3, <2>1, ReviseOrderEffect
  <2>3. \/ calls' = calls \ {call}
        \/ \E y : /\ Becomes(call, y) /\ CallOK(y) /\ y.stage = "reviseRows"
                  /\ y.requests = call.requests /\ y.left = call.left
    BY <1>3, ReviseOrderEffect
  <2>4. OnlyAt(c) /\ call.stage \in WorkStage /\ call.stage \in PatchStage
    BY <2>2, Stages DEF OnlyAt
  <2>5. \A z \in calls : z # call => Fresh(z)'
    BY <2>4, FreshOthers
  <2>6. CASE calls' = calls \ {call}
    BY <1>1, <2>5, <2>6, ApartStays DEF Current
  <2>7. ASSUME NEW y, Becomes(call, y), CallOK(y), y.stage = "reviseRows",
               y.requests = call.requests, y.left = call.left
        PROVE  Current'
    <3>1. \A d \in y.left : d \in Customer
      BY <2>7, CallColumns DEF RequestsOK
    <3>2. \A d \in y.left : y.requests[d] = orders'[d]
      BY <1>1, <2>2, <2>7, <3>1 DEF Fresh
    <3>3. Fresh(y)'
      BY <2>7, <3>2 DEF Fresh, NotingStage
    <3>4. Apart'
      BY <1>1, <2>4, <2>7, ApartGoesOn, Stages
    <3> QED BY <2>5, <2>7, <3>3, <3>4 DEF Current, Becomes
  <2> QED BY <2>3, <2>6, <2>7
<1> QED BY <1>2, <1>3

\* The second patch resets an order.
LEMMA ResettingIsCurrent ==
  ASSUME Typed, Counted, Orderly, NEW call \in calls, NEW c \in Customer, ResetOrder(call, c)
  PROVE  Current'
<1>1. Fresh(call) /\ Apart /\ \A z \in calls : Fresh(z)
  BY DEF Orderly
<1>2. /\ call.stage = "resetOrders"
      /\ \A d \in Customer : d # c => orders'[d] = orders[d]
      /\ UNCHANGED rows
  BY ResetOrderEffect
<1>3. \/ calls' = calls \ {call}
      \/ \E y : /\ Becomes(call, y) /\ CallOK(y) /\ y.stage = "resetOrders"
                /\ y.requests = call.requests /\ y.rows = call.rows
                /\ y.left = call.left \ {c}
  BY ResetOrderEffect
<1>4. OnlyAt(c) /\ call.stage \in WorkStage /\ call.stage \in PatchStage
  BY <1>2, Stages DEF OnlyAt
<1>5. \A z \in calls : z # call => Fresh(z)'
  BY <1>4, FreshOthers
<1>6. CASE calls' = calls \ {call}
  BY <1>1, <1>5, <1>6, ApartStays DEF Current
<1>7. ASSUME NEW y, Becomes(call, y), CallOK(y), y.stage = "resetOrders",
             y.requests = call.requests, y.rows = call.rows, y.left = call.left \ {c}
      PROVE  Current'
  <2>1. \A d \in y.left : d \in Customer /\ d \in call.left /\ d # c
    BY <1>7, CallColumns DEF RequestsOK
  <2>2. \A d \in y.left : y.requests[d] = orders'[d] /\ y.rows[d] = rows'[d]
    BY <1>1, <1>2, <1>7, <2>1 DEF Fresh
  <2>3. Fresh(y)'
    BY <1>7, <2>2 DEF Fresh, NotingStage
  <2>4. Apart'
    BY <1>1, <1>4, <1>7, ApartGoesOn, Stages
  <2> QED BY <1>5, <1>7, <2>3, <2>4 DEF Current, Becomes
<1> QED BY <1>3, <1>6, <1>7

\* Placing an order, nobody works at it.
LEMMA PlacingIsCurrent ==
  ASSUME Typed, Counted, Orderly,
         \/ \E c \in Customer, withPromotion \in BOOLEAN :
              \E basket \in Baskets[c] : Place(c, basket, withPromotion)
         \/ \E call \in calls : UsePromotion(call) \/ SaveNew(call) \/ RefuseAppointment(call)
  PROVE  Current'
<1>1. Apart /\ \A z \in calls : Fresh(z)
  BY DEF Orderly
<1>2. ASSUME NEW y, y.stage \in PlacingStage
      PROVE  Fresh(y)' /\ y.stage \notin WorkStage
  <2>1. /\ y.stage \notin NotingStage \cup {"saveOrder", "saveNotes"}
        /\ y.stage \notin {"reprice", "reviseRows", "reviseOrder", "resetOrders"}
        /\ y.stage \notin WorkStage
    BY <1>2, Stages
  <2> QED BY <2>1 DEF Fresh
<1>3. ASSUME NEW c \in Customer, NEW withPromotion \in BOOLEAN, NEW basket \in Baskets[c],
             Place(c, basket, withPromotion)
      PROVE  Current'
  <2>1. PICK x : Placed(x, c) /\ calls' = calls \cup {x}
    BY <1>3, PlaceEffect
  <2>2. UNCHANGED <<orders, rows>> /\ x.stage \in PlacingStage
    BY <1>3, <2>1 DEF Place, Placed
  <2>3. Apart'
    BY <1>1, <1>2, <2>1, <2>2, ApartStays
  <2> QED BY <1>1, <1>2, <2>1, <2>2, <2>3, FreshStays DEF Current
<1>4. ASSUME NEW call \in calls, UsePromotion(call) PROVE Current'
  <2>1. /\ UNCHANGED <<orders, rows>>
        /\ \/ calls' = calls \ {call}
           \/ \E y : Becomes(call, y) /\ y.stage = "saveNew"
    BY <1>4, UsePromotionEffect
  <2>2. \A z \in calls' : z \in calls \/ z.stage \in PlacingStage
    BY <2>1, Stages DEF Becomes
  <2>3. Apart'
    BY <1>1, <1>2, <2>2, ApartStays
  <2> QED BY <1>1, <1>2, <2>1, <2>2, <2>3, FreshStays DEF Current
<1>5. ASSUME NEW call \in calls, SaveNew(call) PROVE Current'
  <2>1. PICK c : c = call.customer
    OBVIOUS
  <2>2. /\ call.stage = "saveNew" /\ calls' = calls \ {call}
        /\ \A d \in Customer : d # c => orders'[d] = orders[d] /\ rows'[d] = rows[d]
    BY <1>5, <2>1, SaveNewEffect
  <2>3. OnlyAt(c) /\ orders[c] = NoOrder
    BY <2>1, <2>2, Stages DEF OnlyAt, Counted, Keeps
  <2>4. ASSUME NEW z \in calls PROVE Fresh(z)'
    <3>1. CallOK(z) /\ Keeps(z) /\ Fresh(z)
      BY <1>1 DEF Typed, Counted
    <3>2. z.stage \in NotingStage \cup {"saveOrder"} => z.customer # c
      BY <2>3, <3>1 DEF Keeps
    <3>3. z.stage \in PatchStage => c \notin DOMAIN z.requests
      BY <2>3, <3>1 DEF Keeps
    <3> QED BY <2>3, <3>1, <3>2, <3>3, FreshElsewhere
  <2>5. Apart'
    BY <1>1, <2>2, ApartStays
  <2> QED BY <2>2, <2>4, <2>5 DEF Current
<1>6. ASSUME NEW call \in calls, RefuseAppointment(call) PROVE Current'
  <2>1. calls' = calls \ {call} /\ UNCHANGED <<orders, rows>>
    BY <1>6 DEF RefuseAppointment, Ends
  <2> QED BY <1>1, <2>1, ApartStays, FreshStays DEF Current
<1> QED BY <1>3, <1>4, <1>5, <1>6

\* Work and patches begin when nobody is at work.
LEMMA BeginningIsCurrent ==
  ASSUME Typed, Counted, Orderly, ~Racing,
         \/ \E c \in Customer, p \in Package, unit \in Nat : SubmitNotes(c, p, unit)
         \/ \E c \in Customer : Fulfil(c)
         \/ StartSelangor \/ StartPromotions
  PROVE  Current'
<1>1. Apart /\ \A z \in calls : Fresh(z)
  BY DEF Orderly
<1>2. ASSUME NEW c \in Customer, NEW p \in Package, NEW unit \in Nat, SubmitNotes(c, p, unit)
      PROVE  Current'
  <2>1. PICK x : /\ calls' = calls \cup {x}
                 /\ x.stage = "saveNotes" /\ x.customer = c /\ x.package = p
                 /\ x.request = orders[c]
                 /\ x.row = [rows[c][p] EXCEPT !.report = @ \cup {unit}]
    BY <1>2, SubmitNotesEffect
  <2>2. /\ MayWork(c) /\ p \in DOMAIN rows[c] /\ unit \in Report(rows[c][p])
        /\ UNCHANGED <<orders, rows>>
    BY <1>2, SubmitNotesEffect
  <2>3. x.package \in DOMAIN rows'[x.customer] /\ x.request = orders'[x.customer]
    BY <2>1, <2>2
  <2>4. /\ unit \in Report(rows'[x.customer][x.package])
        /\ x.row = [rows'[x.customer][x.package] EXCEPT !.report = @ \cup {unit}]
    BY <2>1, <2>2
  <2>5. Fresh(x)'
    BY <2>1, <2>3, <2>4, Stages DEF Fresh
  <2>6. Apart'
    BY <1>1, <2>1, <2>2, ApartAtWork, Stages
  <2> QED BY <1>1, <2>1, <2>2, <2>5, <2>6, FreshStays DEF Current
<1>3. ASSUME NEW c \in Customer, Fulfil(c) PROVE Current'
  <2>1. /\ MayWork(c) /\ OnlyAt(c) /\ UNCHANGED calls
    BY <1>3, FulfilEffect DEF OnlyAt
  <2>2. ASSUME NEW z \in calls PROVE Fresh(z)'
    <3>1. z.customer # c /\ z.stage \notin PatchStage
      BY <2>1 DEF MayWork, Engaged
    <3> QED BY <1>1, <2>1, <3>1, FreshElsewhere DEF Typed
  <2>3. Apart'
    BY <1>1, <2>1, ApartStays
  <2> QED BY <2>1, <2>2, <2>3 DEF Current
<1>4. ASSUME StartSelangor PROVE Current'
  <2>1. PICK x : /\ calls' = calls \cup {x} /\ x.stage = "reprice"
                 /\ \A c \in DOMAIN x.requests : x.requests[c] = orders[c]
                 /\ \A t \in x.left : t[2] \in DOMAIN rows[t[1]]
    BY <1>4, StartSelangorEffect
  <2>2. (\A z \in calls : z.stage \in PlacingStage) /\ UNCHANGED <<orders, rows>>
    BY <1>4, StartSelangorEffect
  <2>3. Fresh(x)'
    BY <2>1, <2>2 DEF Fresh, NotingStage
  <2>4. Apart'
    BY <1>1, <2>1, <2>2, ApartPatching
  <2> QED BY <1>1, <2>1, <2>2, <2>3, <2>4, FreshStays DEF Current
<1>5. ASSUME StartPromotions PROVE Current'
  <2>1. PICK x : /\ calls' = calls \cup {x} /\ CallOK(x) /\ x.stage = "resetOrders"
                 /\ \A c \in DOMAIN x.requests : /\ x.requests[c] = orders[c]
                                                 /\ x.rows[c] = rows[c]
    BY <1>5, StartPromotionsEffect
  <2>2. (\A z \in calls : z.stage \in PlacingStage) /\ UNCHANGED <<orders, rows>>
    BY <1>5, StartPromotionsEffect
  <2>3. x.left \subseteq DOMAIN x.requests
    BY <2>1, CallColumns
  <2>4. Fresh(x)'
    BY <2>1, <2>2, <2>3 DEF Fresh, NotingStage
  <2>5. Apart'
    BY <1>1, <2>1, <2>2, ApartPatching
  <2> QED BY <1>1, <2>1, <2>2, <2>4, <2>5, FreshStays DEF Current
<1> QED BY <1>2, <1>3, <1>4, <1>5

\* Nothing is stale when one call waits for another.
LEMMA OrderlyStep ==
  ASSUME Typed, Counted, Orderly, ~Racing, [Next]_vars
  PROVE  Orderly'
<1>1. Counted'
  BY CountedStep
<1>2. ASSUME Placing PROVE Current'
  BY <1>2, PlacingIsCurrent DEF Placing
<1>3. ASSUME Working PROVE Current'
  <2>1. ASSUME NEW c \in Customer, NEW p \in Package,
               NEW unit \in 1..(IF p \in DOMAIN rows[c] THEN rows[c][p].quantity ELSE 0),
               SubmitNotes(c, p, unit)
        PROVE  Current'
    <3>1. unit \in Nat
      OBVIOUS
    <3> QED BY <2>1, <3>1, BeginningIsCurrent
  <2> QED BY <1>3, <2>1, BeginningIsCurrent, WorkIsCurrent DEF Working
<1>4. ASSUME Patching PROVE Current'
  BY <1>4, BeginningIsCurrent, RepricingIsCurrent, RevisingIsCurrent, ResettingIsCurrent
  DEF Patching
<1>5. ASSUME UNCHANGED <<orders, rows>>, calls' \subseteq calls PROVE Current'
  BY <1>5, ApartStays, FreshStays DEF Current, Orderly
<1>6. ASSUME UpdateCatalogue \/ Crash \/ UNCHANGED vars PROVE Current'
  BY <1>5, <1>6 DEF UpdateCatalogue, Crash, vars
<1>7. Current'
  BY <1>2, <1>3, <1>4, <1>6 DEF Next
<1> QED BY <1>1, <1>7 DEF Current, Counted, Orderly

------------------------------------------------------------------------------
(* Notes *)

\* A step elsewhere.
LEMMA NotedStays ==
  ASSUME NEW c, NotedAt(c), orders'[c] = orders[c], rows'[c] = rows[c],
         crashes' = 0 => crashes = 0,
         \/ crashes' # 0
         \/ \A x \in calls : Noting(x, c) => \E y \in calls' : Noting(y, c)
  PROVE  NotedAt(c)'
BY DEF NotedAt

\* The order says what its reports do.
LEMMA NotedNow ==
  ASSUME NEW c, \A p \in DOMAIN rows'[c] : rows'[c][p].quantity >= 1,
         orders'[c].completed = Complete(rows'[c]),
         orders'[c].fulfilled => Complete(rows'[c])
  PROVE  NotedAt(c)'
BY DEF NotedAt

\* Rows that differ in prices are complete together.
LEMMA CompleteTogether ==
  ASSUME NEW r, NEW s, DOMAIN s = DOMAIN r,
         \A p \in DOMAIN r : s[p].quantity = r[p].quantity /\ s[p].report = r[p].report
  PROVE  Complete(s) = Complete(r)
BY DEF Complete, Completed

\* An order is placed without a note.
LEMMA PlacingIsNoted ==
  ASSUME Typed, Orderly, Noted,
         \/ \E c \in Customer, withPromotion \in BOOLEAN :
              \E basket \in Baskets[c] : Place(c, basket, withPromotion)
         \/ \E call \in calls : UsePromotion(call) \/ SaveNew(call) \/ RefuseAppointment(call)
  PROVE  Noted'
<1>1. ASSUME NEW c \in Customer, NEW withPromotion \in BOOLEAN, NEW basket \in Baskets[c],
             Place(c, basket, withPromotion)
      PROVE  Noted'
  <2>1. PICK x : Placed(x, c) /\ calls' = calls \cup {x}
    BY <1>1, PlaceEffect
  <2>2. UNCHANGED <<orders, rows, crashes>>
    BY <1>1 DEF Place
  <2>3. Unnoted(x)
    BY <2>1 DEF Placed, Unnoted
  <2>4. \A d \in Customer : NotedAt(d)'
    BY <2>1, <2>2, NotedStays DEF Noted
  <2> QED BY <2>1, <2>3, <2>4 DEF Noted
<1>2. ASSUME NEW call \in calls, UsePromotion(call) PROVE Noted'
  <2>1. call.stage = "usePromotion" /\ UNCHANGED <<orders, rows, crashes>>
    BY <1>2, UsePromotionEffect
  <2>2. \/ calls' = calls \ {call}
        \/ \E y : Becomes(call, y) /\ y.stage = "saveNew" /\ y.rows = call.rows
    BY <1>2, UsePromotionEffect
  <2>3. call.stage \in PlacingStage /\ \A c : ~Noting(call, c)
    BY <2>1 DEF PlacingStage, NotingStage, Noting
  <2>4. \A z \in calls' : Unnoted(z)
    BY <2>2, <2>3 DEF Noted, Unnoted, Becomes
  <2>5. \A z \in calls : z # call => z \in calls'
    BY <2>2 DEF Becomes
  <2>6. \A d \in Customer : NotedAt(d)'
    BY <2>1, <2>3, <2>5, NotedStays DEF Noted
  <2> QED BY <2>4, <2>6 DEF Noted
<1>3. ASSUME NEW call \in calls, SaveNew(call) PROVE Noted'
  <2>1. PICK c, r : c = call.customer /\ r = call.rows
    OBVIOUS
  <2>2. /\ call.stage = "saveNew" /\ c \in Customer /\ calls' = calls \ {call}
        /\ UNCHANGED crashes
        /\ rows'[c] = Bundled(r) /\ orders'[c].completed = Complete(r)
        /\ orders'[c].fulfilled = FALSE
        /\ \A d \in Customer : d # c => orders'[d] = orders[d] /\ rows'[d] = rows[d]
    BY <1>3, <2>1, SaveNewEffect
  <2>3. call.stage \in PlacingStage /\ \A d : ~Noting(call, d)
    BY <2>2 DEF PlacingStage, NotingStage, Noting
  <2>4. RowsOK(r) /\ \A p \in DOMAIN r : r[p].quantity >= 1
    BY <2>1, <2>3, CallColumns DEF Typed, Noted, Unnoted
  <2>5. BundledRows(r, rows'[c]) /\ Complete(rows'[c]) = Complete(r)
    BY <2>2, <2>4, BundledType, BundledComplete
  <2>6. NotedAt(c)'
    BY <2>2, <2>4, <2>5, NotedNow DEF BundledRows
  <2>7. \A d \in Customer : d # c => NotedAt(d)'
    BY <2>2, <2>3, NotedStays DEF Noted
  <2> QED BY <2>2, <2>6, <2>7 DEF Noted
<1>4. ASSUME NEW call \in calls, RefuseAppointment(call) PROVE Noted'
  <2>1. /\ call.stage = "saveNew" /\ calls' = calls \ {call}
        /\ UNCHANGED <<orders, rows, crashes>>
    BY <1>4 DEF RefuseAppointment, Ends
  <2>2. \A d : ~Noting(call, d)
    BY <2>1 DEF NotingStage, Noting
  <2>3. \A d \in Customer : NotedAt(d)'
    BY <2>1, <2>2, NotedStays DEF Noted
  <2> QED BY <2>1, <2>3 DEF Noted
<1> QED BY <1>1, <1>2, <1>3, <1>4

\* A technician's note, from the row to the flag and to the job's end.
LEMMA WorkingIsNoted ==
  ASSUME Typed, Orderly, Noted,
         \/ \E c \in Customer, p \in Package, unit \in Nat : SubmitNotes(c, p, unit)
         \/ \E call \in calls : SaveNotes(call) \/ ReadRows(call) \/ SaveOrder(call)
         \/ \E c \in Customer : Fulfil(c)
  PROVE  Noted'
<1>1. ASSUME NEW c \in Customer, NEW p \in Package, NEW unit \in Nat, SubmitNotes(c, p, unit)
      PROVE  Noted'
  <2>1. PICK x : calls' = calls \cup {x} /\ x.stage = "saveNotes"
    BY <1>1, SubmitNotesEffect
  <2>2. UNCHANGED <<orders, rows, crashes>>
    BY <1>1, SubmitNotesEffect
  <2>3. Unnoted(x)
    BY <2>1 DEF Unnoted, PlacingStage
  <2>4. \A d \in Customer : NotedAt(d)'
    BY <2>1, <2>2, NotedStays DEF Noted
  <2> QED BY <2>1, <2>3, <2>4 DEF Noted
<1>2. ASSUME NEW call \in calls, SaveNotes(call) PROVE Noted'
  <2>1. PICK c, p, row : c = call.customer /\ p = call.package /\ row = call.row
    OBVIOUS
  <2>2. /\ call.stage = "saveNotes" /\ c \in Customer
        /\ \A d \in Customer : d # c => rows'[d] = rows[d]
        /\ DOMAIN rows'[c] = DOMAIN rows[c]
        /\ \A q \in DOMAIN rows[c] : rows'[c][q] = IF q = p THEN row ELSE rows[c][q]
        /\ UNCHANGED <<orders, crashes>>
    BY <1>2, <2>1, SaveNotesEffect
  <2>3. PICK y : Becomes(call, y) /\ y.stage = "readRows" /\ y.customer = c
    BY <1>2, <2>1, SaveNotesEffect
  <2>4. p \in DOMAIN rows[c] /\ call.stage \in NotingStage
    BY <2>1, <2>2, Stages DEF Orderly, Fresh
  <2>5. PICK old : old = rows[c][p]
    OBVIOUS
  <2>6. PICK unit \in Report(old) : row = [old EXCEPT !.report = @ \cup {unit}]
    BY <2>1, <2>2, <2>5 DEF Orderly, Fresh
  <2>7. old \in PackageRow
    BY <2>2, <2>4, <2>5 DEF Typed, RowsOK, RowOK
  <2>8. row.quantity = old.quantity /\ row.report = old.report \cup {unit}
    <3>1. old = [quantity |-> old.quantity, group |-> old.group,
                 groupQuantity |-> old.groupQuantity, snapshot |-> old.snapshot,
                 state |-> old.state, unitPrice |-> old.unitPrice, price |-> old.price,
                 providerUnitPrice |-> old.providerUnitPrice,
                 providerPrice |-> old.providerPrice, report |-> old.report]
      BY <2>7, RowColumns
    <3> QED BY <2>6, <3>1
  <2>9. Completed(old) => Completed(row)
    BY <2>6, <2>8 DEF Completed, Report
  <2>10. Complete(rows[c]) => Complete(rows'[c])
    BY <2>2, <2>5, <2>9 DEF Complete
  <2>11. Noting(y, c) /\ y \in calls'
    BY <2>3 DEF Noting, NotingStage, Becomes
  <2>12. NotedAt(c)'
    BY <2>2, <2>5, <2>8, <2>10, <2>11 DEF Noted, NotedAt
  <2>13. \A d \in Customer : d # c => NotedAt(d)'
    <3>1. \A z \in calls : z # call => z \in calls'
      BY <2>3 DEF Becomes
    <3> QED BY <2>1, <2>2, <3>1, NotedStays DEF Noted, Noting
  <2>14. Unnoted(y)
    BY <2>3 DEF Unnoted, PlacingStage
  <2> QED BY <2>3, <2>12, <2>13, <2>14 DEF Noted, Becomes
<1>3. ASSUME NEW call \in calls, ReadRows(call) PROVE Noted'
  <2>1. UNCHANGED <<orders, rows, crashes>>
    BY <1>3, ReadRowsEffect
  <2>2. PICK y : Becomes(call, y) /\ y.stage = "saveOrder" /\ y.customer = call.customer
    BY <1>3, ReadRowsEffect
  <2>3. Unnoted(y) /\ y \in calls'
    BY <2>2 DEF Unnoted, PlacingStage, Becomes
  <2>4. \A d : Noting(call, d) => Noting(y, d)
    BY <2>2 DEF Noting
  <2>5. \A z \in calls : z # call => z \in calls'
    BY <2>2 DEF Becomes
  <2>6. \A d \in Customer : NotedAt(d)'
    BY <2>1, <2>3, <2>4, <2>5, NotedStays DEF Noted
  <2> QED BY <2>2, <2>3, <2>6 DEF Noted, Becomes
<1>4. ASSUME NEW call \in calls, SaveOrder(call) PROVE Noted'
  <2>1. PICK c : c = call.customer
    OBVIOUS
  <2>2. /\ call.stage = "saveOrder" /\ c \in Customer
        /\ orders'[c] = call.request
        /\ \A d \in Customer : d # c => orders'[d] = orders[d]
        /\ calls' = calls \ {call} /\ UNCHANGED <<rows, crashes>>
    BY <1>4, <2>1, SaveOrderEffect
  <2>3. Revises(call.request, c) /\ orders[c] # NoOrder
    BY <2>1, <2>2 DEF Orderly, Fresh, Keeps
  <2>4. NotedAt(c)
    BY <2>2 DEF Noted
  <2>5. NotedAt(c)'
    BY <2>2, <2>3, <2>4, NotedNow DEF Revises, NotedAt
  <2>6. \A d \in Customer : d # c => NotedAt(d)'
    BY <2>1, <2>2, NotedStays DEF Noted, Noting
  <2> QED BY <2>2, <2>5, <2>6 DEF Noted
<1>5. ASSUME NEW c \in Customer, Fulfil(c) PROVE Noted'
  <2>1. /\ orders[c] # NoOrder /\ orders[c].completed
        /\ orders'[c].completed = orders[c].completed /\ orders'[c].fulfilled = TRUE
        /\ \A d \in Customer : d # c => orders'[d] = orders[d]
        /\ UNCHANGED <<rows, calls, crashes>>
    BY <1>5, FulfilEffect
  <2>2. NotedAt(c)'
    BY <2>1 DEF Noted, NotedAt
  <2>3. \A d \in Customer : d # c => NotedAt(d)'
    BY <2>1, NotedStays DEF Noted
  <2> QED BY <2>1, <2>2, <2>3 DEF Noted
<1> QED BY <1>1, <1>2, <1>3, <1>4, <1>5

\* The patches price anew: they note nothing, and lose no note.
LEMMA PatchingIsNoted ==
  ASSUME Typed, Orderly, Noted, Patching
  PROVE  Noted'
<1>1. ASSUME NEW x, x.stage \in PatchStage
      PROVE  Unnoted(x) /\ \A c : ~Noting(x, c)
  BY <1>1, Stages DEF Unnoted, Noting
<1>2. ASSUME UNCHANGED <<orders, crashes>>,
             \A c \in Customer : /\ DOMAIN rows'[c] = DOMAIN rows[c]
                                 /\ \A p \in DOMAIN rows[c] :
                                      /\ rows'[c][p].quantity = rows[c][p].quantity
                                      /\ rows'[c][p].report = rows[c][p].report,
             \A x \in calls : x.stage \in PatchStage \/ x \in calls',
             \A x \in calls' : x.stage \in PatchStage \/ x \in calls
      PROVE  Noted'
  <2>1. ASSUME NEW c \in Customer PROVE NotedAt(c)'
    <3>1. Complete(rows'[c]) = Complete(rows[c])
      BY <1>2, CompleteTogether
    <3>2. (\A x \in calls' : ~Noting(x, c)) => \A x \in calls : ~Noting(x, c)
      BY <1>1, <1>2
    <3>3. NotedAt(c)
      BY DEF Noted
    <3> QED BY <1>2, <3>1, <3>2, <3>3 DEF NotedAt
  <2>2. \A x \in calls' : Unnoted(x)
    BY <1>1, <1>2 DEF Noted
  <2> QED BY <2>1, <2>2 DEF Noted
<1>3. ASSUME NEW c \in Customer, OnlyAt(c), UNCHANGED <<rows, crashes>>,
             \/ orders'[c] = orders[c]
             \/ /\ orders[c] # NoOrder
                /\ orders'[c].completed = Complete(rows[c])
                /\ orders'[c].fulfilled = orders[c].fulfilled,
             \A x \in calls : x.stage \in PatchStage \/ x \in calls',
             \A x \in calls' : x.stage \in PatchStage \/ x \in calls
      PROVE  Noted'
  <2>1. ASSUME NEW d \in Customer, orders'[d] = orders[d] PROVE NotedAt(d)'
    <3>1. (\A x \in calls' : ~Noting(x, d)) => \A x \in calls : ~Noting(x, d)
      BY <1>1, <1>3
    <3> QED BY <1>3, <2>1, <3>1 DEF Noted, NotedAt
  <2>2. ASSUME orders'[c] # orders[c] PROVE NotedAt(c)'
    <3>1. NotedAt(c)
      BY DEF Noted
    <3> QED BY <1>3, <2>2, <3>1, NotedNow DEF NotedAt
  <2>3. \A d \in Customer : d # c => orders'[d] = orders[d]
    BY <1>3 DEF OnlyAt
  <2>4. \A x \in calls' : Unnoted(x)
    BY <1>1, <1>3 DEF Noted
  <2> QED BY <2>1, <2>2, <2>3, <2>4 DEF Noted
<1>4. ASSUME StartSelangor \/ StartPromotions PROVE Noted'
  <2>1. PICK x : calls' = calls \cup {x} /\ x.stage \in PatchStage
    BY <1>4, StartSelangorEffect, StartPromotionsEffect, Stages
  <2>2. UNCHANGED <<orders, rows, crashes>>
    BY <1>4, StartSelangorEffect, StartPromotionsEffect
  <2> QED BY <1>2, <2>1, <2>2 DEF OnlyAt
<1>5. ASSUME NEW call \in calls, NEW c \in Customer, NEW p \in Package, Reprice(call, c, p)
      PROVE  Noted'
  <2>1. /\ call.stage = "reprice" /\ OnlyAt(c) /\ DOMAIN rows'[c] = DOMAIN rows[c]
        /\ \A q \in DOMAIN rows[c] : RepricedRow(rows[c][q], rows'[c][q], q)
        /\ UNCHANGED <<orders, crashes>>
    BY <1>5, RepriceEffect
  <2>2. \/ calls' = calls \ {call}
        \/ \E y : Becomes(call, y) /\ y.stage = "reprice"
    BY <1>5, RepriceEffect
  <2>3. \A d \in Customer : /\ DOMAIN rows'[d] = DOMAIN rows[d]
                            /\ \A q \in DOMAIN rows[d] :
                                 /\ rows'[d][q].quantity = rows[d][q].quantity
                                 /\ rows'[d][q].report = rows[d][q].report
    BY <2>1 DEF OnlyAt, RepricedRow
  <2> QED BY <1>2, <2>1, <2>2, <2>3, Stages DEF Becomes
<1>6. ASSUME NEW call \in calls, Repriced(call) PROVE Noted'
  <2>1. call.stage = "reprice" /\ UNCHANGED <<orders, rows, crashes>>
    BY <1>6, RepricedEffect
  <2>2. \E y : Becomes(call, y) /\ y.stage = "reviseRows"
    BY <1>6, RepricedEffect
  <2> QED BY <1>2, <2>1, <2>2, Stages DEF Becomes, OnlyAt
<1>7. ASSUME NEW call \in calls, NEW c \in Customer, ReviseRows(call, c) PROVE Noted'
  <2>1. /\ call.stage = "reviseRows"
        /\ \A d \in Customer : d # c => rows'[d] = rows[d]
        /\ rows'[c] = Bundled(rows[c]) /\ UNCHANGED <<orders, crashes>>
    BY <1>7, ReviseRowsEffect
  <2>2. \E y : Becomes(call, y) /\ y.stage = "reviseOrder"
    BY <1>7, ReviseRowsEffect
  <2>3. BundledRows(rows[c], rows'[c])
    BY <2>1, BundledType DEF Typed
  <2>4. \A d \in Customer : /\ DOMAIN rows'[d] = DOMAIN rows[d]
                            /\ \A q \in DOMAIN rows[d] :
                                 /\ rows'[d][q].quantity = rows[d][q].quantity
                                 /\ rows'[d][q].report = rows[d][q].report
    BY <2>1, <2>3 DEF BundledRows
  <2>5. OnlyAt(c)
    BY <2>1 DEF OnlyAt
  <2> QED BY <1>2, <2>1, <2>2, <2>4, <2>5, Stages DEF Becomes
<1>8. ASSUME NEW call \in calls, ReviseOrder(call) PROVE Noted'
  <2>1. PICK c : c = call.customer
    OBVIOUS
  <2>2. /\ call.stage = "reviseOrder" /\ c \in Customer /\ c \in DOMAIN call.requests
        /\ orders'[c] = call.requests[c]
        /\ \A d \in Customer : d # c => orders'[d] = orders[d]
        /\ UNCHANGED <<rows, crashes>>
    BY <1>8, <2>1, ReviseOrderEffect
  <2>3. \/ calls' = calls \ {call}
        \/ \E y : Becomes(call, y) /\ y.stage = "reviseRows"
    BY <1>8, ReviseOrderEffect
  <2>4. Revises(call.requests[c], c) /\ orders[c] # NoOrder
    BY <2>1, <2>2, Stages DEF Orderly, Fresh, Keeps
  <2>5. OnlyAt(c)
    BY <2>2 DEF OnlyAt
  <2> QED BY <1>3, <2>2, <2>3, <2>4, <2>5, Stages DEF Becomes, Revises
<1>9. ASSUME NEW call \in calls, NEW c \in Customer, ResetOrder(call, c) PROVE Noted'
  <2>1. /\ call.stage = "resetOrders" /\ c \in call.left /\ c \in DOMAIN call.requests
        /\ call.requests[c] \in OrderRow /\ RowsOK(call.rows[c])
        /\ \A d \in Customer : d # c => orders'[d] = orders[d]
        /\ orders'[c] \in {orders[c], Revision(call.requests[c], call.rows[c])}
        /\ UNCHANGED <<rows, crashes>>
    BY <1>9, ResetOrderEffect
  <2>2. \/ calls' = calls \ {call}
        \/ \E y : Becomes(call, y) /\ y.stage = "resetOrders"
    BY <1>9, ResetOrderEffect
  <2>3. call.requests[c] = orders[c] /\ call.rows[c] = rows[c] /\ orders[c] # NoOrder
    BY <2>1, Stages DEF Orderly, Fresh, Keeps
  <2>4. PICK o : o = Revision(call.requests[c], call.rows[c])
    OBVIOUS
  <2>5. o.completed = Complete(rows[c]) /\ o.fulfilled = orders[c].fulfilled
    BY <2>1, <2>3, <2>4, RevisionColumns
  <2>6. OnlyAt(c)
    BY <2>1 DEF OnlyAt
  <2> QED BY <1>3, <2>1, <2>2, <2>3, <2>4, <2>5, <2>6, Stages DEF Becomes
<1> QED BY <1>4, <1>5, <1>6, <1>7, <1>8, <1>9 DEF Patching

\* The flag says what the reports do, at every state.
LEMMA NotedStep ==
  ASSUME Typed, Orderly, Noted, [Next]_vars
  PROVE  Noted'
<1>1. ASSUME Placing PROVE Noted'
  BY <1>1, PlacingIsNoted DEF Placing
<1>2. ASSUME Working PROVE Noted'
  <2>1. ASSUME NEW c \in Customer, NEW p \in Package,
               NEW unit \in 1..(IF p \in DOMAIN rows[c] THEN rows[c][p].quantity ELSE 0),
               SubmitNotes(c, p, unit)
        PROVE  Noted'
    <3>1. unit \in Nat
      OBVIOUS
    <3> QED BY <2>1, <3>1, WorkingIsNoted
  <2> QED BY <1>2, <2>1, WorkingIsNoted DEF Working
<1>3. ASSUME Patching PROVE Noted'
  BY <1>3, PatchingIsNoted
<1>4. ASSUME UpdateCatalogue \/ UNCHANGED vars PROVE Noted'
  <2>1. UNCHANGED <<orders, rows, calls, crashes>>
    BY <1>4 DEF UpdateCatalogue, vars
  <2> QED BY <2>1, NotedStays DEF Noted
<1>5. ASSUME Crash PROVE Noted'
  <2>1. UNCHANGED <<orders, rows>> /\ calls' = {} /\ crashes' # 0
    BY <1>5 DEF Crash, Typed
  <2> QED BY <2>1, NotedStays DEF Noted
<1> QED BY <1>1, <1>2, <1>3, <1>4, <1>5 DEF Next

\* One call waits for another: what is in hand is current, and the flags are right.
LEMMA AlwaysNoted ==
  ASSUME ~Racing
  PROVE  Spec => [](Typed /\ Counted /\ Orderly /\ Noted)
<1>1. Init => Orderly /\ Noted
  <2> SUFFICES ASSUME Init PROVE Orderly /\ Noted
    OBVIOUS
  <2>1. /\ calls = {} /\ crashes = 0
        /\ \A c \in Customer :
             IF c \in OldCustomer
             THEN /\ rows[c] = OldRows /\ orders[c] # NoOrder
                  /\ orders[c].completed = TRUE /\ orders[c].fulfilled = TRUE
             ELSE rows[c] = <<>> /\ orders[c] = NoOrder
    BY AtFirst
  <2>2. \A p \in DOMAIN OldRows : Completed(OldRows[p]) /\ OldRows[p].quantity >= 1
    BY OrderingAssumption DEF Completed
  <2>3. \A c \in Customer : NotedAt(c)
    BY <2>1, <2>2 DEF NotedAt, Complete
  <2> QED BY <2>1, <2>3 DEF Orderly, Apart, Noted
<1>2. Orderly /\ Noted /\ Typed /\ Counted /\ [Next]_vars => Orderly' /\ Noted'
  BY OrderlyStep, NotedStep
<1> QED BY <1>1, <1>2, AlwaysCounted, PTL DEF Spec

\* When technicians and patches wait for one another, a fulfilled job has a note for
\* every unit of every package, after failures and restarts too.
THEOREM FulfilledJobsAreReported ==
  ASSUME ~Racing
  PROVE  Spec => []FulfilledIsReported
<1>1. Noted => FulfilledIsReported
  BY DEF Noted, NotedAt, Complete, Completed, Ordered, FulfilledIsReported
<1> QED BY <1>1, AlwaysNoted, PTL

\* When they wait for one another, the last note of a report reaches the flag that lets
\* the job be fulfilled, whichever patches run.
THEOREM NotesReachTheFlag ==
  ASSUME ~Racing
  PROVE  Spec => []ReportsAreNoticed
<1>1. Noted => ReportsAreNoticed
  <2> SUFFICES ASSUME Noted, calls = {}, crashes = 0, NEW c \in Ordered,
                      \A p \in DOMAIN rows[c] : /\ rows[c][p].quantity > 0
                                                /\ rows[c][p].report = 1..rows[c][p].quantity
               PROVE  orders[c].completed
    BY DEF ReportsAreNoticed
  <2>1. c \in Customer /\ orders[c] # NoOrder /\ NotedAt(c)
    BY DEF Ordered, Noted
  <2>2. \A p \in DOMAIN rows[c] : rows[c][p].quantity >= 1
    BY <2>1 DEF NotedAt
  <2>3. Complete(rows[c])
    BY <2>2 DEF Complete, Completed
  <2> QED BY <2>1, <2>3 DEF NotedAt
<1> QED BY <1>1, AlwaysNoted, PTL

------------------------------------------------------------------------------
(* What is owed *)

\* What the patch has still to bundle, it has still to save.
LEMMA UnbundledUnrevised ==
  ASSUME NEW x, NEW c, Unbundled(x, c) PROVE Unrevised(x, c)
BY DEF Unrevised

\* Patches change no set of packages.
LEMMA GroupsKept ==
  ASSUME NEW c, DOMAIN rows'[c] = DOMAIN rows[c]
  PROVE  KeepsGroups(c)' <=> KeepsGroups(c)
BY DEF KeepsGroups

\* What the patch still owes to c stays owed.
StillDue(c) ==
  \/ crashes' # 0
  \/ /\ \A x \in calls : Unbundled(x, c) => \E y \in calls' : Unbundled(y, c)
     /\ \A x \in calls : Unrevised(x, c) => \E y \in calls' : Unrevised(y, c)

\* A call that stays is due what it was.
LEMMA DueElsewhere ==
  ASSUME NEW c, \A x \in calls : Unrevised(x, c) => x \in calls'
  PROVE  StillDue(c)
BY UnbundledUnrevised DEF StillDue

\* A step elsewhere.
LEMMA SettledStays ==
  ASSUME NEW c, SettledAt(c), orders'[c] = orders[c], rows'[c] = rows[c],
         crashes' = 0 => crashes = 0, StillDue(c)
  PROVE  SettledAt(c)'
<1>1. KeepsGroups(c)' <=> KeepsGroups(c)
  BY GroupsKept
<1> QED BY <1>1 DEF SettledAt, StillDue

\* An order is revised from its rows.
LEMMA SettledAnew ==
  ASSUME NEW c, SettledAt(c), orders[c] # NoOrder, rows'[c] = rows[c], crashes' = crashes,
         orders'[c].promotion = orders[c].promotion,
         orders'[c].total = Cost(rows[c]) - orders[c].promotion,
         \A x \in calls : Unbundled(x, c) => \E y \in calls' : Unbundled(y, c)
  PROVE  SettledAt(c)'
<1>1. KeepsGroups(c)' <=> KeepsGroups(c)
  BY GroupsKept
<1> QED BY <1>1 DEF SettledAt

\* Rows are priced before c's order is revised, and cost the same together when groups
\* are kept.
LEMMA SettledTogether ==
  ASSUME NEW c, SettledAt(c), orders'[c] = orders[c],
         RowsOK(rows[c]), RowsOK(rows'[c]), DOMAIN rows'[c] = DOMAIN rows[c],
         AllPriced(rows[c]) => AllPriced(rows'[c]),
         KeepsGroups(c) /\ AllPriced(rows[c]) => SameGoods(rows[c], rows'[c]),
         \E x \in calls' : Unrevised(x, c),
         crashes' = 0 /\ (\A x \in calls' : ~Unbundled(x, c)) /\ AllPriced(rows[c])
           => AddsUp(rows'[c])
  PROVE  SettledAt(c)'
<1>1. PICK r, s : r = rows[c] /\ s = rows'[c]
  OBVIOUS
<1>2. SameGoods(r, s) => Cost(s) = Cost(r)
  BY <1>1, SameGoodsCost
<1>3. KeepsGroups(c)' <=> KeepsGroups(c)
  BY GroupsKept
<1>4. KeepsGroups(c) /\ AllPriced(r) => Cost(s) = Cost(r)
  BY <1>1, <1>2
<1> QED BY <1>1, <1>3, <1>4 DEF SettledAt

\* Whether a row is priced does not depend on its notes.
LEMMA PricedTogether ==
  ASSUME NEW row, NEW other, NEW p, Priced(row, p),
         other.quantity = row.quantity, other.snapshot = row.snapshot,
         other.group = row.group \/ \E offers \in Catalogues : other.group = offers[p].group,
         other.group = NoGroup => other.price = ConsumerTier(row, row.quantity).price
  PROVE  Priced(other, p)
BY DEF Priced, ConsumerTier

\* Bundled rows are priced.
LEMMA BundledPriced ==
  ASSUME NEW r, RowsOK(r), AllPriced(r)
  PROVE  AllPriced(Bundled(r))
<1>1. PICK b : b = Bundled(r)
  OBVIOUS
<1>2. BundledRows(r, b)
  BY <1>1, BundledType
<1>3. ASSUME NEW p \in DOMAIN b PROVE Priced(b[p], p)
  <2>1. p \in DOMAIN r /\ Priced(r[p], p)
    BY <1>2, <1>3 DEF BundledRows, AllPriced
  <2>2. /\ b[p].quantity = r[p].quantity /\ b[p].group = r[p].group
        /\ b[p].snapshot = r[p].snapshot /\ b[p].price = BundledPrice(r, p)
    BY <1>2, <2>1 DEF BundledRows
  <2>3. b[p].group = NoGroup => b[p].price = ConsumerTier(r[p], r[p].quantity).price
    BY <2>1, <2>2 DEF BundledPrice, Priced
  <2> QED BY <2>1, <2>2, <2>3, PricedTogether
<1> QED BY <1>1, <1>3 DEF AllPriced

\* An order is placed at the quotations of its day.
LEMMA PlacingIsSettled ==
  ASSUME Typed, Settled, Sorted,
         \/ \E c \in Customer, withPromotion \in BOOLEAN :
              \E basket \in Baskets[c] : Place(c, basket, withPromotion)
         \/ \E call \in calls : UsePromotion(call) \/ SaveNew(call) \/ RefuseAppointment(call)
  PROVE  Settled'
<1>1. ASSUME NEW x, x.stage \in PlacingStage
      PROVE  x.stage \notin SelangorStage /\ \A c : ~Unrevised(x, c)
  BY <1>1 DEF PlacingStage, Unrevised, Unbundled, SelangorStage, PatchStage
<1>2. ASSUME NEW c \in Customer, NEW withPromotion \in BOOLEAN, NEW basket \in Baskets[c],
             Place(c, basket, withPromotion)
      PROVE  Settled'
  <2>1. PICK x : Placed(x, c) /\ calls' = calls \cup {x}
    BY <1>2, PlaceEffect
  <2>2. UNCHANGED <<orders, rows, crashes>>
    BY <1>2 DEF Place
  <2>3. Quoted(x)
    BY <1>1, <2>1 DEF Placed, Quoted
  <2>4. \A d \in Customer : SettledAt(d)'
    BY <2>1, <2>2, SettledStays, DueElsewhere DEF Settled
  <2> QED BY <2>1, <2>3, <2>4 DEF Settled
<1>3. ASSUME NEW call \in calls, UsePromotion(call) PROVE Settled'
  <2>1. call.stage = "usePromotion" /\ UNCHANGED <<orders, rows, crashes>>
    BY <1>3, UsePromotionEffect
  <2>2. \/ calls' = calls \ {call}
        \/ \E y : /\ Becomes(call, y) /\ y.stage = "saveNew" /\ y.rows = call.rows
                  /\ y.promotion = call.promotion
    BY <1>3, UsePromotionEffect
  <2>3. call.stage \in PlacingStage
    BY <2>1 DEF PlacingStage
  <2>4. \A z \in calls' : Quoted(z)
    BY <1>1, <2>2, <2>3, Stages DEF Settled, Quoted, Becomes
  <2>5. \A z \in calls : z # call => z \in calls'
    BY <2>2 DEF Becomes
  <2>6. \A d \in Customer : SettledAt(d)'
    BY <1>1, <2>1, <2>3, <2>5, SettledStays, DueElsewhere DEF Settled
  <2> QED BY <2>4, <2>6 DEF Settled
<1>4. ASSUME NEW call \in calls, SaveNew(call) PROVE Settled'
  <2>1. PICK c, r, m : c = call.customer /\ r = call.rows /\ m = call.promotion
    OBVIOUS
  <2>2. /\ call.stage = "saveNew" /\ c \in Customer /\ calls' = calls \ {call}
        /\ UNCHANGED crashes
        /\ rows'[c] = Bundled(r) /\ orders'[c].total = Cost(r) - m
        /\ orders'[c].promotion = m
        /\ \A d \in Customer : d # c => orders'[d] = orders[d] /\ rows'[d] = rows[d]
    BY <1>4, <2>1, SaveNewEffect
  <2>3. call.stage \in PlacingStage
    BY <2>2 DEF PlacingStage
  <2>4. RowsOK(r) /\ m \in Nat /\ AllPriced(r) /\ m <= Cost(r)
    BY <2>1, <2>3, CallColumns DEF Typed, Settled, Quoted
  <2>5. Cost(r) \in Nat
    BY <2>4, OrderOfType
  <2>6. AddsUp(rows'[c]) /\ Cost(rows'[c]) = Cost(r) /\ AllPriced(rows'[c])
    BY <2>2, <2>4, BundledAddsUp, BundledPriced
  <2>7. SettledAt(c)'
    BY <2>2, <2>4, <2>5, <2>6 DEF SettledAt
  <2>8. \A d \in Customer : d # c => SettledAt(d)'
    BY <1>1, <2>2, <2>3, SettledStays, DueElsewhere DEF Settled
  <2> QED BY <2>2, <2>7, <2>8 DEF Settled
<1>5. ASSUME NEW call \in calls, RefuseAppointment(call) PROVE Settled'
  <2>1. /\ call.stage = "saveNew" /\ calls' = calls \ {call}
        /\ UNCHANGED <<orders, rows, crashes>>
    BY <1>5 DEF RefuseAppointment, Ends
  <2>2. call.stage \in PlacingStage
    BY <2>1 DEF PlacingStage
  <2>3. \A d \in Customer : SettledAt(d)'
    BY <1>1, <2>1, <2>2, SettledStays, DueElsewhere DEF Settled
  <2> QED BY <2>1, <2>3 DEF Settled
<1> QED BY <1>2, <1>3, <1>4, <1>5

\* Notes change no price.
LEMMA WorkingIsSettled ==
  ASSUME Typed, Orderly, Settled,
         \/ \E c \in Customer, p \in Package, unit \in Nat : SubmitNotes(c, p, unit)
         \/ \E call \in calls : SaveNotes(call) \/ ReadRows(call) \/ SaveOrder(call)
         \/ \E c \in Customer : Fulfil(c)
  PROVE  Settled'
<1>1. ASSUME NEW x, x.stage \in NotingStage \cup {"saveOrder"}
      PROVE  Quoted(x) /\ \A c : ~Unrevised(x, c)
  BY <1>1 DEF Quoted, Unrevised, Unbundled, NotingStage, PlacingStage, SelangorStage, PatchStage
<1>2. ASSUME NEW c \in Customer, NEW p \in Package, NEW unit \in Nat, SubmitNotes(c, p, unit)
      PROVE  Settled'
  <2>1. PICK x : calls' = calls \cup {x} /\ x.stage = "saveNotes"
    BY <1>2, SubmitNotesEffect
  <2>2. UNCHANGED <<orders, rows, crashes>>
    BY <1>2, SubmitNotesEffect
  <2>3. Quoted(x)
    BY <1>1, <2>1, Stages
  <2>4. \A d \in Customer : SettledAt(d)'
    BY <2>1, <2>2, SettledStays, DueElsewhere DEF Settled
  <2> QED BY <2>1, <2>3, <2>4 DEF Settled
<1>3. ASSUME NEW call \in calls, SaveNotes(call) PROVE Settled'
  <2>1. PICK c, p, row : c = call.customer /\ p = call.package /\ row = call.row
    OBVIOUS
  <2>2. /\ call.stage = "saveNotes" /\ c \in Customer
        /\ \A d \in Customer : d # c => rows'[d] = rows[d]
        /\ DOMAIN rows'[c] = DOMAIN rows[c]
        /\ \A q \in DOMAIN rows[c] : rows'[c][q] = IF q = p THEN row ELSE rows[c][q]
        /\ UNCHANGED <<orders, crashes>>
    BY <1>3, <2>1, SaveNotesEffect
  <2>3. RowsOK(rows[c]) /\ RowsOK(rows'[c])
    BY <1>3, <2>2, SaveNotesEffect DEF Typed
  <2>4. PICK y : Becomes(call, y) /\ y.stage = "readRows"
    BY <1>3, SaveNotesEffect
  <2>5. p \in DOMAIN rows[c]
    BY <2>1, <2>2, Stages DEF Orderly, Fresh
  <2>6. PICK old : old = rows[c][p]
    OBVIOUS
  <2>7. PICK unit \in Report(old) : row = [old EXCEPT !.report = @ \cup {unit}]
    BY <2>1, <2>2, <2>6 DEF Orderly, Fresh
  <2>8. /\ row.quantity = old.quantity /\ row.group = old.group
        /\ row.snapshot = old.snapshot /\ row.price = old.price
    <3>1. old \in PackageRow
      BY <2>3, <2>5, <2>6 DEF RowsOK, RowOK
    <3>2. old = [quantity |-> old.quantity, group |-> old.group,
                 groupQuantity |-> old.groupQuantity, snapshot |-> old.snapshot,
                 state |-> old.state, unitPrice |-> old.unitPrice, price |-> old.price,
                 providerUnitPrice |-> old.providerUnitPrice,
                 providerPrice |-> old.providerPrice, report |-> old.report]
      BY <3>1, RowColumns
    <3> QED BY <2>7, <3>2
  <2>9. PICK r, s : r = rows[c] /\ s = rows'[c]
    OBVIOUS
  <2>10. /\ DOMAIN s = DOMAIN r
         /\ \A q \in DOMAIN r : /\ s[q].quantity = r[q].quantity /\ s[q].group = r[q].group
                                /\ s[q].snapshot = r[q].snapshot /\ s[q].price = r[q].price
    BY <2>2, <2>6, <2>8, <2>9
  <2>11. SameGoods(r, s)
    BY <2>10 DEF SameGoods
  <2>12. AllPriced(r) => AllPriced(s)
    <3> SUFFICES ASSUME AllPriced(r), NEW q \in DOMAIN s PROVE Priced(s[q], q)
      BY DEF AllPriced
    <3>1. Priced(r[q], q)
      BY <2>10 DEF AllPriced
    <3>2. r[q].group = NoGroup => r[q].price = ConsumerTier(r[q], r[q].quantity).price
      BY <3>1 DEF Priced
    <3> QED BY <2>10, <3>1, <3>2, PricedTogether
  <2>13. AddsUp(r) => AddsUp(s)
    BY <2>3, <2>9, <2>10, <2>11, SameGoodsCost DEF AddsUp
  <2>14. \A x \in calls : (\E d : Unrevised(x, d)) => x \in calls'
    BY <1>1, <2>2, <2>4, Stages DEF Becomes
  <2>15. SettledAt(c) /\ c \in Customer /\ orders'[c] = orders[c]
    BY <2>2 DEF Settled
  <2>16. SettledAt(c)'
    <3>1. StillDue(c)
      BY <2>14, DueElsewhere
    <3>2. Cost(s) = Cost(r)
      BY <2>3, <2>9, <2>11, SameGoodsCost
    <3>3. KeepsGroups(c)' <=> KeepsGroups(c)
      BY <2>2, GroupsKept
    <3> QED BY <2>2, <2>9, <2>12, <2>13, <2>15, <3>1, <3>2, <3>3 DEF SettledAt, StillDue
  <2>17. \A d \in Customer : d # c => SettledAt(d)'
    BY <2>2, <2>14, SettledStays, DueElsewhere DEF Settled
  <2>18. Quoted(y)
    BY <1>1, <2>4, Stages
  <2> QED BY <2>4, <2>16, <2>17, <2>18 DEF Settled, Becomes
<1>4. ASSUME NEW call \in calls, ReadRows(call) PROVE Settled'
  <2>1. call.stage = "readRows" /\ UNCHANGED <<orders, rows, crashes>>
    BY <1>4, ReadRowsEffect
  <2>2. PICK y : Becomes(call, y) /\ y.stage = "saveOrder"
    BY <1>4, ReadRowsEffect
  <2>3. Quoted(y) /\ \A d : ~Unrevised(call, d)
    BY <1>1, <2>1, <2>2, Stages
  <2>4. \A d \in Customer : SettledAt(d)'
    BY <2>1, <2>2, <2>3, SettledStays, DueElsewhere DEF Settled, Becomes
  <2> QED BY <2>2, <2>3, <2>4 DEF Settled, Becomes
<1>5. ASSUME NEW call \in calls, SaveOrder(call) PROVE Settled'
  <2>1. PICK c : c = call.customer
    OBVIOUS
  <2>2. /\ call.stage = "saveOrder" /\ c \in Customer
        /\ orders'[c] = call.request
        /\ \A d \in Customer : d # c => orders'[d] = orders[d]
        /\ calls' = calls \ {call} /\ UNCHANGED <<rows, crashes>>
    BY <1>5, <2>1, SaveOrderEffect
  <2>3. Revises(call.request, c) /\ orders[c] # NoOrder /\ SettledAt(c)
    BY <2>1, <2>2 DEF Orderly, Fresh, Keeps, Settled
  <2>4. \A x \in calls : (\E d : Unrevised(x, d)) => x \in calls'
    BY <1>1, <2>2
  <2>5. SettledAt(c)'
    BY <2>2, <2>3, <2>4, SettledAnew, UnbundledUnrevised DEF Revises
  <2>6. \A d \in Customer : d # c => SettledAt(d)'
    BY <2>2, <2>4, SettledStays, DueElsewhere DEF Settled
  <2> QED BY <2>2, <2>5, <2>6 DEF Settled
<1>6. ASSUME NEW c \in Customer, Fulfil(c) PROVE Settled'
  <2>1. /\ orders[c] # NoOrder /\ orders'[c].total = orders[c].total
        /\ orders'[c].promotion = orders[c].promotion
        /\ \A d \in Customer : d # c => orders'[d] = orders[d]
        /\ UNCHANGED <<rows, calls, crashes>>
    BY <1>6, FulfilEffect
  <2>2. SettledAt(c)'
    <3>1. KeepsGroups(c)' <=> KeepsGroups(c)
      BY <2>1, GroupsKept
    <3> QED BY <2>1, <3>1 DEF Settled, SettledAt
  <2>3. \A d \in Customer : d # c => SettledAt(d)'
    BY <2>1, SettledStays, DueElsewhere DEF Settled
  <2> QED BY <2>1, <2>2, <2>3 DEF Settled
<1> QED BY <1>2, <1>3, <1>4, <1>5, <1>6

\* Pricing again changes the prices shown, and what is owed by nothing.
LEMMA PatchingIsSettled ==
  ASSUME Typed, Orderly, Noted, Settled, Patching
  PROVE  Settled'
<1> DEFINE From(x, y) == x.stage \in SelangorStage /\ y.stage \in SelangorStage
                          /\ DOMAIN y.requests = DOMAIN x.requests
<1>1. /\ SelangorStage = {"reprice", "reviseRows", "reviseOrder"}
      /\ SelangorStage \cap PlacingStage = {}
  BY DEF SelangorStage, PatchStage, PlacingStage
<1>8. ASSUME NEW x, NEW y, Quoted(x), From(x, y) PROVE Quoted(y)
  BY <1>1, <1>8 DEF Quoted
<1>9. ASSUME NEW x, x.stage = "resetOrders" PROVE Quoted(x)
  BY <1>1, <1>9, Stages DEF Quoted
<1> HIDE DEF From
<1>2. ASSUME StartSelangor \/ StartPromotions PROVE Settled'
  <2>1. PICK x : calls' = calls \cup {x} /\ Quoted(x)
    <3>1. CASE StartSelangor
      <4>1. PICK x : /\ calls' = calls \cup {x} /\ x.stage = "reprice"
                     /\ \A c \in DOMAIN x.requests : StateOf[c] = Selangor
        BY <3>1, StartSelangorEffect
      <4>2. Quoted(x)
        BY <1>1, <4>1 DEF Quoted
      <4> QED BY <4>1, <4>2
    <3>2. CASE StartPromotions
      BY <1>9, <3>2, StartPromotionsEffect
    <3> QED BY <1>2, <3>1, <3>2
  <2>2. UNCHANGED <<orders, rows, crashes>>
    BY <1>2, StartSelangorEffect, StartPromotionsEffect
  <2>3. \A d \in Customer : SettledAt(d)'
    BY <2>1, <2>2, SettledStays, DueElsewhere DEF Settled
  <2> QED BY <2>1, <2>3 DEF Settled
<1>3. ASSUME NEW call \in calls, NEW c \in Customer, NEW p \in Package, Reprice(call, c, p)
      PROVE  Settled'
  <2>1. /\ call.stage = "reprice" /\ <<c, p>> \in call.left /\ c \in DOMAIN call.requests
        /\ OnlyAt(c) /\ DOMAIN rows'[c] = DOMAIN rows[c] /\ RowsOK(rows'[c])
        /\ \A q \in DOMAIN rows[c] : RepricedRow(rows[c][q], rows'[c][q], q)
        /\ UNCHANGED <<orders, crashes>>
    BY <1>3, RepriceEffect
  <2>2. \/ /\ calls' = calls \ {call}
           /\ call.requests[c].fulfilled /\ ~Completed(rows[c][p])
        \/ \E y : Becomes(call, y) /\ y.stage = "reprice" /\ y.requests = call.requests
    BY <1>3, RepriceEffect
  <2>3. /\ call.requests[c] = orders[c] /\ orders[c] # NoOrder
        /\ p \in DOMAIN rows[c]
    <3>1. PICK t : t = <<c, p>>
      OBVIOUS
    <3>2. t[1] = c /\ t[2] = p /\ t \in call.left
      BY <2>1, <3>1
    <3>3. t[2] \in DOMAIN rows[t[1]]
      BY <2>1, <3>2 DEF Orderly, Fresh
    <3> QED BY <2>1, <3>2, <3>3, Stages DEF Orderly, Fresh, Keeps
  <2>4. orders[c].fulfilled => Completed(rows[c][p])
    BY <2>3 DEF Noted, NotedAt, Complete
  <2>5. PICK y : Becomes(call, y) /\ y.stage = "reprice" /\ y.requests = call.requests
    BY <2>2, <2>3, <2>4
  <2>6. /\ \A d : Unbundled(call, d) => Unbundled(y, d)
        /\ \A d : Unrevised(call, d) => Unrevised(y, d)
        /\ Unbundled(y, c) /\ Unrevised(y, c) /\ y \in calls'
    BY <2>1, <2>5 DEF Unbundled, Unrevised, Becomes
  <2>7. \A z \in calls : z # call => z \in calls'
    BY <2>5 DEF Becomes
  <2>8. \A d \in Customer : d # c => SettledAt(d)'
    <3>1. \A d : StillDue(d)
      BY <2>6, <2>7 DEF StillDue
    <3> QED BY <2>1, <3>1, SettledStays DEF Settled, OnlyAt
  <2>9. PICK r, s : r = rows[c] /\ s = rows'[c]
    OBVIOUS
  <2>10. ASSUME AllPriced(r), NEW q \in DOMAIN r
         PROVE  /\ s[q].quantity = r[q].quantity /\ s[q].snapshot = r[q].snapshot
                /\ Priced(s[q], q) /\ ~IsLegacy(r[q])
                /\ KeepsGroups(c) => s[q].group = r[q].group
                /\ r[q].group = NoGroup => s[q].price = r[q].price
    <3>1. Priced(r[q], q) /\ RepricedRow(r[q], s[q], q)
      BY <2>1, <2>9, <2>10 DEF AllPriced
    <3>2. ~IsLegacy(r[q])
      BY <3>1, OrderingAssumption DEF Priced, IsLegacy
    <3>3. KeepsGroups(c) => r[q].group = catalogue[q].group
      <4>1. StateOf[c] = Selangor
        BY <1>1, <1>3, <2>1 DEF Settled, Quoted
      <4>2. catalogue \in Catalogues /\ q \in DOMAIN rows[c]
        BY <2>9 DEF Typed
      <4>3. PICK offers \in Catalogues : r[q].group = offers[q].group
        BY <3>1 DEF Priced
      <4> QED BY <4>1, <4>2, <4>3 DEF KeepsGroups
    <3>4. CASE s[q] = r[q]
      BY <3>1, <3>2, <3>4
    <3>5. CASE /\ s[q].quantity = r[q].quantity /\ s[q].group = catalogue[q].group
               /\ s[q].snapshot = r[q].snapshot
               /\ s[q].price = IF IsLegacy(r[q]) THEN r[q].price
                               ELSE ConsumerTier(r[q], r[q].quantity).price
      <4>1. s[q].price = ConsumerTier(r[q], r[q].quantity).price
        BY <3>2, <3>5
      <4>2. r[q].group = NoGroup => r[q].price = ConsumerTier(r[q], r[q].quantity).price
        BY <3>1 DEF Priced
      <4>3. Priced(s[q], q)
        <5>1. \E offers \in Catalogues : s[q].group = offers[q].group
          BY <3>5 DEF Typed
        <5> QED BY <3>1, <3>5, <4>1, <5>1, PricedTogether
      <4> QED BY <3>2, <3>3, <3>5, <4>1, <4>2, <4>3
    <3> QED BY <3>1, <3>4, <3>5 DEF RepricedRow
  <2>11. AllPriced(r) => (KeepsGroups(c) => SameGoods(r, s)) /\ AllPriced(s)
    BY <2>1, <2>9, <2>10 DEF SameGoods, AllPriced
  <2>12. SettledAt(c)'
    <3>1. SettledAt(c) /\ RowsOK(rows[c])
      BY DEF Settled, Typed
    <3> QED BY <2>1, <2>6, <2>9, <2>11, <3>1, SettledTogether
  <2>13. Quoted(y)
    BY <1>1, <1>8, <2>1, <2>5 DEF Settled, From
  <2> QED BY <2>5, <2>8, <2>12, <2>13 DEF Settled, Becomes
<1>4. ASSUME NEW call \in calls, Repriced(call) PROVE Settled'
  <2>1. call.stage = "reprice" /\ UNCHANGED <<orders, rows, crashes>>
    BY <1>4, RepricedEffect
  <2>2. PICK y : /\ Becomes(call, y) /\ y.stage = "reviseRows"
                 /\ y.requests = call.requests /\ y.left = DOMAIN call.requests
    BY <1>4, RepricedEffect
  <2>3. /\ \A d : Unbundled(call, d) => Unbundled(y, d)
        /\ \A d : Unrevised(call, d) => Unrevised(y, d)
        /\ y \in calls' /\ \A z \in calls : z # call => z \in calls'
    BY <2>1, <2>2 DEF Unbundled, Unrevised, Becomes
  <2>4. \A d \in Customer : SettledAt(d)'
    <3>1. \A d : StillDue(d)
      BY <2>3 DEF StillDue
    <3> QED BY <2>1, <3>1, SettledStays DEF Settled
  <2>5. Quoted(y)
    BY <1>1, <1>8, <2>1, <2>2 DEF Settled, From
  <2> QED BY <2>2, <2>4, <2>5 DEF Settled, Becomes
<1>5. ASSUME NEW call \in calls, NEW c \in Customer, ReviseRows(call, c) PROVE Settled'
  <2>1. /\ call.stage = "reviseRows"
        /\ \A d \in Customer : d # c => rows'[d] = rows[d]
        /\ rows'[c] = Bundled(rows[c]) /\ UNCHANGED <<orders, crashes>>
    BY <1>5, ReviseRowsEffect
  <2>2. PICK y : /\ Becomes(call, y) /\ y.stage = "reviseOrder"
                 /\ y.customer = c /\ y.left = call.left \ {c}
                 /\ DOMAIN y.requests = DOMAIN call.requests
    BY <1>5, ReviseRowsEffect
  <2>3. /\ \A d : d # c /\ Unbundled(call, d) => Unbundled(y, d)
        /\ \A d : Unrevised(call, d) => Unrevised(y, d)
        /\ Unrevised(y, c)
        /\ y \in calls' /\ \A z \in calls : z # call => z \in calls'
    BY <2>1, <2>2 DEF Unbundled, Unrevised, Becomes
  <2>4. \A d \in Customer : d # c => SettledAt(d)'
    <3>1. \A d : d # c => StillDue(d)
      BY <2>3 DEF StillDue
    <3> QED BY <2>1, <3>1, SettledStays DEF Settled
  <2>5. PICK r : r = rows[c]
    OBVIOUS
  <2>6. RowsOK(r) /\ SettledAt(c)
    BY <2>5 DEF Typed, Settled
  <2>7. /\ RowsOK(rows'[c]) /\ AddsUp(rows'[c]) /\ SameGoods(r, rows'[c])
        /\ AllPriced(r) => AllPriced(rows'[c])
    BY <2>1, <2>5, <2>6, BundledAddsUp, BundledPriced
  <2>8. SettledAt(c)'
    <3>1. DOMAIN rows'[c] = DOMAIN rows[c]
      BY <2>5, <2>7 DEF SameGoods
    <3> QED BY <2>1, <2>3, <2>5, <2>6, <2>7, <3>1, SettledTogether
  <2>9. Quoted(y)
    BY <1>1, <1>8, <2>1, <2>2 DEF Settled, From
  <2> QED BY <2>2, <2>4, <2>8, <2>9 DEF Settled, Becomes
<1>6. ASSUME NEW call \in calls, ReviseOrder(call) PROVE Settled'
  <2>1. PICK c : c = call.customer
    OBVIOUS
  <2>2. /\ call.stage = "reviseOrder" /\ c \in Customer /\ c \in DOMAIN call.requests
        /\ orders'[c] = call.requests[c]
        /\ \A d \in Customer : d # c => orders'[d] = orders[d]
        /\ UNCHANGED <<rows, crashes>>
    BY <1>6, <2>1, ReviseOrderEffect
  <2>3. \/ call.left = {} /\ calls' = calls \ {call}
        \/ \E y : /\ Becomes(call, y) /\ y.stage = "reviseRows" /\ y.left = call.left
                  /\ y.requests = call.requests
    BY <1>6, ReviseOrderEffect
  <2>4. Revises(call.requests[c], c) /\ orders[c] # NoOrder /\ SettledAt(c)
    BY <2>1, <2>2, Stages DEF Orderly, Fresh, Keeps, Settled
  <2>5. ASSUME NEW d, NEW x \in calls, Unbundled(x, d)
        PROVE  \E y \in calls' : Unbundled(y, d) /\ Unrevised(y, d)
    <3>1. x # call => x \in calls'
      BY <2>3, <2>5 DEF Becomes
    <3>2. Unbundled(call, d) => \E y \in calls' : Unbundled(y, d)
      BY <2>2, <2>3 DEF Becomes, Unbundled
    <3> QED BY <2>5, <3>1, <3>2, UnbundledUnrevised
  <2>6. SettledAt(c)'
    BY <2>2, <2>4, <2>5, SettledAnew DEF Revises
  <2>7. \A d \in Customer : d # c => SettledAt(d)'
    <3>1. ASSUME NEW d, d # c, NEW x \in calls, Unrevised(x, d)
          PROVE  \E y \in calls' : Unrevised(y, d)
      <4>1. CASE x = call
        <5>1. Unbundled(x, d)
          BY <2>1, <3>1, <4>1 DEF Unrevised
        <5> QED BY <2>5, <5>1
      <4>2. CASE x # call
        BY <2>3, <3>1, <4>2 DEF Becomes
      <4> QED BY <4>1, <4>2
    <3>2. \A d : d # c => StillDue(d)
      BY <2>5, <3>1 DEF StillDue
    <3> QED BY <2>2, <3>2, SettledStays DEF Settled
  <2>8. \A x \in calls' : Quoted(x)
    <3>1. ASSUME NEW y, y.stage = "reviseRows", y.requests = call.requests PROVE Quoted(y)
      BY <1>1, <1>8, <2>2, <3>1 DEF Settled, From
    <3> QED BY <2>3, <3>1 DEF Becomes, Settled
  <2> QED BY <2>6, <2>7, <2>8 DEF Settled
<1>7. ASSUME NEW call \in calls, NEW c \in Customer, ResetOrder(call, c) PROVE Settled'
  <2>1. /\ call.stage = "resetOrders" /\ c \in call.left /\ c \in DOMAIN call.requests
        /\ call.requests[c] \in OrderRow /\ RowsOK(call.rows[c])
        /\ \A d \in Customer : d # c => orders'[d] = orders[d]
        /\ orders'[c] \in {orders[c], Revision(call.requests[c], call.rows[c])}
        /\ UNCHANGED <<rows, crashes>>
    BY <1>7, ResetOrderEffect
  <2>2. \/ calls' = calls \ {call}
        \/ \E y : Becomes(call, y) /\ y.stage = "resetOrders"
    BY <1>7, ResetOrderEffect
  <2>3. call.requests[c] = orders[c] /\ call.rows[c] = rows[c] /\ orders[c] # NoOrder
    BY <2>1, Stages DEF Orderly, Fresh, Keeps
  <2>4. PICK o : o = Revision(call.requests[c], call.rows[c])
    OBVIOUS
  <2>5. o.total = Cost(rows[c]) - orders[c].promotion /\ o.promotion = orders[c].promotion
    BY <2>1, <2>3, <2>4, RevisionColumns
  <2>6. \A x \in calls : (\E d : Unrevised(x, d)) => x \in calls'
    BY <2>1, <2>2 DEF Becomes, Unbundled, Unrevised
  <2>7. SettledAt(c)
    BY DEF Settled
  <2>8. CASE orders'[c] = orders[c]
    <3>1. \A d \in Customer : SettledAt(d)'
      BY <2>1, <2>6, <2>8, SettledStays, DueElsewhere DEF Settled
    <3> QED BY <1>9, <2>2, <3>1 DEF Settled, Becomes
  <2>9. CASE orders'[c] = o
    <3>1. SettledAt(c)'
      BY <2>1, <2>3, <2>5, <2>6, <2>7, <2>9, SettledAnew, UnbundledUnrevised
    <3>2. \A d \in Customer : d # c => SettledAt(d)'
      BY <2>1, <2>6, SettledStays, DueElsewhere DEF Settled
    <3> QED BY <1>9, <2>2, <3>1, <3>2 DEF Settled, Becomes
  <2> QED BY <2>1, <2>4, <2>8, <2>9
<1> QED BY <1>2, <1>3, <1>4, <1>5, <1>6, <1>7 DEF Patching

\* Orders stay settled.
LEMMA SettledStep ==
  ASSUME Typed, Orderly, Noted, Settled, Sorted, [Next]_vars
  PROVE  Settled'
<1>1. ASSUME Placing PROVE Settled'
  BY <1>1, PlacingIsSettled DEF Placing
<1>2. ASSUME Working PROVE Settled'
  <2>1. ASSUME NEW c \in Customer, NEW p \in Package,
               NEW unit \in 1..(IF p \in DOMAIN rows[c] THEN rows[c][p].quantity ELSE 0),
               SubmitNotes(c, p, unit)
        PROVE  Settled'
    <3>1. unit \in Nat
      OBVIOUS
    <3> QED BY <2>1, <3>1, WorkingIsSettled
  <2> QED BY <1>2, <2>1, WorkingIsSettled DEF Working
<1>3. ASSUME Patching PROVE Settled'
  BY <1>3, PatchingIsSettled
<1>4. ASSUME UpdateCatalogue \/ UNCHANGED vars PROVE Settled'
  <2>1. UNCHANGED <<orders, rows, calls, crashes>>
    BY <1>4 DEF UpdateCatalogue, vars
  <2> QED BY <2>1, SettledStays, DueElsewhere DEF Settled
<1>5. ASSUME Crash PROVE Settled'
  <2>1. UNCHANGED <<orders, rows>> /\ calls' = {} /\ crashes' # 0
    BY <1>5 DEF Crash, Typed
  <2> QED BY <2>1, SettledStays DEF Settled, StillDue
<1> QED BY <1>1, <1>2, <1>3, <1>4, <1>5 DEF Next

\* A settled order costs what its packages cost at the quotations it keeps.
LEMMA SettledIsOfTheSnapshot ==
  ASSUME Typed, Settled
  PROVE  TotalIsOfTheSnapshot
<1>1. ASSUME NEW c \in Ordered \ OldCustomer
      PROVE  /\ c \in Customer /\ RowsOK(rows[c]) /\ AllPriced(rows[c])
             /\ KeepsGroups(c) \/ (calls = {} /\ crashes = 0)
                  => orders[c].total = Cost(rows[c]) - orders[c].promotion
             /\ KeepsGroups(c) => orders[c].total >= 0
             /\ orders[c] \in OrderRow
             /\ calls = {} /\ crashes = 0 => AddsUp(rows[c])
  BY <1>1 DEF Ordered, Settled, SettledAt, Typed
<1>2. ASSUME NEW c \in Ordered \ OldCustomer
      PROVE  /\ KeepsGroups(c) \/ (calls = {} /\ crashes = 0)
                  => orders[c].total = SumOf([p \in DOMAIN rows[c] |-> Bought(c, p)])
                                         - orders[c].promotion
             /\ KeepsGroups(c) => orders[c].total >= 0
  BY <1>1, <1>2, CostIsBought
<1>3. ASSUME NEW c \in Ordered \ OldCustomer, calls = {}, crashes = 0
      PROVE  SumOf([p \in DOMAIN rows[c] |-> Total(rows[c][p])])
               = orders[c].total + orders[c].promotion
  <2>1. PICK r, b : r = rows[c] /\ b = Bundled(r)
    OBVIOUS
  <2>2. BundledRows(r, b) /\ \A p \in DOMAIN r : r[p].price = b[p].price
    BY <1>1, <1>3, <2>1, BundledType DEF AddsUp
  <2>3. \A p \in DOMAIN r : Total(r[p]) = Total(b[p])
    BY <2>2 DEF BundledRows, Total
  <2>4. [p \in DOMAIN r |-> Total(r[p])] = [p \in DOMAIN r |-> Total(b[p])]
    BY <2>3
  <2>5. SumOf([p \in DOMAIN r |-> Total(r[p])]) = Cost(r)
    BY <2>1, <2>4 DEF Cost
  <2>6. Cost(r) \in Nat
    BY <1>1, <1>3, <2>1, OrderOfType
  <2>7. /\ orders[c].total = Cost(r) - orders[c].promotion
        /\ orders[c].promotion \in Nat
    BY <1>1, <1>3, <2>1 DEF OrderRow
  <2> QED BY <2>1, <2>5, <2>6, <2>7
<1>4. RowsAddUp
  BY <1>3 DEF RowsAddUp
<1> QED BY <1>2, <1>4 DEF TotalIsOfTheSnapshot

\* When technicians and patches wait for one another, and the catalogue keeps its
\* quotations in order, a customer owes what his packages cost together at the quotations
\* of the day of his order, less the promotion: whatever prices the catalogue has since,
\* and, unless operators move a package of a customer in Selangor to another group,
\* wherever a patch was stopped.  When they do, the patch takes the group of the day it
\* runs, and he owes what the new groups make of it once it is through.
THEOREM TotalsAreOfTheSnapshot ==
  ASSUME ~Racing, Sorted
  PROVE  Spec => []TotalIsOfTheSnapshot
<1>1. Init => Settled
  <2> SUFFICES ASSUME Init PROVE Settled
    OBVIOUS
  <2>1. calls = {} /\ \A c \in Customer \ OldCustomer : orders[c] = NoOrder
    BY AtFirst
  <2> QED BY <2>1 DEF Settled, SettledAt
<1>2. Typed /\ Orderly /\ Noted /\ Settled /\ [Next]_vars => Settled'
  BY SettledStep
<1>3. Typed /\ Settled => TotalIsOfTheSnapshot
  BY SettledIsOfTheSnapshot
<1> QED BY <1>1, <1>2, <1>3, AlwaysNoted, PTL DEF Spec
==============================================================================
