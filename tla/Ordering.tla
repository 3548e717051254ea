------------------------------- MODULE Ordering -------------------------------
(***************************************************************************)
(* Orders from their placing on: the catalogue they are priced from and    *)
(* which changes under them, the promotion they use up together, the       *)
(* technical reports that let a job be fulfilled, and the two patches that *)
(* price orders again while the server runs.                               *)
(*                                                                         *)
(* Every request is split at its awaits: calls holds the calls in progress,*)
(* each with what it has read and the next thing it does, its stage.       *)
(* A crash loses them all.  One order a customer; old customers have one   *)
(* from before quotations were kept and promotions taken off the total, and*)
(* fulfilled by now.                                                       *)
(***************************************************************************)
EXTENDS Pricing, TLC

CONSTANTS
  Customer, OldCustomer,
  StateOf,        \* the state of each customer's address
  Selangor,       \* the state one patch is for
  Catalogues,     \* the catalogues there may be: functions on Package
  Baskets,        \* what each customer may ask for: sets of functions on Package to Nat
  NoOrder,
  Promotion,      \* the one code: a PromotionRow
  OldRows, OldPromotion,  \* the order of an old customer
  Racing,         \* TRUE: technician and patches do not wait for one another
  MaxCrashes, MaxPatches  \* bounds

Amount == Int
OrderRow ==
  [subTotal : Amount, total : Amount, providerTotal : Amount, promotion : Nat,
   completed : BOOLEAN, fulfilled : BOOLEAN]

\* usageCount, the column that changes, is a variable.
PromotionRow == [limit : Nat \ {0}, discount : Discount]

ASSUME OrderingAssumption ==
  /\ NoOrder \notin OrderRow /\ NoQuotations \notin Quotations
  /\ IsFiniteSet(Package)
  /\ OldCustomer \subseteq Customer
  /\ StateOf \in [Customer -> State] /\ Selangor \in State
  /\ Baskets \in [Customer -> SUBSET [Package -> Nat]]
  /\ Catalogues \subseteq [Package -> Offered]
  /\ Promotion \in PromotionRow
  /\ DOMAIN OldRows \subseteq Package
  /\ \A p \in DOMAIN OldRows : OldRows[p] \in PackageRow /\ Completed(OldRows[p])
  /\ OldPromotion \in Nat /\ {MaxCrashes, MaxPatches} \subseteq Nat
  /\ Racing \in BOOLEAN

VARIABLES
  catalogue,      \* service_packages
  usageCount,     \* of the promotion
  orders,         \* customerOrder of each service request, and the job's end
  rows,           \* requested_service_packages of each service request
  calls,          \* the calls in progress
  crashes, patches

vars == <<catalogue, usageCount, orders, rows, calls, crashes, patches>>

Ordered == {c \in Customer : orders[c] # NoOrder}

PatchStage == {"reprice", "reviseRows", "reviseOrder", "resetOrders"}
Stage == {"usePromotion", "saveNew", "saveNotes", "readRows", "saveOrder"}
         \cup PatchStage

TypeOK ==
  /\ catalogue \in Catalogues
  /\ usageCount \in Nat
  /\ \A c \in Customer :
       /\ orders[c] \in OrderRow \cup {NoOrder}
       /\ DOMAIN rows[c] \subseteq Package
       /\ \A p \in DOMAIN rows[c] :
            rows[c][p] \in PackageRow /\ rows[c][p].report \subseteq 1..rows[c][p].quantity
  /\ \A call \in calls : call.stage \in Stage

------------------------------------------------------------------------------
\* The order columns of the request; the job's progress is not theirs.
WithOrder(request, order) ==
  [subTotal |-> order.subTotal, total |-> order.total, providerTotal |-> order.providerTotal,
   promotion |-> order.promotion, completed |-> order.completed,
   fulfilled |-> request.fulfilled]

Init ==
  /\ catalogue \in Catalogues
  /\ usageCount = 0
  /\ rows = [c \in Customer |-> IF c \in OldCustomer THEN OldRows ELSE <<>>]
  /\ orders = [c \in Customer |->
       IF c \in OldCustomer
       THEN WithOrder([fulfilled |-> TRUE],
                      [OrderOf(OldRows, 0) EXCEPT !.promotion = OldPromotion])
       ELSE NoOrder]
  /\ calls = {}
  /\ crashes = 0 /\ patches = 0

Start(call)      == calls' = calls \cup {call}
Ends(call)       == calls' = calls \ {call}
Goes(call, next) == calls' = (calls \ {call}) \cup {next}

\* Somebody works at c's request, or a patch at all of them.
Engaged(c)   == \E call \in calls : call.customer = c \/ call.stage \in PatchStage
MayWork(c)   == Racing \/ ~Engaged(c)
MayPatch     == patches < MaxPatches
                /\ (Racing \/ \A call \in calls : call.stage \in {"usePromotion", "saveNew"})

------------------------------------------------------------------------------
(* Placing an order: priced, the promotion looked up and committed, then the  *)
(* appointment checked and everything saved.                                  *)

Requested(c, basket) ==
  [p \in {q \in Package : basket[q] > 0} |-> NewRow(basket[p], StateOf[c], catalogue[p])]

\* isValid: used up is refused.  That the code is ACTIVE and of the day is asked
\* too; a refusal for any reason leaves everything as it was.
Usable == usageCount < Promotion.limit

Place(c, basket, withPromotion) ==
  LET requested == Bundled(Requested(c, basket))
      total     == OrderOf(requested, 0).total
  IN  /\ orders[c] = NoOrder
      /\ ~\E call \in calls : call.customer = c /\ call.stage \notin PatchStage
      /\ withPromotion => Usable
      /\ Start([stage |-> IF withPromotion THEN "usePromotion" ELSE "saveNew",
                customer |-> c, rows |-> requested,
                promotion |-> IF withPromotion
                              THEN DiscountedAmount(Promotion.discount, total) ELSE 0])
      /\ UNCHANGED <<catalogue, usageCount, orders, rows, crashes, patches>>

\* Wrong: the code is tried (forCommit is FALSE) and never used up.
UsePromotionUncounted(call) ==
  /\ call.stage = "usePromotion"
  /\ Goes(call, [call EXCEPT !.stage = "saveNew"])
  /\ UNCHANGED <<catalogue, usageCount, orders, rows, crashes, patches>>

\* increment where usageLimit > usageCount; nothing affected refuses the order.
UsePromotion(call) ==
  /\ call.stage = "usePromotion"
  /\ IF usageCount < Promotion.limit
     THEN usageCount' = usageCount + 1 /\ Goes(call, [call EXCEPT !.stage = "saveNew"])
     ELSE usageCount' = usageCount /\ Ends(call)
  /\ UNCHANGED <<catalogue, orders, rows, crashes, patches>>

\* The request is inserted with its rows.
SaveNew(call) ==
  /\ call.stage = "saveNew"
  /\ rows'   = [rows EXCEPT ![call.customer] = Bundled(call.rows)]
  /\ orders' = [orders EXCEPT ![call.customer] =
                  WithOrder([fulfilled |-> FALSE], OrderOf(call.rows, call.promotion))]
  /\ Ends(call)
  /\ UNCHANGED <<catalogue, usageCount, crashes, patches>>

\* AppointmentFactory refuses the time: the promotion stays used.
RefuseAppointment(call) ==
  /\ call.stage = "saveNew"
  /\ Ends(call)
  /\ UNCHANGED <<catalogue, usageCount, orders, rows, crashes, patches>>

------------------------------------------------------------------------------
(* The catalogue is edited by operators                                       *)

UpdateCatalogue ==
  /\ catalogue' \in Catalogues \ {catalogue}
  /\ UNCHANGED <<usageCount, orders, rows, calls, crashes, patches>>

------------------------------------------------------------------------------
(* Technical notes: patchTechnicalNotes, and the job's end that asks for them *)

\* Wrong: a note the report does not have is added to it.
SubmitNotesUnknown(c, p, unit) ==
  /\ orders[c] # NoOrder /\ MayWork(c)
  /\ p \in DOMAIN rows[c]
  /\ Start([stage |-> "saveNotes", customer |-> c, package |-> p, request |-> orders[c],
            row |-> [rows[c][p] EXCEPT !.report = @ \cup {unit, unit + 1}]])
  /\ UNCHANGED <<catalogue, usageCount, orders, rows, crashes, patches>>

\* The request and the row are read; blank notes do not pass validation, and a
\* note the report does not have is an error.
SubmitNotes(c, p, unit) ==
  /\ orders[c] # NoOrder /\ MayWork(c)
  /\ p \in DOMAIN rows[c] /\ unit \in 1..rows[c][p].quantity
  /\ Start([stage |-> "saveNotes", customer |-> c, package |-> p, request |-> orders[c],
            row |-> [rows[c][p] EXCEPT !.report = @ \cup {unit}]])
  /\ UNCHANGED <<catalogue, usageCount, orders, rows, crashes, patches>>

SaveNotes(call) ==
  /\ call.stage = "saveNotes"
  /\ rows' = [rows EXCEPT ![call.customer][call.package] = call.row]
  /\ Goes(call, [call EXCEPT !.stage = "readRows"])
  /\ UNCHANGED <<catalogue, usageCount, orders, crashes, patches>>

\* Wrong: the order is revised with the rows it was loaded with.
ReadRowsTooEarly(call) ==
  /\ call.stage = "readRows"
  /\ Goes(call, [stage |-> "saveOrder", customer |-> call.customer, request |-> call.request])
  /\ UNCHANGED <<catalogue, usageCount, orders, rows, crashes, patches>>

\* All rows are read, and the order revised from them.
ReadRows(call) ==
  /\ call.stage = "readRows"
  /\ Goes(call, [stage |-> "saveOrder", customer |-> call.customer,
                 request |-> WithOrder(call.request,
                               OrderOf(rows[call.customer], call.request.promotion))])
  /\ UNCHANGED <<catalogue, usageCount, orders, rows, crashes, patches>>

SaveOrder(call) ==
  /\ call.stage = "saveOrder"
  /\ orders' = [orders EXCEPT ![call.customer] = call.request]
  /\ Ends(call)
  /\ UNCHANGED <<catalogue, usageCount, rows, crashes, patches>>

\* HandleServicingJobHandler at FULLFIL: TechnicalReportNotCompleted otherwise.
Fulfil(c) ==
  /\ orders[c] # NoOrder /\ MayWork(c)
  /\ ~orders[c].fulfilled /\ orders[c].completed
  /\ orders' = [orders EXCEPT ![c].fulfilled = TRUE]
  /\ UNCHANGED <<catalogue, usageCount, rows, calls, crashes, patches>>

------------------------------------------------------------------------------
(* patchPricingDiscrepancyForSelangorState: the requests are read; row by row *)
(* priced anew; then, request by request, bundled again and both saved.       *)

ProviderPrices(row) == <<row.providerUnitPrice, row.providerPrice>>

StartSelangor ==
  /\ MayPatch
  /\ patches' = patches + 1
  /\ LET of == {c \in Ordered : StateOf[c] = Selangor}
     IN  of # {} /\ Start([stage |-> "reprice", customer |-> "all", requests |-> [c \in of |-> orders[c]],
                          left |-> {t \in of \X Package : t[2] \in DOMAIN rows[t[1]]}])
  /\ UNCHANGED <<catalogue, usageCount, orders, rows, crashes>>

\* A row is saved when the provider's prices differ, except that the patch gives
\* up at a fulfilled job whose report is not complete.
Reprice(call, c, p) ==
  LET revised == Revised(rows[c][p], catalogue[p])
      differs == ProviderPrices(revised) # ProviderPrices(rows[c][p])
      givesUp == differs /\ call.requests[c].fulfilled /\ ~Completed(rows[c][p])
  IN  /\ call.stage = "reprice" /\ <<c, p>> \in call.left
      /\ IF givesUp THEN Ends(call)
         ELSE Goes(call, [call EXCEPT !.left = @ \ {<<c, p>>}])
      /\ rows' = IF differs /\ ~givesUp THEN [rows EXCEPT ![c][p] = revised] ELSE rows
      /\ UNCHANGED <<catalogue, usageCount, orders, crashes, patches>>

Repriced(call) ==
  /\ call.stage = "reprice" /\ call.left = {}
  /\ Goes(call, [call EXCEPT !.stage = "reviseRows", !.left = DOMAIN call.requests])
  /\ UNCHANGED <<catalogue, usageCount, orders, rows, crashes, patches>>

ReviseRows(call, c) ==
  /\ call.stage = "reviseRows" /\ c \in call.left
  /\ rows' = [rows EXCEPT ![c] = Bundled(rows[c])]
  /\ Goes(call, [call EXCEPT !.stage = "reviseOrder", !.left = @ \ {c}, !.customer = c,
                   !.requests[c] = WithOrder(@, OrderOf(rows[c], @.promotion))])
  /\ UNCHANGED <<catalogue, usageCount, orders, crashes, patches>>

\* The request is saved, its progress as it was when the patch began.
ReviseOrder(call) ==
  /\ call.stage = "reviseOrder"
  /\ orders' = [orders EXCEPT ![call.customer] = call.requests[call.customer]]
  /\ IF call.left = {} THEN Ends(call)
     ELSE Goes(call, [call EXCEPT !.stage = "reviseRows", !.customer = "all"])
  /\ UNCHANGED <<catalogue, usageCount, rows, crashes, patches>>

------------------------------------------------------------------------------
(* patchPricingDiscrepancyWithAppliedPromoCode: orders with a promotion are   *)
(* read with their rows; one by one reset, and saved when that took exactly   *)
(* the promotion off.                                                         *)

StartPromotions ==
  /\ MayPatch
  /\ patches' = patches + 1
  /\ LET of == {c \in Ordered : orders[c].promotion > 0}
     IN  of # {} /\ Start([stage |-> "resetOrders", customer |-> "all", left |-> of,
                          requests |-> [c \in of |-> orders[c]], rows |-> [c \in of |-> rows[c]]])
  /\ UNCHANGED <<catalogue, usageCount, orders, rows, crashes>>

ResetOrder(call, c) ==
  LET pre  == call.requests[c]
      post == WithOrder(pre, OrderOf(call.rows[c], pre.promotion))
  IN  /\ call.stage = "resetOrders" /\ c \in call.left
      /\ orders' = IF pre.total - post.total # pre.promotion THEN orders
                   ELSE [orders EXCEPT ![c] = post]
      /\ IF call.left = {c} THEN Ends(call) ELSE Goes(call, [call EXCEPT !.left = @ \ {c}])
      /\ UNCHANGED <<catalogue, usageCount, rows, crashes, patches>>

------------------------------------------------------------------------------
\* The process restarts: what was in progress is not resumed.
Crash ==
  /\ crashes < MaxCrashes /\ crashes' = crashes + 1
  /\ calls # {} /\ calls' = {}
  /\ UNCHANGED <<catalogue, usageCount, orders, rows, patches>>

Placing ==
  \/ \E c \in Customer, withPromotion \in BOOLEAN :
       \E basket \in Baskets[c] : Place(c, basket, withPromotion)
  \/ \E call \in calls : UsePromotion(call) \/ SaveNew(call) \/ RefuseAppointment(call)

Working ==
  \/ \E c \in Customer, p \in Package :
       \E unit \in 1..(IF p \in DOMAIN rows[c] THEN rows[c][p].quantity ELSE 0) :
         SubmitNotes(c, p, unit)
  \/ \E call \in calls : SaveNotes(call) \/ ReadRows(call) \/ SaveOrder(call)
  \/ \E c \in Customer : Fulfil(c)

Patching ==
  \/ StartSelangor \/ StartPromotions
  \/ \E call \in calls :
       \/ \E c \in Customer : \/ \E p \in Package : Reprice(call, c, p)
                              \/ ReviseRows(call, c) \/ ResetOrder(call, c)
       \/ Repriced(call) \/ ReviseOrder(call)

Next == Placing \/ Working \/ Patching \/ UpdateCatalogue \/ Crash

Spec == Init /\ [][Next]_vars

------------------------------------------------------------------------------
(* Properties                                                                 *)

\* A price found without the program's search: that of the highest minimum the
\* quantity reaches, or the first of all when it reaches none.
PriceFor(quotations, quantity) ==
  LET reached == {t \in {quotations[i] : i \in DOMAIN quotations} : t.min <= quantity}
  IN  IF reached = {} THEN quotations[1].price
      ELSE (CHOOSE t \in reached : \A u \in reached : u.min <= t.min).price

Bought(c, p) ==
  LET row  == rows[c][p]
      kind == {q \in DOMAIN rows[c] : q = p \/ (row.group # NoGroup /\ rows[c][q].group = row.group)}
      n    == SumOf([q \in kind |-> rows[c][q].quantity])
  IN  row.quantity * (IF row.snapshot = NoQuotations THEN row.price
                      ELSE PriceFor(row.snapshot.consumer, n))

\* The uses of a code are counted, every order that has the promotion as one, and never
\* exceed its limit, however many orders look the code up before the first of them
\* commits.  (One that was refused late, or lost in a crash, may count too.)
PromotionIsCounted ==
  /\ Cardinality({c \in Ordered \ OldCustomer : orders[c].promotion > 0}) <= usageCount
  /\ usageCount <= Promotion.limit

\* With nothing in progress, the prices shown row by row add up to the order's
\* total: the patch's first pass does not leave them at the package's own tier.
RowsAddUp ==
  calls = {} /\ crashes = 0 =>
    \A c \in Ordered \ OldCustomer :
      SumOf([p \in DOMAIN rows[c] |-> Total(rows[c][p])])
        = orders[c].total + orders[c].promotion

\* No patch moves a package of c's to another group: he does not live in Selangor, or
\* operators leave what he bought where it is.
KeepsGroups(c) ==
  \/ StateOf[c] # Selangor
  \/ \A p \in DOMAIN rows[c], offers, others \in Catalogues : offers[p].group = others[p].group

\* What the customer owes is what his packages cost together at the quotations of
\* the day of his order, less the promotion, and never less than nothing: whatever
\* prices the catalogue has since, notes are submitted, patches run or stop half-way.
\* The patch for Selangor takes over the group a package has by now, and the total
\* follows: not before the patch is through with him, and not when it is lost
\* half-way.  At rest the total is what the rows add up to.
TotalIsOfTheSnapshot ==
  /\ \A c \in Ordered \ OldCustomer :
       LET cost == SumOf([p \in DOMAIN rows[c] |-> Bought(c, p)])
       IN  /\ KeepsGroups(c) \/ (calls = {} /\ crashes = 0)
                => orders[c].total = cost - orders[c].promotion
           /\ KeepsGroups(c) => orders[c].total >= 0
  /\ RowsAddUp

\* A fulfilled job has a note for every unit of every package: the flag that let
\* it be fulfilled is a copy, in another table, of what the reports say.
FulfilledIsReported ==
  \A c \in Ordered : orders[c].fulfilled =>
    \A p \in DOMAIN rows[c] : rows[c][p].report = 1..rows[c][p].quantity

\* With nothing in progress, a job with all its notes may be fulfilled: the last
\* note submitted reaches the flag.
ReportsAreNoticed ==
  calls = {} /\ crashes = 0 =>
    \A c \in Ordered :
      (\A p \in DOMAIN rows[c] : rows[c][p].quantity > 0 /\ rows[c][p].report = 1..rows[c][p].quantity)
        => orders[c].completed
==============================================================================
