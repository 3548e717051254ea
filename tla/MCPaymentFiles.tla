---------------------------- MODULE MCPaymentFiles ----------------------------
(***************************************************************************)
(* Job j1 of Daikin, under a promotion code: two units of one package     *)
(* and one of another; another provider lost it and is compensated.  Job   *)
(* j2 of Acson: one unit, and a compensation for the same provider.        *)
(***************************************************************************)
EXTENDS PaymentFiles

CONSTANTS j1, j2, o1, o2

Row(quantity, cost, price) == [quantity |-> quantity, cost |-> cost, price |-> price]
To(job, owner, type)       == [job |-> job, owner |-> owner, type |-> type]

MCPrincipalGroup == [j \in Job |-> IF j = j1 THEN "DMSS" ELSE "AMSS"]
MCPackages  == [j \in Job |-> IF j = j1 THEN <<Row(2, 3, 5), Row(1, 4, 6)>> ELSE <<Row(1, 5, 7)>>]
MCSurcharge == [j \in Job |-> [cost |-> 2, price |-> 4]]
MCPromotion == [j \in Job |-> IF j = j1 THEN 1 ELSE 0]
MCCredit == {To(j1, o1, "INCOME"), To(j1, o2, "RESCHEDULE_SURCHARGE_COMPENSATION"),
             To(j2, o1, "INCOME"), To(j2, o1, "RESCHEDULE_SURCHARGE_COMPENSATION")}
==============================================================================
