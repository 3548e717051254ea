-------------------------------- MODULE Ledger --------------------------------
(***************************************************************************)
(* What the wallets of the service providers promise, whatever the calls   *)
(* that get them there: as often as an amount falls due it is credited, at *)
(* most, and to the provider it is due to; a payout moves its amount once  *)
(* from the available to the held balance, and once out of it.             *)
(***************************************************************************)
EXTENDS Integers

CONSTANTS Owner,       \* providers
          Claim,       \* what may become due
          Payee,       \* Payee[c]: the provider to whom claim c is due
          Value        \* Value[c]: its amount

VARIABLES account,     \* account[o]: the available and the held balance of o
          due,         \* due[c]: how often claim c fell due
          credited,    \* credited[c]: how often it was credited
          payments     \* the payouts that were taken out of an available balance

ledger == <<account, due, credited, payments>>

Init ==
  /\ account = [o \in Owner |-> [available |-> 0, hold |-> 0]]
  /\ due \in [Claim -> Nat]
  /\ credited = [c \in Claim |-> 0]
  /\ payments = {}

FallDue(c) ==
  /\ due' = [due EXCEPT ![c] = @ + 1]
  /\ UNCHANGED <<account, credited, payments>>

Credit(c) ==
  /\ credited[c] < due[c]
  /\ credited' = [credited EXCEPT ![c] = @ + 1]
  /\ account' = [account EXCEPT ![Payee[c]].available = @ + Value[c]]
  /\ UNCHANGED <<due, payments>>

\* A payout is held once; its owner and its amount are its own matter.
Hold(p) ==
  /\ \A q \in payments : q.payout # p.payout
  /\ ~p.released
  /\ payments' = payments \cup {p}
  /\ account' = [account EXCEPT ![p.owner].available = @ - p.amount,
                                ![p.owner].hold = @ + p.amount]
  /\ UNCHANGED <<due, credited>>

Release(p) ==
  /\ ~p.released
  /\ payments' = (payments \ {p}) \cup {[p EXCEPT !.released = TRUE]}
  /\ account' = [account EXCEPT ![p.owner].hold = @ - p.amount]
  /\ UNCHANGED <<due, credited>>

Next ==
  \/ \E c \in Claim : FallDue(c) \/ Credit(c)
  \/ \E p \in payments' : Hold(p)
  \/ \E p \in payments : Release(p)

Spec == Init /\ [][Next]_ledger
===============================================================================
