-------------------------------- MODULE Wallet --------------------------------
(***************************************************************************)
(* The wallets of the service providers and the four command handlers that *)
(* change them, with the repair of missing transactions.                   *)
(*                                                                         *)
(* A handler reads the wallet, adds to the balances in memory and saves    *)
(* the transaction, with which TypeORM saves the wallet (cascade: true):   *)
(* it reads both again (compare), and then, in one database transaction,   *)
(* writes the columns in which they differ.  Nothing is locked.  A step is *)
(* what happens from one database operation to the next.                   *)
(*                                                                         *)
(* Who schedules payouts and sends the commands is in Payout, which        *)
(* extends this module.  As in Service, "Wrong:" introduces a plausible    *)
(* mistake in the operator below it; no action uses it.                    *)
(***************************************************************************)
EXTENDS Integers, Sequences, FiniteSets, FiniteSetsExt

CONSTANTS
  Owner, NoOwner,   \* service providers who carry out jobs, and nobody
  Job, NoJob,       \* service requests, and none
  DispatcherOf,     \* DispatcherOf[j]: who earns the fee of job j
  ImpactedOf,       \* ImpactedOf[j]: who is compensated, if the surcharge of a
                    \* reschedule was paid; else NoOwner
  Earning,          \* Earning[j]: getServiceProviderEarning()
  Compensation,     \* Compensation[j]: impactedServiceProviderCompensationAmount
  Thread,           \* calls in progress at the same time (bounds the overlap)
  MaxPayouts        \* bound on the payouts

PayoutId == 1..MaxPayouts

ASSUME WalletAssumption ==
  /\ NoOwner \notin Owner /\ NoJob \notin Job
  /\ DispatcherOf \in [Job -> Owner]
  /\ ImpactedOf \in [Job -> Owner \cup {NoOwner}]
  /\ Earning \in [Job -> Nat] /\ Compensation \in [Job -> Nat]
  /\ IsFiniteSet(Thread) /\ IsFiniteSet(Job)
  /\ MaxPayouts \in Nat

VARIABLES
  jobs,          \* jobs[j]: what the service request says of its end
  wallets,       \* wallets[o]: the row of o; while ~exists there is none
  transactions,  \* wallet_transactions, by creation
  payouts,       \* payouts, by creation
  todo,          \* commands started by sagas, by task
  thread         \* the calls in progress

JobStatus == {"OPEN", "FULFILLED", "FAILED"}
CreditType == {"INCOME", "RESCHEDULE_SURCHARGE_COMPENSATION"}
WalletRow == [exists : BOOLEAN, available : Int, hold : Int]
PayoutStatus == {"SCHEDULED", "IN_TRANSIT", "PAID", "FAILED"}
PayoutRow == [owner : Owner, amount : Int, status : PayoutStatus, processed : Int, batch : Nat]

\* payout: the payout that a credit is part of, or that a PAYOUT pays; 0: none.
Transaction == [type : CreditType \cup {"PAYOUT"}, owner : Owner, job : Job \cup {NoJob},
                amount : Int, payout : PayoutId \cup {0}, status : {"SUCCESS", "PENDING"}]

Task == [name : {"income", "compensation"}, id : Job] \cup
        [name : {"hold", "release"}, id : PayoutId]

WalletPC == {"idle", "checkCompensation", "findWallet", "findPending", "compareEntry",
             "writeEntry", "compareRelease", "writeRelease", "regenIncome", "regenCompensation"}

\* Wrong: the held balance is not set.
WalletWithoutHold == [exists |-> FALSE, available |-> 0]

\* Wallet.fromOwner: an object without a row.
NewWallet == [exists |-> FALSE, available |-> 0, hold |-> 0]

\* A call in memory: its wallet and the columns that changed; the transaction to
\* insert (entry) or to update (trx, an index); where to go after the save; the
\* jobs the repair has still to do; what a payout call has in hand (see Payout).
NoEntry == [type |-> "PAYOUT", owner |-> NoOwner, job |-> NoJob, amount |-> 0,
            payout |-> 0, status |-> "PENDING"]
Idle == [pc |-> "idle", wallet |-> NewWallet, changed |-> {}, entry |-> NoEntry, trx |-> 0,
         next |-> "idle", incomes |-> {}, compensations |-> {},
         ids |-> {}, rows |-> {}, status |-> "SCHEDULED", sent |-> FALSE]

Running(t, pc) == thread[t].pc = pc
Become(t, p)   == thread' = [thread EXCEPT ![t] = p]
Goto(t, pc)    == thread' = [thread EXCEPT ![t].pc = pc]
Finish(t)      == Become(t, Idle)

Publish(tasks) == todo' = [k \in Task |-> IF k \in tasks THEN todo[k] + 1 ELSE todo[k]]
Take(name, id) ==
  LET k == [name |-> name, id |-> id]
  IN  todo[k] > 0 /\ todo' = [todo EXCEPT ![k] = @ - 1]

Of(type) == {i \in DOMAIN transactions : transactions[i].type = type}
OfPayout(p) == {i \in Of("PAYOUT") : transactions[i].payout = p}

------------------------------------------------------------------------------
(* WalletTransaction.forIncome, forRescheduleSurchargeCompensation, forPayout *)

CreditedTo(type, j) == IF type = "INCOME" THEN DispatcherOf[j] ELSE ImpactedOf[j]
DueFor(type, j)   == IF type = "INCOME" THEN Earning[j] ELSE Compensation[j]

CreditEntry(type, j) ==
  [type |-> type, owner |-> CreditedTo(type, j), job |-> j, amount |-> DueFor(type, j),
   payout |-> 0, status |-> "SUCCESS"]

PayoutEntry(p) ==
  [type |-> "PAYOUT", owner |-> payouts[p].owner, job |-> NoJob,
   amount |-> -payouts[p].amount, payout |-> p, status |-> "PENDING"]

Debited(w, amount)  == [w EXCEPT !.available = @ + amount]
Held(w, amount)     == [w EXCEPT !.available = @ - amount, !.hold = @ + amount]
Released(w, amount) == [w EXCEPT !.hold = @ - amount]

\* The object to save, of a call that is at p.
WithEntry(p, entry, wallet) ==
  [p EXCEPT !.pc = "compareEntry", !.entry = entry, !.wallet = wallet]

------------------------------------------------------------------------------
(* The handlers *)

\* CreateIncomeTransactionHandler: nothing asks whether there is one already.
Income(t, j) ==
  /\ Running(t, "idle") /\ Take("income", j)
  /\ LET entry == CreditEntry("INCOME", j)
     IN  Become(t, WithEntry(Idle, entry, Debited(wallets[entry.owner], entry.amount)))
  /\ UNCHANGED <<jobs, wallets, transactions, payouts>>

\* CreateRescheduleSurchargeCompensationTransactionHandler
DismissCompensation(j) ==
  /\ ImpactedOf[j] = NoOwner
  /\ Take("compensation", j)
  /\ UNCHANGED <<jobs, wallets, transactions, payouts, thread>>

Compensate(t, j) ==
  /\ Running(t, "idle") /\ ImpactedOf[j] # NoOwner
  /\ Take("compensation", j)
  /\ LET entry == CreditEntry("RESCHEDULE_SURCHARGE_COMPENSATION", j)
     IN  Become(t, [WithEntry(Idle, entry, Debited(wallets[entry.owner], entry.amount))
                      EXCEPT !.pc = "checkCompensation"])
  /\ UNCHANGED <<jobs, wallets, transactions, payouts>>

\* Wrong: nothing asks whether the provider was compensated.
CheckNothing(t) ==
  /\ Running(t, "checkCompensation")
  /\ Goto(t, "compareEntry")
  /\ UNCHANGED <<jobs, wallets, transactions, payouts, todo>>

\* "ensure idempotent"
CheckCompensation(t) ==
  /\ Running(t, "checkCompensation")
  /\ LET entry == thread[t].entry
     IN  IF \E i \in Of(entry.type) : /\ transactions[i].owner = entry.owner
                                      /\ transactions[i].job = entry.job
         THEN Finish(t) ELSE Goto(t, "compareEntry")
  /\ UNCHANGED <<jobs, wallets, transactions, payouts, todo>>

\* HoldBalanceForPayoutHandler: the transaction is looked for before the wallet.
Hold(t, p) ==
  /\ Running(t, "idle") /\ Take("hold", p)
  /\ Become(t, IF OfPayout(p) # {} THEN Idle
               ELSE [Idle EXCEPT !.pc = "findWallet", !.entry = PayoutEntry(p)])
  /\ UNCHANGED <<jobs, wallets, transactions, payouts>>

FindWallet(t) ==
  /\ Running(t, "findWallet")
  /\ LET entry == thread[t].entry
         w     == wallets[entry.owner]
     IN  IF w.exists THEN Become(t, WithEntry(thread[t], entry, Held(w, -entry.amount)))
                     ELSE Finish(t)
  /\ UNCHANGED <<jobs, wallets, transactions, payouts, todo>>

\* ReleaseBalanceForPayoutHandler: the wallet is read before the transaction.
Release(t, p) ==
  /\ Running(t, "idle") /\ Take("release", p)
  /\ LET entry == PayoutEntry(p)
         w     == wallets[entry.owner]
     IN  Become(t, IF ~w.exists THEN Idle
                   ELSE [Idle EXCEPT !.pc = "findPending", !.entry = entry,
                                     !.wallet = Released(w, -entry.amount)])
  /\ UNCHANGED <<jobs, wallets, transactions, payouts>>

\* Wrong: a payout that was released is released again.
FindAny(t) ==
  /\ Running(t, "findPending")
  /\ \E i \in OfPayout(thread[t].entry.payout) :
       Become(t, [thread[t] EXCEPT !.pc = "compareRelease", !.trx = i])
  /\ UNCHANGED <<jobs, wallets, transactions, payouts, todo>>

FindPending(t) ==
  /\ Running(t, "findPending")
  /\ LET entry   == thread[t].entry
         pending == {i \in OfPayout(entry.payout) : transactions[i].status = "PENDING"}
     IN  \/ pending = {} /\ Finish(t)
         \/ \E i \in pending :
              Become(t, [thread[t] EXCEPT !.pc = "compareRelease", !.trx = i])
  /\ UNCHANGED <<jobs, wallets, transactions, payouts, todo>>

------------------------------------------------------------------------------
(* walletTransactionRepository.save, with the wallet in its cascade *)

Differing(w, row) == {c \in {"available", "hold"} : w[c] # row[c]}
Merged(w, row, columns) ==
  [c \in DOMAIN row |-> IF c \in columns THEN w[c] ELSE row[c]]

Compare(t, from, to) ==
  /\ Running(t, from)
  /\ LET p == thread[t]
     IN  Become(t, [p EXCEPT !.pc = to,
                             !.changed = Differing(p.wallet, wallets[p.entry.owner])])
  /\ UNCHANGED <<jobs, wallets, transactions, payouts, todo>>

CompareEntry(t)   == Compare(t, "compareEntry", "writeEntry")
CompareRelease(t) == Compare(t, "compareRelease", "writeRelease")

Return(t) ==
  LET p == thread[t]
  IN  Become(t, [Idle EXCEPT !.pc = p.next, !.incomes = p.incomes,
                             !.compensations = p.compensations])

\* A wallet that had no row is inserted: the second to do so breaks the unique
\* owner, and its transaction is rolled back.
WriteEntry(t) ==
  /\ Running(t, "writeEntry")
  /\ LET p   == thread[t]
         o   == p.entry.owner
         row == wallets[o]
     IN  \/ /\ p.wallet.exists
            /\ wallets' = [wallets EXCEPT ![o] = Merged(p.wallet, row, p.changed)]
            /\ transactions' = Append(transactions, p.entry)
            /\ Return(t)
         \/ /\ ~p.wallet.exists /\ ~row.exists
            /\ wallets' = [wallets EXCEPT ![o] = [p.wallet EXCEPT !.exists = TRUE]]
            /\ transactions' = Append(transactions, p.entry)
            /\ Return(t)
         \/ /\ ~p.wallet.exists /\ row.exists
            /\ Finish(t)
            /\ UNCHANGED <<wallets, transactions>>
  /\ UNCHANGED <<jobs, payouts, todo>>

\* WalletTransaction.releasePayout
WriteRelease(t) ==
  /\ Running(t, "writeRelease")
  /\ LET p == thread[t]
         o == p.entry.owner
     IN  /\ wallets' = [wallets EXCEPT ![o] = Merged(p.wallet, @, p.changed)]
         /\ transactions' = [transactions EXCEPT ![p.trx].status = "SUCCESS"]
  /\ Finish(t)
  /\ UNCHANGED <<jobs, payouts, todo>>

------------------------------------------------------------------------------
(* RegenMissingWalletTransactionsFromFulfilledServiceRequestsHandler: the   *)
(* jobs that ended without any transaction; first their incomes, one after  *)
(* the other, then their compensations.  A save that fails ends it.         *)

Ended(j) == jobs[j] \in {"FULFILLED", "FAILED"}
Forgotten == {j \in Job : Ended(j) /\ \A i \in DOMAIN transactions : transactions[i].job # j}

Regen(t) ==
  /\ Running(t, "idle")
  /\ Become(t, [Idle EXCEPT !.pc = "regenIncome",
                            !.incomes = {j \in Forgotten : jobs[j] = "FULFILLED"},
                            !.compensations = {j \in Forgotten : ImpactedOf[j] # NoOwner}])
  /\ UNCHANGED <<jobs, wallets, transactions, payouts, todo>>

\* Reads the wallet for one more job of `left` (the field of that name).
RegenOne(t, j, type, left) ==
  LET entry == CreditEntry(type, j)
  IN  Become(t, [WithEntry(thread[t], entry, Debited(wallets[entry.owner], entry.amount))
                   EXCEPT ![left] = @ \ {j}, !.next = thread[t].pc])

RegenIncome(t) ==
  /\ Running(t, "regenIncome")
  /\ \/ /\ thread[t].incomes = {}
        /\ Goto(t, "regenCompensation")
     \/ \E j \in thread[t].incomes : RegenOne(t, j, "INCOME", "incomes")
  /\ UNCHANGED <<jobs, wallets, transactions, payouts, todo>>

RegenCompensation(t) ==
  /\ Running(t, "regenCompensation")
  /\ \/ /\ thread[t].compensations = {}
        /\ Finish(t)
     \/ \E j \in thread[t].compensations :
          RegenOne(t, j, "RESCHEDULE_SURCHARGE_COMPENSATION", "compensations")
  /\ UNCHANGED <<jobs, wallets, transactions, payouts, todo>>

\* A step of a command that a saga started, or of a handler in progress.
WalletStep(t) ==
  \/ \E j \in Job : Income(t, j) \/ Compensate(t, j)
  \/ \E p \in PayoutId : Hold(t, p) \/ Release(t, p)
  \/ CheckCompensation(t) \/ FindWallet(t) \/ FindPending(t)
  \/ CompareEntry(t) \/ CompareRelease(t) \/ WriteEntry(t) \/ WriteRelease(t)
  \/ RegenIncome(t) \/ RegenCompensation(t)
==============================================================================
