-------------------------------- MODULE Payout --------------------------------
(***************************************************************************)
(* Settlement: from the jobs that ended, over the providers' wallets (see  *)
(* Wallet) and the payouts scheduled from them, to the answers of the      *)
(* bank.  PayoutService, PayoutSaga and UpdatePayoutHandler, with the      *)
(* commands of ServiceRequestSaga that pay.                                *)
(*                                                                         *)
(* Calls come from people (the administrators' endpoints), from cron (the  *)
(* scripts) and from the bank (the status files).  A call that is not in   *)
(* Overlapping starts when all is quiet, and until all is quiet again no   *)
(* other call starts; the commands that the sagas start for one call do    *)
(* overlap, up to the number of threads.                                   *)
(***************************************************************************)
EXTENDS Wallet, SequencesExt

CONSTANTS
  Calls,          \* the kinds of call that are made
  Overlapping,    \* those that may overlap each other
  Payable,        \* the owners whose bank information is complete
  NewStatus,      \* what an administrator may set a payout to
  RepeatReports,  \* TRUE: the bank may report the same payment again
  MaxAnnounced,   \* bounds: MaxAnnounced[j]: how often job j is announced as fulfilled;
  MaxBatches,     \* uploads; crashes
  MaxCrashes

ASSUME PayoutAssumption ==
  /\ Calls \subseteq {"fulfil", "testFulfilled", "fail", "regen", "schedule", "upload",
                      "mark", "update", "settle", "patch"}
  /\ Overlapping \subseteq Calls
  /\ Payable \subseteq Owner
  /\ NewStatus \subseteq {"SCHEDULED", "IN_TRANSIT", "PAID", "FAILED"}
  /\ RepeatReports \in BOOLEAN
  /\ MaxAnnounced \in [Job -> Nat] /\ MaxBatches \in Nat /\ MaxCrashes \in Nat

VARIABLES
  lines,      \* payout_lines, by creation
  batches,    \* payout_batches, by creation: the status of each
  alone,      \* the calls in progress exclude others
  reported,   \* the payments that the bank has reported: <<job, owner>>
  crashes,
  announced   \* announced[j]: how often ServiceRequestFulfilled was published for j

rows == <<jobs, wallets, transactions, payouts, lines, batches>>
vars == <<rows, todo, thread, alone, reported, crashes, announced>>

BatchStatus == {"SCHEDULED", "IN_TRANSIT", "PAID", "FAILED"}
LineStatus  == {"SCHEDULED", "IN_TRANSIT", "PAID"}
Line == [job : Job, owner : Owner, amount : Int, payout : PayoutId, status : LineStatus]

PayoutPC == {"savePayouts", "saveLines", "readLines", "saveBatch", "send", "saveSentLines",
             "closeBatch", "saveMarked", "increment", "checkPaid", "savePaid",
             "saveStatus", "saveSettled"}

Quiet == /\ \A t \in Thread : Running(t, "idle")
         /\ \A k \in Task : todo[k] = 0

MayStart(call) ==
  /\ call \in Calls
  /\ Quiet \/ (call \in Overlapping /\ ~alone)
  /\ alone' = (call \notin Overlapping)

\* A call that a thread is to carry out, in the state of memory p.
Start(t, call, p) ==
  /\ Running(t, "idle") /\ MayStart(call)
  /\ Become(t, p)

Amount(seq, S)       == MapThenSumSet(LAMBDA i : seq[i].amount, S)
Credits              == {i \in DOMAIN transactions : transactions[i].type \in CreditType}
CreditsOf(p)         == {i \in Credits : transactions[i].payout = p}
LinesOf(p)           == {l \in DOMAIN lines : lines[l].payout = p}
SetStatus(S, status) == [p \in DOMAIN payouts |->
                          IF p \in S THEN [payouts[p] EXCEPT !.status = status] ELSE payouts[p]]
SetLines(S, status)  == [l \in DOMAIN lines |->
                          IF l \in S THEN [lines[l] EXCEPT !.status = status] ELSE lines[l]]

\* ServiceRequestSaga.serviceRequestFulfilled and .serviceRequestRevokedByOperator
Tasks(name, S)      == [name : {name}, id : S]
ServiceRequestFulfilled(j) == Publish(Tasks("income", {j}) \cup Tasks("compensation", {j}))
ServiceRequestRevoked(j)   == Publish(Tasks("compensation", {j}))

\* Wrong: nobody hears that a payout was scheduled.
ScheduledUnheard(S) == UNCHANGED todo

\* PayoutSaga
PayoutScheduled(S) == Publish(Tasks("hold", S))
PayoutPaid(S)      == Publish(Tasks("release", S))

------------------------------------------------------------------------------
(* The end of a job (JobDispatch has how it comes to it) *)

\* ServiceRequestFulfilled is published for j.
Announce(j) ==
  /\ announced[j] < MaxAnnounced[j]
  /\ announced' = [announced EXCEPT ![j] = @ + 1]
  /\ ServiceRequestFulfilled(j)
  /\ UNCHANGED <<wallets, transactions, payouts, lines, batches, thread, reported, crashes>>

\* HandleServicingJobHandler: each call that finds the job fulfilled after its save says
\* so.  Two that overlap do, and one that completes a job again which was revoked.
Fulfil(j) ==
  /\ MayStart("fulfil")
  /\ jobs' = [jobs EXCEPT ![j] = "FULFILLED"]
  /\ Announce(j)

\* TestServiceRequestController and EarningController, whatever the status of the job is.
TestFulfilled(j) ==
  /\ MayStart("testFulfilled")
  /\ Announce(j)
  /\ UNCHANGED jobs

\* An operator may revoke a job as failed whatever its status is.
Fail(j) ==
  /\ MayStart("fail")
  /\ jobs' = [jobs EXCEPT ![j] = "FAILED"]
  /\ ServiceRequestRevoked(j)
  /\ UNCHANGED <<wallets, transactions, payouts, lines, batches, thread, reported, crashes,
                 announced>>

StartRegen(t) ==
  /\ MayStart("regen") /\ Regen(t)
  /\ UNCHANGED <<lines, batches, reported, crashes, announced>>

------------------------------------------------------------------------------
(* PayoutService.schedulePayoutsFromWalletTransactions *)

Debitable == {i \in Credits : transactions[i].payout = 0}
Owners(S) == {transactions[i].owner : i \in S}

\* Wrong: transactions that are part of a payout are scheduled again.
ScheduleAll(t) ==
  /\ Start(t, "schedule", [Idle EXCEPT !.pc = "savePayouts", !.ids = Credits])
  /\ UNCHANGED <<rows, todo, reported, crashes, announced>>

Schedule(t) ==
  /\ Debitable # {}
  /\ Start(t, "schedule", [Idle EXCEPT !.pc = "savePayouts", !.ids = Debitable])
  /\ UNCHANGED <<rows, todo, reported, crashes, announced>>

\* PayoutFactory: a payout for each owner whose bank information is complete.
SavePayouts(t) ==
  /\ Running(t, "savePayouts")
  /\ LET ids    == thread[t].ids
         owners == SetToSeq(Owners(ids) \cap Payable)
         new    == [n \in DOMAIN owners |->
                     [owner |-> owners[n], status |-> "SCHEDULED", processed |-> 0, batch |-> 0,
                      amount |-> Amount(transactions,
                                        {i \in ids : transactions[i].owner = owners[n]})]]
         Row(o) == Len(payouts) + CHOOSE n \in DOMAIN owners : owners[n] = o
     IN  /\ Len(payouts) + Len(new) <= MaxPayouts
         /\ payouts' = payouts \o new
         /\ transactions' = [i \in DOMAIN transactions |->
                               IF i \in ids /\ transactions[i].owner \in Payable
                               THEN [transactions[i] EXCEPT !.payout = Row(transactions[i].owner)]
                               ELSE transactions[i]]
         /\ Become(t, [thread[t] EXCEPT !.pc = "saveLines",
                                        !.rows = {Row(o) : o \in Range(owners)}])
  /\ UNCHANGED <<jobs, wallets, lines, batches, todo, alone, reported, crashes, announced>>

\* PayoutLineFactory: it asks each owner for the bank information, and throws when
\* there is one without.  A line takes its payout from the transaction of its job
\* that the database returned last.
SaveLines(t) ==
  /\ Running(t, "saveLines")
  /\ LET ids     == thread[t].ids
         Mine(o) == CHOOSE p \in thread[t].rows : payouts[p].owner = o
         of(j)   == {i \in ids : transactions[i].job = j}
         incomes == SetToSeq({i \in ids : transactions[i].type = "INCOME"})
         others  == SetToSeq({i \in ids : transactions[i].type # "INCOME"})
     IN  \/ /\ ~(Owners(ids) \subseteq Payable)
            /\ UNCHANGED <<lines, todo>>
         \/ /\ Owners(ids) \subseteq Payable
            /\ \E last \in [{transactions[i].job : i \in ids} -> ids] :
                 /\ \A j \in DOMAIN last : last[j] \in of(j)
                 /\ LET LineOf(i) == [job |-> transactions[i].job, owner |-> transactions[i].owner,
                                      amount |-> transactions[i].amount, status |-> "SCHEDULED",
                                      payout |-> Mine(transactions[last[transactions[i].job]].owner)]
                        of_ids    == incomes \o others
                    IN  lines' = lines \o [n \in DOMAIN of_ids |-> LineOf(of_ids[n])]
            /\ PayoutScheduled(thread[t].rows)
  /\ Finish(t)
  /\ UNCHANGED <<jobs, wallets, transactions, payouts, batches, alone, reported, crashes,
                 announced>>

------------------------------------------------------------------------------
(* PayoutService.generateAndUploadPaymentFiles, for one tenant *)

Upload(t) ==
  /\ Len(batches) < MaxBatches
  /\ LET scheduled == {p \in DOMAIN payouts : payouts[p].status = "SCHEDULED"}
     IN  /\ scheduled # {}
         /\ Start(t, "upload", [Idle EXCEPT !.pc = "readLines", !.rows = scheduled])
  /\ UNCHANGED <<rows, todo, reported, crashes, announced>>

\* Without lines it returns or throws; status: what the lines allow the batch to become.
ReadLines(t) ==
  /\ Running(t, "readLines")
  /\ LET ids == {l \in DOMAIN lines : lines[l].payout \in thread[t].rows}
     IN  Become(t, IF ids = {} THEN Idle
                   ELSE [thread[t] EXCEPT
                           !.pc = "saveBatch", !.ids = ids,
                           !.status = IF \A l \in ids : lines[l].status = "SCHEDULED"
                                      THEN "IN_TRANSIT" ELSE "FAILED"])
  /\ UNCHANGED <<rows, todo, alone, reported, crashes, announced>>

\* With the batch, its payouts are saved: they belong to it from now on.
SaveBatch(t) ==
  /\ Running(t, "saveBatch")
  /\ batches' = Append(batches, "SCHEDULED")
  /\ payouts' = [p \in DOMAIN payouts |->
                   IF p \in thread[t].rows THEN [payouts[p] EXCEPT !.batch = Len(batches')]
                                           ELSE payouts[p]]
  /\ Goto(t, "send")
  /\ UNCHANGED <<jobs, wallets, transactions, lines, todo, alone, reported, crashes, announced>>

\* The three files are uploaded, or one of them fails.  setUploadedPaymentFiles
\* then marks the payouts (sent), before the lines can refuse.
Send(t) ==
  /\ Running(t, "send")
  /\ \/ Become(t, [thread[t] EXCEPT !.pc = "closeBatch", !.status = "FAILED"])
     \/ Become(t, [thread[t] EXCEPT !.sent = TRUE,
                                    !.pc = IF thread[t].status = "IN_TRANSIT"
                                           THEN "saveSentLines" ELSE "closeBatch"])
  /\ UNCHANGED <<rows, todo, alone, reported, crashes, announced>>

SaveSentLines(t) ==
  /\ Running(t, "saveSentLines")
  /\ lines' = SetLines(thread[t].ids, "IN_TRANSIT")
  /\ Goto(t, "closeBatch")
  /\ UNCHANGED <<jobs, wallets, transactions, payouts, batches, todo, alone, reported, crashes,
                 announced>>

\* The batch of this upload is that of its payouts.
CloseBatch(t) ==
  /\ Running(t, "closeBatch")
  /\ LET p == thread[t]
     IN  /\ batches' = [b \in DOMAIN batches |->
                          IF \E r \in p.rows : payouts[r].batch = b THEN p.status ELSE batches[b]]
         /\ payouts' = IF p.sent THEN SetStatus(p.rows, "IN_TRANSIT") ELSE payouts
  /\ Finish(t)
  /\ UNCHANGED <<jobs, wallets, transactions, lines, todo, alone, reported, crashes, announced>>

------------------------------------------------------------------------------
(* PayoutService.markPayoutLinesAsPaid, for a payment that the bank reports *)

\* The bank reports what was sent to it; lines in another state are refused.
Mark(t, j, o) ==
  /\ RepeatReports \/ <<j, o>> \notin reported
  /\ LET mine == {l \in DOMAIN lines : lines[l].job = j /\ lines[l].owner = o}
     IN  /\ mine # {}
         /\ \A l \in mine : lines[l].status = "IN_TRANSIT"
         /\ Start(t, "mark", [Idle EXCEPT !.pc = "saveMarked", !.ids = mine])
  /\ reported' = reported \cup {<<j, o>>}
  /\ UNCHANGED <<rows, todo, crashes, announced>>

SaveMarked(t) ==
  /\ Running(t, "saveMarked")
  /\ lines' = SetLines(thread[t].ids, "PAID")
  /\ Goto(t, "increment")
  /\ UNCHANGED <<jobs, wallets, transactions, payouts, batches, todo, alone, reported, crashes,
                 announced>>

\* Wrong: the amount replaces what other lines of the payout had added.
Replace(t) ==
  /\ Running(t, "increment")
  /\ \E l \in thread[t].ids :
       /\ payouts' = [payouts EXCEPT ![lines[l].payout].processed = Amount(lines, thread[t].ids)]
       /\ Become(t, [thread[t] EXCEPT !.pc = "checkPaid", !.rows = {lines[l].payout}])
  /\ UNCHANGED <<jobs, wallets, transactions, lines, batches, todo, alone, reported, crashes,
                 announced>>

\* One UPDATE statement: nothing comes between its reading and its writing.
Increment(t) ==
  /\ Running(t, "increment")
  /\ \E l \in thread[t].ids :
       /\ payouts' = [payouts EXCEPT ![lines[l].payout].processed =
                                     @ + Amount(lines, thread[t].ids)]
       /\ Become(t, [thread[t] EXCEPT !.pc = "checkPaid", !.rows = {lines[l].payout}])
  /\ UNCHANGED <<jobs, wallets, transactions, lines, batches, todo, alone, reported, crashes,
                 announced>>

\* hasPaymentFullyProcessed
CheckPaid(t) ==
  /\ Running(t, "checkPaid")
  /\ \E p \in thread[t].rows :
       IF payouts[p].processed = payouts[p].amount THEN Goto(t, "savePaid") ELSE Finish(t)
  /\ UNCHANGED <<rows, todo, alone, reported, crashes, announced>>

\* The payout that is saved is the one that was read: its processed amount was due.
SavePaid(t) ==
  /\ Running(t, "savePaid")
  /\ \E p \in thread[t].rows :
       /\ payouts' = [payouts EXCEPT ![p].status = "PAID", ![p].processed = payouts[p].amount]
       /\ PayoutPaid({p})
  /\ Finish(t)
  /\ UNCHANGED <<jobs, wallets, transactions, lines, batches, alone, reported, crashes, announced>>

------------------------------------------------------------------------------
(* The administrators *)

\* UpdatePayoutHandler: only a payout in transit is updated, and then released.  The
\* handler waits for the release; as a task it is lost in a crash all the same.
Update(t, p, status) ==
  /\ payouts[p].status = "IN_TRANSIT"
  /\ Start(t, "update", [Idle EXCEPT !.pc = "saveStatus", !.rows = {p}, !.status = status])
  /\ UNCHANGED <<rows, todo, reported, crashes, announced>>

SaveStatus(t) ==
  /\ Running(t, "saveStatus")
  /\ payouts' = SetStatus(thread[t].rows, thread[t].status)
  /\ Publish(Tasks("release", thread[t].rows))
  /\ Finish(t)
  /\ UNCHANGED <<jobs, wallets, transactions, lines, batches, alone, reported, crashes, announced>>

\* PayoutService.markEveryInTransitPayoutBatchesAsPaid
Settle(t) ==
  /\ LET ids == {b \in DOMAIN batches : batches[b] = "IN_TRANSIT"}
     IN  /\ ids # {}
         /\ Start(t, "settle",
                  [Idle EXCEPT !.pc = "saveSettled", !.ids = ids,
                               !.rows = {p \in DOMAIN payouts : payouts[p].batch \in ids}])
  /\ UNCHANGED <<rows, todo, reported, crashes, announced>>

\* Wrong: the payouts are not saved with their batches (no cascade).
SettleBatches(t) ==
  /\ Running(t, "saveSettled")
  /\ batches' = [b \in DOMAIN batches |-> IF b \in thread[t].ids THEN "PAID" ELSE batches[b]]
  /\ UNCHANGED payouts
  /\ PayoutPaid(thread[t].rows)
  /\ Finish(t)
  /\ UNCHANGED <<jobs, wallets, transactions, lines, alone, reported, crashes, announced>>

SaveSettled(t) ==
  /\ Running(t, "saveSettled")
  /\ batches' = [b \in DOMAIN batches |-> IF b \in thread[t].ids THEN "PAID" ELSE batches[b]]
  /\ payouts' = SetStatus(thread[t].rows, "PAID")
  /\ PayoutPaid(thread[t].rows)
  /\ Finish(t)
  /\ UNCHANGED <<jobs, wallets, transactions, lines, alone, reported, crashes, announced>>

\* PayoutService.patchMissingPayoutTransactions, for one payout of its list
Patch(p) ==
  /\ MayStart("patch")
  /\ Publish(Tasks("hold", {p}))
  /\ UNCHANGED <<rows, thread, reported, crashes, announced>>

\* The process ends (a script ends itself 30 seconds after its call returned).
Crash ==
  /\ crashes < MaxCrashes /\ ~Quiet
  /\ crashes' = crashes + 1
  /\ thread' = [t \in Thread |-> Idle]
  /\ todo' = [k \in Task |-> 0]
  /\ UNCHANGED <<rows, alone, reported, announced>>

------------------------------------------------------------------------------
PayoutStep(t) ==
  \/ SavePayouts(t) \/ SaveLines(t)
  \/ ReadLines(t) \/ SaveBatch(t) \/ Send(t) \/ SaveSentLines(t) \/ CloseBatch(t)
  \/ SaveMarked(t) \/ Increment(t) \/ CheckPaid(t) \/ SavePaid(t)
  \/ SaveStatus(t) \/ SaveSettled(t)

\* What the program does without being called.
Command ==
  /\ \/ \E t \in Thread : WalletStep(t)
     \/ \E j \in Job : DismissCompensation(j)
  /\ UNCHANGED <<lines, batches, alone, reported, crashes, announced>>

Program == Command \/ \E t \in Thread : PayoutStep(t)

Request ==
  \/ \E j \in Job : Fulfil(j) \/ TestFulfilled(j) \/ Fail(j)
  \/ \E t \in Thread : StartRegen(t) \/ Schedule(t) \/ Upload(t) \/ Settle(t)
  \/ \E t \in Thread, j \in Job, o \in Owner : Mark(t, j, o)
  \/ \E t \in Thread, p \in DOMAIN payouts, s \in NewStatus : Update(t, p, s)
  \/ \E p \in DOMAIN payouts : Patch(p)

Init ==
  /\ jobs = [j \in Job |-> "OPEN"]
  /\ wallets = [o \in Owner |-> NewWallet]
  /\ transactions = << >> /\ payouts = << >> /\ lines = << >> /\ batches = << >>
  /\ todo = [k \in Task |-> 0]
  /\ thread = [t \in Thread |-> Idle]
  /\ alone = FALSE /\ reported = {} /\ crashes = 0
  /\ announced = [j \in Job |-> 0]

Next == Request \/ Program \/ Crash

Spec == Init /\ [][Next]_vars

\* Node and the database go on with what was started, and what a saga started begins.
LiveSpec == Spec /\ WF_vars(Program)

------------------------------------------------------------------------------
(* Properties *)

\* The rows hold what their entities allow, and the calls what the handlers keep.
TypeOK ==
  /\ jobs \in [Job -> JobStatus]
  /\ wallets \in [Owner -> WalletRow]
  /\ transactions \in Seq(Transaction)
  /\ payouts \in Seq(PayoutRow)
  /\ lines \in Seq(Line)
  /\ batches \in Seq(BatchStatus)
  /\ todo \in [Task -> Nat]
  /\ \A t \in Thread : thread[t].pc \in WalletPC \cup PayoutPC
  /\ alone \in BOOLEAN /\ reported \subseteq Job \X Owner /\ crashes \in 0..MaxCrashes
  /\ announced \in [Job -> Nat] /\ \A j \in Job : announced[j] <= MaxAnnounced[j]

Claims == {c \in CreditType \X Job : CreditedTo(c[1], c[2]) # NoOwner}

CreditsFor(c) == {i \in Of(c[1]) : transactions[i].job = c[2]}

\* The wallets implement the ledger: each step of each handler is a step of it or
\* changes nothing of it.  An income is credited once, at most, each time the job is
\* announced as fulfilled (the handler does not ask for an earlier one), also by the
\* repair after a crash; a compensation is credited once for good.  Both balances
\* move by exactly what the transactions say, whatever the saves of whole rows do.
L == INSTANCE Ledger WITH
       Owner <- Owner, Claim <- Claims,
       Payee <- [c \in Claims |-> CreditedTo(c[1], c[2])],
       Value <- [c \in Claims |-> DueFor(c[1], c[2])],
       account <- [o \in Owner |-> [available |-> wallets[o].available, hold |-> wallets[o].hold]],
       due <- [c \in Claims |-> IF c[1] = "INCOME" THEN announced[c[2]] ELSE 1],
       credited <- [c \in Claims |-> Cardinality(CreditsFor(c))],
       payments <- {[payout |-> transactions[i].payout, owner |-> transactions[i].owner,
                     amount |-> -transactions[i].amount,
                     released |-> transactions[i].status = "SUCCESS"] : i \in Of("PAYOUT")}

LedgerSpec == L!Spec

\* A payout pays exactly the credits that point at it, all of one owner, and what is
\* taken from the available balance for it is its amount: no credit is paid by two
\* payouts, and none that a payout was computed from is lost to it.
PayoutIsBacked ==
  /\ \A p \in DOMAIN payouts :
       /\ payouts[p].amount = Amount(transactions, CreditsOf(p))
       /\ \A i \in CreditsOf(p) : transactions[i].owner = payouts[p].owner
  /\ \A i \in Of("PAYOUT") : LET p == transactions[i].payout
                             IN  /\ transactions[i].amount = -payouts[p].amount
                                 /\ transactions[i].owner = payouts[p].owner

IsHeld(p)     == OfPayout(p) # {}
IsReleased(p) == \E i \in OfPayout(p) : transactions[i].status = "SUCCESS"

\* A held balance is released only when its payout was paid: until then the
\* provider's wallet shows the money on its way.
ReleasedIsPaid == \A p \in DOMAIN payouts : IsReleased(p) => payouts[p].status = "PAID"

\* When the calls are over and no process was lost, a payout all lines of which the
\* bank paid is paid, and its balance released, however the reports of its lines
\* overlapped.
SettledIsPaid ==
  Quiet /\ crashes = 0 =>
    \A p \in DOMAIN payouts :
      (LinesOf(p) # {} /\ \A l \in LinesOf(p) : lines[l].status = "PAID")
        => payouts[p].status = "PAID" /\ IsReleased(p)

\* Where no process is lost, the balance is held of each payout that has lines for
\* the bank: PayoutScheduled reaches HoldBalanceForPayout through the saga.  (One
\* owner without bank information and the rows of all are saved without lines and
\* without the event: these wait for the script that patches holds.)
HeldInTheEnd ==
  \A p \in PayoutId : (\E l \in DOMAIN lines : lines[l].payout = p) ~> IsHeld(p) \/ crashes > 0

------------------------------------------------------------------------------
(* What the code does not keep: see the README *)

\* The lines that the bank receives for a payout are those of its owner.
LinesOfOwner == \A l \in DOMAIN lines : payouts[lines[l].payout].owner = lines[l].owner

\* An owner whose bank information is complete has the lines of each payout that was
\* saved for him, whoever else could not be paid.
PayoutHasLines ==
  Quiet /\ crashes = 0 => \A p \in DOMAIN payouts : LinesOf(p) # {}

\* A job is compensated once, however often the end of the job is announced.
CompensatedOnce ==
  \A i, k \in Of("RESCHEDULE_SURCHARGE_COMPENSATION") :
    transactions[i].job = transactions[k].job => i = k
==============================================================================
