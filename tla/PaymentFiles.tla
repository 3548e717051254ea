----------------------------- MODULE PaymentFiles -----------------------------
(***************************************************************************)
(* The files of the settlement.  From the credits of the wallets the first *)
(* script schedules payouts and their lines, one line per unit of work.    *)
(* The second writes three files for each tenant: the payment file of the  *)
(* bank SCB (one detail per payout), the summary (one row per job) and the *)
(* lines; all go to S3, the last two also to an FTP server, where the      *)
(* tenants' SAP reads them, pays, and leaves status files.  A third script *)
(* downloads these, marks the lines they report and removes them.          *)
(*                                                                         *)
(* Payout has the calls of people and of the bank that overlap, and the    *)
(* wallets; here each script is a process of cron that runs alone, fails   *)
(* and crashes between any two of its steps, and the file server fails     *)
(* without the script hearing of it.                                       *)
(***************************************************************************)
EXTENDS Integers, SequencesExt

CONSTANTS
  Job, Owner,      \* service requests, and the providers (by vendor id)
  NoOwner,
  PrincipalGroup,  \* of a job: the tenant whose order it is
  Packages,        \* of a job: its rows [quantity, cost, price], unit prices after discounts
  Surcharge,       \* of a job: [cost, price] of the surcharge compensation
  Promotion,       \* of a job: what its promotion code takes off
  Credit,          \* the wallet transactions that may fall due: [job, owner, type]
  Together,        \* TRUE: a job is over before payouts are scheduled from any credit of it
  MaxBatches, MaxFiles, MaxFaults \* bounds

\* Tenant, in the order in which the batches are made
Tenant == <<"DMSS", "AMSS">>
CreditType == {"INCOME", "RESCHEDULE_SURCHARGE_COMPENSATION"}

ASSUME FilesAssumption ==
  /\ NoOwner \notin Owner
  /\ PrincipalGroup \in [Job -> Range(Tenant)]
  /\ \A j \in Job : /\ Packages[j] \in Seq([quantity : Nat, cost : Nat, price : Nat])
                    /\ Surcharge[j] \in [cost : Nat, price : Nat]
                    /\ Promotion[j] \in Nat
  /\ Credit \subseteq [job : Job, owner : Owner, type : CreditType] /\ IsFiniteSet(Credit)
  /\ Together \in BOOLEAN
  /\ {MaxBatches, MaxFiles, MaxFaults} \subseteq Nat

VARIABLES
  paidBy,   \* of a credit: NotEarned, Payable, or its payout
  payouts, lines, batches, \* the rows, by creation
  bucket,   \* the files on S3
  ftp,      \* the files that SAP has: <<batch, kind>>
  inbox,    \* the status files on the FTP server
  script,   \* the script that schedules or uploads
  reader,   \* the script that reads the status files
  files, failures, crashes, \* status files written, transfers failed, processes lost
  cut       \* what broken transfers did not bring of status files: <<name, row>>.  No
            \* part of the program: it has no notion of it

rows == <<paidBy, payouts, lines, batches>>
vars == <<rows, bucket, ftp, inbox, script, reader, files, failures, crashes, cut>>

NotEarned == -1
Payable   == 0

Status == {"SCHEDULED", "IN_TRANSIT", "PAID", "FAILED"}
PayoutRow == [owner : Owner, tenant : Range(Tenant), amount : Nat, processed : Nat,
              status : Status]
LineRow   == [job : Job, owner : Owner, type : CreditType, cost : Nat, price : Nat,
              payout : Nat, status : Status]
BatchRow  == [tenant : Range(Tenant), number : Nat, payouts : SUBSET Nat, total : Nat,
              status : Status]

Invalid == <<NoOwner, NoOwner>> \* a row that has not four columns, or names nobody
Idle    == [pc |-> "idle"]
Faulty  == failures + crashes < MaxFaults

Amount(seq, S) == MapThenSumSet(LAMBDA i : seq[i].amount, S)
Cost(L)        == MapThenSumSet(LAMBDA l : lines[l].cost, L)
Price(L)       == MapThenSumSet(LAMBDA l : lines[l].price, L)
OfJob(L, j)    == {l \in L : lines[l].job = j}
OfType(L, t)   == {l \in L : lines[l].type = t}
OfStatus(L, s) == {l \in L : lines[l].status = s}
PayoutsOf(P, t) == {p \in P : payouts[p].tenant = t}
LinesOf(L, t)   == {l \in L : PrincipalGroup[lines[l].job] = t}

------------------------------------------------------------------------------
(* The first script: PayoutFactory and PayoutLineFactory                      *)

\* An item per unit of a package; one for a surcharge.
Items(c) ==
  IF c.type = "INCOME"
  THEN FlattenSeq([i \in DOMAIN Packages[c.job] |->
         LET row == Packages[c.job][i]
         IN  [n \in 1..row.quantity |-> [cost |-> row.cost, price |-> row.price]]])
  ELSE <<Surcharge[c.job]>>

\* What the wallet was credited (WalletTransaction.forIncome, .forCompensation).
Due(c) ==
  IF c.type = "INCOME"
  THEN MapThenSumSet(LAMBDA i : Packages[c.job][i].quantity * Packages[c.job][i].cost,
                     DOMAIN Packages[c.job])
  ELSE Surcharge[c.job].cost

\* The job is over, and its credits are in the wallets.
Earn(c) ==
  /\ paidBy[c] = NotEarned
  /\ paidBy' = [d \in Credit |->
                  IF d = c \/ (Together /\ d.job = c.job /\ paidBy[d] = NotEarned)
                  THEN Payable ELSE paidBy[d]]
  /\ UNCHANGED <<payouts, lines, batches, bucket, ftp, inbox, script, reader, files,
                 failures, crashes, cut>>

\* A payout for each owner and tenant, of all that is payable.
SchedulePayouts ==
  LET due   == {c \in Credit : paidBy[c] = Payable}
      pairs == SetToSeq({<<c.owner, PrincipalGroup[c.job]>> : c \in due})
      Paid(i) == {c \in due : <<c.owner, PrincipalGroup[c.job]>> = pairs[i]}
  IN  /\ script = Idle /\ due # {}
      /\ payouts' = payouts \o [i \in DOMAIN pairs |->
                      [owner |-> pairs[i][1], tenant |-> pairs[i][2], processed |-> 0,
                       amount |-> MapThenSumSet(Due, Paid(i)), status |-> "SCHEDULED"]]
      /\ paidBy' = [c \in Credit |->
                      IF c \in due THEN Len(payouts) + CHOOSE i \in DOMAIN pairs : c \in Paid(i)
                      ELSE paidBy[c]]
      /\ script' = [pc |-> "scheduleLines", credits |-> due]
  /\ UNCHANGED <<lines, batches, bucket, ftp, inbox, reader, files, failures, crashes, cut>>

\* Incomes first.  A line has the payout of the credit of its job that the database
\* returned last.
ScheduleLines ==
  /\ script.pc = "scheduleLines"
  /\ \E last \in [{c.job : c \in script.credits} -> script.credits] :
       /\ \A j \in DOMAIN last : last[j].job = j
       /\ LET Sorted(t) == SetToSeq({c \in script.credits : c.type = t})
              LinesFor(c) == [i \in DOMAIN Items(c) |->
                 [job |-> c.job, owner |-> c.owner, type |-> c.type, status |-> "SCHEDULED",
                  cost |-> Items(c)[i].cost, price |-> Items(c)[i].price,
                  payout |-> paidBy[last[c.job]]]]
              all == Sorted("INCOME") \o Sorted("RESCHEDULE_SURCHARGE_COMPENSATION")
          IN  lines' = lines \o FlattenSeq([i \in DOMAIN all |-> LinesFor(all[i])])
  /\ script' = Idle
  /\ UNCHANGED <<paidBy, payouts, batches, bucket, ftp, inbox, reader, files, failures, crashes, cut>>

------------------------------------------------------------------------------
(* The contents of the files: ScbPaymentRecordsBuilder, PayoutSummaryFileBuilder *)
(* and PayoutLinesFileBuilder, of the payouts P and the lines L of one batch    *)

\* The payer's account and city: the second of the two calls names them in the other order.
Debit(t) ==
  IF t = Head(Tenant) THEN [account |-> <<"account", t>>, city |-> <<"city", t>>]
  ELSE [account |-> <<"city", t>>, city |-> <<"account", t>>]

\* A payment's record, as far as a payout decides it; the rest is the bank's format.
Numbered  == {"account", "city"} \X Range(Tenant)
DetailRow == [reference : Nat, payee : Owner, amount : Nat,
              debit : [account : Numbered, city : Numbered]]

Detail(p)  == [reference |-> p, payee |-> payouts[p].owner, amount |-> payouts[p].amount,
               debit |-> Debit(payouts[p].tenant)]
Invoice(P) == Amount(payouts, P)
Trailer(P) == [records |-> Cardinality(P), total |-> Amount(payouts, P)]

PaymentFile(P) ==
  [details |-> {Detail(p) : p \in P}, invoice |-> Invoice(P), trailer |-> Trailer(P)]

\* Both vendor columns are filled from the first line of the job.
SummaryRow(j, mine, sales) ==
  LET Vendor(type) == IF OfType(mine, type) = {} THEN NoOwner ELSE lines[Min(mine)].owner
  IN  [job |-> j, cost |-> Cost(mine), sales |-> sales,
       service   |-> Vendor("INCOME"),
       surcharge |-> Vendor("RESCHEDULE_SURCHARGE_COMPENSATION")]

Jobs(L) == {lines[l].job : l \in L}

\* Wrong: the promotion is taken off each line.
SummaryFileOfLines(L) ==
  {LET mine == OfJob(L, j)
   IN  SummaryRow(j, mine, Price(mine) - Cardinality(mine) * Promotion[j]) : j \in Jobs(L)}

\* One row per job.
SummaryFile(L) ==
  {SummaryRow(j, OfJob(L, j), Price(OfJob(L, j)) - Promotion[j]) : j \in Jobs(L)}

\* The lines of a job are numbered.
LinesRow(L, l) ==
  [job |-> lines[l].job, number |-> Cardinality({k \in OfJob(L, lines[l].job) : k <= l}),
   cost |-> lines[l].cost, price |-> lines[l].price, vendor |-> lines[l].owner]

LinesFile(L) == {LinesRow(L, l) : l \in L}

------------------------------------------------------------------------------
(* The second script: PayoutService.generateAndUploadPaymentFiles             *)

Uploading(pc) == script.pc = pc
Continue(pc)  == script' = [script EXCEPT !.pc = pc]
Batch         == Len(batches)

Upload ==
  LET scheduled == {p \in DOMAIN payouts : payouts[p].status = "SCHEDULED"}
  IN  /\ script = Idle /\ scheduled # {}
      /\ script' = [pc |-> "batch", tenants |-> Tenant,
                    loaded |-> [p \in scheduled |-> payouts[p]],
                    lines |-> {l \in DOMAIN lines : lines[l].payout \in scheduled},
                    payouts |-> {}, ids |-> {}, outcome |-> "SCHEDULED", sent |-> FALSE]
      /\ UNCHANGED <<rows, bucket, ftp, inbox, reader, files, failures, crashes, cut>>

\* Payouts are saved as they were loaded, with their batch.
Saved(P, sent) ==
  [p \in DOMAIN payouts |->
     IF p \notin P THEN payouts[p]
     ELSE IF sent THEN [script.loaded[p] EXCEPT !.status = "IN_TRANSIT"] ELSE script.loaded[p]]

\* Several payouts without a line end the script, before the next tenant's turn.
NextTenant ==
  /\ Uploading("batch")
  /\ LET P == PayoutsOf(DOMAIN script.loaded, Head(script.tenants))
         L == LinesOf(script.lines, Head(script.tenants))
     IN  \/ /\ script.tenants # <<>> /\ Cardinality(P) > 1 /\ L = {}
            /\ script' = Idle
            /\ UNCHANGED <<batches, payouts>>
         \/ /\ script.tenants # <<>> /\ (P = {} \/ (L = {} /\ Cardinality(P) = 1))
            /\ script' = [script EXCEPT !.tenants = Tail(@)]
            /\ UNCHANGED <<batches, payouts>>
         \/ /\ script.tenants # <<>> /\ P # {} /\ L # {}
            /\ Len(batches) < MaxBatches
            /\ batches' = Append(batches,
                 [tenant |-> Head(script.tenants), payouts |-> P, total |-> Amount(payouts, P),
                  number |-> 1 + Cardinality({b \in DOMAIN batches :
                                                batches[b].tenant = Head(script.tenants)}),
                  status |-> "SCHEDULED"])
            /\ payouts' = Saved(P, FALSE)
            /\ script' = [script EXCEPT !.pc = "payment", !.tenants = Tail(@),
                            !.payouts = P, !.ids = L, !.outcome = "SCHEDULED", !.sent = FALSE]
         \/ /\ script.tenants = <<>>
            /\ script' = Idle
            /\ UNCHANGED <<batches, payouts>>
  /\ UNCHANGED <<paidBy, lines, bucket, ftp, inbox, reader, files, failures, crashes, cut>>

Store(kind, content) ==
  bucket' = bucket \cup {[batch |-> Batch, kind |-> kind, content |-> content]}

SendPayment ==
  /\ Uploading("payment")
  /\ Store("payment", PaymentFile(script.payouts))
  /\ Continue("summary")
  /\ UNCHANGED <<rows, ftp, inbox, reader, files, failures, crashes, cut>>

\* FtpService.uploadFile: an error is printed, and nobody hears of it.
Forward(kind) ==
  \/ /\ ftp' = ftp \cup {<<Batch, kind>>}
     /\ UNCHANGED failures
  \/ /\ Faulty /\ failures' = failures + 1
     /\ UNCHANGED ftp

SendSummary ==
  /\ Uploading("summary")
  /\ Store("summary", SummaryFile(script.ids)) /\ Forward("summary")
  /\ Continue("lines")
  /\ UNCHANGED <<rows, inbox, reader, files, crashes, cut>>

SendLines ==
  /\ Uploading("lines")
  /\ Store("lines", LinesFile(script.ids)) /\ Forward("lines")
  /\ Continue("mark")
  /\ UNCHANGED <<rows, inbox, reader, files, crashes, cut>>

\* Wrong: the error is saved as the status.
FailUploadAsStatus ==
  /\ script.pc \in {"payment", "summary", "lines"}
  /\ Faulty /\ failures' = failures + 1
  /\ script' = [script EXCEPT !.pc = "close", !.outcome = "Access Denied"]
  /\ UNCHANGED <<rows, bucket, ftp, inbox, reader, files, crashes, cut>>

\* FileService.writeToPayoutsBucket fails: the batch has failed.
FailUpload ==
  /\ script.pc \in {"payment", "summary", "lines"}
  /\ Faulty /\ failures' = failures + 1
  /\ script' = [script EXCEPT !.pc = "close", !.outcome = "FAILED"]
  /\ UNCHANGED <<rows, bucket, ftp, inbox, reader, files, crashes, cut>>

\* setUploadedPaymentFiles marks the payouts before the lines are asked; a line that
\* is not SCHEDULED refuses, and none of them is saved.
MarkSent ==
  /\ Uploading("mark")
  /\ \/ /\ \A l \in script.ids : lines[l].status = "SCHEDULED"
        /\ lines' = [l \in DOMAIN lines |-> IF l \in script.ids
                       THEN [lines[l] EXCEPT !.status = "IN_TRANSIT"] ELSE lines[l]]
        /\ script' = [script EXCEPT !.pc = "close", !.outcome = "IN_TRANSIT", !.sent = TRUE]
     \/ /\ \E l \in script.ids : lines[l].status # "SCHEDULED"
        /\ script' = [script EXCEPT !.pc = "close", !.outcome = "FAILED", !.sent = TRUE]
        /\ UNCHANGED lines
  /\ UNCHANGED <<paidBy, payouts, batches, bucket, ftp, inbox, reader, files, failures, crashes, cut>>

\* Wrong: the batch alone is saved.
CloseBatchOnly ==
  /\ Uploading("close")
  /\ batches' = [batches EXCEPT ![Batch].status = script.outcome]
  /\ UNCHANGED payouts
  /\ Continue("batch")
  /\ UNCHANGED <<paidBy, lines, bucket, ftp, inbox, reader, files, failures, crashes, cut>>

\* The batch is saved with its payouts.
CloseBatch ==
  /\ Uploading("close")
  /\ batches' = [batches EXCEPT ![Batch].status = script.outcome]
  /\ payouts' = Saved(script.payouts, script.sent)
  /\ Continue("batch")
  /\ UNCHANGED <<paidBy, lines, bucket, ftp, inbox, reader, files, failures, crashes, cut>>

------------------------------------------------------------------------------
(* SAP: it pays what both of its files name, after the upload, and reports it *)

Delivered(b) == {<<b, "summary">>, <<b, "lines">>} \subseteq ftp

Report ==
  /\ files < MaxFiles /\ files' = files + 1
  /\ script = Idle
  /\ \E b \in DOMAIN batches :
       LET pairs == UNION {{<<r.job, r.vendor>> : r \in f.content} :
                             f \in {g \in bucket : g.batch = b /\ g.kind = "lines"}}
       IN  /\ Delivered(b)
           /\ \E r1 \in pairs : \E r2 \in (pairs \ {r1}) \cup {Invalid} :
                inbox' = inbox \cup {[name |-> files', rows |-> <<r1, r2>>]}
  /\ UNCHANGED <<rows, bucket, ftp, script, reader, failures, crashes, cut>>

------------------------------------------------------------------------------
(* The third script: PayoutService.processPaymentStatus                       *)

Reading(pc) == reader.pc = pc
Fail        == Faulty /\ failures' = failures + 1

\* Nothing listed, the script fails on undefined and ends: as if it had not run.
List ==
  /\ reader = Idle /\ inbox # {}
  /\ reader' = [pc |-> "next", names |-> {f.name : f \in inbox}]
  /\ UNCHANGED <<rows, bucket, ftp, inbox, script, files, failures, crashes, cut>>

Begin(f, seq) == reader' = [pc |-> "row", names |-> reader.names \ {f.name}, name |-> f.name,
                            rows |-> seq]

\* A transfer that breaks leaves the beginning of the file, which is read as if it were
\* all.  Without a local file neither readFileSync nor unlinkSync work: the latter ends
\* the script, and the files that follow wait for its next run.
Download ==
  /\ Reading("next")
  /\ \E f \in inbox :
       /\ f.name \in reader.names
       /\ \/ Begin(f, f.rows) /\ UNCHANGED <<failures, cut>>
          \/ Fail /\ \E n \in 0..(Len(f.rows) - 1) :
               /\ Begin(f, SubSeq(f.rows, 1, n))
               /\ cut' = cut \cup {<<f.name, f.rows[i]>> : i \in (n + 1)..Len(f.rows)}
          \/ reader' = Idle /\ Fail /\ UNCHANGED cut
  /\ UNCHANGED <<rows, bucket, ftp, inbox, script, files, crashes>>

EndOfList ==
  /\ Reading("next") /\ reader.names = {}
  /\ reader' = Idle
  /\ UNCHANGED <<rows, bucket, ftp, inbox, script, files, failures, crashes, cut>>

Reported(row) == {l \in DOMAIN lines : <<lines[l].job, lines[l].owner>> = row}

\* Wrong: a line is marked again when the file is read again.
MarkRowAgain ==
  /\ Reading("row") /\ reader.rows # <<>>
  /\ LET mine == Reported(Head(reader.rows))
     IN  IF mine # {} /\ \A l \in mine : lines[l].status # "SCHEDULED"
         THEN /\ lines' = [l \in DOMAIN lines |-> IF l \in mine
                             THEN [lines[l] EXCEPT !.status = "PAID"] ELSE lines[l]]
              /\ reader' = [reader EXCEPT !.pc = "count"]
         ELSE /\ reader' = [reader EXCEPT !.rows = Tail(@)]
              /\ UNCHANGED lines
  /\ UNCHANGED <<paidBy, payouts, batches, bucket, ftp, inbox, script, files, failures, crashes, cut>>

\* PayoutService.markPayoutLinesAsPaid; what it refuses is logged, and the next row read.
MarkRow ==
  /\ Reading("row") /\ reader.rows # <<>>
  /\ LET mine == Reported(Head(reader.rows))
     IN  IF mine # {} /\ \A l \in mine : lines[l].status = "IN_TRANSIT"
         THEN /\ lines' = [l \in DOMAIN lines |-> IF l \in mine
                             THEN [lines[l] EXCEPT !.status = "PAID"] ELSE lines[l]]
              /\ reader' = [reader EXCEPT !.pc = "count"]
         ELSE /\ reader' = [reader EXCEPT !.rows = Tail(@)]
              /\ UNCHANGED lines
  /\ UNCHANGED <<paidBy, payouts, batches, bucket, ftp, inbox, script, files, failures, crashes, cut>>

\* All of it is counted for the payout of one of them.
CountRow ==
  /\ Reading("count")
  /\ LET mine == Reported(Head(reader.rows))
     IN  \E l \in mine :
           /\ payouts' = [payouts EXCEPT ![lines[l].payout].processed = @ + Cost(mine)]
           /\ reader' = [pc |-> "pay", names |-> reader.names, name |-> reader.name,
                         rows |-> reader.rows, payout |-> lines[l].payout]
  /\ UNCHANGED <<paidBy, lines, batches, bucket, ftp, inbox, script, files, failures, crashes, cut>>

\* hasPaymentFullyProcessed
PayRow ==
  /\ Reading("pay")
  /\ LET p == reader.payout
     IN  payouts' = IF payouts[p].processed = payouts[p].amount
                    THEN [payouts EXCEPT ![p].status = "PAID"] ELSE payouts
  /\ reader' = [pc |-> "row", names |-> reader.names, name |-> reader.name,
                rows |-> Tail(reader.rows)]
  /\ UNCHANGED <<paidBy, lines, batches, bucket, ftp, inbox, script, files, failures, crashes, cut>>

\* Wrong: a file is removed before it is read.
RemoveBeforeReading ==
  /\ Reading("row")
  /\ inbox' = {f \in inbox : f.name # reader.name}
  /\ UNCHANGED failures
  /\ reader' = [pc |-> "next", names |-> reader.names]
  /\ UNCHANGED <<rows, bucket, ftp, script, files, crashes, cut>>

\* Removed or moved to the backup; when that fails nobody hears of it either, and the
\* next run reads the file again.
RemoveFile ==
  /\ Reading("row") /\ reader.rows = <<>>
  /\ \/ /\ inbox' = {f \in inbox : f.name # reader.name}
        /\ UNCHANGED failures
     \/ Fail /\ UNCHANGED inbox
  /\ reader' = [pc |-> "next", names |-> reader.names]
  /\ UNCHANGED <<rows, bucket, ftp, script, files, crashes, cut>>

------------------------------------------------------------------------------
Schedule == SchedulePayouts \/ ScheduleLines

Transfer == NextTenant \/ SendPayment \/ SendSummary \/ SendLines \/ FailUpload
            \/ MarkSent \/ CloseBatch

Read == List \/ Download \/ EndOfList \/ MarkRow \/ CountRow \/ PayRow \/ RemoveFile

\* A process ends; the next one starts with what the database and the servers hold.
Crash ==
  /\ Faulty /\ crashes' = crashes + 1
  /\ \/ script # Idle /\ script' = Idle /\ UNCHANGED reader
     \/ reader # Idle /\ reader' = Idle /\ UNCHANGED script
  /\ UNCHANGED <<rows, bucket, ftp, inbox, files, failures, cut>>

Init ==
  /\ paidBy = [c \in Credit |-> NotEarned]
  /\ payouts = <<>> /\ lines = <<>> /\ batches = <<>>
  /\ bucket = {} /\ ftp = {} /\ inbox = {}
  /\ script = Idle /\ reader = Idle
  /\ files = 0 /\ failures = 0 /\ crashes = 0 /\ cut = {}

Next == (\E c \in Credit : Earn(c)) \/ Schedule \/ Upload \/ Transfer \/ Report \/ Read \/ Crash

Spec == Init /\ [][Next]_vars

\* Cron runs the third script again and again, and a process that runs goes on.
LiveSpec == Spec /\ WF_vars(Read) /\ WF_vars(ScheduleLines \/ Transfer)

------------------------------------------------------------------------------
(* Properties *)

\* The rows hold what their entities allow.
TypeOK ==
  /\ paidBy \in [Credit -> {NotEarned, Payable} \cup DOMAIN payouts]
  /\ payouts \in Seq(PayoutRow) /\ lines \in Seq(LineRow) /\ batches \in Seq(BatchRow)
  /\ ftp \subseteq ((DOMAIN batches) \X {"summary", "lines"})
  /\ \A f \in bucket : f.kind = "payment" => f.content.details \subseteq DetailRow
  /\ \A f \in inbox : f.name \in 1..files

Content(b, kind) == {f.content : f \in {g \in bucket : g.batch = b /\ g.kind = kind}}
SumOver(S, Value(_)) == MapThenSumSet(Value, S)

\* The payouts and the lines of the batch are of the same credits.
Whole(b) ==
  {c \in Credit : paidBy[c] \in batches[b].payouts} =
  {[job |-> lines[l].job, owner |-> lines[l].owner, type |-> lines[l].type] :
     l \in {k \in DOMAIN lines : lines[k].payout \in batches[b].payouts}}

\* The three files of a batch and its row ask for the same money: what SCB is told to
\* pay out is what SAP sees as the cost of the jobs, by job and by line, and the sales
\* are the lines' less the promotion of each job.  (A schedule that was cut short
\* leaves payouts without lines, which SCB is told of and SAP is not; the lines of a job
\* of two credits all have the payout of one, and may be in another batch than the other.)
FilesAgree ==
  \A b \in DOMAIN batches : Whole(b) =>
    /\ \A file \in Content(b, "payment") :
         /\ SumOver(file.details, LAMBDA d : d.amount) = batches[b].total
         /\ file.invoice = batches[b].total
         /\ file.trailer = [records |-> Cardinality(file.details), total |-> batches[b].total]
    /\ \A file \in Content(b, "lines") : SumOver(file, LAMBDA r : r.cost) = batches[b].total
    /\ \A file \in Content(b, "summary"), detail \in Content(b, "lines") :
         \A r \in file :
           LET mine == {d \in detail : d.job = r.job}
           IN  /\ r.cost = SumOver(mine, LAMBDA d : d.cost)
               /\ r.sales = SumOver(mine, LAMBDA d : d.price) - Promotion[r.job]

\* What SCB was told to pay by a batch that is in transit, no later payment file tells
\* it again, however often an upload fails, is cut short and repeated.  (A batch that
\* has failed or was never closed may have told SCB all the same.)
SentOnce ==
  \A f, g \in bucket :
    /\ f.kind = "payment" /\ g.kind = "payment" /\ f.batch < g.batch
    /\ batches[f.batch].status = "IN_TRANSIT"
    => {d.reference : d \in f.content.details} \cap {d.reference : d \in g.content.details} = {}

\* A payout counts as processed what its lines that were reported cost, once, however
\* often a report is repeated or its file read again; and it is paid when all its lines
\* are, if they cost what it pays.  (The lines of a job of two providers all have the
\* payout of one, which then is not paid, or too early.  A process that ends between the
\* marking and the counting leaves a payout unpaid for good.)
CountedOnce ==
  reader = Idle /\ crashes = 0 =>
    \A p \in DOMAIN payouts :
      LET mine == {l \in DOMAIN lines : lines[l].payout = p}
      IN  /\ payouts[p].processed = Cost(OfStatus(mine, "PAID"))
          /\ mine # {} /\ Cost(mine) = payouts[p].amount /\ OfStatus(mine, "PAID") = mine
               => payouts[p].status = "PAID"

\* What a file still to be read reports of lines that were sent is marked in the end,
\* whichever process is lost and whatever else the file server fails to do, unless a
\* broken transfer leaves out that row: the beginning of the file is then read as if it
\* were all, and the file removed.  (A row that came before its lines were saved as sent
\* is refused, and gone with the file.)
ReportedIsMarked ==
  \A name \in 1..MaxFiles, j \in Job, o \in Owner :
    (/\ reader.pc \in {"idle", "next"}
     /\ \E f \in inbox : f.name = name /\ <<j, o>> \in Range(f.rows)
     /\ Reported(<<j, o>>) # {} /\ \A l \in Reported(<<j, o>>) : lines[l].status = "IN_TRANSIT")
      ~> \/ \A l \in Reported(<<j, o>>) : lines[l].status = "PAID"
         \/ <<name, <<j, o>>>> \in cut

------------------------------------------------------------------------------
(* What the code does not keep: see the README *)

\* A job is paid for under the vendors who are named for it.
SummaryNamesVendors ==
  \A f, h \in bucket : f.batch = h.batch /\ f.kind = "summary" /\ h.kind = "lines" =>
    \A d \in h.content : \E r \in f.content : r.job = d.job /\ d.vendor \in {r.service, r.surcharge}

\* A tenant's payments are taken from its account.
DebitsTheAccount ==
  \A f \in bucket : f.kind = "payment" =>
    \A d \in f.content.details : d.debit.account = <<"account", payouts[d.reference].tenant>>

\* What is in transit has reached those who pay it.
InTransitIsKnown ==
  \A b \in DOMAIN batches : batches[b].status = "IN_TRANSIT" => Delivered(b)
==============================================================================
