# A verification development for the service-request backend

The program is a NestJS backend (TypeScript, TypeORM, PostgreSQL, Redis/Bull) on which
customers order a household service and pay its fee, service providers take, allocate and
carry out the job, and are paid for it.  This directory holds TLA+ modules of its core,
instances for TLC, and theorems checked by TLAPS.

Source paths below are relative to `src/src/` of the repository.

## 1. Inventory

Every part runs in one Node.js process: handlers are asynchronous functions that give up
control at each `await`, so that calls interleave at database operations; there are no
locks, no version columns and, with few exceptions, no transactions.  The parts talk by
three means: direct calls (command and query bus), events (`eventBus.publish`, whose
handlers and sagas run later and are lost with the process), and Bull queues in Redis
(which survive it).  Scripts of cron are processes of their own upon the same database.

| Component | State | Operations | What is hard | What makes it correct | Module |
|---|---|---|---|---|---|
| **service request** (`service-request/`) | the row: `Service` value object (payment status, allocation status, status, next action, provider, last event, last response), order and amounts | create, cancel, revoke, fail, expire, payment response, CRM patch, restart, reschedule, rate, refund | read – await – save without a version; the value object is rebuilt by every change; stale copies | nobody works unpaid; the row agrees with offers, calendar, history and payments | `Service`, `JobDispatch`, `Reschedule`, `Ordering` |
| **dispatching** (`dispatching/`) | `assignments` (offers), `appointments` (calendar), the queue `ticket`, one row of settings | accept, assign manually, allocate, cancel, revoke, expire offers; the ticket processor; event handlers on cancelled, revoked, allocated, fulfilled, rescheduled | two providers accept at once; tables are updated by handlers after the row; batches go on while the job is taken | one dispatcher at a time; an open job is offered, a taken one is not; one appointment blocks the calendar | `JobDispatch`, `Ticket`, `Reschedule` |
| **handling** (`handling/`) | `handling_events` | START, IN_PROGRESS, FULLFIL recorded by the worker | order is derived from a status which other calls rewrite | work follows travel; progress shown was recorded | `JobDispatch` |
| **payment** (`payment/`) | `payment_gateway_responses` | checkout page, browser response, webhook, override of an earlier response | answers arrive twice, late, in any order, for an order filed anew | a success is recognised; a surcharge pays for one move | `JobDispatch`, `Gateway` |
| **reschedule orders** (`service-request/entities/customer-reschedule-order.entity.ts`) | the order in the request's row, with its surcharge | file, execute, replace; the operator's own change of the time | surcharge paid late, twice, or failed; the provider to be freed is a copy | the appointment moves exactly when it may, the provider is freed, a reminder of the new time is queued | `Reschedule` |
| **refund** (`refund/`), **feedback** (`feedback/`) | a row, and its copy on the request | the operator refunds, the customer rates | the copy is saved with a row read earlier, and lost by rebuilding the value object | the request remembers both | `Reschedule` |
| **reminders** (queue `reminder`) | delayed jobs with a copy of the request | add, process | the job is moved, cancelled or given to another meanwhile | a job that is moved reminds at its new time only | `Reschedule` |
| **pricing** (`service-request/entities/requested-service-package.entity.ts`, `customer-order.entity.ts`; `service-package/`) | rows with quantities, tiers of quotations copied from the catalogue, amounts; technical reports | price by quantity and package group, bundle, report per unit, two repair scripts | volume tiers over a group; repair in passes; the catalogue changes | parts add up to the total, the total follows from the copy | `Pricing`, `Ordering` |
| **promotion** (`promotion/`) | code, limit, uses | validate, apply (atomic count) | counted before the order is saved | uses never exceed the limit | `Ordering` |
| **wallet** (`wallet/`) | balance, held balance, transactions | income, compensation, hold, release, repair | balance is read, added to in memory, saved with a cascade; the end of a job may be announced again | credited no more often than it fell due, held once, released once | `Wallet`, `Ledger` |
| **payout** (`payout/`) | payouts, lines, batches; files on S3 and on an FTP server | schedule, generate and upload three files per tenant, mark lines as paid, move the status on | reports overlap; scripts end halfway; transfers fail unheard | files ask for the same money, a payout is paid once | `Payout`, `PaymentFiles` |
| **auth, one-time passwords** (`auth/`) | `user_logins`, `phone_verifications` | sign in and out, change and reset a password in three ways, request and use a code | rows saved back by overlapping calls; two windows of different length | replaced passwords do not come back; codes keep their distance | `Accounts` |
| **service providers, dealers, administrators** (`service-provider/`, `dealer/`, `admin-user/`) | one or two rows, and a login, in different tables | create, replace, delete, duty | saved one after the other; names taken over from the deleted | a login follows its account | `Accounts`; candidates in `Ticket` |
| **push notification, pub-sub** | one row of a notice | notify of a new job | a notice of an offer that failed | the offered are told | `Ticket` |
| **scripts** (`scripts/`) | none | expire unpaid requests; three payout jobs; repair of prices and transactions | list read once, applied later | – | in the modules of their components |
| **crm** (`crm/`) | ids of an external system | find and patch the customer's id | slow call between read and save | the patch changes the id only | its write only, in `JobDispatch` |
| **sms, email** | none that is read again | send | – | – | – |
| **skill, equipment, service area, service type, roles, permissions, announcement, dashboard, file, user** | records | edit, read | – | – | – |
| **cqrs, shared, i18n, database** | none | event bus, errors, configuration, seeds | – | – | – |

How the core works together:

    order --Created-----------> saga --> FindAndPatchCRMCustomerId
          --Confirmed (no gateway) ---+
    gateway -> PaymentService --Responded--> handler --Confirmed (paid) --+
    provider cancels / operator revokes --Cancelled / Revoked ------------+
    customer reschedules, surcharge paid --Rescheduled -------------------+
                                                                          v
                                            saga --> InitiateAutoAssignment (restart, save)
                                                                          v
                                            Bull queue 'ticket' --> TicketProcessor --> offers
    provider accepts / operator assigns --> row, offers, appointment --Allocated--> calendar
    worker START, IN_PROGRESS, FULLFIL  --> history, row ------------Fulfilled--> calendar, wallet
    wallet --credits--> script 1: payouts, lines --> script 2: files --> SAP --> script 3: paid

## 2. Plan

In the order of what matters most.  Steps 1 to 8 are here.

1. `Service` – the value object and its guards, pure operators.
2. `JobDispatch` – one request with everything that changes it; `MCJobDispatch`
   instantiates it; `JobDispatch_proof` proves it.
3. `Ledger`, the abstract promise of the wallets; `Wallet`, the handlers that change them;
   `Payout`, which extends it with schedule, upload, reports and settlement, and is checked
   to implement `Ledger`.
4. `Gateway` and `Reschedule` – moving the appointment, its surcharge, reminders, refund
   and rating, over the same `Service` as `JobDispatch`.
5. `Pricing` and `Ordering` – amounts, promotion, reports, repairs.
6. `Ticket` – both strategies of the ticket processor, batches, failures, notices.
7. `PaymentFiles` – the three scripts of the settlement and the files between them.
8. `Accounts` – accounts, logins, passwords and one-time codes.
9. The theorems: typing and the safety properties of every component (section 5).

## 3. The modules

### Service

`service.entity.ts` never assigns to a field of an existing object: each change
constructs a new one, and the constructor computes the four derived columns
(`NewService`, from `CalculateAllocationStatus`, `CalculateStatus`,
`CalculateNextActionType`).  The methods are operators from an object to an object
(`AllocatedToWorker`, `ProviderTerminated`, `Revoked`, `ExpiredBySystem`, `Restarted`,
`DerivedFrom...`), the guards of `service-request.entity.ts` predicates
(`CanAssignToDispatcher`, `CanCancel`, ...).

Three details of the code decide what happens and are kept:

* *No agent* comes in two forms.  `terminateProvider` builds `Agent` objects with null
  ids (`NoAgent`): their columns are written.  `restart` and `assignToDispatcher`
  leave out an embedded object altogether (`Unset`): TypeORM finds no value for its
  columns and leaves the row's alone, although the derived columns were computed as if
  it were gone.
* The constructor asks `hasBeenCancelled()` of an object whose status is not yet set;
  so a status is always recomputed, and an old cancellation survives only as the
  argument of a new one.
* `ServiceRequestService.get` goes through the crud query builder, which does not load
  the last handling event: the relation is `undefined`, not null (`LoadedByGet`).

### JobDispatch

| Variable | In the program |
|---|---|
| `row` | the columns of `service_requests` that `Service` maps to |
| `responses` | `payment_gateway_responses` of the fee, by creation |
| `history` | types of the request's `handling_events`, by creation |
| `assignments` | which (provider, status) pairs occur in `assignments` |
| `appointments` | which (dispatcher, worker, status) occur in `appointments` |
| `todo` | event handlers and saga commands started and not yet at the database, a bag |
| `tickets` | the number of jobs of this request in the queue `ticket` |
| `thread` | the calls in progress: what each waits for, whose it is, the object in memory |
| `near` | the arrival is at most two hours away; FALSE: a day or more |
| `requests`, `crashes` | counters for the bounds |

An operation is one action per stretch of code between two database operations that
matter to another call.  `AcceptNewDispatchedJobHandler.execute`, for instance, is
`Accept` (read, guards, new object), `Compare`, `SaveAccept`, `AcceptMine`,
`FailOthers` and, for an independent contractor, `Appoint`, which publishes.  The guard
of the first action has the early returns and refusals.

`save()` takes two steps, as TypeORM does it: `Compare` reads the row again and
remembers in which columns the object differs (`Changed`), `Update` writes exactly these
(`Saved`).  So two overlapping saves mix column by column.

`eventBus.publish` adds tasks to `todo`, one for each handler or saga command that
changes something.  A handler that makes two updates is two tasks in sequence.  They
are taken up in any order and at any time (`TakeUp`, `Deliver`).  A ticket is
processed by `ReadTicket` and `Offer`, or dropped because the job is taken; offers of a
ticket are one step here, `Ticket` has them one by one.

`Crash` ends the process: threads and `todo` are gone, tables and tickets stay, and a
ticket whose processing had not ended is given to the next worker (Bull's stalled jobs).

In every module, operators introduced by a comment `Wrong:` are plausible mistakes in the
operator below them, kept so that one can see that each property notices one; no action
uses them.

### Ledger, Wallet and Payout

`Ledger` says what the wallets promise: as often as an amount falls due it is credited, at
most; a payout moves its amount once from the available to the held balance and once out of
it. `Wallet` has the four command handlers and the repair of missing transactions; `Payout`
extends it with `PayoutService`, its saga and `UpdatePayoutHandler`, and maps the rows to a
ledger (`L == INSTANCE Ledger WITH ...`).

| Variable | In the program |
|---|---|
| `jobs` | how each service request ended; `JobDispatch` has the way there |
| `wallets` | `wallets`, one row per owner at most (`@OneToOne`, `@JoinColumn`: a unique column) |
| `transactions` | `wallet_transactions`, by creation |
| `payouts`, `lines`, `batches` | the tables of these names, by creation |
| `todo` | the commands that `ServiceRequestSaga` and `PayoutSaga` started, a bag |
| `thread` | calls in progress: the rows each has in memory, and where it is |
| `announced` | how often `ServiceRequestFulfilled` was published for a job, up to `MaxAnnounced` |
| `alone` | the call in progress excludes others |
| `reported` | what the bank has reported, so that it reports it once (unless `RepeatReports`) |
| `crashes` | counter for its bound |

An income falls due *each time* a job is announced as fulfilled, and that may be more than
once: of two overlapping FULLFIL calls each finds the job fulfilled after its save and says
so (`handling/commands/handlers/handle-servicing-job.handler.ts:73`); a fulfilled job can be
revoked (`service-request/entities/service-request.entity.ts:568` has no guard), restarted
and fulfilled again; and two test endpoints publish the event of any job
(`service-request/test-service-request.controller.ts:57`,
`wallet/earning.controller.ts:16`). `Fulfil` and `TestFulfilled` have no guard on the job
either.  `CreateIncomeTransactionHandler` does not look for an earlier income
(`create-income-transaction.handler.ts:20`), so that the code *credits a job again that is
announced again*.  `LedgerSpec` therefore does not say that a job is paid for once.  It says
that an income is credited at most once for each announcement, that the repair adds one only
where there is none, that a compensation, which is looked for, is credited once, and that
neither balance differs from what the transactions say.  `DispatcherOf` is a constant: each
income of a job goes to the same provider, also when it was fulfilled again.

A transaction is saved with its wallet in the cascade: `CompareEntry` or
`CompareRelease` reads the wallet again and remembers which balances differ from those in
memory, `WriteEntry` or `WriteRelease` writes these, with the transaction, in one database
transaction.  So an addition in memory is lost when another is saved between the reading
and the comparing, and done upon an old value when between comparing and writing.  In
`Payout` the saves of payouts and lines are one step each: no other call that the model
lets overlap writes the same columns to different values.

A call that is not in `Overlapping` starts when all is `Quiet`, that is when every call
and every command is over, and excludes others until then.  The commands of one call
overlap each other, up to the number of threads.  `Crash` ends the process with
everything in memory; it stands for restarts and for the scripts, which end themselves 30
seconds after their call returned, whatever commands are under way.

Abstracted, in addition to amounts (a job earns 2 and compensates 1): a transaction makes
one line, while the code makes one for each unit of work, whose sum is the transaction
(`PaymentFiles` has them); one tenant; the files and their transfer (`PaymentFiles`);
`findScheduledPayouts` keeps payouts whose owner has bank information, which those have by
construction (it filters by `bank.vendorId`, a column `Bank` does not declare).

### PaymentFiles

The three scripts as processes of cron, the files between them, and the servers they go
through: S3, which refuses loudly, and FTP, whose errors are printed and swallowed.

| Variable | In the program |
|---|---|
| `paidBy` | of each credit of a wallet: not earned, payable, or `wallet_transactions.payout_id` |
| `payouts`, `lines`, `batches` | the tables, by creation; a line per unit of work |
| `bucket` | the files in S3: payment (SCB), summary, lines |
| `ftp`, `inbox` | what SAP has received; the status files it left |
| `script`, `reader` | where scripts 1 and 2, and script 3, are, with what they have loaded |
| `files`, `failures`, `crashes` | counters; `failures + crashes` is bounded by `MaxFaults` |
| `cut` | history: the rows of status files that broken transfers did not bring |

`SchedulePayouts` and `ScheduleLines` are script 1; `Upload`, `NextTenant`, `SendPayment`,
`SendSummary`, `SendLines`, `FailUpload`, `MarkSent`, `CloseBatch` script 2, tenant after
tenant, with payouts saved as they were loaded (`Saved`); `List`, `Download`, `MarkRow`,
`CountRow`, `PayRow`, `RemoveFile`, `EndOfList` script 3.  The contents of a file are sets
of records of what decides the money (`PaymentFile`, `SummaryFile`, `LinesFile`).  Which
credit's payout the lines of a job get is the order in which the database returns them, a
choice (`last` in `ScheduleLines`).  Names, addresses, dates and the bank's fixed fields
are left out, and with them what their formatting does (section 6).

`Together` says that income and compensation of one job fall due before the same schedule;
the run has it, as the code miscounts otherwise (section 4).

A download that breaks is printed and swallowed (`shared/services/ftp.service.ts:39-50`). It
leaves no local file, or the beginning of one, which script 3 reads as if it were all, and
then removes the remote file (`payout/payout.service.ts:326-360`); so `Download` may bring
any beginning of the rows, down to none, and *the rest of the payments in it are lost*.
(Half a row has fewer than four columns and counts as none.)  `cut` is a history variable
with the rows that were lost in this way: `ReportedIsMarked` says that each other row whose
lines are in transit is marked in the end, through failed transfers, restarts of the script
and repeated readings.

`FilesAgree` asks of a batch that its payouts and its lines are of the same credits
(`Whole`).  The code makes batches of which this is not so: when the process is lost between
saving the payouts and making their lines; when a job has two credits, whose lines all get
the payout of one; and, of a later batch, when the process is lost between marking the lines
and closing the batch, which leaves payouts SCHEDULED whose lines are IN_TRANSIT.

### Gateway and Reschedule

`Gateway` has what `PaymentService` and its repository make of answers: the first answer
to a transaction is inserted (`Insert`), a second one of the webhook overrides it
(`Overwrite`), and the newest by creation is what handlers look at (`MostRecentResponse`).
`Reschedule` extends it and `Service`.

| Variable | In the program |
|---|---|
| `now` | the hour: every limit of `default-config.ts` counts whole hours |
| `row` | the request: `service`, start of the appointment, `customerRescheduleOrder`, the refund's two flags, the rating |
| `offers`, `appointments` | providers with a PENDING assignment; the rows of `appointments`, with their start |
| `reminders` | the jobs of the queue `reminder`, and what became of them |
| `refunds`, `feedbacks` | rows of `refund`; ratings of `feedback_response`, by creation |
| `todo`, `calls` | event handlers started; calls that are about to save a row they have read |

A call about moving is two steps: what the handler reads and computes (`RescheduleFree`,
`RescheduleAtSurcharge`, `AdminChange`, `SurchargeResponded`, `CancelByCustomer`, `Fail`,
`Refund`, `Rate`), and `Save`, which merges the object into the row as TypeORM does (values
that are not there leave their column alone, `Merged`) and publishes.  Calls that
`JobDispatch` takes apart are one step here.  `OutcomeOf` is `ReminderProcessor`, which
compares its copy with the row.

### Pricing and Ordering

`Pricing` is `RequestedServicePackage` and `CustomerOrder` as operators: `TierOf` (the last
tier whose minimum the quantity reaches, in the row's state for providers), `NewRow`,
`Revised`, `Bundled` (the tier goes by the quantity of the package group over all rows),
`OrderOf` (sums, promotion, whether every unit has its report), `DiscountedAmount`.
`Ordering` is what happens to orders:

| Variable | In the program |
|---|---|
| `catalogue` | `service_packages` with their quotations, edited at any time |
| `usageCount` | `usageCount` of the promotion |
| `orders`, `rows` | `customerOrder` of each request; its `requested_service_packages` |
| `calls` | calls in progress, by stage, with what each has read |
| `crashes`, `patches` | counters |

`Place`, `UsePromotion` (one atomic UPDATE with its condition), `SaveNew` or
`RefuseAppointment` are `ServiceRequestService.create`; `SubmitNotes`, `SaveNotes`,
`ReadRows`, `SaveOrder` `patchTechnicalNotes`; `Fulfil` the guard of the job's end.  The two
repairs go row by row and request by request (`StartSelangor`, `Reprice`, `Repriced`,
`ReviseRows`, `ReviseOrder`; `StartPromotions`, `ResetOrder`).  A note needs a model and a
serial number; `report` is the set of units that have one.  Other fields of a code's
validity (days, state) refuse the order before anything is counted.

### Ticket

| Variable | In the program |
|---|---|
| `setting` | the one row of `auto_assignment_settings` |
| `active`, `taken` | providers whose status is ACTIVE; who has the job |
| `assignments` | the rows of `assignments` of the job, each with its ticket and batch |
| `queue`, `current` | the Bull queue `ticket`; the job in its processor |
| `saving`, `failed` | assignments being inserted; tickets one of whose inserts failed |
| `todo`, `told` | notices and handlers started; notices sent |

`InitiateAutoAssignment` adds a ticket with a copy of the settings, `StartTicket` takes one
up or exits because somebody has the job, `ScanAndOffer` scans (`Scan` says what the
queries select, which is not what their names say) and starts all inserts together,
`SaveOffer` and `FailSave` are their outcomes in any order, `EndTicket` adds the next batch.
An insert that fails makes the handler stop while the other inserts go on.  A restart puts
the job of the processor back as it was added (Bull, external; a job that stalls a second
time is given up, so `MaxCrashes` is at most 1).

### Accounts

| Variable | In the program |
|---|---|
| `accounts` | `service_provider` and `admin_user`, by id |
| `dealers` | `dealer`, by the id of its profile |
| `logins` | `user_logins`, by the id of the account |
| `codes` | `phone_verifications`: when the codes of a phone were made |
| `now`, `thread` | the clock; calls in progress, each with the entity it has in memory |

`save()` is `Compare` and `Update` again, with entities as functions on the columns they
carry: which columns an entity lacks (a deleted `password` of `validateUserLogin`, the
single column that `updatePassword` selects) decides what it can write back.  `CreateOne`,
`ReplaceOne`, `SoftDeleteOne` and `SoftDeleteDealer` go on through `SaveRecord`,
`SaveDealer`, `SoftDelete` to the commands of the login (`CreateUserLogin`,
`UpdateUserLogin`, `DeleteUserLogin`).  `Login`, `Logout`, `ChangePassword`,
`ForgetPassword`, `ResetPasswordByToken`, `RequestOtpToken`, `ResetPasswordByOtpToken`
are `AuthService`.  A password is a number, new with every call that brings one; phone and
e-mail address of an account are one name.  Hashing, tokens of access and guards keep no
state and are left out.

### Proofs

`JobDispatch`, `Payout`, `PaymentFiles`, `Reschedule`, `Ordering`, `Ticket` and `Accounts`
each have their theorems in a module of the same name with `_proof`, which extends the
component's module and is extended by no component.  `Settlement_proof` goes on from
`Payout_proof`, with the last of `Payout`'s theorems and the invariant behind it.  Lemmas on
sums over finite sets (`MapThenSumSet`) stand where they are used: `PaymentFiles_proof` has
them all, `Ordering_proof` and the two of `Payout` repeat those they need, as these modules
name their states alike and cannot extend each other.

### Environment

Assumed of what is outside the code:

* The gateway never takes a success back.
* The customer tells the verification code only after it was sent, which happens when
  IN_PROGRESS is recorded; a worker cannot complete the job before.
* In `JobDispatch`, a customer cancels until 24 hours before the arrival, a worker starts at
  most 2 hours before it (`default-config.ts`); `near` keeps these windows apart.  It changes
  only at rest.  `Reschedule` has the hours themselves.
* Refusals of suspended providers and dealers without a free worker change nothing and
  are left out of `JobDispatch`.  All providers but workers are candidates of the scan.
* Cron starts a payout script when the last one is over; the bank, and SAP, answer for an
  upload that is finished, and SAP pays what both of its files name.
* A fulfilled job has a dispatcher (`FulfilledByWorker` fails of the code, see section 4).
* TypeORM inserts one row for each line object, also for lines alike.
* The ids an administrator sends are those on his screen.

Two switches of `JobDispatch`, `Reschedule` and `Ticket` choose how much overlaps.
`Serial`: a user makes a request only when the consequences of the last one are over.
`TicketLast`: the delay of a ticket (1000 ms) outlasts the event handlers in progress.
Where a theorem of section 5 names `Serial` as a hypothesis it needs it because, as
section 4 shows, the code does not keep the property otherwise; no theorem needs
`TicketLast`, which the liveness of `JobsOneByOne` does.

## 4. The runs

| Run | Instance | What it shows | States |
|---|---|---|---|
| `JobsOneByOne` (`JobDispatch`) | a dealer, its worker, an independent contractor; all calls; `Serial`; 9 requests, 2 responses, 5 handlings; fairness | whenever the system is at rest, row, offers, calendar and payments agree (`AllocationBacked`, `CalendarAgrees`, `AcceptedOfferIsTaken`, `PaymentRecognised`); a job that is open or was given up is offered to the candidates, or is taken or closed (`JobReturnsToMarket`) | 213,148 |
| `RacingCalls` (`JobDispatch`) | one contractor, two overlapping calls: two responses, expiry, CRM patch, accept, cancel, handle; no help from `Serial` or `TicketLast`; a restart | `NoDispatchBeforePayment`: no copy read earlier opens or assigns an unpaid job; `StatusTellsTruth`: what the row shows was recorded, work after travel | 2,464,357 |
| `Wallets` (`Payout`) | three owners, one of whom has no bank information; each job earns one of them money and compensates another, and one of them is fulfilled up to twice; end, failure, repair, schedule, patch, one call at a time; 3 payouts, a crash | `LedgerSpec`: the wallets implement the ledger, although income, compensation and holds of two payouts overlap, the process ends anywhere, and the repair runs over what is missing; `PayoutIsBacked`: a payout pays its own credits and no credit twice | 2,102,183 |
| `Settlement` (`Payout`) | one owner, two jobs, one of them announced up to twice, by a worker or a test endpoint; 2 payouts, 2 batches, one thread; uploads that fail, repeated reports, an administrator who sets payouts to PAID, a crash; fairness | `ReleasedIsPaid` and `LedgerSpec` over the whole way of a payout; `HeldInTheEnd`: each payout that has lines is held, unless a process was lost | 565,329 |
| `Reports` (`Payout`) | one payout of up to four lines (two jobs announced up to twice each), two threads; reports overlap; a crash | `SettledIsPaid`: a payout all of whose lines were paid is paid and released, although both reports may announce it | 65,991 |
| `PaymentFiles` | two jobs of two tenants, two owners, an income and a compensation each, packages of one and two units, a promotion; 2 batches, a status file of two rows, 2 faults (failed or broken transfer, lost process); fairness | `FilesAgree`, `SentOnce`, `CountedOnce`, `ReportedIsMarked` | 325,417 |
| `Reschedule` | two contractors; fee and surcharge; customer, operator and gateway; arrivals at 48 and 60, four hours at which something happens, so that every limit is once on each side; 5 requests | `SurchargeReceived`, `PaidSurchargeMoves`, `ImpactedIsFreed`, `ReminderFollows`, `RequestRemembers` | 638,267 |
| `Ordering` | two new customers in two states, one old; three packages, two of one group, with tiers at 1 and 2; a second catalogue with other prices, and one of the two out of its group; a code of one use; one patch, a crash | `PromotionIsCounted`, `TotalIsOfTheSnapshot`, `FulfilledIsReported`, `ReportsAreNoticed` | 1,687,128 |
| `Ticket` | two providers; four settings (all at once; two batches; no batch; within an area); accept, give up, suspend, edit settings; 2 tickets, a failing insert, a restart; fairness | `OffersEndWithTheJob`, `TheOfferedAreTold`, `EverybodyIsOffered`, `BatchesFollow` | 261,846 |
| `Accounts` | two ids, two phones, one e-mail address; every call, with login, duty and three ways to a password overlapping in two threads; 3 passwords, 3 codes or tokens, 5 requests, 3 seconds, a restart | `LoginFollowsAccount`, `OtpWithinRate`, `SecretsDoNotReturn` | 1,153,074 |

Two more runs find what the code does not keep.  Each checks one property that a message
of the code states, and ends in a counterexample:

| Run | Property | What happens |
|---|---|---|
| `RacingAccepts` | `JobTakenOnce` | two dealers accept; both read the job open; the second save replaces the first dispatcher, who was told yes.  "Job is taken" (`service-request/entities/service-request.entity.ts:320`), "todo(roy): handle racy-accept" (`dispatching/commands/handlers/accept-new-dispatched-job.handler.ts:45`) |
| `UnpaidMove` | `UnpaidOrderMovesNothing` | the gateway answers FAILED to a surcharge; `executeCustomerRescheduleOrder` leaves the order unexecuted and moves the appointment all the same.  "Fail to execute, please ensure payment is made" (`customer-reschedule-order.entity.ts:168`) |

Further properties fail of the code.  They keep their definitions, so that a run is made
by giving a configuration the constants named here and the property:

| Property | Constants | What happens |
|---|---|---|
| `AllocationBacked` | `RacingAccepts` with one dealer and its worker; accept, allocate, revoke; 3 requests | each of an allocation and a revocation writes the columns it changed; the row is ALLOCATED without dispatcher |
| `FulfilledByWorker` | `RacingCalls` with accept, cancel, handle, no gateway, 6 requests | a job given up while IN_PROGRESS is UNASSIGNED; the next handling event is still FULLFIL |
| `FailedPaymentTrue` | `RacingCalls` | the script lists unpaid requests, one is paid, and is expired all the same |
| `ReleasedIsPaid` | `Settlement` with `"FAILED"` in `NewStatus` | an administrator sets a payout to FAILED; its balance is released |
| `SettledIsPaid` | `Reports` with `MaxPayouts = 2` | a job is fulfilled again after its first income was scheduled; the lines of both incomes, in two payouts, are marked by one report, which counts both amounts for one of the payouts (`payout/payout.service.ts:245-286`); neither is complete |
| `CompensatedOnce` | `Wallets` with `Overlapping = {"fulfil", "fail"}` | two commands to compensate overlap; neither finds the other's transaction |
| `PayoutHasLines` | `Wallets` with `ImpactedOf <- Undisturbed`, `Payable = {o1}` | an owner without bank information makes the lines of all owners fail, after the payouts were saved |
| `LinesOfOwner` | `Wallets` | income and compensation of one job are due to two owners; both lines get the payout of one (the lookup is keyed by job) |
| `SummaryNamesVendors` | `PaymentFiles` | both vendor columns of the summary name the owner of the job's first line |
| `DebitsTheAccount` | `PaymentFiles` | the second tenant's batch is made with account number and city code in each other's place (`payout/payout.service.ts:113`, parameters at 183) |
| `InTransitIsKnown` | `PaymentFiles` | an FTP upload fails and is printed; the batch is IN_TRANSIT, SAP never saw it |
| `CountedOnce` | `PaymentFiles` with `Together = FALSE` | two payouts of one job: a report of the second is counted for either |
| `StaleRemindersAreRefused` | `Reschedule` | a job is moved from hour 48 to hour 60; its reminder of the old time comes due at 47 and is sent, as the processor refuses only when the time in its copy is later than the job's (`service-request/reminder.processor.ts:37`), although a test says "should throw error if appointment start time has been changed" (`reminder.processor.spec.ts:82`, which tries the other direction) |
| `FulfilledIsReported`, `ReportsAreNoticed` | `Ordering` with `Racing = TRUE` | overlapping notes, or notes and a patch, save what they read, and lose a note, the flag or the fulfilment |
| `OffersEndWithTheJob` | `Ticket` with `Serial = FALSE` | offers being saved while somebody accepts stay PENDING on the taken job |
| `SecretsDoNotReturn` | `Accounts` with `Overlapping = {"logout", "changePassword"}` | logging out saves the whole row it read, the old password with it |
| `LoginFollowsAccount` | `Accounts` with `Overlapping = {"create"}` | two creations of one phone number both find it free; the second gets no login |

### Bounds, and why they are enough

* *Agents.*  The code tells agents apart by type and by identity.  One of each type shows
  every branch; two candidates are enough for one to lose the job and another to get it
  (`JobsOneByOne` has the dealer and the contractor, `Reschedule` and `Ticket` two
  contractors).  `RacingCalls` needs two calls, not two agents; `RacingAccepts` has two
  dealers.
* *Nine requests* are enough to pay, accept, allocate, give up, accept anew, allocate,
  start, commence and complete.  With two responses a failed payment precedes a successful
  one and can be overridden.  In `Reschedule`, five requests pay the fee, take the job, file
  an order, have its surcharge fail and succeed.
* *Two or three owners, two jobs.*  Balances of different owners meet in nothing but a
  schedule and a shared job, which two of each show; the third owner, in `Wallets`, is the
  one who cannot be paid.  Amounts 2 and 1 tell apart every sum that occurs.  `Settlement`
  has one thread: the releases of two payouts of one owner lose an update of his balance
  when they overlap, and `Wallets` lets a command overlap only commands of other owners, for
  the same reason.  *Two announcements* of a job are one more than the code can have meant;
  the theorems about the refinement have no bound on them.  `Reports` has one payout, as
  with two of them the property fails (above).
* *Files.*  `PaymentFiles` has one job of each tenant, one of them with two owners and three
  units, so that sums by job, by line and by payout differ; prices 5, 6, 7 and 4, costs 3,
  4, 5 and 2 make a sum of the wrong lines a wrong sum.  Two batches are an upload and its
  repetition; two faults are one that breaks it and one that breaks the repetition.
* *Orders.*  Tiers at 1 and 2 and baskets of one unit each of two packages of a group put
  the group over a threshold its packages do not reach; prices 10 and 20 of the two
  catalogues share no sum.  The second catalogue takes one of the two packages out of the
  group: a patch run then finds an order of which it is to change the total, or to leave
  it.  One use and two customers are a use too many.
* *Batches.*  A size of 2 has a first and a last batch, 0 and 1 are the boundaries.
* *Windows of a code* are 1 and 2 seconds within 3: an older code is still valid when the
  newest may be followed.
* *Two threads.*  Every hazard we know is a pair: one call that read before and one that
  saves after.  The theorems have no bound on threads.
* *Symmetry* is declared for model values that no constant tells apart, in runs with
  invariants and one action property only.

### Fairness

In `JobDispatch`, `Fairness` is weak fairness of `Deliver` and, per thread, of `Resume` or
`TakeUp`: whatever has been started goes on.  The event loop runs settled promises and due
timers, and Bull hands waiting jobs to its worker; that is all the code's scheduling
promises.  Nothing is assumed of users, operators, the gateway or the script, nor that
restarts stop coming other than by `MaxCrashes`.  `Ticket` (`WF_vars(Running)`) and `Payout`
(`WF_vars(Program)`) have the same promise for the program as a whole, failures and
requests left out.  `PaymentFiles` has two: a process that has begun to schedule or upload
goes on, and cron starts the third script again and again.  `Wait` lets the idle server
stutter, so that deadlock is checked for `JobDispatch`, `Reschedule` and `Ticket`; it is
checked for `Ordering` as well, whose catalogue can always be edited.  The others stop when
everything is paid or the bounds are reached, and their runs do not ask for deadlock.

## 5. The theorems

TLAPS checks them with no step left open, for any number of accounts, providers, owners,
customers, jobs, threads, requests, failures and restarts.  Where the second column has
a dash, calls may overlap in every way.  Where it names a hypothesis, the run of that
property meets it, and section 4 shows for most of them how the property fails without it.

| Theorem | Hypothesis | Statement |
|---|---|---|
| **`JobDispatch_proof`** | | |
| `TypeCorrect` | – | `TypeOK` |
| `PaidBeforeDispatched` | – | `NoDispatchBeforePayment` |
| `ProgressIsRecorded` | – | `StatusTellsTruth` |
| `AllocationIsBacked` | `Serial`, `PaymentGatewayEnabled` | `AllocationBacked` |
| `CalendarIsKept` | `Serial`, `PaymentGatewayEnabled` | `CalendarAgrees`, without a restart |
| `AcceptedOfferIsTheDispatchers` | `Serial`, `PaymentGatewayEnabled` | `AcceptedOfferIsTaken`, without a restart |
| `PaymentIsRecognised` | `Serial`, `PaymentGatewayEnabled` | `PaymentRecognised`, without a restart |
| **`Reschedule_proof`** | | |
| `TypeCorrect` | – | `TypeOK` |
| `SurchargeIsReceived` | – | `SurchargeReceived` |
| `ImpactedIsFreedInTime` | `Serial` | `ImpactedIsFreed` |
| `RequestsAreRemembered` | `Serial` | `RequestRemembers` |
| `PaidIsMoved` | `Serial`, `~Multiple` | `PaidSurchargeMoves` |
| `MovedIsReminded` | `Serial` | `ReminderFollows` |
| **`Payout_proof`** | | |
| `TypeCorrect` | – | `TypeOK` |
| `PayoutsAreBacked` | schedules do not overlap | `PayoutIsBacked` |
| `ReleasedWasPaid` | uploads do not overlap, `NewStatus \subseteq {"PAID"}` | `ReleasedIsPaid` |
| `LedgerIsKept` | repairs do not overlap; always, no two calls are at work on one owner's wallet (`OneCallPerOwner`) | `LedgerSpec`, the refinement |
| `SeparateCallsKeepTheLedger` | no calls overlap (their commands may), none settles all at once, nobody is compensated for his own job | `LedgerSpec` (run `Wallets`) |
| `OneThreadKeepsTheLedger` | repairs do not overlap; one thread | `LedgerSpec` (run `Settlement`) |
| **`Settlement_proof`** | | |
| `SettledWasPaid` | `SeparateReports`: schedules, uploads and repairs do not overlap, nobody is compensated, `MaxAnnounced[j] <= 1`, `~RepeatReports`, `NewStatus \subseteq {"PAID"}` | `SettledIsPaid`, as long as no process is lost (run `Reports`) |
| **`PaymentFiles_proof`** | | |
| `TypeCorrect` | – | `TypeOK` |
| `PaymentsAreSentOnce` | – | `SentOnce` |
| `FilesAskForTheSame` | – (the property asks for a whole batch) | `FilesAgree` |
| `ReportsAreCountedOnce` | `Together` | `CountedOnce`, as long as no process is lost |
| **`Ordering_proof`** | | |
| `TypeCorrect` | – | `TypeOK` |
| `PromotionsAreCounted` | – | `PromotionIsCounted` |
| `FulfilledJobsAreReported` | `~Racing` | `FulfilledIsReported` |
| `NotesReachTheFlag` | `~Racing` | `ReportsAreNoticed` |
| `TotalsAreOfTheSnapshot` | `~Racing`, `Sorted` | `TotalIsOfTheSnapshot` |
| **`Ticket_proof`** | | |
| `TypeCorrect` | – | `TypeOK` |
| `OffersEnd` | `Serial` | `OffersEndWithTheJob` |
| `OfferedAreTold` | – (the property asks for no restart) | `TheOfferedAreTold` |
| **`Accounts_proof`** | | |
| `TypeCorrect` | – | `TypeOK` |
| `RateIsKept` | requests for codes do not overlap each other | `OtpWithinRate` |
| `SecretsStayReplaced` | no call of `SaveWhole` overlaps | `SecretsDoNotReturn`, an action property |
| `LoginsFollow` | no call of `Writers` overlaps | `LoginFollowsAccount` |

Each proof shows that an invariant stronger than the property holds at first and is kept
by every step; TLC checked the strengthened invariants on the runs before.

*Typing.*  `TypeOK` is seldom inductive: what a handler writes is well-typed only because
of what it has in memory at that point.  `Typed` (in each module) adds, for every call,
what it carries at which stage: in `JobDispatch` which agents an object has (`Appoint`
puts dispatcher and worker into the table), in `Payout` that what a call has in hand is in
the tables (`ProcessOK`), in `Accounts` that an entity has the columns its pc needs
(`Fit`), in `Ordering` that a technician's notes are of units that were ordered.

*JobDispatch.*  The row alone is not enough, as a stale object could bring a provider back.
`SoldWhenPaid`: unless a payment succeeded, neither the row *nor any object in memory*
knows of a payment or a provider.  `AllTruthful`: every status and last event shown by the
row or by any object in memory is in the history, and the history only grows; so what a
stale object brings back is old, never false.  `WorkFollowsTravel`, the order of the
history, is carried along.  The lemma `Steps` serves all three: a step leaves the row alone
or writes columns of one thread's object, leaves each object alone or rebuilds it from the
row or the newest response or event (`Begun`), keeps successes and extends the history at
most at its end.  The invariants are then shown of the constructor (`NewServiceType`,
`NewServiceUnsold`, `NewServiceTruthful`), of what a call begins with, and of the mixture
of columns that a save leaves (`SavedType`).

For the four theorems about one call at a time the invariant is `Orderly`, and `Settled`
for what a restart can lose.  `OneLeads`, `OneFollows`: beside the clearing of the two tables
after a cancellation there is one piece of work, a task that leads to a call, a ticket or a
call, and while tables are cleared the job is at most offered again.  `Fresh`: so what a call
is about to save was built by its method from the row *as it still is*; `Placed`: what a call
has saved and not yet entered into the tables the row still shows.  `RowAgrees` relates the
columns of the row, of which `AllocationBacked` is a part, whatever restarts; it holds of every
object that `Fresh` describes, and with that of the next row.  `Settled` says for each table
when it is sure (`OffersSure`, `BlockedSure`, `PaymentSure`: no call and no handler still has
to write it) and that it then agrees with the row, and what the handlers rely upon until then
(`Appointing`: no appointment is blocked when a new one is placed, and of the worker's only
the new one is left to replace the others with).  At rest every table is sure.  A restart
loses the handlers, and the tables stay as they are: `Settled` asks for none.
`PaymentGatewayEnabled` is the default (`default-config.ts:42`).  Where it is switched off a
job is assigned unpaid, and an answer of the gateway to it still rebuilds the row: TLC then
finds `CalendarAgrees` violated under `Serial` too, by a failed job that is shown as allocated
again after its appointment was revoked.

*Reschedule.*  `AllPaidFor`: an order against surcharge that counts as executed, in the row
or in any copy, was paid for; the gateway takes no success back.  For what holds at rest,
`Calendar` says of each allocated appointment that a task will free it (`Doomed`) or that
it fits the row and every copy about to be saved; `Settled` that the tasks which read the
row are alone, that the row is as the history of answers, refunds and ratings has it
(`Remembered`), or one copy that is about to be saved is.

*Payout.*  `Backed`: beside the property, that the credits a schedule read stay unpaid
until it saves its payouts, and that one schedule is under way at most.  The sum of a
payout is the sum of what points at it by the lemmas on sums: they are over finite
sets, added to and split one element at a time.  `PaidFirst`: a task to release, and a call
that carries it out, are of a payout that is paid; an upload, which saves payouts as it
read them, is alone with payouts that are only scheduled (`Uploads`).

The refinement of `Ledger` rests on `Kept`.  `LedgerCall` says what a handler has in hand at
each pc: the wallet it will save is the row of this moment with the one amount added, held
or released, and the columns it found changed are those that differ; what it credits has not
been credited as often as it fell due, what it holds is not held, what it releases is
pending.  A save then is one step of the ledger (`CreditSimulated`, `HoldSimulated`,
`ReleaseSimulated`), every other step changes nothing of it (`Steady`, `SteadyStutters`).
That the row is still as the handler read it is where `OneCallPerOwner` is needed
(`WriteSpares`): without it the balance of an overlapping call is lost.  An income has no
check of its own in the code; that it is credited no more often than its job was announced
holds because the incomes of a job that are credited, in hand of a call and still asked for
are together at most as many as the announcements (`IncomesCounted`), and because the repair
is alone and works off what was not credited at all (`RepairsAlone`, `RepairCall`).  No
number of announcements is assumed.  `Apart` is the invariant behind
`SeparateCallsKeepTheLedger`: of one call, the commands asked for and those in hand are of
different owners.

*Settlement.*  `Settled`, in two halves.  `Entered` holds whatever restarts: an income is
credited once and in hand of one call at most (`EarnedOnce`, of the same argument as in the
refinement, with one announcement), so a job has one credit; each line pays the credit of
its job, and a payout has the lines of all of its credits or none (`Mirrored`; between its
two saves a schedule has the rest in hand, `Drafted`), so *the amount of a payout is that of
its lines* (`LinesAddUp`); an upload finds none of its lines paid before it sends them
(`Unsent`); and calls that mark what the bank paid have one line each, none twice (`Marked`,
where a repeated report would break it).  `Unlost` holds as long as no process is lost:
`processed` is what the *counted* lines amount to, those that are PAID and not in hand of a
call that still has to add them (`Processed`); as no amount is negative, the call that adds
the last one finds the payout complete, however the others were interleaved, and what was
complete stays so until it is saved (`Checked`, `PaidUp`); a payout that has lines is held
before another call starts (`HeldSoon`: the saga's commands go on inside the schedule's
turn, and the owner has a wallet, `WalletsThere`), so that a release finds what is pending;
and the release of a paid payout is to do, under way or done (`ReleasedSoon`).  At rest
nothing is in hand, and `SettledIsPaid` follows.  That each job is announced once is a
premise because the lines of two incomes are marked by one report and counted for one
payout, which TLC finds as soon as there are two payouts (section 4).  That nobody is
compensated is a premise because a job with two credits, of two owners, has lines that take
the payout of the transaction found last (`payout-lines.factory.ts:124`), so that `Mirrored`
is false; the runs without it do not check `SettledIsPaid`.

*PaymentFiles.*  `SentApartInv`: the batch being sent is the last one and closed once
(`OneBatch`); what a batch in transit pays is scheduled no longer, is in no later batch and
not among what the script may still send, although it works off payouts it loaded earlier
(`SentApart`); a payment file names payouts of its batch only (`FilesOfBatch`).

`AgreeInv`, for the files: a payout is of what its credits are (`Owed`); the units of a
credit cost together what is due, and have one payout (`Lined`: the wallet multiplies
quantity and cost, the lines list unit after unit, `ItemsCost`); lines, credits and payouts
have one tenant (`TenantsAgree`); credits whose lines are still to be made have none, and are
in no batch (`NewCredits`); a batch totals its payouts (`Batched`); the second script holds
all lines of the payouts it loaded (`InMemory`); and a file, *once written, goes on saying
what the rows say* (`Written`), as later steps change a status but no sum.  The total of a
whole batch then is the sum over its credits, taken once by payout and once by line
(`BatchCost`, from `SumOfFibers`); a file is a set, so that no two of its rows may coincide
(`LineRowsApart`).  The proof needs neither `Together` nor the absence of crashes.

`CountedInv`, for the reports: what belongs to a job is earned, scheduled and sent together,
and its lines have one payout (`PerJob`), which is where `Together` is needed; the payouts that
the second script may still save are as it loaded them (`Held`), or its save would take back
what was counted; for SAP is told only of jobs whose payouts are no longer SCHEDULED, or are
about to be sent (`Told`), and a report comes after the script has ended.  Between the marking
and the counting the lines in hand (`Counting`) are what `processed` lacks of the lines that
are PAID (`Processed`), and a row that is read again finds no line IN_TRANSIT; a payout whose
lines are all counted is PAID unless it is still to be compared (`Open`, `PaidUp`).  A process
lost between marking and counting leaves the count short for good; the property, and
`CountedNow`, ask for none.

*Ordering.*  `Counted`: those who have the promotion, *or whose call has counted and not
saved yet* (`Promised`), are no more than the uses, and the uses no more than the limit;
with one call at most placing a customer's order.  With `~Racing`, `Orderly` says that at
most one call works at an order (`Apart`) and its copies are as the rows (`Fresh`); `Noted`
that a flag is up only over complete reports, and down only if a note is missing or a call
in progress is about to raise it; `Settled` that an order's total is the sum of its rows as
`Pricing` bundles them, or a repair in progress is about to make it so.  `Settled` has a
case for each way a patch goes on and for where it was stopped (`SettledAt`).  `Sorted` is
the code's (`sortQuotations`, `service-package/entities/service-package.entity.ts:78`,
before every insert and update), with tiers that begin at different quantities.  The
catalogue may move packages between groups.  The patch for Selangor then copies the group of
today (`service-request/entities/requested-service-package.entity.ts:229`), and the total
follows it: `KeepsGroups(c)` says of a customer that this cannot happen to him, and his
total is then what he bought at the groups and quotations of his order whatever stops
halfway (`Unrevised`, `GroupsKept`); of another the property asks for it, at the groups his
rows have by now, at rest and unless a process was lost.

*Ticket.*  `TakenIsQuiet`: a job is taken only when no scan or insert is under way, and
then nothing makes another offer pending.  `ToldInv`: a batch of a ticket is offered once
(`Once`), and of each provider, notices sent and notices to do are as many as his offers
(`Noticed`).

*Accounts.*  `Exclusive`: calls in progress together are calls that may overlap.  `OtpInv`:
codes are in order of time, and a call that is to insert one found the last one old enough;
nothing comes between, as only such calls insert.  `Secret`: what a call will write as
password or token is what it brought, or what is in the row it read, unchanged since.
`Follows`: a login says what its account says, *or a writer of the two is at work and has
the rest in hand* (`Stage`, for each writer at each pc).

Assumed of the constants, in the modules' `ASSUME`s, which TLC evaluates on each run: types
of the bounds; that ids are UUIDs, so that no id is a marker (`"none"`, `"N/A"`, names of
tasks, "no agent"); that kinds of provider are disjoint (`ServiceAssumption`); that
credits, packages, accounts, threads and providers are finitely many; that reminders are
sent at one distance at least (`RemindBefore`); that orders which are there at the start
are complete and of their type, and markers of an absent order or quotation are no records
(`OrderingAssumption`).

Model-checked only:

* liveness (`JobReturnsToMarket`, `HeldInTheEnd`, `ReportedIsMarked`, `EverybodyIsOffered`,
  `BatchesFollow`) and whatever needs `ENABLED`, which are out of the prover's reach.

## 6. What is abstracted, what is left out

* In `JobDispatch`, `assignments` and `appointments` are sets of (who, status): how many
  rows are alike, and their times, are not told apart, so that two tickets for one job look
  like one.  `Ticket` tells offers apart, `Reschedule` appointments by their start.
* Dealers allocate to workers in `JobDispatch`; `Reschedule` and `Ticket` have providers who
  are their own workers.
* Saves of `Reschedule`, `Ordering` and `PaymentFiles` write the whole object in one step, as
  no two calls that overlap there write different columns of a row.

Not modelled:

* *CRM, sms, e-mail, notices* (but that of a new job): calls to the outside whose results
  nothing reads again; the CRM's id on a request is `PatchCRM`.
* *Catalogue records*: service areas and types, skills, equipment, options of the feedback
  form, roles and permissions, announcements, files, users.  They are edited through the crud
  library's endpoints and read; the settings of the dispatch, the promotion's code and the
  service packages appear as what is read of them, and change where a property depends on it.
* *Queries*: feeds, calendars, dashboards, the overlap of appointments, averages of ratings.
  A property that needs what a feed shows states it (`NewJobs` in `Ticket`).
* *Access*: tokens, guards, strategies; they keep no state.
* *The crud library's own routes* of `AdminUserController` and the bulk routes, which bypass
  the handlers (section 7).
* *Infrastructure*: event bus, TypeORM, Bull and the two file servers are modelled from their
  use; errors, configuration, seeds, translations hold no behaviour.
* `HandlingService.create`, marked by its authors as a duplicate of the handler; the script
  `requery-awaiting-payments`, which does nothing; the generator of test transactions; the log
  of webhook calls, which nothing reads.

## 7. Observations from modelling

What the models showed of the code and no property states, for whoever maintains it.

*Service request and dispatch.*  An override of an older failed response is not recognised
when a newer one failed too (the newest by creation counts).  Two overlapping payment
handlers can leave FAILED over SUCCEEDED.  Response and webhook of one success may both
confirm and enqueue two tickets.  Revoke and fail have no guard on the status, so that a
closed or fulfilled job can be revoked.  After `restart` the provider's columns keep the last
provider until the job is taken again.  A restart between a save and the handlers of its
event loses the event, and nothing recovers it.

*Ticket.*  The scan looks neither at its list of excluded providers nor at its limit
(`dispatching/entities/batch-wise-batch-limit.entity.ts:12`), so that every batch offers to
all active providers again; with POSTAL_CODE or POLYGON it asks for entitlement 0 and reaches
nobody; the condition on duty is taken out.  Offers of an earlier batch are not expired, a
job given up has two chains of batches, accepting asks for neither an offer nor its expiry.

*Rescheduling.*  An order paid late restarts a job in whatever state it is.  The calendar of
a provider who took the job between filing and payment stays blocked.  A second unpaid order
replaces the first, whose page then pays for the second; a late surcharge executes even a
free order again, and with `ecRescheduleMultipleOccurrencesAllowed` an old success executes
a later order unpaid.  A reminder does not notice that its job was moved later (section 4):
at the old hour it announces the countdown to the new start; the surcharge's path adds none;
the operator's change announces what may be the old row, its save is not awaited.  A
customer's cancellation uses the limit of rescheduling, and names `hasCustomerPaid` without
calling it; a refund does not ask whether the request is eligible; failing an unpaid request
makes it so.  A rating that is saved while another call holds the row is lost, and is asked
neither whether the job is done nor whether it was rated.

*Orders.*  A use of the promotion is gone when the appointment is refused or the process
ends after the count; a code without limit counts and is refused by `isValid`.  An order
without packages uses one too, and counts as reported.  A provider whose state has no tier
for one unit gets the first tier's state.  The patch for Selangor copies the package's
current group, so that a paid order's total changes when the catalogue regrouped it, and may
even become less than its promotion; lost halfway, it leaves such an order with rows of the
new group and the total of the old.  It saves requests as they were when it began.

*Settlement.*  A job that is announced as fulfilled again is credited again (section 3), and
when its incomes are in two payouts neither is completed by the bank's report (section 4).
What a broken transfer cut off a status file is removed with the file, and those payments
stay in transit.  Two schedules that overlap pay the same credits twice; releases of two
payouts of one owner, or an income and a hold, lose an update of the balance.  A process
that ends between marking the lines and adding their amount leaves the payout in transit, as
the next report is refused.  A promotion is taken off twice when a job's lines go out in two
batches. SAP's answer is refused, and its file removed, when it comes before the lines are
saved as sent, or when the process ended there; then the payment is sent again.  The stale
payouts saved with a batch undo what was processed meanwhile.  A payment file may be in S3
already when its batch fails and is repeated.  A schedule cut short leaves payouts without
lines; two of them end the second script before the next tenant's turn.  Of an address only
the first comma is replaced, and records are joined by commas; their validation is commented
out.  Two overlapping uploads take the same batch number.

*Accounts.*  Logging out, replacing an account and asking for a reset token save the whole
row read earlier, and write an old password back over a change.  A login that overlaps a
deletion or replacement restores old columns.  A banned provider's login is refused but
leaves `isLogin` set, as the token is made while the row is saved.  A process that ends
between record and login leaves them apart.  `AdminUserController` inherits a delete that
leaves the login, and blocks the address; its PATCH leaves login and uniqueness out.  A
dealer deleted or replaced through `/providers` keeps its dealer row.  A provider who forgot
his password is looked up among administrators and told no.  The request window of a code is
not kept when its expiry is the shorter one; both are cut to whole seconds; two overlapping
requests get a code each.
