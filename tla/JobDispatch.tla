----------------------------- MODULE JobDispatch -----------------------------
(***************************************************************************)
(* One service request and everything that changes it between its creation *)
(* and its end: the fee payment, the automatic assignment, the providers'  *)
(* accept / allocate / cancel / continue calls, the operator's assign /    *)
(* revoke / fail calls, the customer's cancellation and the expiry script. *)
(*                                                                         *)
(* A handler is an asynchronous function: it reads the row, changes the    *)
(* object in memory and, after an await, saves it.  What it read may be    *)
(* old by then, and nothing notices (no version, no lock): TypeORM's       *)
(* save() reads the row again, compares, and updates the columns in which  *)
(* the object differs from that second reading, one more await later.      *)
(* Each await is a step boundary here.  A call in progress is a thread     *)
(* whose pc is the database operation it waits for.                        *)
(*                                                                         *)
(* eventBus.publish starts the event handlers and the sagas' commands,     *)
(* which reach the database at some later time: they wait in todo, a bag.  *)
(* The Bull queue of assignment tickets is tickets, a count: every ticket  *)
(* of this request is the same.                                            *)
(*                                                                         *)
(* "Wrong:" introduces a plausible mistake in the operator below it, as in *)
(* Service; no action uses it.                                             *)
(***************************************************************************)
EXTENDS Service, Sequences, FiniteSets

CONSTANTS
  Thread,        \* calls in progress at the same time (bounds the overlap)
  Call,          \* the names of the calls that are made in this instance
  Serial,        \* TRUE: a request is made only when nothing else is going on
  TicketLast,    \* TRUE: the 1000 ms delay of a ticket outlasts what is in todo
  MaxRequests,   \* bound on the requests made by users and operators
  MaxResponses,  \* bound on the payment responses received
  MaxHandlings,  \* bound on the handling events recorded
  MaxCrashes     \* bound on the restarts of the process

CallName == {"accept", "manualAssign", "allocate", "cancel", "revoke", "fail",
             "cancelByCustomer", "handle", "pay", "override", "expire", "patchCRM"}

ASSUME DispatchAssumption ==
  /\ Call \subseteq CallName
  /\ IsFiniteSet(Thread)
  /\ Serial \in BOOLEAN /\ TicketLast \in BOOLEAN
  /\ {MaxRequests, MaxResponses, MaxHandlings, MaxCrashes} \subseteq Nat

VARIABLES
  row,           \* the columns of service_requests that Service maps to
  responses,     \* payment_gateway_responses of the fee, by time of creation
  history,       \* types of the handling_events of the request, by time of creation
  assignments,   \* what (provider, status) pairs have a row in assignments
  appointments,  \* what (dispatcher, worker, status) have a row in appointments
  todo,          \* event handlers and saga commands started, by task
  tickets,       \* jobs in the Bull queue 'ticket'
  thread,        \* the calls in progress
  near,          \* the arrival is at most two hours away, no longer a day or more
  requests, crashes  \* how many there were, for the bounds

vars == <<row, responses, history, assignments, appointments, todo, tickets,
          thread, near, requests, crashes>>

Candidates == Dispatcher  \* ScanCandidatesQuery: all of them are in the zone

AssignmentStatus  == {"PENDING", "ACCEPTED", "FAILED", "REVOKED", "CANCELLED"}
AppointmentStatus == {"ALLOCATED", "REPLACED", "FULFILLED", "REVOKED", "CANCELLED"}
Assignment  == [provider : Dispatcher, status : AssignmentStatus]
Appointment == [dispatcher : Dispatcher, worker : Worker \cup Independent,
                status : AppointmentStatus]

\* The row holds the id of the response, and neither undefined nor an unset agent.
Row == [lastEvent : HandlingEventType \cup {"NULL"}, response : Nat,
        dispatcher : Dispatcher \cup {NoAgent}, worker : Worker \cup Independent \cup {NoAgent},
        paymentStatus : PaymentStatus, allocationStatus : AllocationStatus,
        status : Status, nextActionType : ActionType]
Column == DOMAIN CreatedService

(* Tasks: the event handlers, one per update they make, and the commands. *)
TaskName == {"cancelAssignments", "cancelAppointments", "revokeAssignments",
             "revokeAppointments", "replaceOthers", "fulfilAppointments",
             "initiateAutoAssignment", "paymentResponded", "expire", "patchCRM"}
Task == [name : TaskName, worker : ServiceProvider \cup {NoAgent}]
TaskOf(name) == [name |-> name, worker |-> NoAgent]

PC == {"idle", "saveAccept", "saveManual", "insertManual", "acceptMine", "failOthers",
       "saveAllocate", "appoint", "saveCancel", "saveRevoke", "saveCancelByCustomer",
       "saveExpire", "failPending", "saveRestart", "enqueue", "offer",
       "lookupPayment", "savePayment", "refetchPayment", "savePatch",
       "record", "lookupHandling", "saveHandling", "refetchHandling"}
Saving == {"saveAccept", "saveManual", "saveAllocate", "saveCancel", "saveRevoke",
           "saveCancelByCustomer", "saveExpire", "saveRestart", "savePayment",
           "savePatch", "saveHandling"}

\* changed: once compared, the columns in which the object differs from the row.
Process == [pc : PC, agent : ServiceProvider \cup {NoAgent}, service : ServiceObject,
            compared : BOOLEAN, changed : SUBSET Column]
At(pc, p, s) ==
  [pc |-> pc, agent |-> p, service |-> s, compared |-> FALSE, changed |-> {}]
Idle == At("idle", NoAgent, CreatedService)

TypeOK ==
  /\ row \in Row
  /\ responses \in Seq({"FAILED", "SUCCEEDED"})
  /\ history \in Seq(HandlingEventType)
  /\ assignments \subseteq Assignment
  /\ appointments \subseteq Appointment
  /\ todo \in [Task -> Nat]
  /\ tickets \in Nat
  /\ thread \in [Thread -> Process]
  /\ near \in BOOLEAN
  /\ requests \in Nat /\ crashes \in Nat

------------------------------------------------------------------------------
(* Reading and saving *)

\* repository.findOne: the eager relations are loaded with the row.
LoadResponse(id) ==
  IF id \in DOMAIN responses THEN [id |-> id, status |-> responses[id]] ELSE NoResponse

Loaded == [row EXCEPT !.response = LoadResponse(row.response)]

\* ServiceRequestService.get: the crud query builder does not load lastEvent.
LoadedByGet == [Loaded EXCEPT !.lastEvent = "UNDEFINED"]

Or(value, absent, old) == IF value = absent THEN old ELSE value

\* save() concerns every column that has a value in memory.
Written(s) ==
  [s EXCEPT !.response   = s.response.id,
            !.lastEvent  = Or(s.lastEvent, "UNDEFINED", row.lastEvent),
            !.dispatcher = Or(s.dispatcher, Unset, row.dispatcher),
            !.worker     = Or(s.worker, Unset, row.worker)]

Changed(s) == {c \in Column : Written(s)[c] # row[c]}

\* The update of the changed columns; the others keep what the row holds now.
Saved(s, changed) ==
  LET Of(c) == IF c \in changed THEN Written(s)[c] ELSE row[c]
  IN  [lastEvent |-> Of("lastEvent"), response |-> Of("response"),
       dispatcher |-> Of("dispatcher"), worker |-> Of("worker"),
       paymentStatus |-> Of("paymentStatus"), allocationStatus |-> Of("allocationStatus"),
       status |-> Of("status"), nextActionType |-> Of("nextActionType")]

Running(t, pc)     == thread[t].pc = pc
Continue(t, pc, s) == thread' = [thread EXCEPT ![t] = At(pc, thread[t].agent, s)]
Goto(t, pc)        == Continue(t, pc, thread[t].service)
Finish(t)          == thread' = [thread EXCEPT ![t] = Idle]
Start(t, pc, p, s) == Running(t, "idle") /\ thread' = [thread EXCEPT ![t] = At(pc, p, s)]

Publish(tasks) == todo' = [k \in Task |-> IF k \in tasks THEN todo[k] + 1 ELSE todo[k]]
Take(k)        == todo[k] > 0 /\ todo' = [todo EXCEPT ![k] = @ - 1]

NothingTodo == \A k \in Task : todo[k] = 0
AllIdle     == \A t \in Thread : Running(t, "idle")
Quiet       == NothingTodo /\ AllIdle /\ tickets = 0

\* A request of a user or an operator.
Request(call) ==
  /\ call \in Call
  /\ requests < MaxRequests
  /\ Serial => Quiet
  /\ requests' = requests + 1

WithStatus(table, Matches(_), status) ==
  {IF Matches(r) THEN [r EXCEPT !.status = status] ELSE r : r \in table}

tables == <<assignments, appointments>>
events == <<responses, history, near>>
bounds == <<requests, crashes>>

\* ServiceRequestService.create publishes Created (the CRM saga) and, when there
\* is no payment gateway, Confirmed (the dispatch saga).
InitialTasks ==
  {TaskOf("patchCRM") : c \in Call \cap {"patchCRM"}}
    \cup (IF PaymentGatewayEnabled THEN {} ELSE {TaskOf("initiateAutoAssignment")})

Init ==
  /\ row = [CreatedService EXCEPT !.response = 0]
  /\ responses = <<>> /\ history = <<>>
  /\ assignments = {} /\ appointments = {}
  /\ todo = [k \in Task |-> IF k \in InitialTasks THEN 1 ELSE 0]
  /\ tickets = 0
  /\ thread = [t \in Thread |-> Idle]
  /\ near = FALSE
  /\ requests = 0 /\ crashes = 0

------------------------------------------------------------------------------
(* Taking a job: AcceptNewDispatchedJobHandler, ManuallyAssignJobToProvider- *)
(* Handler.  A provider that is suspended or has no free worker is refused    *)
(* before anything changes.                                                   *)

BeginTake(t, p, pc) ==
  /\ CanAssignToDispatcher(Loaded, p)
  /\ Start(t, pc, p, AssignedToDispatcher(Loaded, p))
  /\ UNCHANGED <<row, events, tables, todo, tickets, crashes>>

Accept(t, p)       == Request("accept") /\ BeginTake(t, p, "saveAccept")
ManualAssign(t, p) == Request("manualAssign") /\ BeginTake(t, p, "saveManual")

\* The reading in save().
Compare(t) ==
  /\ thread[t].pc \in Saving /\ ~thread[t].compared
  /\ thread' = [thread EXCEPT ![t].compared = TRUE,
                              ![t].changed = Changed(thread[t].service)]
  /\ UNCHANGED <<row, events, tables, todo, tickets, bounds>>

Update(t, pc) ==
  /\ Running(t, pc) /\ thread[t].compared
  /\ row' = Saved(thread[t].service, thread[t].changed)

\* The save of a handler whose publish comes later.
SaveThen(t, pc, next) ==
  /\ Update(t, pc)
  /\ Goto(t, next)
  /\ UNCHANGED <<events, tables, todo, tickets, bounds>>

SaveAccept(t) == SaveThen(t, "saveAccept", "acceptMine")
SaveManual(t) == SaveThen(t, "saveManual", "insertManual")

InsertManual(t) ==
  /\ Running(t, "insertManual")
  /\ assignments' = assignments \cup {[provider |-> thread[t].agent, status |-> "PENDING"]}
  /\ Goto(t, "acceptMine")
  /\ UNCHANGED <<row, events, appointments, todo, tickets, bounds>>

AcceptMine(t) ==
  /\ Running(t, "acceptMine")
  /\ LET Mine(a) == a.provider = thread[t].agent /\ a.status = "PENDING"
     IN  assignments' = WithStatus(assignments, Mine, "ACCEPTED")
  /\ Goto(t, "failOthers")
  /\ UNCHANGED <<row, events, appointments, todo, tickets, bounds>>

FailOthers(t) ==
  /\ Running(t, "failOthers")
  /\ LET Others(a) == a.provider # thread[t].agent
     IN  assignments' = WithStatus(assignments, Others, "FAILED")
  /\ IF thread[t].service.worker = thread[t].agent THEN Goto(t, "appoint") ELSE Finish(t)
  /\ UNCHANGED <<row, events, appointments, todo, tickets, bounds>>

(* AllocateJobToWorkerHandler.  Allocated already: it returns. *)
Allocate(t, dealer, w) ==
  /\ Request("allocate")
  /\ Loaded.worker # w
  /\ CanAllocateToWorker(Loaded, dealer)
  /\ Start(t, "saveAllocate", dealer, AllocatedToWorker(Loaded, w))
  /\ UNCHANGED <<row, events, tables, todo, tickets, crashes>>

SaveAllocate(t) == SaveThen(t, "saveAllocate", "appoint")

\* AppointmentFactory.create, then the Allocated event.
Appoint(t) ==
  LET s == thread[t].service
  IN  /\ Running(t, "appoint")
      /\ appointments' = appointments \cup
           {[dispatcher |-> s.dispatcher, worker |-> s.worker, status |-> "ALLOCATED"]}
      /\ Publish({[name |-> "replaceOthers", worker |-> s.worker]})
      /\ Finish(t)
      /\ UNCHANGED <<row, events, assignments, tickets, bounds>>

------------------------------------------------------------------------------
(* Giving a job up *)

BeginGiveUp(t, pc, s) ==
  /\ Start(t, pc, NoAgent, s)
  /\ UNCHANGED <<row, events, tables, todo, tickets, crashes>>

\* save(), then publish: nothing is awaited in between.
SaveAndPublish(t, pc, tasks) ==
  /\ Update(t, pc)
  /\ Publish(tasks)
  /\ Finish(t)
  /\ UNCHANGED <<events, tables, tickets, bounds>>

Cancel(t, p) ==
  /\ Request("cancel")
  /\ CanCancel(Loaded, p)
  /\ BeginGiveUp(t, "saveCancel", ProviderTerminated(Loaded, "CANCELLED_BY_SERVICE_PROVIDER"))

\* Wrong: the job is not offered again.
SaveCancelSilently(t) == SaveAndPublish(t, "saveCancel", {TaskOf("cancelAssignments")})

SaveCancel(t) ==
  SaveAndPublish(t, "saveCancel",
                 {TaskOf("cancelAssignments"), TaskOf("initiateAutoAssignment")})

Revoke(t) == Request("revoke") /\ BeginGiveUp(t, "saveRevoke", Revoked(Loaded, FALSE))
Fail(t)   == Request("fail")   /\ BeginGiveUp(t, "saveRevoke", Revoked(Loaded, TRUE))

SaveRevoke(t) ==
  SaveAndPublish(t, "saveRevoke",
    {TaskOf("revokeAssignments")} \cup
    (IF thread[t].service.status = "FAILED" THEN {} ELSE {TaskOf("initiateAutoAssignment")}))

CancelByCustomer(t) ==
  /\ Request("cancelByCustomer")
  /\ ~near
  /\ CanCancelByCustomer(Loaded)
  /\ BeginGiveUp(t, "saveCancelByCustomer",
                 ProviderTerminated(LoadedByGet, "CANCELLED_BY_CUSTOMER"))

SaveCancelByCustomer(t) ==
  SaveAndPublish(t, "saveCancelByCustomer", {TaskOf("cancelAssignments")})

(* scripts/expire-awaiting-payments: the list is read once, then each id of   *)
(* it is expired, one a second.                                               *)
FindTimedOut ==
  /\ Request("expire")
  /\ row.allocationStatus = "UNASSIGNED" /\ row.status = "AWAITING_PAYMENT"
  /\ Publish({TaskOf("expire")})
  /\ UNCHANGED <<row, events, tables, tickets, thread, crashes>>

Expire(t) ==
  /\ Take(TaskOf("expire"))
  /\ Start(t, "saveExpire", NoAgent, ExpiredBySystem(LoadedByGet))
  /\ UNCHANGED <<row, events, tables, tickets, bounds>>

SaveExpire(t) == SaveThen(t, "saveExpire", "failPending")

\* ExpireJobAssignmentCommand
FailPending(t) ==
  /\ Running(t, "failPending")
  /\ LET Pending(a) == a.status = "PENDING"
     IN  assignments' = WithStatus(assignments, Pending, "FAILED")
  /\ Finish(t)
  /\ UNCHANGED <<row, events, appointments, todo, tickets, bounds>>

------------------------------------------------------------------------------
(* Offering the job again: InitiateAutoAssignmentHandler and TicketProcessor *)

InitiateAutoAssignment(t) ==
  /\ Take(TaskOf("initiateAutoAssignment"))
  /\ Start(t, "saveRestart", NoAgent, Restarted(Loaded))
  /\ UNCHANGED <<row, events, tables, tickets, bounds>>

SaveRestart(t) == SaveThen(t, "saveRestart", "enqueue")

Enqueue(t) ==
  /\ Running(t, "enqueue")
  /\ tickets' = tickets + 1
  /\ Finish(t)
  /\ UNCHANGED <<row, events, tables, todo, bounds>>

TicketReady == tickets > 0 /\ (TicketLast => NothingTodo)

\* exit: service ticket has been assigned
DropTicket ==
  /\ TicketReady
  /\ HasBeenAssignedOrAllocated(row)
  /\ tickets' = tickets - 1
  /\ UNCHANGED <<row, events, tables, todo, thread, bounds>>

ReadTicket(t) ==
  /\ TicketReady
  /\ ~HasBeenAssignedOrAllocated(row)
  /\ tickets' = tickets - 1
  /\ Start(t, "offer", NoAgent, Loaded)
  /\ UNCHANGED <<row, events, tables, todo, bounds>>

\* SEND_TO_ALL: one pending assignment for every candidate that was scanned.
Offer(t) ==
  /\ Running(t, "offer")
  /\ assignments' = assignments \cup [provider : Candidates, status : {"PENDING"}]
  /\ Finish(t)
  /\ UNCHANGED <<row, events, appointments, todo, tickets, bounds>>

------------------------------------------------------------------------------
(* The event handlers that update the two tables.  Each update concerns all   *)
(* the rows of the request that match, whatever their status.                 *)

\* Wrong: only the offers that nobody answered are updated.
UpdatePendingAssignments(name, status, next) ==
  /\ todo[TaskOf(name)] > 0
  /\ todo' = [todo EXCEPT ![TaskOf(name)] = @ - 1, ![TaskOf(next)] = @ + 1]
  /\ LET Pending(a) == a.status = "PENDING"
     IN  assignments' = WithStatus(assignments, Pending, status)
  /\ UNCHANGED <<row, events, appointments, tickets, thread, bounds>>

UpdateAssignments(name, status, next) ==
  /\ todo[TaskOf(name)] > 0
  /\ todo' = [todo EXCEPT ![TaskOf(name)] = @ - 1, ![TaskOf(next)] = @ + 1]
  /\ LET All(a) == TRUE IN assignments' = WithStatus(assignments, All, status)
  /\ UNCHANGED <<row, events, appointments, tickets, thread, bounds>>

UpdateAppointments(task, Matches(_), status) ==
  /\ Take(task)
  /\ appointments' = WithStatus(appointments, Matches, status)
  /\ UNCHANGED <<row, events, assignments, tickets, thread, bounds>>

CancelAssignments == UpdateAssignments("cancelAssignments", "CANCELLED", "cancelAppointments")
RevokeAssignments == UpdateAssignments("revokeAssignments", "REVOKED", "revokeAppointments")

CancelAppointments ==
  LET All(a) == TRUE
  IN  UpdateAppointments(TaskOf("cancelAppointments"), All, "CANCELLED")
RevokeAppointments ==
  LET All(a) == TRUE
  IN  UpdateAppointments(TaskOf("revokeAppointments"), All, "REVOKED")

\* Wrong: the worker's own appointments are replaced, not those of the others.
ReplaceOwn(w) ==
  LET OfWorker(a) == a.worker = w
  IN  UpdateAppointments([name |-> "replaceOthers", worker |-> w], OfWorker, "REPLACED")

ReplaceOthers(w) ==
  LET OfOthers(a) == a.worker # w
  IN  UpdateAppointments([name |-> "replaceOthers", worker |-> w], OfOthers, "REPLACED")

FulfilAppointments(w) ==
  LET OfWorker(a) == a.worker = w
  IN  UpdateAppointments([name |-> "fulfilAppointments", worker |-> w], OfWorker, "FULFILLED")

------------------------------------------------------------------------------
(* The fee payment: PaymentService.iPay88Response and iPay88Webhook, then     *)
(* PaymentGatewayRespondedHandler.                                            *)

\* A response for a new transaction.
Pay(status) ==
  /\ Request("pay")
  /\ Len(responses) < MaxResponses
  /\ responses' = Append(responses, status)
  /\ Publish({TaskOf("paymentResponded")})
  /\ UNCHANGED <<row, history, near, tables, tickets, thread, crashes>>

\* The webhook for a transaction whose response is there: it overrides the
\* status and publishes again.  The gateway never takes a success back.
Override(i, status) ==
  /\ Request("override")
  /\ responses[i] = "SUCCEEDED" => status = "SUCCEEDED"
  /\ responses' = [responses EXCEPT ![i] = status]
  /\ Publish({TaskOf("paymentResponded")})
  /\ UNCHANGED <<row, history, near, tables, tickets, thread, crashes>>

\* Paid already: it returns.
DismissPayment ==
  /\ HasCustomerPaid(row)
  /\ Take(TaskOf("paymentResponded"))
  /\ UNCHANGED <<row, events, tables, tickets, thread, bounds>>

PaymentResponded(t) ==
  /\ ~HasCustomerPaid(row)
  /\ Take(TaskOf("paymentResponded"))
  /\ Start(t, "lookupPayment", NoAgent, Loaded)
  /\ UNCHANGED <<row, events, tables, tickets, bounds>>

\* Wrong: the oldest response instead of the most recent one.
LookupOldestPayment(t) ==
  /\ Running(t, "lookupPayment")
  /\ Continue(t, "savePayment", DerivedFromPaymentHistory(thread[t].service, LoadResponse(1)))
  /\ UNCHANGED <<row, events, tables, todo, tickets, bounds>>

LookupPayment(t) ==
  /\ Running(t, "lookupPayment")
  /\ Continue(t, "savePayment",
              DerivedFromPaymentHistory(thread[t].service, LoadResponse(Len(responses))))
  /\ UNCHANGED <<row, events, tables, todo, tickets, bounds>>

SavePayment(t) == SaveThen(t, "savePayment", "refetchPayment")

\* Confirmed, if the row read again is paid.
RefetchPayment(t) ==
  /\ Running(t, "refetchPayment")
  /\ Publish(IF HasCustomerPaid(row) THEN {TaskOf("initiateAutoAssignment")} ELSE {})
  /\ Finish(t)
  /\ UNCHANGED <<row, events, tables, tickets, bounds>>

(* FindAndPatchCRMCustomerIdHandler: the customer is looked up in the CRM     *)
(* between the read and the save.                                             *)
PatchCRM(t) ==
  /\ Take(TaskOf("patchCRM"))
  /\ Start(t, "savePatch", NoAgent, Loaded)
  /\ UNCHANGED <<row, events, tables, tickets, bounds>>

SavePatch(t) == SaveAndPublish(t, "savePatch", {})

------------------------------------------------------------------------------
(* HandleServicingJobHandler *)

\* The customer tells the verification code of the job, which is sent to him
\* when the work commences, to complete it.
VerificationCodeSent == \E i \in DOMAIN history : history[i] = "IN_PROGRESS"

Handle(t) ==
  /\ Request("handle")
  /\ near
  /\ Len(history) + Cardinality({u \in Thread : Running(u, "record")}) < MaxHandlings
  /\ CanHandle(Loaded)
  /\ NextHandlingEventType(Loaded) = "FULLFIL" => VerificationCodeSent
  /\ Start(t, "record", NoAgent, Loaded)
  /\ UNCHANGED <<row, events, tables, todo, tickets, crashes>>

Record(t) ==
  /\ Running(t, "record")
  /\ history' = Append(history, NextHandlingEventType(thread[t].service))
  /\ Goto(t, "lookupHandling")
  /\ UNCHANGED <<row, responses, near, tables, todo, tickets, bounds>>

LookupHandling(t) ==
  /\ Running(t, "lookupHandling")
  /\ Continue(t, "saveHandling",
              DerivedFromHandlingHistory(thread[t].service, history[Len(history)]))
  /\ UNCHANGED <<row, events, tables, todo, tickets, bounds>>

SaveHandling(t) == SaveThen(t, "saveHandling", "refetchHandling")

\* Fulfilled, if the row read again says so, for the worker that row names.
RefetchHandling(t) ==
  /\ Running(t, "refetchHandling")
  /\ Publish(IF row.status = "FULFILLED"
             THEN {[name |-> "fulfilAppointments", worker |-> row.worker]} ELSE {})
  /\ Finish(t)
  /\ UNCHANGED <<row, events, tables, tickets, bounds>>

------------------------------------------------------------------------------
\* A customer may cancel until 24 hours before the arrival (hourLimitBefore-
\* EcCancellationOptionIsDisabled), a job may start 2 hours before it (hourLimit-
\* BeforeJobIsAllowedToStart); no call takes the hours between.
TimePasses ==
  /\ ~near /\ Quiet
  /\ near' = TRUE
  /\ UNCHANGED <<row, responses, history, tables, todo, tickets, thread, bounds>>

\* The process restarts: calls in progress and started tasks are gone, the
\* database and the Redis queue are not.  Bull gives a ticket whose processing
\* did not end to the next worker.
Crash ==
  /\ crashes < MaxCrashes
  /\ crashes' = crashes + 1
  /\ thread' = [t \in Thread |-> Idle]
  /\ todo' = [k \in Task |-> 0]
  /\ tickets' = tickets + Cardinality({t \in Thread : Running(t, "offer")})
  /\ UNCHANGED <<row, events, tables, requests>>

------------------------------------------------------------------------------
\* A call that users, operators, the gateway or the expiry script make.
Requested ==
  \/ \E t \in Thread, p \in ServiceProvider : Accept(t, p)
  \/ \E t \in Thread, p \in ServiceProvider : ManualAssign(t, p)
  \/ \E t \in Thread, dealer \in Dispatcher, w \in Worker : Allocate(t, dealer, w)
  \/ \E t \in Thread, p \in ServiceProvider : Cancel(t, p)
  \/ \E t \in Thread : Revoke(t)
  \/ \E t \in Thread : Fail(t)
  \/ \E t \in Thread : CancelByCustomer(t)
  \/ \E t \in Thread : Handle(t)
  \/ FindTimedOut
  \/ \E status \in {"FAILED", "SUCCEEDED"} : Pay(status)
  \/ \E i \in DOMAIN responses, status \in {"FAILED", "SUCCEEDED"} : Override(i, status)

\* What thread t does next in the call it is in.
Resume(t) ==
  \/ Compare(t)
  \/ SaveAccept(t) \/ SaveManual(t) \/ InsertManual(t) \/ AcceptMine(t) \/ FailOthers(t)
  \/ SaveAllocate(t) \/ Appoint(t)
  \/ SaveCancel(t) \/ SaveRevoke(t) \/ SaveCancelByCustomer(t)
  \/ SaveExpire(t) \/ FailPending(t)
  \/ SaveRestart(t) \/ Enqueue(t) \/ Offer(t)
  \/ LookupPayment(t) \/ SavePayment(t) \/ RefetchPayment(t)
  \/ SavePatch(t)
  \/ Record(t) \/ LookupHandling(t) \/ SaveHandling(t) \/ RefetchHandling(t)

\* What was published, or queued, and is taken up by a free thread or at once.
TakeUp(t) ==
  \/ InitiateAutoAssignment(t) \/ PaymentResponded(t) \/ Expire(t) \/ PatchCRM(t)
  \/ ReadTicket(t)

Deliver ==
  \/ DismissPayment \/ DropTicket
  \/ CancelAssignments \/ CancelAppointments
  \/ RevokeAssignments \/ RevokeAppointments
  \/ \E w \in ServiceProvider : ReplaceOthers(w)
  \/ \E w \in ServiceProvider \cup {NoAgent} : FulfilAppointments(w)

\* Nothing is going on: the server waits for the next request.
Wait == Quiet /\ UNCHANGED vars

Next ==
  \/ Requested
  \/ \E t \in Thread : Resume(t) \/ TakeUp(t)
  \/ Deliver
  \/ TimePasses
  \/ Crash
  \/ Wait

Spec == Init /\ [][Next]_vars

\* The event loop runs what can run: promises settle, timers fire.
Fairness == WF_vars(Deliver) /\ \A t \in Thread : WF_vars(Resume(t) \/ TakeUp(t))

FairSpec == Spec /\ Fairness

------------------------------------------------------------------------------
(* What must hold however the calls overlap and whenever the process restarts *)

MoneyReceived == \E i \in DOMAIN responses : responses[i] = "SUCCEEDED"

\* A prepaid job is never with a provider unless a payment of its fee has
\* succeeded: assignToDispatcher refuses an unpaid one, and no stale write, late
\* event or restart gets around that.
NoDispatchBeforePayment ==
  PaymentGatewayEnabled /\ row.allocationStatus # "UNASSIGNED" => MoneyReceived

\* Work is recorded as commenced only after somebody recorded to be on the way.
WorkFollowsTravel ==
  \A j \in DOMAIN history : history[j] = "IN_PROGRESS" =>
    \E i \in 1..(j - 1) : history[i] = "START"

\* The progress the row shows to customer and operator was recorded by somebody, work
\* after travel: deriveServiceProgress takes it from the handling history, and
\* nextHandlingEventType reads the order off the row's status, which other calls
\* (cancel, restart, reassignment) rewrite meanwhile from what they once read.
StatusTellsTruth ==
  LET Recorded(e) == \E i \in DOMAIN history : history[i] = e
  IN  /\ row.status = "STARTED"     => Recorded("START")
      /\ row.status = "IN_PROGRESS" => Recorded("IN_PROGRESS")
      /\ row.status = "FULFILLED"   => Recorded("FULLFIL")
      /\ WorkFollowsTravel

------------------------------------------------------------------------------
(* What holds when each request finds the one before it finished (Serial)     *)

\* An assigned job has a dispatcher and an allocated one a worker:
\* "Please first assign a dispatcher before worker allocation".
AllocationBacked ==
  /\ row.allocationStatus # "UNASSIGNED" => row.dispatcher \in Dispatcher
  /\ row.allocationStatus = "ALLOCATED"  => row.worker \in Worker \cup Independent

\* At rest, the job blocks one appointment in the calendars if it is allocated,
\* that of its worker and dispatcher, and none if it is not: the appointments of
\* those it was taken from are CANCELLED, REVOKED or REPLACED by the handlers of
\* Cancelled, Revoked and Allocated.  (A failed job keeps its provider, and a
\* fulfilled one may have been allocated anew.)
CalendarAgrees ==
  LET blocked == {a \in appointments : a.status = "ALLOCATED"}
      ofRow   == [dispatcher |-> row.dispatcher, worker |-> row.worker, status |-> "ALLOCATED"]
      allocated == row.allocationStatus = "ALLOCATED"
  IN  Quiet => /\ blocked \subseteq (IF allocated THEN {ofRow} ELSE {})
               /\ allocated /\ row.status \notin {"FAILED", "FULFILLED"} => ofRow \in blocked

\* At rest, an offer that counts as accepted is the dispatcher's: the offers of
\* the providers who lost or gave up the job are FAILED, CANCELLED or REVOKED.
AcceptedOfferIsTaken ==
  Quiet => \A a \in assignments : a.status = "ACCEPTED" => a.provider = row.dispatcher

AllOffered == [provider : Candidates, status : {"PENDING"}] \subseteq assignments

\* At rest, a job whose last transaction succeeded is paid, whatever failed before
\* and whether the browser or the webhook told.
PaymentRecognised ==
  Quiet /\ responses # <<>> /\ responses[Len(responses)] = "SUCCEEDED" => HasCustomerPaid(row)

\* "Job is taken": the dispatcher of a job that is taken is not replaced; he is
\* released before there is another.
JobTakenOnce ==
  [][row.allocationStatus # "UNASSIGNED" /\ ~HasBeenCancelled(row)
       => row'.dispatcher \in {row.dispatcher, NoAgent}]_vars

OnMarket == AllOffered \/ row.allocationStatus # "UNASSIGNED"
                       \/ row.status \in Closed \cup {"FULFILLED"}

\* A job that is open, or that its provider or the operator gave up, is offered to
\* the candidates in the end: through the event, the saga, the command, the queue
\* and the processor.  What was published is gone with a restart; what is queued is not:
\* see Ticket.
JobReturnsToMarket ==
  row.status \in {"UNASSIGNED", "CANCELLED_BY_SERVICE_PROVIDER", "CANCELLED_BY_OPERATOR"}
    ~> OnMarket \/ crashes > 0

------------------------------------------------------------------------------
(* What the code says of itself and does not keep: see the README             *)

\* "Job must be allocated to worker first": a fulfilled job was with a worker.
FulfilledByWorker == row.status = "FULFILLED" => row.allocationStatus = "ALLOCATED"

\* The status FAILED_PAYMENT reads "Payment Failed": no payment succeeded.
FailedPaymentTrue == row.status = "FAILED_PAYMENT" => ~MoneyReceived

==============================================================================
