----------------------------- MODULE Reschedule -----------------------------
(***************************************************************************)
(* Moving the appointment of one service request: the customer's reschedule*)
(* order, free of charge or against a surcharge that iPay88 collects, the  *)
(* operator's change of the arrival time, the reminders queued for it, and *)
(* the ways money goes back (cancellation, failure, refund); and what the   *)
(* customer thought of it (feedback).                                      *)
(*                                                                         *)
(* The calls that JobDispatch takes apart (accept, handle, the ticket) are *)
(* one step each here; the calls about moving are two: what the handler    *)
(* reads and computes, then its save and what it publishes.  calls holds   *)
(* the saves to come.  Event handlers and commands wait in todo.           *)
(*                                                                         *)
(* Providers are independent contractors, their own workers.  Time is the  *)
(* hour; every limit of the code counts whole hours.                       *)
(***************************************************************************)
EXTENDS Service, Gateway, Integers, Sequences

CONSTANTS
  Arrivals,     \* the hours at which a job may start
  Instants,     \* the hours at which somebody does something
  CancelLimit,  \* hourLimitBeforeEcCancellationOptionIsDisabled
  MoveLimit,    \* hourLimitBeforeEcRescheduleOptionIsDisabled
  FreeLimit,    \* hourLimitBeforeEcRescheduleSurchageIsRequired
  Window,       \* expectedArrivalWindowHour: the earliest arrival from now
  StartLimit,   \* hourLimitBeforeJobIsAllowedToStart
  RemindBefore, \* remindProviderXSecondsBeforeJobStart, and a day
  Ratings,      \* the ratings a customer gives; one that he leaves out is 0
  Unrated,      \* the null of the rating column
  Multiple,     \* ecRescheduleMultipleOccurrencesAllowed
  Call,         \* the names of the calls that are made in this instance
  Serial,       \* TRUE: a request is made only when nothing else is going on
  TicketLast,   \* TRUE: the 1000 ms delay of a ticket outlasts what is in todo
  MaxRequests   \* bound on the requests made

ASSUME RescheduleAssumption ==
  /\ Arrivals \subseteq Nat /\ Instants \subseteq Nat /\ RemindBefore \subseteq Nat
  /\ Ratings \subseteq Nat /\ RemindBefore # {}
  /\ {CancelLimit, MoveLimit, FreeLimit, Window, StartLimit, MaxRequests} \subseteq Nat
  /\ {Multiple, Serial, TicketLast} \subseteq BOOLEAN
  /\ Dealer = {} /\ Worker = {}

VARIABLES
  now,           \* the hour
  row,           \* the columns of service_requests that concern this module
  offers,        \* the providers whose assignment is PENDING
  appointments,  \* the rows of appointments
  reminders,     \* the jobs of the Bull queue 'reminder' and what came of them
  refunds,       \* how many rows refunds has for the request
  feedbacks,     \* the ratings in feedback_response, by time of creation
  todo,          \* event handlers and commands started, by task
  calls,         \* the calls in progress: what they are about to save
  requests       \* how many there were, for the bound

tables == <<offers, appointments>>
after  == <<refunds, feedbacks>>   \* what comes of the job in the end
vars   == <<now, row, tables, reminders, after, todo, calls, requests, gateway>>

NoTime == 0

\* executed: executedAt is set.  paid: paymentStatus ("NONE" for null).
Order ==
  [from : Nat, to : Nat, required : BOOLEAN, paid : PaymentStatus \cup {"NONE"},
   executed : BOOLEAN, impacted : Independent \cup {NoAgent}, createdAt : Nat]
EmptyOrder ==
  [from |-> NoTime, to |-> NoTime, required |-> FALSE, paid |-> "NONE",
   executed |-> FALSE, impacted |-> NoAgent, createdAt |-> NoTime]

\* A response to the feedback form, as far as it is copied to the request.
FeedbackResponse == Ratings \cup {0}

\* A Service constructed anew has neither flag: UNSET leaves the column alone.
Flag == {"YES", "NO", "UNSET"}
Row  == [service : ServiceObject, start : Nat, order : Order,
         eligible : Flag, refunded : Flag, rating : FeedbackResponse \cup {Unrated}]

AppointmentStatus == {"ALLOCATED", "RESCHEDULED", "REPLACED", "CANCELLED", "REVOKED", "FULFILLED"}
Appointment == [dispatcher : Independent, start : Nat, status : AppointmentStatus]
Reminder    == [start : Nat, due : Int, outcome : {"waiting", "refused", "skipped", "sent"}]

TaskName == {"feeResponded", "surchargeResponded", "rescheduled", "replaced", "cancelled",
             "revoked", "fulfilled", "initiateAutoAssignment", "ticket", "announce",
             "insertRefund"}
Task     == [name : TaskName, agent : Independent \cup {NoAgent}]
For(name, p) == [name |-> name, agent |-> p]
Plain(name)  == For(name, NoAgent)

TypeOK ==
  /\ now \in Nat
  /\ row \in Row
  /\ row.service.dispatcher # Unset /\ row.service.worker # Unset
  /\ row.eligible # "UNSET" /\ row.refunded # "UNSET"
  /\ offers \subseteq Independent
  /\ appointments \subseteq Appointment
  /\ reminders \subseteq Reminder
  /\ refunds \in Nat /\ feedbacks \in Seq(FeedbackResponse)
  /\ todo \in [Task -> Nat]
  /\ \A c \in calls : c.row \in Row /\ c.then \subseteq Task
  /\ requests \in Nat
  /\ GatewayTypeOK

------------------------------------------------------------------------------
(* The appointment, and what the hours until the arrival allow                *)

AtLeast(hours, start) == start >= now + hours   \* ...MoreThanDurationFromNow
AtMost(hours, start)  == start <= now + hours   \* ...LessThanDurationFromNow

\* AppointmentFactory.create refuses an arrival too soon after its time.
Arrangeable(start, at) == start >= at + Window

AllowReschedule(r) ==
  /\ HasCustomerPaid(r.service)
  /\ r.service.status \notin InProgress \cup {"FULFILLED"}
  /\ ~HasBeenClosed(r.service)
  /\ Multiple \/ ~r.order.executed
  /\ AtLeast(MoveLimit, r.start)

SurchargeDue(r) == PaymentGatewayEnabled /\ ~AtLeast(FreeLimit, r.start)

AllowCancel(r) ==
  /\ CanCancelByCustomer(r.service)
  /\ ~r.order.executed
  /\ AtLeast(CancelLimit, r.start)

\* CustomerRescheduleOrder.createWithSurcharge, createWithFreeOfCharge
NewOrder(r, to, required) ==
  [from |-> r.start, to |-> to, required |-> required,
   paid |-> IF required THEN "AWAITING_PAYMENT" ELSE "NONE", executed |-> FALSE,
   impacted |-> r.service.dispatcher, createdAt |-> now]

\* ServiceRequest.reschedule: a new appointment, and nobody to keep it.
Moved(r, to) ==
  [r EXCEPT !.start = to, !.service = ProviderTerminated(r.service, "NONE"),
            !.eligible = "UNSET", !.refunded = "UNSET"]

\* CustomerRescheduleOrder.execute: a surcharge takes the status of the response
\* and is executed only when it succeeded.
Executed(order, status) ==
  IF ~order.required THEN [order EXCEPT !.executed = TRUE]
  ELSE [order EXCEPT !.paid = status, !.executed = @ \/ status = "SUCCEEDED"]

\* Wrong: the order counts as executed whatever the response says.
ExecuteAnyway(r, status) ==
  Moved([r EXCEPT !.order = [Executed(r.order, status) EXCEPT !.executed = TRUE]], r.order.to)

\* executeCustomerRescheduleOrder: the appointment moves whatever execute() found.
ExecuteOrder(r, status) ==
  Moved([r EXCEPT !.order = Executed(r.order, status)], r.order.to)

------------------------------------------------------------------------------
(* Reading, saving, publishing                                                *)

ReloadedResponse(r) ==
  IF r.id = 0 THEN NoResponse ELSE [id |-> r.id, status |-> responses[r.id].status]

Loaded == [row EXCEPT !.service.response = ReloadedResponse(@)]
LoadedByGet == [Loaded EXCEPT !.service.lastEvent = "UNDEFINED"]

Or(value, absent, old) == IF value = absent THEN old ELSE value

\* Wrong: a Service constructed anew says that nothing was refunded.
MergedForgetting(r) ==
  [r EXCEPT !.service.lastEvent  = Or(@, "UNDEFINED", row.service.lastEvent),
            !.service.dispatcher = Or(@, Unset, row.service.dispatcher),
            !.service.worker     = Or(@, Unset, row.service.worker),
            !.eligible = Or(@, "UNSET", row.eligible),
            !.refunded = Or(@, "UNSET", "NO")]

\* Wrong: a value that is not there is written.
MergedBlindly(r) == r

\* What save() leaves in the row: values that are not there keep their column.
Merged(r) ==
  [r EXCEPT !.service.lastEvent  = Or(@, "UNDEFINED", row.service.lastEvent),
            !.service.dispatcher = Or(@, Unset, row.service.dispatcher),
            !.service.worker     = Or(@, Unset, row.service.worker),
            !.eligible = Or(@, "UNSET", row.eligible),
            !.refunded = Or(@, "UNSET", row.refunded)]

\* A save to come and what is published after it.
Saving(r, tasks) == calls' = calls \cup {[row |-> r, then |-> tasks]}

Publish(tasks) == todo' = [k \in Task |-> IF k \in tasks THEN todo[k] + 1 ELSE todo[k]]
Take(k)        == todo[k] > 0 /\ todo' = [todo EXCEPT ![k] = @ - 1]
TakeAndPublish(k, tasks) ==
  /\ todo[k] > 0
  /\ todo' = [j \in Task |-> (IF j \in tasks THEN todo[j] + 1 ELSE todo[j])
                              - (IF j = k THEN 1 ELSE 0)]

Due(reminder) == reminder.outcome = "waiting" /\ reminder.due <= now
Quiet == /\ calls = {}
         /\ \A k \in Task : todo[k] = 0
         /\ \A reminder \in reminders : ~Due(reminder)

Request(call) ==
  /\ call \in Call
  /\ requests < MaxRequests
  /\ Serial => Quiet
  /\ requests' = requests + 1

\* The save of a call in progress, then what it publishes.
Save(c) ==
  /\ c \in calls
  /\ row' = Merged(c.row)
  /\ calls' = calls \ {c}
  /\ Publish(c.then)
  /\ UNCHANGED <<now, tables, reminders, after, requests, gateway>>

Init ==
  /\ now \in {t \in Instants : \A u \in Instants : t <= u}
  /\ \E start \in Arrivals :
       /\ Arrangeable(start, now)
       /\ row = [service |-> CreatedService, start |-> start, order |-> EmptyOrder,
                 eligible |-> "NO", refunded |-> "NO", rating |-> Unrated]
       /\ reminders = {[start |-> start, due |-> start - d, outcome |-> "waiting"] : d \in RemindBefore}
  /\ offers = {} /\ appointments = {} /\ refunds = 0 /\ feedbacks = <<>>
  /\ todo = [k \in Task |->
               IF k = Plain("initiateAutoAssignment") /\ ~PaymentGatewayEnabled THEN 1 ELSE 0]
  /\ calls = {}
  /\ requests = 0
  /\ GatewayInit

------------------------------------------------------------------------------
(* The customer moves the job: ServiceRequestService.reschedule               *)

Fileable(to) ==
  /\ AllowReschedule(Loaded)
  /\ to # row.start           \* else: Unnecessary rescheduling
  /\ Arrangeable(to, now)

RemindersFor(start) == {[start |-> start, due |-> start - d, outcome |-> "waiting"] : d \in RemindBefore}

\* addToReminders: a job in the queue already is another job; the set has it once.
AddToReminders(start) == reminders' = reminders \cup RemindersFor(start)

\* Wrong: the reminders are those of the appointment that was given up.
RescheduleRemindingOfOld(to) ==
  LET filed == [Loaded EXCEPT !.order = NewOrder(Loaded, to, FALSE)]
  IN  /\ Request("reschedule")
      /\ Fileable(to) /\ ~SurchargeDue(row)
      /\ Saving(ExecuteOrder(filed, "NONE"),
                {For("rescheduled", filed.order.impacted), Plain("initiateAutoAssignment")})
      /\ AddToReminders(row.start)
      /\ UNCHANGED <<now, row, tables, after, todo, gateway>>

\* Early enough, the order is filed and executed in one go.
RescheduleFree(to) ==
  LET filed == [Loaded EXCEPT !.order = NewOrder(Loaded, to, FALSE)]
  IN  /\ Request("reschedule")
      /\ Fileable(to) /\ ~SurchargeDue(row)
      /\ Saving(ExecuteOrder(filed, "NONE"),
                {For("rescheduled", filed.order.impacted), Plain("initiateAutoAssignment")})
      /\ AddToReminders(to)
      /\ UNCHANGED <<now, row, tables, after, todo, gateway>>

\* Otherwise it is filed, in place of any order before it, and the page to pay
\* the surcharge goes out.  An order that was executed before (Multiple) was
\* replaced, so that nothing is published.
RescheduleAtSurcharge(to) ==
  /\ Request("reschedule")
  /\ Fileable(to) /\ SurchargeDue(row)
  /\ Saving([Loaded EXCEPT !.order = NewOrder(Loaded, to, TRUE)], {})
  /\ HandOut("EC_RESCHEDULE_SURCHARGE")
  /\ UNCHANGED <<now, row, tables, reminders, after, todo, responses, answers>>

------------------------------------------------------------------------------
(* The operator moves the job: adminChangeSpecification.  Its save is not     *)
(* awaited: the row it reads next, to tell others, may be the old one.        *)

AdminChange(to) ==
  /\ Request("adminChange")
  /\ to # row.start /\ Arrangeable(to, now)
  /\ Saving(Moved(Loaded, to), {})
  /\ Publish({For("announce", row.service.dispatcher)})
  /\ UNCHANGED <<now, row, tables, reminders, after, gateway>>

Announce(p) ==
  /\ TakeAndPublish(For("announce", p),
                    {For("rescheduled", p), Plain("initiateAutoAssignment")})
  /\ AddToReminders(row.start)
  /\ UNCHANGED <<now, row, tables, after, calls, requests, gateway>>

------------------------------------------------------------------------------
(* Payments: Gateway's answers, then PaymentGatewayRespondedHandler            *)

Responded(purpose) ==
  Plain(IF purpose = "FEE" THEN "feeResponded" ELSE "surchargeResponded")

Pay(purpose, status) ==
  /\ Request("pay")
  /\ Insert(purpose, status)
  /\ Publish({Responded(purpose)})
  /\ UNCHANGED <<now, row, tables, reminders, after, calls, pages>>

Webhook(i, status) ==
  /\ Request("webhook")
  /\ Overwrite(i, status)
  /\ Publish({Responded(responses[i].purpose)})
  /\ UNCHANGED <<now, row, tables, reminders, after, calls, pages>>

\* A fee paid already is left alone; a fee paid now is confirmed.
FeeResponded ==
  LET i == MostRecentResponse("FEE")
      s == DerivedFromPaymentHistory(Loaded.service, [id |-> i, status |-> responses[i].status])
  IN  /\ Take(Plain("feeResponded"))
      /\ IF HasCustomerPaid(row.service) THEN UNCHANGED calls
         ELSE Saving([Loaded EXCEPT !.service = s, !.eligible = "UNSET", !.refunded = "UNSET"],
                     IF HasCustomerPaid(s) THEN {Plain("initiateAutoAssignment")} ELSE {})
      /\ UNCHANGED <<now, row, tables, reminders, after, requests, gateway>>

\* A surcharge paid already is left alone.
SurchargePaid(r) == r.order.required /\ r.order.paid = "SUCCEEDED"

\* Whatever the response says, the order at hand is put through execute().
SurchargeResponded ==
  LET r == ExecuteOrder(Loaded, responses[MostRecentResponse("EC_RESCHEDULE_SURCHARGE")].status)
  IN  /\ Take(Plain("surchargeResponded"))
      /\ IF SurchargePaid(row) THEN UNCHANGED calls
         ELSE Saving(r, IF r.order.executed
                        THEN {For("rescheduled", r.order.impacted), Plain("initiateAutoAssignment")}
                        ELSE {})
      /\ UNCHANGED <<now, row, tables, reminders, after, requests, gateway>>

------------------------------------------------------------------------------
(* Money back                                                                 *)

\* cancel() of the customer.  Whether he gets a refund is asked with the limit of
\* rescheduling; that he paid, the guard has asked already.
CancelByCustomer ==
  /\ Request("cancelByCustomer")
  /\ AllowCancel(Loaded)
  /\ Saving([LoadedByGet EXCEPT
               !.service  = ProviderTerminated(LoadedByGet.service, "CANCELLED_BY_CUSTOMER"),
               !.eligible = IF AtLeast(MoveLimit, row.start) THEN "YES" ELSE "NO",
               !.refunded = "UNSET"],
            {Plain("cancelled")})
  /\ UNCHANGED <<now, row, tables, reminders, after, todo, gateway>>

\* RevokeJobHandler with markAsFailed.
Fail ==
  /\ Request("fail")
  /\ Saving([Loaded EXCEPT !.service = Revoked(Loaded.service, TRUE),
                          !.eligible = "YES", !.refunded = "UNSET"],
            {Plain("revoked")})
  /\ UNCHANGED <<now, row, tables, reminders, after, todo, gateway>>

\* refund() of the operator: one row of refunds for a request, then the flag.
Refund ==
  /\ Request("refund")
  /\ refunds = 0              \* else: The refund already processed
  /\ Publish({Plain("insertRefund")})
  /\ UNCHANGED <<now, row, tables, reminders, after, calls, gateway>>

\* refunds.service_request_id is unique.
InsertRefund ==
  /\ Take(Plain("insertRefund"))
  /\ IF refunds = 0 THEN refunds' = 1 /\ Saving([LoadedByGet EXCEPT !.refunded = "YES"], {})
                    ELSE UNCHANGED <<refunds, calls>>
  /\ UNCHANGED <<now, row, tables, reminders, feedbacks, requests, gateway>>

------------------------------------------------------------------------------
(* What the customer thought of it: the response is saved, then the request.  *)
(* Nothing asks whether the job was done, or rated before.                    *)

Rate(rating) ==
  /\ Request("rate")
  /\ feedbacks' = Append(feedbacks, rating)
  /\ Saving([Loaded EXCEPT !.rating = rating], {})
  /\ UNCHANGED <<now, row, tables, reminders, refunds, todo, gateway>>

------------------------------------------------------------------------------
(* The rest of the job's life, one step a call: see JobDispatch                *)

Accept(p) ==
  LET s == AssignedToDispatcher(Loaded.service, p)
  IN  /\ Request("accept")
      /\ CanAssignToDispatcher(Loaded.service, p)
      /\ row' = Merged([Loaded EXCEPT !.service = s, !.eligible = "UNSET", !.refunded = "UNSET"])
      /\ offers' = {}
      /\ appointments' = appointments \cup
           {[dispatcher |-> p, start |-> row.start, status |-> "ALLOCATED"]}
      /\ Publish({For("replaced", p)})
      /\ UNCHANGED <<now, reminders, after, calls, gateway>>

Handle ==
  LET s == DerivedFromHandlingHistory(Loaded.service, NextHandlingEventType(Loaded.service))
  IN  /\ Request("handle")
      /\ AtMost(StartLimit, row.start)
      /\ CanHandle(Loaded.service)
      /\ row' = Merged([Loaded EXCEPT !.service = s, !.eligible = "UNSET", !.refunded = "UNSET"])
      /\ Publish(IF s.status = "FULFILLED" /\ s.worker \in Independent
                 THEN {For("fulfilled", s.worker)} ELSE {})
      /\ UNCHANGED <<now, tables, reminders, after, calls, gateway>>

\* InitiateAutoAssignmentHandler asks nothing of the request it restarts.
InitiateAutoAssignment ==
  /\ Take(Plain("initiateAutoAssignment"))
  /\ Saving([Loaded EXCEPT !.service = Restarted(Loaded.service),
                          !.eligible = "UNSET", !.refunded = "UNSET"], {Plain("ticket")})
  /\ UNCHANGED <<now, row, tables, reminders, after, requests, gateway>>

Ticket ==
  /\ TicketLast => calls = {} /\ \A k \in Task : k # Plain("ticket") => todo[k] = 0
  /\ Take(Plain("ticket"))
  /\ offers' = IF HasBeenAssignedOrAllocated(row.service) THEN offers ELSE Independent
  /\ UNCHANGED <<now, row, appointments, reminders, after, calls, requests, gateway>>

Of(p) == {a \in appointments : a.dispatcher = p}

\* The handlers of the events: every appointment that matches, whatever its status.
UpdateAppointments(k, matching, status) ==
  /\ Take(k)
  /\ appointments' = (appointments \ matching) \cup {[a EXCEPT !.status = status] : a \in matching}
  /\ UNCHANGED <<now, row, reminders, after, calls, requests, gateway>>

\* Wrong: the offers are withdrawn, the calendar is left as it is.
RescheduledOffersOnly(p) ==
  /\ Take(For("rescheduled", p))
  /\ offers' = {}
  /\ UNCHANGED <<now, row, appointments, reminders, after, calls, requests, gateway>>

\* Without an impacted provider all the appointments are concerned.
Rescheduled(p) ==
  /\ UpdateAppointments(For("rescheduled", p),
                        IF p = NoAgent THEN appointments ELSE Of(p), "RESCHEDULED")
  /\ offers' = {}

CancelledOrRevoked ==
  /\ \/ UpdateAppointments(Plain("cancelled"), appointments, "CANCELLED")
     \/ UpdateAppointments(Plain("revoked"), appointments, "REVOKED")
  /\ offers' = {}

ReplacedOrFulfilled(p) ==
  /\ \/ UpdateAppointments(For("replaced", p), appointments \ Of(p), "REPLACED")
     \/ UpdateAppointments(For("fulfilled", p), Of(p), "FULFILLED")
  /\ UNCHANGED offers

------------------------------------------------------------------------------
(* ReminderProcessor: refused for an appointment that was moved ahead, skipped *)
(* when the start is past or nobody has the job, else sent to the provider.    *)

OutcomeOf(reminder) ==
  IF reminder.start > row.start THEN "refused"
  ELSE IF row.start <= now \/ ~HasBeenAssignedOrAllocated(row.service) THEN "skipped"
  ELSE "sent"

Remind(reminder) ==
  /\ Due(reminder)
  /\ reminders' = (reminders \ {reminder}) \cup {[reminder EXCEPT !.outcome = OutcomeOf(reminder)]}
  /\ UNCHANGED <<now, row, tables, after, todo, calls, requests, gateway>>

TimePasses ==
  /\ Quiet
  /\ now' \in {t \in Instants : t > now}
  /\ UNCHANGED <<row, tables, reminders, after, todo, calls, requests, gateway>>

Wait == Quiet /\ UNCHANGED vars

Requested ==
  \/ \E to \in Arrivals : RescheduleFree(to) \/ RescheduleAtSurcharge(to) \/ AdminChange(to)
  \/ \E purpose \in Purpose, status \in AnswerStatus : Pay(purpose, status)
  \/ \E i \in DOMAIN responses, status \in AnswerStatus : Webhook(i, status)
  \/ CancelByCustomer \/ Fail \/ Refund
  \/ \E rating \in FeedbackResponse : Rate(rating)
  \/ \E p \in Independent : Accept(p)
  \/ Handle

Deliver ==
  \/ \E c \in calls : Save(c)
  \/ FeeResponded \/ SurchargeResponded
  \/ InsertRefund
  \/ InitiateAutoAssignment \/ Ticket
  \/ \E p \in Independent \cup {NoAgent} : Announce(p) \/ Rescheduled(p)
  \/ CancelledOrRevoked
  \/ \E p \in Independent : ReplacedOrFulfilled(p)
  \/ \E reminder \in reminders : Remind(reminder)

Next == Requested \/ Deliver \/ TimePasses \/ Wait

Spec == Init /\ [][Next]_vars

------------------------------------------------------------------------------
(* Properties                                                                 *)

\* A surcharge is collected before the move it pays for counts: executedAt of an
\* order against surcharge stands for a payment that succeeded, however the answers
\* of browser and webhook overlap with filings and re-filings.
SurchargeReceived ==
  row.order.required /\ row.order.executed => Received("EC_RESCHEDULE_SURCHARGE")

\* At rest, a customer whose surcharge payment succeeded has his order executed,
\* though an earlier transaction failed and the order was filed anew meanwhile.
PaidSurchargeMoves ==
  LET surcharge == "EC_RESCHEDULE_SURCHARGE"
  IN  Quiet => \A i \in History(surcharge) :
        responses[i].status = "SUCCEEDED" /\ (\A j \in History(surcharge) : j <= i)
          => row.order.executed

\* At rest, the provider who lost the job through an executed order has no
\* appointment left at another time than the job's: ServiceRequestRescheduledHandler
\* frees the calendar of the one the order names, whenever the surcharge came in.
ImpactedIsFreed ==
  Quiet /\ row.order.executed =>
    \A a \in appointments :
      a.status = "ALLOCATED" /\ row.order.impacted \in {NoAgent, a.dispatcher}
        => a.start = row.start

\* At rest, a job moved free of charge has a reminder for its new time.  (Those of the
\* time before stay in the queue, and a job moved at a surcharge gets none.)
ReminderFollows ==
  Quiet /\ row.order.executed /\ ~row.order.required /\ row.start = row.order.to =>
    \E reminder \in reminders : reminder.start = row.start

\* At rest, the request says that it was refunded if and only if there is a refund,
\* and shows the customer's last rating: the calls that build a new Service or save
\* a row they read before do not forget either.
RequestRemembers ==
  Quiet => /\ row.refunded = "YES" <=> refunds = 1
           /\ row.rating = IF feedbacks = <<>> THEN Unrated ELSE feedbacks[Len(feedbacks)]

\* "Fail to execute, please ensure payment is made": an order whose payment failed
\* moves nothing.  The code does not keep this: see the README.
UnpaidOrderMovesNothing ==
  [][row'.order.paid = "FAILED" /\ row'.order # row.order => row'.start = row.start]_vars

\* "should throw error if appointment start time has been changed": a reminder waits
\* in the queue with the time it was made for, and is not sent for a job that has
\* another.  The code does not keep this: see the README.
StaleRemindersAreRefused ==
  [][\A reminder \in reminders' \ reminders :
       reminder.outcome = "sent" => reminder.start = row.start]_vars
==============================================================================
