------------------------------- MODULE Service -------------------------------
(***************************************************************************)
(* The Service value object of a service request, as service.entity.ts     *)
(* rebuilds it: every change constructs a new object whose payment status, *)
(* allocation status, status and next action are recomputed from the last  *)
(* handling event, the provider and the last payment response.  The guards *)
(* of service-request.entity.ts that stand in front of each change are     *)
(* here too.  Pure operators, no state.                                    *)
(*                                                                         *)
(* An operator introduced by "Wrong:" is not the program's: it is the one  *)
(* below it with a plausible mistake, which some property must notice.     *)
(*                                                                         *)
(* Agents are model values.  Two values stand for "no agent":              *)
(*   NoAgent  an Agent object whose id is null: it is written to the row;  *)
(*   Unset    the embedded Agent itself is null: TypeORM finds no value    *)
(*            for its columns and leaves the row's columns as they are.    *)
(***************************************************************************)
EXTENDS Naturals

CONSTANTS Dealer, Worker, Independent,  \* service providers, by ServiceProviderType
          NoAgent, Unset,
          PaymentGatewayEnabled         \* serviceRequestOptions.paymentGatewayEnabled

ServiceProvider == Dealer \cup Worker \cup Independent
Dispatcher      == Dealer \cup Independent   \* a job is assigned to them

ASSUME ServiceAssumption ==
  /\ Dealer \cap Worker = {} /\ Dealer \cap Independent = {}
  /\ Worker \cap Independent = {}
  /\ NoAgent \notin ServiceProvider /\ Unset \notin ServiceProvider
  /\ NoAgent # Unset
  /\ PaymentGatewayEnabled \in BOOLEAN

HandlingEventType == {"START", "IN_PROGRESS", "FULLFIL"}
PaymentStatus     == {"AWAITING_PAYMENT", "FAILED", "SUCCEEDED"}
AllocationStatus  == {"UNASSIGNED", "ASSIGNED", "ALLOCATED"}
Cancelled         == {"CANCELLED_BY_OPERATOR", "FAILED",
                      "CANCELLED_BY_SERVICE_PROVIDER", "CANCELLED_BY_CUSTOMER"}
Closed            == {"FAILED_PAYMENT", "FAILED", "CANCELLED_BY_CUSTOMER"}
InProgress        == {"STARTED", "IN_PROGRESS"}
Status            == {"AWAITING_PAYMENT", "UNASSIGNED", "ASSIGNED", "ALLOCATED",
                      "FULFILLED"} \cup Cancelled \cup Closed \cup InProgress
ActionType        == {"IDLE", "REQUEST_JOB", "ALLOCATE_WORKER"} \cup HandlingEventType

\* A relation that was not loaded (undefined) is not null: hasBeenStarted holds.
LastEvent == HandlingEventType \cup {"NULL", "UNDEFINED"}

\* What the loaded object knows of its last payment response.
NoResponse == [id |-> 0, status |-> "AWAITING_PAYMENT"]
Response   == [id : Nat, status : PaymentStatus]

ServiceObject ==
  [lastEvent : LastEvent, response : Response,
   dispatcher : Dispatcher \cup {NoAgent, Unset},
   worker : Worker \cup Independent \cup {NoAgent, Unset},
   paymentStatus : PaymentStatus, allocationStatus : AllocationStatus,
   status : Status, nextActionType : ActionType]

------------------------------------------------------------------------------
(* The constructor and what it computes *)

\* Wrong: compares the id with null, so that no Agent at all counts as one.
AllocationStatusByNull(dispatcher, worker) ==
  IF dispatcher = NoAgent THEN "UNASSIGNED"
  ELSE IF worker = NoAgent THEN "ASSIGNED" ELSE "ALLOCATED"

CalculateAllocationStatus(dispatcher, worker) ==
  IF dispatcher \notin ServiceProvider THEN "UNASSIGNED"
  ELSE IF worker \notin ServiceProvider THEN "ASSIGNED" ELSE "ALLOCATED"

\* Wrong: on the way and at work are swapped.
StatusOfEventSwapped == [START |-> "IN_PROGRESS", IN_PROGRESS |-> "STARTED", FULLFIL |-> "FULFILLED"]

StatusOfEvent == [START |-> "STARTED", IN_PROGRESS |-> "IN_PROGRESS", FULLFIL |-> "FULFILLED"]

\* The object under construction has no status yet, so its hasBeenCancelled()
\* is false: a status is always recomputed, an old cancellation never kept.
CalculateStatus(lastEvent, paymentStatus, allocationStatus) ==
  IF lastEvent \in HandlingEventType THEN StatusOfEvent[lastEvent]
  ELSE IF PaymentGatewayEnabled /\ paymentStatus # "SUCCEEDED" THEN "AWAITING_PAYMENT"
  ELSE allocationStatus

CalculateNextActionType(status, allocationStatus) ==
  IF status \in Cancelled THEN "IDLE"
  ELSE CASE allocationStatus = "UNASSIGNED" -> "REQUEST_JOB"
         [] allocationStatus = "ASSIGNED"   -> "ALLOCATE_WORKER"
         [] OTHER -> (CASE status = "ALLOCATED" -> "START"
                        [] status = "STARTED"   -> "IN_PROGRESS"
                        [] OTHER                -> "FULLFIL")

NewService(lastEvent, dispatcher, worker, response, cancellation) ==
  LET allocation == CalculateAllocationStatus(dispatcher, worker)
      status     == IF cancellation \in Cancelled THEN cancellation
                    ELSE CalculateStatus(lastEvent, response.status, allocation)
  IN  [lastEvent |-> lastEvent, response |-> response,
       dispatcher |-> dispatcher, worker |-> worker,
       paymentStatus |-> response.status, allocationStatus |-> allocation,
       status |-> status, nextActionType |-> CalculateNextActionType(status, allocation)]

\* Wrong: a provider without its two Agent objects.
CreatedWithoutAgents == NewService("NULL", Unset, Unset, NoResponse, "NONE")

\* ServiceRequestFactory.create: no event, no provider, no response.
CreatedService == NewService("NULL", NoAgent, NoAgent, NoResponse, "NONE")

------------------------------------------------------------------------------
(* The changes, each a new object *)

DerivedFromHandlingHistory(s, lastEvent) ==
  NewService(lastEvent, s.dispatcher, s.worker, s.response, "NONE")

DerivedFromPaymentHistory(s, response) ==
  NewService(s.lastEvent, s.dispatcher, s.worker, response, "NONE")

Restarted(s) == NewService("NULL", Unset, Unset, s.response, "NONE")

AllocatedToWorker(s, w) == NewService(s.lastEvent, s.dispatcher, w, s.response, "NONE")

\* An independent contractor is its own worker.
AssignedToDispatcher(s, p) ==
  LET assigned == NewService(s.lastEvent, p, Unset, s.response, "NONE")
  IN  IF p \in Independent THEN AllocatedToWorker(assigned, p) ELSE assigned

ProviderTerminated(s, cancellation) ==
  NewService(s.lastEvent, NoAgent, NoAgent, s.response, cancellation)

Revoked(s, markAsFailed) ==
  IF markAsFailed
  THEN NewService(s.lastEvent, s.dispatcher, s.worker, s.response, "FAILED")
  ELSE ProviderTerminated(s, "CANCELLED_BY_OPERATOR")

\* The two statuses are overwritten after the constructor computed the rest.
ExpiredBySystem(s) ==
  [NewService("NULL", NoAgent, NoAgent, s.response, "NONE")
     EXCEPT !.paymentStatus = "FAILED", !.status = "FAILED_PAYMENT"]

------------------------------------------------------------------------------
(* The questions the guards ask *)

HasBeenAssignedOrAllocated(s) == s.allocationStatus # "UNASSIGNED"
HasBeenCancelled(s)           == s.status \in Cancelled
HasBeenClosed(s)              == s.status \in Closed
HasCustomerPaid(s)            == s.paymentStatus = "SUCCEEDED"
IsAssignedOrAllocatedTo(s, p) == p \in {s.dispatcher, s.worker}

\* Wrong: the question whether the job is paid is missing.
CanAssignUnpaid(s, p) ==
  /\ HasBeenAssignedOrAllocated(s) => HasBeenCancelled(s)
  /\ p \notin Worker

CanAssignToDispatcher(s, p) ==
  /\ HasBeenAssignedOrAllocated(s) => HasBeenCancelled(s)  \* else: Job is taken
  /\ PaymentGatewayEnabled => HasCustomerPaid(s)           \* else: UnableToOpenUnpaid...
  /\ p \notin Worker

\* Provider.allocateToWorker refuses a provider without dispatcher.
CanAllocateToWorker(s, dealer) ==
  /\ IsAssignedOrAllocatedTo(s, dealer)
  /\ s.dispatcher \in ServiceProvider

CanCancel(s, p) ==
  /\ IsAssignedOrAllocatedTo(s, p)
  /\ p \notin Worker
  /\ ~HasBeenCancelled(s)
  /\ s.status # "FULFILLED"

\* The 24-hour window is a matter of the clock: see near in JobDispatch.
CanCancelByCustomer(s) ==
  HasCustomerPaid(s) /\ s.status # "FULFILLED" /\ ~HasBeenClosed(s)

CanHandle(s) ==
  /\ s.status \notin {"FULFILLED", "CANCELLED_BY_SERVICE_PROVIDER"}
  /\ s.allocationStatus # "ASSIGNED"

NextHandlingEventType(s) ==
  CASE s.status = "ALLOCATED" -> "START"
    [] s.status = "STARTED"   -> "IN_PROGRESS"
    [] OTHER                  -> "FULLFIL"
==============================================================================
